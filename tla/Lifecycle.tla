----------------------------- MODULE Lifecycle -----------------------------
(***************************************************************************)
(* One process of the service from start to stop (main.py, container.py),  *)
(* with the requests it serves and the metrics they leave.  The steps of   *)
(* the event loop between two awaits are one action.  Redis is external:   *)
(* every command may fail.                                                 *)
(***************************************************************************)
EXTENDS Metrics

CONSTANTS
  MaxRequests,  \* bound: requests, numbered as they arrive
  Operation,    \* the routes they call
  Unguarded,    \* those of /health and /metrics, which pass the guard
  Latency,      \* durations in ms
  Key           \* index sets (ps:req:*) that tokenize may leave behind

ASSUME LifecycleAssumption ==
  /\ MaxRequests \in Nat
  /\ Operation \subseteq {"tokenize", "rehydrate", "flush", "rotate", "health", "metrics"}
  /\ Operation # {} /\ Unguarded \subseteq {"health", "metrics"}
  /\ Latency \subseteq Nat

Request == 1..MaxRequests

VARIABLES
  phase,      \* where lifespan stands
  flag,       \* _shutdown_flag
  active,     \* app.state.active_requests
  stage,      \* of each request: where it stands
  route,      \* the operation it calls
  expired,    \* the deadline of the drain has passed
  forced,     \* the drain ended by the deadline
  pool,       \* the connection pool of Redis
  orphans,    \* index sets in Redis
  todo,       \* index sets that the scan has still to return
  swept,      \* the scan came to its end
  metrics,
  log         \* history: the observed latencies, in all and of each operation

vars == <<phase, flag, active, stage, route, expired, forced, pool, orphans, todo, swept,
          metrics, log>>

Init ==
  /\ phase = "connect" /\ flag = FALSE /\ active = 0
  /\ stage = [r \in Request |-> "absent"] /\ route = [r \in Request |-> CHOOSE o \in Operation : TRUE]
  /\ expired = FALSE /\ forced = FALSE /\ pool = "none"
  /\ orphans \in SUBSET Key   \* other processes leave some too
  /\ todo = {} /\ swept = FALSE
  /\ metrics = NewMetrics /\ log = [all |-> <<>>, of |-> [o \in Operation |-> <<>>]]

-----------------------------------------------------------------------------
(***************************************************************************)
(* Start: Container.initialize.  The keys are loaded and the KEK is read   *)
(* after the connection is there; a failed load is only logged.            *)
(***************************************************************************)
Connect ==
  /\ phase = "connect"
  /\ pool' = "open"
  /\ phase' \in {"load", "exit"}          \* PING answers, or raises
  /\ UNCHANGED <<flag, active, stage, route, expired, forced, orphans, todo, swept, metrics, log>>

Load ==
  /\ phase = "load"
  /\ phase' \in {"serving", "exit"}       \* crypto_port: a bad KEK raises
  /\ UNCHANGED <<flag, active, stage, route, expired, forced, pool, orphans, todo, swept, metrics,
                 log>>

-----------------------------------------------------------------------------
(***************************************************************************)
(* Requests.  The server hands them over as long as lifespan has not       *)
(* ended.                                                                  *)
(***************************************************************************)
Handling == phase \in {"serving", "exit", "drain", "sweep", "close"}

\* Mutant: every path is let through.
GuardNone(o) == TRUE

\* shutdown_guard.
Guard(o) == ~ flag \/ o \in Unguarded

Arrive(r) ==
  /\ Handling /\ (flag \/ phase = "serving")
  /\ stage[r] = "absent" /\ \A q \in 1..(r - 1) : stage[q] # "absent"
  /\ \E o \in Operation :
       /\ route' = [route EXCEPT ![r] = o]
       /\ IF Guard(o)
            THEN stage' = [stage EXCEPT ![r] = "running"] /\ active' = active + 1
            ELSE stage' = [stage EXCEPT ![r] = "refused"] /\ UNCHANGED active
  /\ UNCHANGED <<phase, flag, expired, forced, pool, orphans, todo, swept, metrics, log>>

Observe(m, o, ms) ==
  /\ metrics' = RecordLatency(m, o, ms)
  /\ log' = [log EXCEPT !.all = Append(@, ms), !.of[o] = Append(@, ms)]

\* A handler whose commands succeeded.
Succeed(r, ms) ==
  /\ stage[r] = "running" /\ Handling
  /\ CASE route[r] = "tokenize" ->
            \E n \in 0..1 : Observe(RecordTokenization(metrics, "regex", n), "tokenize", ms)
       [] route[r] = "rehydrate" -> Observe(metrics, "rehydrate", ms)
       [] route[r] = "flush" -> Observe(RecordFlush(metrics, "success"), "flush", ms)
       [] route[r] = "rotate" -> metrics' = RecordDekRotation(metrics) /\ UNCHANGED log
       [] route[r] = "health" ->
            /\ metrics' = RecordHealthCheck(metrics, "healthy") /\ UNCHANGED log
       [] route[r] = "metrics" -> UNCHANGED <<metrics, log>>
  /\ stage' = [stage EXCEPT ![r] = "recorded"]
  /\ UNCHANGED <<phase, flag, active, route, expired, forced, pool, orphans, todo, swept>>

\* A tokenize stores an index set on the way.
Register(r) ==
  /\ stage[r] = "running" /\ route[r] = "tokenize" /\ Handling
  /\ \E k \in Key \ orphans : orphans' = orphans \cup {k}
  /\ UNCHANGED <<phase, flag, active, stage, route, expired, forced, pool, todo, swept, metrics,
                 log>>

\* A handler that raises: a timeout is not recorded, a breach of the monthly
\* quota by its plan, and the health check answers 503.
Fail(r) ==
  /\ stage[r] = "running" /\ Handling /\ route[r] # "metrics"
  /\ metrics' \in
       CASE route[r] = "health" -> {RecordHealthCheck(metrics, "degraded")}
         [] route[r] = "flush" ->
              {RecordFlush(RecordFailure(metrics, "redis_error"), "fallback_ttl")}
         [] route[r] = "tokenize" ->
              {metrics, RecordFailure(metrics, "redis_error"),
               RecordMonthlyQuotaExceeded(metrics, "free")}
         [] OTHER -> {RecordFailure(metrics, "redis_error")}
  /\ stage' = [stage EXCEPT ![r] = "recorded"]
  /\ UNCHANGED <<phase, flag, active, route, expired, forced, pool, orphans, todo, swept, log>>

\* Mutant: the count is not taken back.
LeaveCounted(r) ==
  /\ stage[r] = "recorded" /\ stage' = [stage EXCEPT ![r] = "done"]
  /\ UNCHANGED <<phase, flag, active, route, expired, forced, pool, orphans, todo, swept, metrics,
                 log>>

\* record_usage and the way back through the middleware.
Leave(r) ==
  /\ stage[r] = "recorded"
  /\ stage' = [stage EXCEPT ![r] = "done"]
  /\ active' = Max({0, active - 1})
  /\ UNCHANGED <<phase, flag, route, expired, forced, pool, orphans, todo, swept, metrics, log>>

-----------------------------------------------------------------------------
(***************************************************************************)
(* Stop: the finally block of lifespan, also after a failed start.         *)
(***************************************************************************)
\* The server ends the lifespan.
Stop ==
  /\ phase = "serving" /\ phase' = "exit"
  /\ UNCHANGED <<flag, active, stage, route, expired, forced, pool, orphans, todo, swept, metrics,
                 log>>

BeginSweep == phase' = "sweep" /\ todo' = orphans

Shutdown ==
  /\ phase = "exit"
  /\ flag' = TRUE
  /\ IF active > 0 THEN phase' = "drain" /\ UNCHANGED todo ELSE BeginSweep
  /\ UNCHANGED <<active, stage, route, expired, forced, pool, orphans, swept, metrics, log>>

\* Mutant: the drain has no deadline.
DrainWaits ==
  /\ phase = "drain" /\ active = 0 /\ BeginSweep
  /\ UNCHANGED <<flag, active, stage, route, expired, forced, pool, orphans, swept, metrics, log>>

\* An iteration of the drain that ends it; the others only sleep.
Drain ==
  /\ phase = "drain"
  /\ \/ active = 0 /\ UNCHANGED forced
     \/ active > 0 /\ expired /\ forced' = TRUE
  /\ BeginSweep
  /\ UNCHANGED <<flag, active, stage, route, expired, pool, orphans, swept, metrics, log>>

\* Ten seconds have passed.
Expire ==
  /\ phase = "drain" /\ ~ expired
  /\ expired' = TRUE
  /\ UNCHANGED <<phase, flag, active, stage, route, forced, pool, orphans, todo, swept, metrics,
                 log>>

\* An iteration of _flush_orphaned_request_sets: SCAN returns some of the
\* keys that were there from the start, and UNLINK removes them.
Sweep ==
  /\ phase = "sweep"
  /\ \/ /\ todo # {}
        /\ \E page \in SUBSET todo \ {{}} :
             orphans' = orphans \ page /\ todo' = todo \ page
        /\ UNCHANGED <<phase, swept>>
     \/ todo = {} /\ swept' = TRUE /\ phase' = "close" /\ UNCHANGED <<orphans, todo>>
     \/ phase' = "close" /\ UNCHANGED <<orphans, todo, swept>>   \* a command fails
  /\ UNCHANGED <<flag, active, stage, route, expired, forced, pool, metrics, log>>

\* Container.shutdown.
Close ==
  /\ phase = "close"
  /\ pool' = "closed" /\ phase' = "stopped"
  /\ UNCHANGED <<flag, active, stage, route, expired, forced, orphans, todo, swept, metrics, log>>

Next ==
  \/ Connect \/ Load \/ Stop \/ Shutdown \/ Drain \/ Expire \/ Sweep \/ Close
  \/ \E r \in Request :
       \/ Arrive(r) \/ Register(r) \/ Fail(r) \/ Leave(r)
       \/ \E ms \in Latency : Succeed(r, ms)

\* The event loop runs the lifespan task, and time passes; requests may hang.
Fairness == WF_vars(Shutdown) /\ WF_vars(Drain) /\ WF_vars(Expire) /\ WF_vars(Sweep)
            /\ WF_vars(Close)

Spec == Init /\ [][Next]_vars /\ Fairness
-----------------------------------------------------------------------------
Running == {r \in Request : stage[r] \in {"running", "recorded"}}

\* The values of the state of lifespan and the guard.  (main.py 52-102.)
TypeOK ==
  /\ phase \in {"connect", "load", "serving", "exit", "drain", "sweep", "close", "stopped"}
  /\ flag \in BOOLEAN /\ expired \in BOOLEAN /\ forced \in BOOLEAN /\ swept \in BOOLEAN
  /\ active \in Nat
  /\ stage \in [Request -> {"absent", "running", "recorded", "refused", "done"}]
  /\ route \in [Request -> Operation]
  /\ pool \in {"none", "open", "closed"}
  /\ orphans \subseteq Key /\ todo \subseteq Key

\* Redis is closed under no request that uses it, unless the drain had to be
\* given up.  (main.py 62-102, 165-180: the flag is set before the active
\* requests are read, and the guard reads the flag before it counts.)
DrainedBeforeClose ==
  phase \in {"sweep", "close", "stopped"} /\ ~ forced =>
    \A r \in Running : route[r] \in Unguarded

\* ... and then the sweep that came to its end leaves no index set behind,
\* although it only returns those that were there when it began.
\* (main.py 105-133.)
SweptClean == swept /\ ~ forced => orphans = {}

\* The count by which the drain waits is the number of requests being served,
\* from before their handler until the response is on its way, whatever
\* raised in between; health checks count too.  (main.py 165-180.)
ActiveCounts == active = Cardinality(Running)

\* A shutdown that has begun ends, whatever the requests do: one that hangs,
\* and health checks that keep coming, delay it to the deadline at most.
\* (main.py 66-102.)
ShutdownEnds == phase = "exit" ~> phase = "stopped"

\* The samples are the last observations, overall and for each operation, and
\* percentiles are of the samples they summarise.
\* (metrics.py 66-96, 129-150.)
RingsHoldLast ==
  /\ HoldsLast(metrics.latency.overall, log.all)
  /\ \A o \in DOMAIN metrics.latency.byLabel :
       HoldsLast(metrics.latency.byLabel[o], log.of[o])

\* Why: every ring follows its log, and the others have not been started.
RingsInv ==
  LET h == metrics.latency IN
  /\ metrics = [counters |-> metrics.counters, latency |-> h]
  /\ h = [overall |-> h.overall, byLabel |-> h.byLabel]
  /\ log \in [all : Seq(Latency), of : [Operation -> Seq(Latency)]]
  /\ Follows(h.overall, log.all)
  /\ DOMAIN h.byLabel \subseteq Operation
  /\ \A o \in Operation :
       IF o \in DOMAIN h.byLabel THEN Follows(h.byLabel[o], log.of[o]) ELSE log.of[o] = <<>>

\* The median and the 99th percentile have enough samples at or below them,
\* whatever the size and the order of the ring.  (metrics.py 128-150.)
PercentilesCover ==
  \A o \in DOMAIN metrics.latency.byLabel :
    LET samples == metrics.latency.byLabel[o].samples
        s == Snapshot(metrics).latency.byLabel[o]
        below(x) == Cardinality({i \in DOMAIN samples : samples[i] <= x})
    IN /\ 2 * below(s.p50) >= Len(samples) /\ 100 * below(s.p99) >= 99 * Len(samples)
       /\ s.min <= s.p50 /\ s.p50 <= s.p99 /\ s.p99 <= s.max

\* The sum of the values of some lines of the counters.
LineSum(lines) == Total([l \in lines |-> l[3]], lines)

\* What Prometheus reads: the buckets of a histogram never fall and end at its
\* count, a counter's lines add up to its total, and a flush has a latency
\* exactly if it is counted as a success.
\* (metrics.py 271-343, routes.py 300-337.)
ExpositionConsistent ==
  /\ \A h \in HistogramLines(metrics) :
       /\ \A i \in 1..(Len(h.buckets) - 1) : h.buckets[i] <= h.buckets[i + 1]
       /\ h.buckets[Len(h.buckets)] = h.count
  /\ \A n \in CounterNames :
       LineSum({l \in CounterLines(metrics) : l[1] = n}) = metrics.counters[n].total
  /\ "flush" \in Operation =>
       LineSum({l \in CounterLines(metrics) : l[1] = "flush" /\ l[2] = "success"})
         = Len(log.of["flush"])

\* Why: a counter is the sum of its labels ...
AddsUp(counter) ==
  LET by == counter.byLabel
  IN /\ IsFiniteSet(DOMAIN by) /\ by \in [DOMAIN by -> Nat]
     /\ counter.total = Total(by, DOMAIN by)

\* ... and the label of a success moves with the log.
CountersInv ==
  /\ metrics.counters = [n \in CounterNames |-> metrics.counters[n]]
  /\ \A n \in CounterNames : AddsUp(metrics.counters[n])
  /\ "flush" \in Operation =>
       CountOf(metrics, "flush", "success") = Len(log.of["flush"])
=============================================================================
