----------------------------- MODULE RateLimit -----------------------------
(***************************************************************************)
(* The rate limit of one API key (and, alike, of one address on the admin  *)
(* endpoints): one Redis counter per calendar minute, named by the minute  *)
(* in which the request began, incremented by a Lua script that also sets  *)
(* its expiry; separate commands when the script cannot be evaluated.      *)
(* Time runs in ticks, Window of them to the minute.                       *)
(***************************************************************************)
EXTENDS Integers, FiniteSets, Counting

CONSTANTS
  Client,    \* concurrent requests
  Limit,     \* rate_limit_per_minute
  Window,    \* ticks of a minute
  MaxTime,   \* ticks that are looked at
  MaxCount,  \* bound: no request begins once the counter has reached it
  Fallbacks, \* the evaluation may fail
  Crashes    \* a request may die half-way

ASSUME RateAssumption == IsFiniteSet(Client) /\ Limit \in Nat \ {0}
ASSUME TimeAssumption == Window \in Nat \ {0} /\ MaxTime \in Nat /\ MaxCount \in Nat
ASSUME RateFlagAssumption == {Fallbacks, Crashes} \subseteq BOOLEAN

Minute == 0..(MaxTime \div Window)

VARIABLES
  now,      \* the time
  count,    \* ps:rate:{key}:{minute}, 0 when absent
  expiry,   \* when the counter expires, -1 for never
  req,      \* running requests
  granted   \* history: how many requests were let pass in each tick, by minute

rateVars == <<now, count, expiry, req, granted>>

ReqState == [pc : {"idle", "eval", "incr", "expire"}, minute : Minute, since : 0..MaxTime,
             n : Nat]

RateTypeOK ==
  /\ now \in 0..MaxTime
  /\ count \in [Minute -> Nat]
  /\ expiry \in [Minute -> Int]
  /\ req \in [Client -> ReqState]
  /\ granted \in [0..MaxTime -> [Minute -> Nat]]

-----------------------------------------------------------------------------
\* _RATE_KEY_TTL_SECONDS: 120 seconds.
\* Mutant: the counter expires before its minute is over.
TtlShort == Window \div 2

Ttl == 2 * Window

Allowed(n) == n <= Limit

\* The increment that creates the counter sets its expiry.
FirstHit(n) == n = 1

Decide(c, n) ==
  /\ granted' = IF Allowed(n) THEN [granted EXCEPT ![now][req[c].minute] = @ + 1] ELSE granted
  /\ req' = [req EXCEPT ![c].pc = "idle"]

\* require_api_key reaches check_rate_limit, which names the counter.
Begin(c) ==
  /\ req[c].pc = "idle"
  /\ count[now \div Window] < MaxCount
  /\ req' = [req EXCEPT ![c] = [pc |-> "eval", minute |-> now \div Window, since |-> now,
                                n |-> 0]]
  /\ UNCHANGED <<now, count, expiry, granted>>

Increment(m) ==
  /\ count' = [count EXCEPT ![m] = @ + 1]
  /\ expiry' = IF FirstHit(count[m] + 1) THEN [expiry EXCEPT ![m] = now + Ttl] ELSE expiry

Eval(c) ==
  /\ req[c].pc = "eval"
  /\ Increment(req[c].minute)
  /\ Decide(c, count[req[c].minute] + 1)
  /\ UNCHANGED now

\* No answer, whether or not the script has run: the fallback counts again.
EvalFails(c) ==
  /\ Fallbacks
  /\ req[c].pc = "eval"
  /\ Increment(req[c].minute) \/ UNCHANGED <<count, expiry>>
  /\ req' = [req EXCEPT ![c].pc = "incr"]
  /\ UNCHANGED <<now, granted>>

\* INCR; the first one goes on to EXPIRE.
Incr(c) ==
  LET n == count[req[c].minute] + 1
  IN
  /\ req[c].pc = "incr"
  /\ count' = [count EXCEPT ![req[c].minute] = n]
  /\ IF FirstHit(n)
       THEN req' = [req EXCEPT ![c].pc = "expire", ![c].n = n] /\ UNCHANGED granted
       ELSE Decide(c, n)
  /\ UNCHANGED <<now, expiry>>

Expire(c) ==
  /\ req[c].pc = "expire"
  /\ expiry' = [expiry EXCEPT ![req[c].minute] = now + Ttl]
  /\ Decide(c, req[c].n)
  /\ UNCHANGED <<now, count>>

Crash(c) ==
  /\ Crashes
  /\ req[c].pc # "idle"
  /\ req' = [req EXCEPT ![c].pc = "idle"]
  /\ UNCHANGED <<now, count, expiry, granted>>

\* Time goes on and counters expire.  The socket timeout bounds the commands of
\* a request: none is older than a tick.
Tick ==
  LET gone(m) == expiry[m] = now + 1
  IN
  /\ now < MaxTime
  /\ \A c \in Client : req[c].pc # "idle" => req[c].since = now
  /\ now' = now + 1
  /\ count' = [m \in Minute |-> IF gone(m) THEN 0 ELSE count[m]]
  /\ expiry' = [m \in Minute |-> IF gone(m) THEN -1 ELSE expiry[m]]
  /\ UNCHANGED <<req, granted>>

RateInit ==
  /\ now = 0
  /\ count = [m \in Minute |-> 0]
  /\ expiry = [m \in Minute |-> -1]
  /\ req = [c \in Client |-> [pc |-> "idle", minute |-> 0, since |-> 0, n |-> 0]]
  /\ granted = [t \in 0..MaxTime |-> [m \in Minute |-> 0]]

RateNext ==
  \/ \E c \in Client :
       \/ Begin(c) \/ Eval(c) \/ EvalFails(c) \/ Incr(c) \/ Expire(c) \/ Crash(c)
  \/ Tick

RateSpec == RateInit /\ [][RateNext]_rateVars

-----------------------------------------------------------------------------
\* The requests of a minute that were let pass.
Granted(m) == Total([t \in 0..MaxTime |-> granted[t][m]], 0..MaxTime)

\* Of the requests that begin in one calendar minute at most Limit pass, also
\* when the script fails after it took effect and the counter counts twice.
MinuteLimit == \A m \in Minute : Granted(m) <= Limit

\* In any minute, wherever it begins, at most Limit requests pass.
SlidingLimit ==
  \A t \in 0..MaxTime :
    Total([p \in (0..MaxTime) \X Minute |-> granted[p[1]][p[2]]],
          {p \in (0..MaxTime) \X Minute : t <= p[1] /\ p[1] < t + Window}) <= Limit

\* Every counter expires: it has an expiry, or a request is about to set it.
CountersExpire ==
  \A m \in Minute :
    count[m] > 0 =>
      \/ expiry[m] # -1
      \/ \E c \in Client : req[c].pc = "expire" /\ req[c].minute = m

\* What makes MinuteLimit inductive.  A request is answered within a tick of
\* its beginning; a counter that expires does so a minute after its own minute
\* is over, when no request uses it any more; until then it covers what it has
\* let pass and the request that is about to set its expiry.
Setting(m) == {c \in Client : req[c].pc = "expire" /\ req[c].minute = m}

Passing(m) == Granted(m) + Cardinality(Setting(m))

OnTime(c) ==
  req[c].pc # "idle" =>
    /\ req[c].since <= now /\ now <= req[c].since + 1
    /\ req[c].minute * Window <= req[c].since
    /\ req[c].since < (req[c].minute + 1) * Window

Covered(m) ==
  /\ expiry[m] = -1 \/ expiry[m] >= (m + 2) * Window
  /\ Passing(m) <= Limit
  /\ now < (m + 2) * Window => Passing(m) <= count[m]

RateInv == (\A c \in Client : OnTime(c)) /\ (\A m \in Minute : Covered(m))
=============================================================================
