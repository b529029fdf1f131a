--------------------------- MODULE LifecycleProofs ---------------------------
(***************************************************************************)
(* The count of running requests, the drain and the sweep of the shutdown, *)
(* for any number of requests, routes and index sets; and the rings of     *)
(* samples, of any size, which hold the latest latencies of every route.   *)
(***************************************************************************)
EXTENDS Lifecycle, CountingProofs, FunctionTheorems

\* From the flag on, the guard holds.
FlagUp == phase \in {"drain", "sweep", "close", "stopped"} => flag

\* What the scan has still to return is all there is.
OnlyTodo == phase = "sweep" /\ ~ forced => orphans = todo

\* Swept only after the scan.
SweptLate == swept => phase \in {"close", "stopped"}

\* The inductive invariant.
LifecycleInv ==
  TypeOK /\ ActiveCounts /\ FlagUp /\ DrainedBeforeClose /\ OnlyTodo /\ SweptLate /\ SweptClean

\* The running requests are finitely many.  (main.py 172-180.)
LEMMA RunningFinite == IsFiniteSet(Running)
<1>1. IsFiniteSet(Request)
  BY LifecycleAssumption, FS_Interval DEF Request
<1> QED
  BY <1>1, FS_Subset DEF Running

\* max(0, active - 1) is the predecessor of a count that is not 0.
\* (main.py 178-180.)
LEMMA MaxZero ==
  ASSUME NEW n \in Nat, n > 0
  PROVE  Max({0, n - 1}) = n - 1
<1>1. \A x \in {0, n - 1} : (\A y \in {0, n - 1} : x >= y) => x = n - 1
  OBVIOUS
<1>2. n - 1 \in {0, n - 1} /\ \A y \in {0, n - 1} : n - 1 >= y
  OBVIOUS
<1> QED
  BY <1>1, <1>2 DEF Max

\* Where nothing runs, nothing that may leave an index set runs.
LEMMA NoneRunning ==
  ASSUME ActiveCounts, active = 0
  PROVE  Running = {}
BY RunningFinite, FS_EmptySet DEF ActiveCounts

\* The state in which lifespan begins.
LEMMA InitLifecycle == Init => LifecycleInv
<1> SUFFICES ASSUME Init PROVE LifecycleInv
  OBVIOUS
<1>1. TypeOK
  BY LifecycleAssumption DEF Init, TypeOK
<1>2. Running = {}
  BY DEF Init, Running
<1>3. ActiveCounts
  BY <1>2, FS_EmptySet DEF Init, ActiveCounts
<1> QED
  BY <1>1, <1>3 DEF Init, LifecycleInv, FlagUp, DrainedBeforeClose, OnlyTodo, SweptLate, SweptClean

\* A request that starts to run is one more, one that is through is one less.
\* (main.py 172-180.)
LEMMA CountMoves ==
  ASSUME ActiveCounts, NEW r \in Request
  PROVE  /\ r \notin Running => Cardinality(Running \cup {r}) = active + 1
         /\ r \in Running => active \in Nat /\ active > 0
                             /\ Cardinality(Running \ {r}) = active - 1
<1>1. IsFiniteSet(Running) /\ active = Cardinality(Running)
  BY RunningFinite DEF ActiveCounts
<1>2. r \notin Running => Cardinality(Running \cup {r}) = active + 1
  BY <1>1, FS_AddElement
<1>3. ASSUME r \in Running
      PROVE  active \in Nat /\ active > 0 /\ Cardinality(Running \ {r}) = active - 1
  <2>1. Cardinality(Running) \in Nat /\ Cardinality(Running) # 0
    BY <1>1, <1>3, FS_CardinalityType, FS_EmptySet
  <2>2. Cardinality(Running \ {r}) = Cardinality(Running) - 1
    BY <1>1, <1>3, FS_RemoveElement
  <2> QED
    BY <1>1, <2>1, <2>2
<1> QED
  BY <1>2, <1>3

\* Steps that leave the requests and the index sets alone, before the sweep.
LEMMA EarlySteps ==
  ASSUME LifecycleInv, Connect \/ Load \/ Stop \/ Expire
  PROVE  LifecycleInv'
<1>1. UNCHANGED <<flag, active, stage, route, forced, orphans, todo, swept>>
  BY DEF Connect, Load, Stop, Expire
<1>2. phase \in {"connect", "load", "serving", "drain"} /\ phase' \in {"load", "serving", "exit", "drain"}
      /\ (phase' = "drain" => phase = "drain")
  BY DEF Connect, Load, Stop, Expire
<1>3. TypeOK'
  BY <1>1, <1>2 DEF LifecycleInv, TypeOK, Connect, Load, Stop, Expire
<1>4. ActiveCounts'
  BY <1>1 DEF LifecycleInv, ActiveCounts, Running
<1> QED
  BY <1>1, <1>2, <1>3, <1>4
     DEF LifecycleInv, FlagUp, DrainedBeforeClose, OnlyTodo, SweptLate, SweptClean

\* The flag is set before the active requests are read.  (main.py 66-80.)
LEMMA ShutdownStep ==
  ASSUME LifecycleInv, Shutdown
  PROVE  LifecycleInv'
<1>1. /\ phase = "exit" /\ phase' \in {"drain", "sweep"} /\ flag'
      /\ phase' = "sweep" => todo' = orphans' /\ ~ (active > 0)
      /\ todo' \subseteq Key
      /\ UNCHANGED <<active, stage, route, expired, forced, pool, orphans, swept>>
  BY DEF Shutdown, BeginSweep, LifecycleInv, TypeOK
<1>2. TypeOK'
  BY <1>1 DEF LifecycleInv, TypeOK, Shutdown
<1>3. ActiveCounts' /\ Running' = Running
  BY <1>1 DEF LifecycleInv, ActiveCounts, Running
<1>4. phase' = "sweep" => Running' = {}
  BY <1>1, <1>3, NoneRunning DEF LifecycleInv, TypeOK
<1>5. DrainedBeforeClose'
  BY <1>1, <1>4 DEF DrainedBeforeClose
<1> QED
  BY <1>1, <1>2, <1>3, <1>5 DEF LifecycleInv, FlagUp, OnlyTodo, SweptLate, SweptClean

\* The drain ends with no request left, or is given up.  (main.py 80-95.)
LEMMA DrainStep ==
  ASSUME LifecycleInv, Drain
  PROVE  LifecycleInv'
<1>1. /\ phase = "drain" /\ phase' = "sweep" /\ todo' = orphans' /\ forced' \in BOOLEAN
      /\ forced' \/ active = 0
      /\ UNCHANGED <<flag, active, stage, route, expired, pool, orphans, swept>>
  BY DEF Drain, BeginSweep, LifecycleInv, TypeOK
<1>2. TypeOK'
  BY <1>1 DEF LifecycleInv, TypeOK
<1>3. ActiveCounts' /\ Running' = Running
  BY <1>1 DEF LifecycleInv, ActiveCounts, Running
<1>4. ~ forced' => Running' = {}
  BY <1>1, <1>3, NoneRunning DEF LifecycleInv
<1>5. DrainedBeforeClose'
  BY <1>1, <1>4 DEF DrainedBeforeClose
<1> QED
  BY <1>1, <1>2, <1>3, <1>5 DEF LifecycleInv, FlagUp, OnlyTodo, SweptLate, SweptClean

\* What the scan returns and what it removes shrink alike, and it ends when
\* both are empty.  (main.py 105-133.)
LEMMA SweepStep ==
  ASSUME LifecycleInv, Sweep
  PROVE  LifecycleInv'
<1>1. /\ phase = "sweep" /\ phase' \in {"sweep", "close"}
      /\ UNCHANGED <<flag, active, stage, route, expired, forced, pool>>
  BY DEF Sweep
<1>2. ActiveCounts' /\ Running' = Running
  BY <1>1 DEF LifecycleInv, ActiveCounts, Running
<1>3. DrainedBeforeClose'
  BY <1>1, <1>2 DEF LifecycleInv, DrainedBeforeClose
<1>4. swept = FALSE
  BY <1>1 DEF LifecycleInv, SweptLate, TypeOK
<1>5. \/ \E page \in SUBSET todo : /\ orphans' = orphans \ page /\ todo' = todo \ page
                                  /\ swept' = swept
      \/ todo = {} /\ swept' = TRUE /\ phase' = "close" /\ UNCHANGED <<orphans, todo>>
      \/ phase' = "close" /\ UNCHANGED <<orphans, todo, swept>>
  BY DEF Sweep
<1>6. TypeOK'
  BY <1>1, <1>4, <1>5 DEF LifecycleInv, TypeOK
<1>7. OnlyTodo'
  BY <1>1, <1>5 DEF LifecycleInv, OnlyTodo
<1>8. SweptLate' /\ SweptClean'
  BY <1>1, <1>4, <1>5 DEF LifecycleInv, OnlyTodo, SweptLate, SweptClean
<1> QED
  BY <1>1, <1>2, <1>3, <1>6, <1>7, <1>8 DEF LifecycleInv, FlagUp

\* Closing the pool touches no request and no index set.  (container.py 115-119.)
LEMMA CloseStep ==
  ASSUME LifecycleInv, Close
  PROVE  LifecycleInv'
<1>1. /\ phase = "close" /\ phase' = "stopped" /\ pool' = "closed"
      /\ UNCHANGED <<flag, active, stage, route, expired, forced, orphans, todo, swept>>
  BY DEF Close
<1>2. ActiveCounts' /\ Running' = Running
  BY <1>1 DEF LifecycleInv, ActiveCounts, Running
<1> QED
  BY <1>1, <1>2
     DEF LifecycleInv, TypeOK, FlagUp, DrainedBeforeClose, OnlyTodo, SweptLate, SweptClean

\* After the flag only unguarded requests start, and each is counted.
\* (main.py 165-180.)
LEMMA ArriveStep ==
  ASSUME LifecycleInv, NEW r \in Request, Arrive(r)
  PROVE  LifecycleInv'
<1>1. /\ flag \/ phase = "serving"
      /\ stage[r] = "absent" /\ r \notin Running
      /\ UNCHANGED <<phase, flag, expired, forced, pool, orphans, todo, swept>>
  BY DEF Arrive, Running
<1>2. PICK o \in Operation :
        /\ route' = [route EXCEPT ![r] = o]
        /\ IF Guard(o)
             THEN stage' = [stage EXCEPT ![r] = "running"] /\ active' = active + 1
             ELSE stage' = [stage EXCEPT ![r] = "refused"] /\ UNCHANGED active
  BY DEF Arrive
<1>3. TypeOK'
  BY <1>1, <1>2 DEF LifecycleInv, TypeOK
<1>4. \A q \in Request \ {r} : stage'[q] = stage[q] /\ route'[q] = route[q]
  BY <1>2 DEF LifecycleInv, TypeOK
<1>5. route'[r] = o
  BY <1>2 DEF LifecycleInv, TypeOK
<1>6. CASE Guard(o)
  <2>1. stage'[r] = "running"
    BY <1>2, <1>6 DEF LifecycleInv, TypeOK
  <2>2. Running' = Running \cup {r}
    BY <1>4, <2>1 DEF Running
  <2>3. ActiveCounts'
    BY <1>1, <1>2, <1>6, <2>2, CountMoves DEF LifecycleInv, ActiveCounts
  <2>4. DrainedBeforeClose'
    BY <1>1, <1>4, <1>5, <1>6, <2>2 DEF LifecycleInv, FlagUp, DrainedBeforeClose, Guard, Running
  <2> QED
    BY <1>1, <1>3, <2>3, <2>4 DEF LifecycleInv, FlagUp, OnlyTodo, SweptLate, SweptClean
<1>7. CASE ~ Guard(o)
  <2>1. stage'[r] = "refused"
    BY <1>2, <1>7 DEF LifecycleInv, TypeOK
  <2>2. Running' = Running
    BY <1>1, <1>4, <2>1 DEF Running
  <2>3. ActiveCounts'
    BY <1>2, <1>7, <2>2 DEF LifecycleInv, ActiveCounts
  <2>4. DrainedBeforeClose'
    BY <1>1, <1>4, <2>2 DEF LifecycleInv, DrainedBeforeClose, Running
  <2> QED
    BY <1>1, <1>3, <2>3, <2>4 DEF LifecycleInv, FlagUp, OnlyTodo, SweptLate, SweptClean
<1> QED
  BY <1>6, <1>7

\* A request that fails or succeeds still counts.  (main.py 172-180.)
LEMMA RecordStep ==
  ASSUME LifecycleInv, NEW r \in Request,
         Fail(r) \/ \E ms \in Latency : Succeed(r, ms)
  PROVE  LifecycleInv'
<1>1. /\ stage[r] = "running" /\ stage' = [stage EXCEPT ![r] = "recorded"]
      /\ UNCHANGED <<phase, flag, active, route, expired, forced, pool, orphans, todo, swept>>
  BY DEF Fail, Succeed
<1>2. TypeOK'
  BY <1>1 DEF LifecycleInv, TypeOK
<1>3. Running' = Running
  BY <1>1 DEF LifecycleInv, TypeOK, Running
<1> QED
  BY <1>1, <1>2, <1>3
     DEF LifecycleInv, ActiveCounts, FlagUp, DrainedBeforeClose, OnlyTodo, SweptLate, SweptClean

\* A tokenize that leaves an index set runs before the sweep, or after a drain
\* that was given up.  (redis_vault.py 108-124.)
LEMMA RegisterStep ==
  ASSUME LifecycleInv, NEW r \in Request, Register(r)
  PROVE  LifecycleInv'
<1>1. /\ stage[r] = "running" /\ route[r] = "tokenize" /\ Handling
      /\ \E k \in Key \ orphans : orphans' = orphans \cup {k}
      /\ UNCHANGED <<phase, flag, active, stage, route, expired, forced, pool, todo, swept>>
  BY DEF Register
<1>2. r \in Running /\ route[r] \notin Unguarded
  BY <1>1, LifecycleAssumption DEF Running
<1>3. phase \in {"sweep", "close", "stopped"} => forced
  BY <1>2 DEF LifecycleInv, DrainedBeforeClose
<1>4. ActiveCounts' /\ Running' = Running
  BY <1>1 DEF LifecycleInv, ActiveCounts, Running
<1>5. TypeOK'
  BY <1>1 DEF LifecycleInv, TypeOK
<1>6. OnlyTodo' /\ SweptClean' /\ SweptLate'
  BY <1>1, <1>3 DEF LifecycleInv, OnlyTodo, SweptClean, SweptLate
<1> QED
  BY <1>1, <1>4, <1>5, <1>6 DEF LifecycleInv, FlagUp, DrainedBeforeClose

\* A request that is through is counted no more.  (main.py 178-180.)
LEMMA LeaveStep ==
  ASSUME LifecycleInv, NEW r \in Request, Leave(r)
  PROVE  LifecycleInv'
<1>1. /\ stage[r] = "recorded" /\ r \in Running
      /\ stage' = [stage EXCEPT ![r] = "done"] /\ active' = Max({0, active - 1})
      /\ UNCHANGED <<phase, flag, route, expired, forced, pool, orphans, todo, swept>>
  BY DEF Leave, Running
<1>2. active' = active - 1 /\ active' \in Nat /\ active' = Cardinality(Running \ {r})
  <2>1. active \in Nat /\ active > 0 /\ Cardinality(Running \ {r}) = active - 1
    BY <1>1, CountMoves DEF LifecycleInv
  <2>2. Max({0, active - 1}) = active - 1
    BY <2>1, MaxZero
  <2> QED
    BY <1>1, <2>1, <2>2
<1>3. Running' = Running \ {r}
  BY <1>1 DEF LifecycleInv, TypeOK, Running
<1>4. TypeOK'
  BY <1>1, <1>2 DEF LifecycleInv, TypeOK
<1>5. ActiveCounts' /\ DrainedBeforeClose'
  BY <1>1, <1>2, <1>3 DEF LifecycleInv, ActiveCounts, DrainedBeforeClose
<1> QED
  BY <1>1, <1>4, <1>5 DEF LifecycleInv, FlagUp, OnlyTodo, SweptLate, SweptClean

\* Every step of a request or of the lifespan.
LEMMA NextLifecycle == LifecycleInv /\ [Next]_vars => LifecycleInv'
<1> SUFFICES ASSUME LifecycleInv, [Next]_vars PROVE LifecycleInv'
  OBVIOUS
<1>1. CASE Connect \/ Load \/ Stop \/ Expire
  BY <1>1, EarlySteps
<1>2. CASE Shutdown
  BY <1>2, ShutdownStep
<1>3. CASE Drain
  BY <1>3, DrainStep
<1>4. CASE Sweep
  BY <1>4, SweepStep
<1>5. CASE Close
  BY <1>5, CloseStep
<1>6. ASSUME NEW r \in Request, Arrive(r) PROVE LifecycleInv'
  BY <1>6, ArriveStep
<1>7. ASSUME NEW r \in Request, Register(r) PROVE LifecycleInv'
  BY <1>7, RegisterStep
<1>8. ASSUME NEW r \in Request, Leave(r) PROVE LifecycleInv'
  BY <1>8, LeaveStep
<1>9. ASSUME NEW r \in Request, Fail(r) \/ \E ms \in Latency : Succeed(r, ms)
      PROVE  LifecycleInv'
  BY <1>9, RecordStep
<1>10. CASE UNCHANGED vars
  BY <1>10 DEF vars, LifecycleInv, TypeOK, ActiveCounts, Running, FlagUp, DrainedBeforeClose,
               OnlyTodo, SweptLate, SweptClean
<1> QED
  BY <1>1, <1>2, <1>3, <1>4, <1>5, <1>6, <1>7, <1>8, <1>9, <1>10 DEF Next

\* The inductive invariant holds in every state of the process.
THEOREM LifecycleInvariant == Spec => []LifecycleInv
<1> QED
  BY InitLifecycle, NextLifecycle, PTL DEF Spec

\* The count the drain waits for is the number of the requests being served,
\* for any number of requests and routes.  (main.py 165-180.)
THEOREM LifecycleActiveCounts == Spec => []ActiveCounts
<1>1. LifecycleInv => ActiveCounts
  BY DEF LifecycleInv
<1> QED
  BY <1>1, LifecycleInvariant, PTL

\* Redis is closed under no guarded request, unless the drain was given up,
\* whatever requests come when.  (main.py 62-102, 165-180.)
THEOREM LifecycleDrained == Spec => []DrainedBeforeClose
<1>1. LifecycleInv => DrainedBeforeClose
  BY DEF LifecycleInv
<1> QED
  BY <1>1, LifecycleInvariant, PTL

\* A sweep that came to its end after such a drain leaves no index set, however
\* the scan pages them.  (main.py 105-133.)
THEOREM LifecycleSwept == Spec => []SweptClean
<1>1. LifecycleInv => SweptClean
  BY DEF LifecycleInv
<1> QED
  BY <1>1, LifecycleInvariant, PTL

-----------------------------------------------------------------------------
LEMMA Capacity == MaxSamples \in Nat \ {0}
BY MetricsAssumption

\* The cursor of a ring wraps around.
LEMMA CursorWraps ==
  ASSUME NEW c \in 0..MaxSamples - 1
  PROVE  c % MaxSamples = c
         /\ (c + 1) % MaxSamples = IF c + 1 = MaxSamples THEN 0 ELSE c + 1
BY Capacity

LEMMA AppendLog ==
  ASSUME NEW T, NEW l \in Seq(T), NEW v \in T
  PROVE  /\ Append(l, v) \in Seq(T) /\ Len(l) \in Nat
         /\ Len(Append(l, v)) = Len(l) + 1
         /\ \A i \in 1..Len(l) : Append(l, v)[i] = l[i]
         /\ Append(l, v)[Len(l) + 1] = v
OBVIOUS

LEMMA FollowsFull ==
  ASSUME NEW l, NEW s, NEW c \in 0..MaxSamples - 1, ~ (Len(l) < MaxSamples),
         s = [i \in 1..MaxSamples |->
                l[Len(l) - c + i - (IF i > c THEN MaxSamples ELSE 0)]]
  PROVE  Follows([samples |-> s, cursor |-> c, full |-> TRUE], l)
BY DEF Follows

LEMMA FollowsPart ==
  ASSUME NEW l, Len(l) < MaxSamples
  PROVE  Follows([samples |-> l, cursor |-> Len(l), full |-> FALSE], l)
BY DEF Follows

\* A ring that follows its log goes on to do so.  (metrics.py 66-77.)
LEMMA RingFollows ==
  ASSUME NEW T, NEW ring, NEW l \in Seq(T), NEW v \in T, Follows(ring, l)
  PROVE  Follows(RingAppend(ring, v), Append(l, v))
<1> DEFINE n == Len(l)
           m == MaxSamples
           new == Append(l, v)
<1>1. /\ new \in Seq(T) /\ n \in Nat /\ Len(new) = n + 1 /\ m \in Nat \ {0}
      /\ \A i \in 1..n : new[i] = l[i]
      /\ new[n + 1] = v
  BY AppendLog, Capacity
<1>2. CASE n < m
  <2>1. ring.samples = l /\ ring.cursor = n /\ ~ ring.full /\ Len(ring.samples) < m
    BY <1>2 DEF Follows
  <2>2. RingAppend(ring, v) =
          [samples |-> new, cursor |-> (n + 1) % m, full |-> n + 1 = m]
    BY <2>1 DEF RingAppend
  <2>3. (n + 1) % m = IF n + 1 = m THEN 0 ELSE n + 1
    BY <1>1, <1>2, CursorWraps
  <2>4. CASE n + 1 = m
    <3> HIDE DEF new, n, m
    <3>1. new = [i \in 1..m |-> new[Len(new) - 0 + i - (IF i > 0 THEN m ELSE 0)]]
      BY <1>1, <2>4
    <3> 0 \in 0..m - 1 /\ ~ (Len(new) < m)
      BY <1>1, <2>4
    <3>2. RingAppend(ring, v) = [samples |-> new, cursor |-> 0, full |-> TRUE]
      BY <2>2, <2>3, <2>4
    <3>3. Follows(RingAppend(ring, v), new)
      BY <3>1, <3>2, FollowsFull DEF m
    <3> QED BY <3>3 DEF new
  <2>5. CASE n + 1 # m
    <3> HIDE DEF new, n, m
    <3>1. RingAppend(ring, v) = [samples |-> new, cursor |-> Len(new), full |-> FALSE]
      BY <1>1, <2>2, <2>3, <2>5
    <3>2. Len(new) < m
      BY <1>1, <1>2, <2>5
    <3>3. Follows(RingAppend(ring, v), new)
      BY <3>1, <3>2, FollowsPart DEF m
    <3> QED BY <3>3 DEF new
  <2> QED BY <2>4, <2>5
<1>3. CASE ~ (n < m)
  <2> DEFINE c == ring.cursor
             old == ring.samples
             at(i) == n - c + i - (IF i > c THEN m ELSE 0)
  <2>1. ring.full /\ c \in 0..m - 1 /\ old = [i \in 1..m |-> l[at(i)]]
    BY <1>3 DEF Follows
  <2> DEFINE d == (c + 1) % m
             next == [old EXCEPT ![c + 1] = v]
  <2>2. c % m = c /\ d = IF c + 1 = m THEN 0 ELSE c + 1
    BY <2>1, CursorWraps
  <2>3. RingAppend(ring, v) = [samples |-> next, cursor |-> d, full |-> TRUE]
    BY <2>1, <2>2 DEF RingAppend
  <2> HIDE DEF c, d, new, n, m
  <2>4. d \in 0..m - 1
    BY <1>1, <2>1, <2>2
  <2>5. next = [i \in 1..m |-> new[Len(new) - d + i - (IF i > d THEN m ELSE 0)]]
    <3>1. next = [i \in 1..m |-> IF i = c + 1 THEN v ELSE l[at(i)]]
      BY <1>1, <2>1
    <3>2. ASSUME NEW i \in 1..m
          PROVE  new[Len(new) - d + i - (IF i > d THEN m ELSE 0)] =
                   IF i = c + 1 THEN v ELSE l[at(i)]
      <4>1. CASE i = c + 1
        <5>1. Len(new) - d + i - (IF i > d THEN m ELSE 0) = n + 1
          BY <1>1, <2>1, <2>2, <4>1
        <5> QED BY <1>1, <4>1, <5>1
      <4>2. CASE i # c + 1
        <5>1. Len(new) - d + i - (IF i > d THEN m ELSE 0) = at(i)
          BY <1>1, <1>3, <2>1, <2>2, <4>2
        <5>2. at(i) \in 1..n
          BY <1>1, <1>3, <2>1, <4>2
        <5> QED BY <1>1, <4>2, <5>1, <5>2
      <4> QED BY <4>1, <4>2
    <3> QED BY <3>1, <3>2
  <2>6. ~ (Len(new) < m)
    BY <1>1, <1>3
  <2> HIDE DEF next
  <2>7. Follows(RingAppend(ring, v), new)
    BY <2>3, <2>4, <2>5, <2>6, FollowsFull DEF m
  <2> QED BY <2>7 DEF new
<1> QED BY <1>2, <1>3

\* Sequences that differ in their order have the same elements as often.
LEMMA SameOccurrences ==
  ASSUME NEW n \in Nat, NEW p, NEW q, DOMAIN p = 1..n, DOMAIN q = 1..n,
         NEW f \in Bijection(1..n, 1..n), \A i \in 1..n : p[i] = q[f[i]]
  PROVE  Occurrences(p) = Occurrences(q)
<1>1. /\ f \in [1..n -> 1..n]
      /\ \A i, j \in 1..n : f[i] = f[j] => i = j
      /\ \A j \in 1..n : \E i \in 1..n : f[i] = j
  BY DEF Bijection, Injection, IsInjective, Surjection
<1>2. ToSet(p) = ToSet(q)
  BY <1>1, SMTT(30) DEF ToSet
<1>3. ASSUME NEW x
      PROVE  Cardinality({i \in DOMAIN p : p[i] = x}) = Cardinality({i \in DOMAIN q : q[i] = x})
  <2> DEFINE P == {i \in 1..n : p[i] = x}
             Q == {i \in 1..n : q[i] = x}
             g == [i \in P |-> f[i]]
  <2>1. g \in [P -> Q] /\ \A i, j \in P : g[i] = g[j] => i = j
    BY <1>1
  <2>2. \A j \in Q : \E i \in P : g[i] = j
    BY <1>1
  <2>3. g \in Bijection(P, Q)
    BY <2>1, <2>2 DEF Bijection, Injection, IsInjective, Surjection
  <2>4. IsFiniteSet(P)
    BY FS_Interval, FS_Subset
  <2> QED BY <2>3, <2>4, FS_Bijection DEF ExistsBijection
<1> QED BY <1>2, <1>3 DEF Occurrences

\* The first position of the tail.
LEMMA MaxOne ==
  ASSUME NEW n \in Int
  PROVE  Max({1, n}) = IF n > 1 THEN n ELSE 1
<1> DEFINE m == IF n > 1 THEN n ELSE 1
<1>1. m \in {1, n} /\ \A y \in {1, n} : m >= y
  OBVIOUS
<1>2. \A x \in {1, n} : (\A y \in {1, n} : x >= y) => x = m
  OBVIOUS
<1> HIDE DEF m
<1>3. Max({1, n}) = m
  BY <1>1, <1>2 DEF Max
<1> QED BY <1>3 DEF m

\* A ring that follows its log holds the last of it.
LEMMA FollowsHolds ==
  ASSUME NEW T, NEW ring, NEW l \in Seq(T), Follows(ring, l)
  PROVE  HoldsLast(ring, l)
<1> DEFINE n == Len(l)
           m == MaxSamples
           first == Max({1, n - m + 1})
           tail == SubSeq(l, first, n)
<1>1. n \in Nat /\ m \in Nat \ {0} /\ first = IF n - m + 1 > 1 THEN n - m + 1 ELSE 1
  BY Capacity, MaxOne
<1>2. Tail_(l, m) = tail
  BY DEF Tail_
<1>3. CASE n < m
  <2>1. ring.samples = l /\ first = 1
    BY <1>1, <1>3 DEF Follows
  <2>2. SubSeq(l, 1, Len(l)) = l
    OBVIOUS
  <2>3. Tail_(l, m) = l
    BY <1>2, <2>1, <2>2
  <2> QED BY <2>1, <2>3 DEF HoldsLast
<1>4. CASE ~ (n < m)
  <2> DEFINE c == ring.cursor
             old == ring.samples
             f == [i \in 1..m |-> i - c + (IF i > c THEN 0 ELSE m)]
  <2>1. /\ c \in 0..m - 1
        /\ old = [i \in 1..m |-> l[n - c + i - (IF i > c THEN m ELSE 0)]]
    BY <1>4 DEF Follows
  <2>2. first = n - m + 1
    BY <1>1, <1>4
  <2> HIDE DEF c, m, n, first
  <2>3. DOMAIN tail = 1..m /\ \A i \in 1..m : tail[i] = l[n - m + i]
    <3>1. first \in Int /\ n \in Int /\ n - first + 1 = m
      BY <1>1, <2>2
    <3>2. tail = [i \in 1..(1 + n - first) |-> l[i + first - 1]]
      BY <3>1
    <3>3. 1 + n - first = m /\ \A i \in 1..m : i + first - 1 = n - m + i
      BY <1>1, <2>2
    <3> QED BY <3>2, <3>3
  <2>4. f \in Bijection(1..m, 1..m)
    <3>1. f \in [1..m -> 1..m]
      BY <1>1, <2>1
    <3>2. \A i, j \in 1..m : f[i] = f[j] => i = j
      BY <1>1, <2>1
    <3>3. ASSUME NEW j \in 1..m PROVE \E i \in 1..m : f[i] = j
      <4>1. CASE j + c <= m
        <5>1. j + c \in 1..m /\ f[j + c] = j
          BY <1>1, <2>1, <4>1
        <5> QED BY <5>1
      <4>2. CASE ~ (j + c <= m)
        <5>1. j + c - m \in 1..m /\ f[j + c - m] = j
          BY <1>1, <2>1, <4>2
        <5> QED BY <5>1
      <4> QED BY <4>1, <4>2
    <3> HIDE DEF f
    <3> QED BY <3>1, <3>2, <3>3 DEF Bijection, Injection, IsInjective, Surjection
  <2>5. \A i \in 1..m : old[i] = tail[f[i]]
    <3> SUFFICES ASSUME NEW i \in 1..m PROVE old[i] = tail[f[i]]
      OBVIOUS
    <3>1. f[i] \in 1..m /\ n - m + f[i] = n - c + i - (IF i > c THEN m ELSE 0)
      BY <1>1, <2>1
    <3> HIDE DEF f, tail
    <3> QED BY <2>1, <2>3, <3>1
  <2> HIDE DEF f, tail
  <2>6. Occurrences(old) = Occurrences(tail)
    <3>1. m \in Nat /\ DOMAIN old = 1..m /\ DOMAIN tail = 1..m
      BY <1>1, <2>1, <2>3
    <3> HIDE DEF old
    <3> QED BY ONLY <2>4, <2>5, <3>1, SameOccurrences
  <2> QED BY <1>2, <2>6 DEF HoldsLast, m
<1> QED BY <1>3, <1>4

-----------------------------------------------------------------------------
\* The counters leave the latencies alone.
Counted(m, old) == m = [counters |-> m.counters, latency |-> old.latency]

LEMMA CountersApart ==
  ASSUME NEW m, NEW old, Counted(m, old), NEW name, NEW key, NEW n
  PROVE  Counted(IncrementBy(m, name, key, n), old)
<1>1. m = [counters |-> m.counters, latency |-> old.latency]
  BY DEF Counted
<1>2. IncrementBy(m, name, key, n) =
        [counters |-> [m.counters EXCEPT ![name] = Incremented(@, key, n)],
         latency |-> old.latency]
  BY <1>1 DEF IncrementBy
<1> QED BY <1>2 DEF Counted

LEMMA TokensApart ==
  ASSUME NEW m, NEW old, Counted(m, old), NEW source, NEW tokens
  PROVE  Counted(RecordTokenization(m, source, tokens), old)
<1> DEFINE called == Increment(m, "tokenizations", source)
           more == IncrementBy(called, "tokens_created", All, tokens)
<1>1. Counted(called, old)
  BY CountersApart DEF Increment
<1> HIDE DEF called
<1>2. Counted(more, old)
  BY <1>1, CountersApart
<1>3. RecordTokenization(m, source, tokens) \in {called, more}
  BY DEF RecordTokenization, called
<1> QED BY <1>1, <1>2, <1>3

LEMMA NewRingFollows == Follows(NewRing, <<>>)
BY Capacity DEF Follows, NewRing

\* Nothing is observed.
LEMMA CountRings ==
  ASSUME RingsInv, Counted(metrics', metrics), UNCHANGED log
  PROVE  RingsInv'
<1>1. metrics'.latency = metrics.latency /\ metrics' = [counters |-> metrics'.counters, latency |-> metrics'.latency]
  BY DEF Counted
<1> QED BY <1>1 DEF RingsInv

\* An observation goes into the ring of all and into that of its operation.
LEMMA ObserveRings ==
  ASSUME RingsInv, NEW m, Counted(m, metrics), NEW o \in Operation, NEW ms \in Latency,
         Observe(m, o, ms)
  PROVE  RingsInv'
<1> DEFINE h == metrics.latency
           new == Observed(h, ms, o)
           ringOf(k) == IF k \in DOMAIN h.byLabel THEN h.byLabel[k] ELSE NewRing
<1>1. /\ log \in [all : Seq(Latency), of : [Operation -> Seq(Latency)]]
      /\ Follows(h.overall, log.all) /\ DOMAIN h.byLabel \subseteq Operation
      /\ \A k \in Operation :
           IF k \in DOMAIN h.byLabel THEN Follows(h.byLabel[k], log.of[k])
                                     ELSE log.of[k] = <<>>
  BY DEF RingsInv
<1>2. metrics' = [counters |-> m.counters, latency |-> new]
  <2>1. m = [counters |-> m.counters, latency |-> h]
    BY DEF Counted
  <2>2. metrics' = [m EXCEPT !.latency = Observed(@, ms, o)]
    BY DEF Observe, RecordLatency
  <2> HIDE DEF h
  <2> QED BY ONLY <2>1, <2>2
<1>3. /\ log' \in [all : Seq(Latency), of : [Operation -> Seq(Latency)]]
      /\ log'.all = Append(log.all, ms)
      /\ log'.of[o] = Append(log.of[o], ms)
      /\ \A k \in Operation \ {o} : log'.of[k] = log.of[k]
      /\ log.all \in Seq(Latency) /\ log.of[o] \in Seq(Latency)
  <2>1. log' = [log EXCEPT !.all = Append(@, ms), !.of[o] = Append(@, ms)]
    BY DEF Observe
  <2>2. log.all \in Seq(Latency) /\ log.of \in [Operation -> Seq(Latency)]
    BY <1>1
  <2>3. /\ Append(log.all, ms) \in Seq(Latency)
        /\ [log.of EXCEPT ![o] = Append(@, ms)] \in [Operation -> Seq(Latency)]
    BY <2>2
  <2>4. log' = [all |-> Append(log.all, ms), of |-> [log.of EXCEPT ![o] = Append(@, ms)]]
    BY ONLY <1>1, <2>1
  <2> QED BY <2>2, <2>3, <2>4
<1>4. ASSUME NEW k \in Operation PROVE Follows(ringOf(k), log.of[k])
  <2>1. CASE k \in DOMAIN h.byLabel
    BY <1>1, <2>1
  <2>2. CASE k \notin DOMAIN h.byLabel
    <3>1. ringOf(k) = NewRing /\ log.of[k] = <<>>
      BY <1>1, <2>2
    <3> HIDE DEF ringOf
    <3> QED BY <3>1, NewRingFollows
  <2> QED BY <2>1, <2>2
<1>5. /\ new.overall = RingAppend(h.overall, ms)
      /\ DOMAIN new.byLabel = DOMAIN h.byLabel \cup {o}
      /\ \A k \in DOMAIN h.byLabel \cup {o} :
           new.byLabel[k] = IF k = o THEN RingAppend(ringOf(k), ms) ELSE ringOf(k)
      /\ new = [overall |-> new.overall, byLabel |-> new.byLabel]
  BY DEF Observed
<1> HIDE DEF h, new, ringOf
<1>6. Follows(new.overall, log'.all)
  BY <1>1, <1>3, <1>5, RingFollows
<1>7. ASSUME NEW k \in Operation
      PROVE  IF k \in DOMAIN new.byLabel THEN Follows(new.byLabel[k], log'.of[k])
                                         ELSE log'.of[k] = <<>>
  <2>1. CASE k = o
    <3>1. Follows(RingAppend(ringOf(o), ms), Append(log.of[o], ms))
      BY <1>3, <1>4, RingFollows
    <3> QED BY <1>3, <1>5, <2>1, <3>1
  <2>2. CASE k # o /\ k \in DOMAIN h.byLabel
    BY <1>3, <1>4, <1>5, <2>2
  <2>3. CASE k # o /\ k \notin DOMAIN h.byLabel
    BY <1>1, <1>3, <1>5, <2>3
  <2> QED BY <2>1, <2>2, <2>3
<1>8. metrics'.latency = new /\ metrics' = [counters |-> metrics'.counters, latency |-> new]
  BY <1>2
<1>9. DOMAIN new.byLabel \subseteq Operation
  BY <1>1, <1>5
<1> QED BY <1>3, <1>5, <1>6, <1>7, <1>8, <1>9 DEF RingsInv

LEMMA InitRings == Init => RingsInv
<1> SUFFICES ASSUME Init PROVE RingsInv
  OBVIOUS
<1>1. metrics = [counters |-> metrics.counters, latency |-> NewHistogram]
      /\ log = [all |-> <<>>, of |-> [o \in Operation |-> <<>>]]
  BY DEF Init, NewMetrics
<1>2. /\ metrics.latency = [overall |-> NewRing, byLabel |-> <<>>]
      /\ log.all = <<>> /\ log.of = [o \in Operation |-> <<>>]
      /\ metrics = [counters |-> metrics.counters, latency |-> metrics.latency]
  BY <1>1 DEF NewHistogram
<1>3. Follows(NewRing, <<>>)
  BY NewRingFollows
<1>4. log \in [all : Seq(Latency), of : [Operation -> Seq(Latency)]]
  BY <1>1
<1> QED BY <1>2, <1>3, <1>4 DEF RingsInv

LEMMA NextRings == TypeOK /\ RingsInv /\ [Next]_vars => RingsInv'
<1> SUFFICES ASSUME TypeOK, RingsInv, [Next]_vars PROVE RingsInv'
  OBVIOUS
<1>1. ASSUME UNCHANGED <<metrics, log>> PROVE RingsInv'
  BY <1>1 DEF RingsInv
<1>2. Counted(metrics, metrics)
  BY DEF RingsInv, Counted
<1>3. ASSUME NEW r \in Request, NEW ms \in Latency, Succeed(r, ms) PROVE RingsInv'
  <2> route[r] \in {"tokenize", "rehydrate", "flush", "rotate", "health", "metrics"}
      /\ route[r] \in Operation
    BY LifecycleAssumption DEF TypeOK
  <2>1. CASE route[r] = "tokenize"
    <3>1. PICK n \in 0..1 : Observe(RecordTokenization(metrics, "regex", n), "tokenize", ms)
      BY <1>3, <2>1 DEF Succeed
    <3> DEFINE m == RecordTokenization(metrics, "regex", n)
    <3>2. Counted(m, metrics)
      BY <1>2, TokensApart
    <3> HIDE DEF m
    <3> QED BY <2>1, <3>1, <3>2, ObserveRings DEF m
  <2>2. CASE route[r] = "rehydrate"
    BY <1>2, <1>3, <2>2, ObserveRings DEF Succeed
  <2>3. CASE route[r] = "flush"
    <3> DEFINE m == RecordFlush(metrics, "success")
    <3>1. Counted(m, metrics) /\ Observe(m, "flush", ms)
      BY <1>2, <1>3, <2>3, CountersApart DEF Succeed, RecordFlush, Increment
    <3> HIDE DEF m
    <3> QED BY <2>3, <3>1, ObserveRings
  <2>4. CASE route[r] = "rotate"
    <3>1. metrics' = RecordDekRotation(metrics) /\ UNCHANGED log
      BY <1>3, <2>4 DEF Succeed
    <3> QED BY <1>2, <3>1, CountersApart, CountRings DEF RecordDekRotation, Increment
  <2>5. CASE route[r] = "health"
    <3>1. metrics' = RecordHealthCheck(metrics, "healthy") /\ UNCHANGED log
      BY <1>3, <2>5 DEF Succeed
    <3> QED BY <1>2, <3>1, CountersApart, CountRings DEF RecordHealthCheck, Increment
  <2>6. CASE route[r] = "metrics"
    BY <1>1, <1>3, <2>6 DEF Succeed
  <2> QED BY <2>1, <2>2, <2>3, <2>4, <2>5, <2>6
<1>4. ASSUME NEW r \in Request, Fail(r) PROVE RingsInv'
  <2>1. /\ UNCHANGED log
        /\ metrics' \in {RecordHealthCheck(metrics, "degraded"),
                         RecordFlush(RecordFailure(metrics, "redis_error"), "fallback_ttl"),
                         metrics, RecordFailure(metrics, "redis_error"),
                         RecordMonthlyQuotaExceeded(metrics, "free")}
    BY <1>4 DEF Fail
  <2>2. Counted(metrics', metrics)
    BY <1>2, <2>1, CountersApart
       DEF RecordHealthCheck, RecordFlush, RecordFailure, RecordMonthlyQuotaExceeded, Increment
  <2> QED BY <2>1, <2>2, CountRings
<1>5. CASE UNCHANGED vars
  BY <1>1, <1>5 DEF vars
<1>6. CASE Connect \/ Load \/ Stop \/ Shutdown \/ Drain \/ Expire \/ Sweep \/ Close
  BY <1>1, <1>6 DEF Connect, Load, Stop, Shutdown, Drain, Expire, Sweep, Close
<1>7. ASSUME NEW r \in Request, Arrive(r) \/ Register(r) \/ Leave(r) PROVE RingsInv'
  BY <1>1, <1>7 DEF Arrive, Register, Leave
<1> QED BY <1>3, <1>4, <1>5, <1>6, <1>7 DEF Next

\* The ring of every operation and that of all hold the last observations, each
\* as often as it was made, for any capacity and however often the cursor wraps
\* around.  (metrics.py 66-96.)
THEOREM LifecycleRings == Spec => []RingsHoldLast
<1>1. RingsInv => RingsHoldLast
  <2> SUFFICES ASSUME RingsInv PROVE RingsHoldLast
    OBVIOUS
  <2>1. /\ log.all \in Seq(Latency)
        /\ \A o \in Operation : log.of[o] \in Seq(Latency)
    BY DEF RingsInv
  <2>2. HoldsLast(metrics.latency.overall, log.all)
    BY <2>1, FollowsHolds DEF RingsInv
  <2>3. ASSUME NEW o \in DOMAIN metrics.latency.byLabel
        PROVE  HoldsLast(metrics.latency.byLabel[o], log.of[o])
    BY <2>1, FollowsHolds DEF RingsInv
  <2> QED BY <2>2, <2>3 DEF RingsHoldLast
<1>2. LifecycleInv => TypeOK
  BY DEF LifecycleInv
<1> QED BY <1>1, <1>2, LifecycleInvariant, InitRings, NextRings, PTL DEF Spec

-----------------------------------------------------------------------------
\* A sequence of numbers, the indexes of which are finitely many.
LEMMA SampleIndexes ==
  ASSUME NEW samples, NEW n \in Nat, samples \in [1..n -> Int]
  PROVE  /\ Len(samples) = n /\ DOMAIN samples = 1..n
         /\ IsFiniteSet(1..n) /\ Cardinality(1..n) = n
BY FS_Interval

\* What sorted() returns: as many numbers, in ascending order, and at least k
\* of the samples are up to the k-th.  (metrics.py 129-142.)
LEMMA SortedSamples ==
  ASSUME NEW samples, NEW n \in Nat, samples \in [1..n -> Int]
  PROVE  /\ Sorted(samples) \in [1..n -> Int]
         /\ \A j, k \in 1..n : j <= k => Sorted(samples)[j] <= Sorted(samples)[k]
         /\ \A k \in 1..n :
              LET covered == {i \in DOMAIN samples : samples[i] <= Sorted(samples)[k]}
              IN Cardinality(covered) \in Nat /\ Cardinality(covered) >= k
<1> DEFINE I == 1..n
           R == {x \in I \X I :
                   \/ samples[x[1]] < samples[x[2]]
                   \/ samples[x[1]] = samples[x[2]] /\ x[1] <= x[2]}
           nth == InOrder(I, R)
           sorted == Sorted(samples)
<1>1. IsFiniteSet(I) /\ Cardinality(I) = n /\ DOMAIN samples = I
  BY FS_Interval
<1>2. \A x, y \in I : <<x, y>> \in R <=> \/ samples[x] < samples[y]
                                         \/ samples[x] = samples[y] /\ x <= y
  OBVIOUS
<1>3. \A x \in I : x \in Int /\ samples[x] \in Int
  OBVIOUS
<1>4. IsOrder(R, I)
  <2> HIDE DEF R, I
  <2>1. \A x \in I : <<x, x>> \in R
    BY <1>2, <1>3
  <2>2. ASSUME NEW x \in I, NEW y \in I PROVE <<x, y>> \in R \/ <<y, x>> \in R
    BY <1>2, <1>3
  <2>3. ASSUME NEW x \in I, NEW y \in I, <<x, y>> \in R, <<y, x>> \in R PROVE x = y
    <3>1. /\ samples[x] < samples[y] \/ (samples[x] = samples[y] /\ x <= y)
          /\ samples[y] < samples[x] \/ (samples[y] = samples[x] /\ y <= x)
      BY <1>2, <2>3
    <3> QED BY <1>3, <3>1
  <2>4. ASSUME NEW x \in I, NEW y \in I, NEW z \in I, <<x, y>> \in R, <<y, z>> \in R
        PROVE  <<x, z>> \in R
    <3>1. /\ samples[x] < samples[y] \/ (samples[x] = samples[y] /\ x <= y)
          /\ samples[y] < samples[z] \/ (samples[y] = samples[z] /\ y <= z)
      BY <1>2, <2>4
    <3>2. samples[x] < samples[z] \/ (samples[x] = samples[z] /\ x <= z)
      BY <1>3, <3>1
    <3> QED BY <1>2, <3>2
  <2> QED BY <2>1, <2>2, <2>3, <2>4 DEF IsOrder
<1>5. /\ nth \in [I -> I]
      /\ \A k \in I : Cardinality(Until(I, R, nth[k])) = k
  <2> HIDE DEF R, I
  <2>1. nth \in [1..Cardinality(I) -> I]
    BY <1>1, <1>4, InOrderListing
  <2>2. \A k \in 1..Cardinality(I) : Cardinality(Until(I, R, nth[k])) = k
    BY <1>1, <1>4, InOrderListing
  <2> QED BY <1>1, <2>1, <2>2 DEF I
<1>6. sorted = [k \in DOMAIN nth |-> samples[nth[k]]]
  BY <1>1 DEF Sorted
<1> HIDE DEF R, nth, sorted
<1>7. sorted \in [I -> Int] /\ \A k \in I : sorted[k] = samples[nth[k]]
  BY <1>5, <1>6
<1>8. ASSUME NEW k \in I
      PROVE  LET covered == {i \in I : samples[i] <= sorted[k]}
             IN IsFiniteSet(covered) /\ Cardinality(covered) \in Nat /\ Cardinality(covered) >= k
  <2> DEFINE covered == {i \in I : samples[i] <= sorted[k]}
             upTo == Until(I, R, nth[k])
  <2>1. upTo \in SUBSET covered
    <3> SUFFICES ASSUME NEW y \in I, <<y, nth[k]>> \in R PROVE samples[y] <= sorted[k]
      BY DEF Until
    <3>1. nth[k] \in I
      BY <1>5
    <3>2. samples[y] < samples[nth[k]] \/ samples[y] = samples[nth[k]]
      BY <1>2, <3>1
    <3> QED BY <1>3, <1>7, <3>1, <3>2
  <2>2. IsFiniteSet(covered) /\ Cardinality(covered) \in Nat
    <3>1. covered \in SUBSET I
      OBVIOUS
    <3> QED BY <1>1, <3>1, FS_Subset, FS_CardinalityType
  <2>3. Cardinality(upTo) <= Cardinality(covered)
    BY <2>1, <2>2, FS_Subset
  <2>4. Cardinality(upTo) = k
    BY <1>5
  <2>5. Cardinality(covered) >= k
    <3> HIDE DEF covered, upTo
    <3> QED BY <2>2, <2>3, <2>4
  <2> QED BY <2>2, <2>5
<1>9. ASSUME NEW j \in I, NEW k \in I, j <= k PROVE sorted[j] <= sorted[k]
  <2>1. nth[j] \in I /\ nth[k] \in I
    BY <1>5
  <2>2. CASE <<nth[j], nth[k]>> \in R
    <3>1. samples[nth[j]] < samples[nth[k]] \/ samples[nth[j]] = samples[nth[k]]
      BY <1>2, <2>1, <2>2
    <3> QED BY <1>3, <1>7, <2>1, <3>1
  <2>3. CASE <<nth[j], nth[k]>> \notin R
    <3> DEFINE first == Until(I, R, nth[k])
               more == Until(I, R, nth[j])
    <3>1. first \in SUBSET more
      BY <1>4, <2>1, <2>3 DEF IsOrder, Until
    <3>2. IsFiniteSet(more)
      <4>1. more \in SUBSET I
        BY DEF Until
      <4> QED BY <1>1, <4>1, FS_Subset
    <3>3. Cardinality(first) <= Cardinality(more)
      BY <3>1, <3>2, FS_Subset
    <3>4. Cardinality(first) = k /\ Cardinality(more) = j
      BY <1>5
    <3>5. j = k
      <4> HIDE DEF first, more
      <4> QED BY <1>9, <3>3, <3>4
    <3> QED BY <1>3, <1>7, <2>1, <3>5
  <2> QED BY <2>2, <2>3
<1>10. \A k \in I : LET covered == {i \in I : samples[i] <= sorted[k]}
                    IN Cardinality(covered) \in Nat /\ Cardinality(covered) >= k
  BY <1>8
<1> QED BY <1>1, <1>7, <1>9, <1>10 DEF I, sorted

\* The extremes of two numbers.
LEMMA TwoNumbers ==
  ASSUME NEW a \in Int, NEW b \in Int
  PROVE  /\ Max({a, b}) = IF a < b THEN b ELSE a
         /\ Min({a, b}) = IF a < b THEN a ELSE b
<1> DEFINE big == IF a < b THEN b ELSE a
           small == IF a < b THEN a ELSE b
<1>1. big \in {a, b} /\ \A y \in {a, b} : big >= y
  OBVIOUS
<1>2. \A x \in {a, b} : (\A y \in {a, b} : x >= y) => x = big
  OBVIOUS
<1>3. small \in {a, b} /\ \A y \in {a, b} : small <= y
  OBVIOUS
<1>4. \A x \in {a, b} : (\A y \in {a, b} : x <= y) => x = small
  OBVIOUS
<1> HIDE DEF big, small
<1>5. Max({a, b}) = big
  BY <1>1, <1>2 DEF Max
<1>6. Min({a, b}) = small
  BY <1>3, <1>4 DEF Min
<1> QED BY <1>5, <1>6 DEF big, small

\* The rank of the p-th percentile of n samples.
RankOf(p, n) == (p * n + 99) \div 100

\* The nearest rank of a percentile: it is one of the ranks and rounded up.
\* (metrics.py 145-150.)
LEMMA NearestRank ==
  ASSUME NEW sorted, NEW n \in Nat \ {0}, sorted \in [1..n -> Int], NEW p \in 1..100
  PROVE  /\ RankOf(p, n) \in 1..n /\ 100 * RankOf(p, n) >= p * n
         /\ Percentile(sorted, p) = sorted[RankOf(p, n)]
<1> DEFINE rank == RankOf(p, n)
<1>1. Len(sorted) = n
  OBVIOUS
<1>2. p * n \in Nat /\ n <= p * n /\ p * n <= 100 * n
  <2>1. p * n \in Int /\ n <= p * n
    BY Z3
  <2>2. p * n <= 100 * n
    BY Z3
  <2> QED BY <2>1, <2>2
<1>3. rank \in 1..n /\ 100 * rank >= p * n
  <2> DEFINE q == p * n
  <2>1. q \in Nat /\ n <= q /\ q <= 100 * n
    BY <1>2
  <2> HIDE DEF q
  <2>2. (q + 99) \div 100 \in 1..n /\ 100 * ((q + 99) \div 100) >= q
    BY <2>1
  <2> QED BY <2>2 DEF q, RankOf
<1>4. Percentile(sorted, p) = sorted[Max({0, Min({rank - 1, n - 1})}) + 1]
  BY <1>1 DEF Percentile, RankOf
<1> HIDE DEF rank
<1>5. Min({rank - 1, n - 1}) = rank - 1
  <2>1. rank - 1 \in Int /\ n - 1 \in Int /\ rank - 1 <= n - 1
    BY <1>3
  <2>2. Min({rank - 1, n - 1}) = IF rank - 1 < n - 1 THEN rank - 1 ELSE n - 1
    BY <2>1, TwoNumbers
  <2> QED BY <2>1, <2>2
<1>6. Max({0, rank - 1}) = rank - 1
  <2>1. rank - 1 \in Int /\ 0 \in Int /\ 0 <= rank - 1
    BY <1>3
  <2>2. Max({0, rank - 1}) = IF 0 < rank - 1 THEN rank - 1 ELSE 0
    BY <2>1, TwoNumbers
  <2> QED BY <2>1, <2>2
<1>7. rank - 1 + 1 = rank
  BY <1>3
<1> QED BY <1>3, <1>4, <1>5, <1>6, <1>7 DEF rank

\* A percentile covers its share, and the percentiles keep their order.
\* (metrics.py 128-150.)
LEMMA SummaryCovers ==
  ASSUME NEW samples, NEW n \in Nat, samples \in [1..n -> Int]
  PROVE  LET s == Summarise(samples)
             below(x) == Cardinality({i \in DOMAIN samples : samples[i] <= x})
         IN /\ 2 * below(s.p50) >= Len(samples) /\ 100 * below(s.p99) >= 99 * Len(samples)
            /\ s.min <= s.p50 /\ s.p50 <= s.p99 /\ s.p99 <= s.max
<1> DEFINE s == Summarise(samples)
           below(x) == Cardinality({i \in DOMAIN samples : samples[i] <= x})
           sorted == Sorted(samples)
           a == RankOf(50, n)
           b == RankOf(99, n)
<1>1. Len(samples) = n /\ DOMAIN samples = 1..n
  OBVIOUS
<1>2. CASE n = 0
  <2>1. samples = <<>>
    BY <1>2
  <2>2. s = [count |-> 0, sum |-> 0, min |-> 0, max |-> 0, p50 |-> 0, p99 |-> 0]
    BY <2>1 DEF Summarise
  <2>3. below(0) = 0
    BY <1>1, <1>2, FS_EmptySet
  <2> HIDE DEF s, below
  <2> QED BY <1>1, <1>2, <2>2, <2>3 DEF s, below
<1>3. CASE n # 0
  <2>1. samples # <<>>
    BY <1>1, <1>3
  <2>2. /\ sorted \in [1..n -> Int]
        /\ \A j, k \in 1..n : j <= k => sorted[j] <= sorted[k]
        /\ \A k \in 1..n : below(sorted[k]) \in Nat /\ below(sorted[k]) >= k
    BY SortedSamples
  <2>3. s.p50 = Percentile(sorted, 50) /\ s.p99 = Percentile(sorted, 99)
        /\ s.min = sorted[1] /\ s.max = sorted[Len(sorted)]
    BY <2>1 DEF Summarise
  <2> HIDE DEF s, below, sorted
  <2>4. Len(sorted) = n
    BY <2>2
  <2> n \in Nat \ {0} /\ 50 \in 1..100 /\ 99 \in 1..100 /\ sorted \in [1..n -> Int]
    BY <1>3, <2>2
  <2>5. a \in 1..n /\ 100 * a >= 50 * n /\ Percentile(sorted, 50) = sorted[a]
    BY NearestRank
  <2>6. b \in 1..n /\ 100 * b >= 99 * n /\ Percentile(sorted, 99) = sorted[b]
    BY NearestRank
  <2>7. a <= b
    BY ONLY n \in Nat DEF RankOf
  <2> HIDE DEF a, b
  <2>8. s.min <= s.p50 /\ s.p50 <= s.p99 /\ s.p99 <= s.max
    BY <1>3, <2>2, <2>3, <2>4, <2>5, <2>6, <2>7
  <2>9. below(s.p50) \in Nat /\ below(s.p50) >= a /\ below(s.p99) \in Nat /\ below(s.p99) >= b
    BY <2>2, <2>3, <2>5, <2>6
  <2>10. 2 * below(s.p50) >= n /\ 100 * below(s.p99) >= 99 * n
    BY <2>5, <2>6, <2>9
  <2> QED BY <1>1, <2>8, <2>10 DEF s, below
<1> QED BY <1>2, <1>3

\* The samples of a ring that follows its log are numbers of the log.
LEMMA RingSamples ==
  ASSUME NEW ring, NEW l \in Seq(Latency), Follows(ring, l)
  PROVE  \E n \in Nat : ring.samples \in [1..n -> Int]
<1> DEFINE c == ring.cursor
           m == MaxSamples
<1>1. /\ Len(l) \in Nat /\ \A i \in 1..Len(l) : l[i] \in Int
      /\ l = [i \in 1..Len(l) |-> l[i]]
  BY LifecycleAssumption
<1>2. CASE Len(l) < m
  <2>1. ring.samples = l
    BY <1>2 DEF Follows
  <2>2. l \in [1..Len(l) -> Int]
    BY <1>1
  <2> QED BY <1>1, <2>1, <2>2
<1>3. CASE ~ (Len(l) < m)
  <2>1. /\ c \in 0..m - 1
        /\ ring.samples = [i \in 1..m |-> l[Len(l) - c + i - (IF i > c THEN m ELSE 0)]]
    BY <1>3 DEF Follows
  <2>2. m \in Nat
    BY MetricsAssumption
  <2>3. \A i \in 1..m : Len(l) - c + i - (IF i > c THEN m ELSE 0) \in 1..Len(l)
    BY <1>1, <1>3, <2>1, <2>2
  <2>4. ring.samples \in [1..m -> Int]
    BY <1>1, <2>1, <2>3
  <2> QED BY <2>2, <2>4
<1> QED BY <1>2, <1>3

\* The median and the 99th percentile of every operation have their share of
\* its samples at or below them, for any capacity of the ring, any latencies
\* and any number of observations.  (metrics.py 128-150.)
THEOREM LifecyclePercentiles == Spec => []PercentilesCover
<1>1. RingsInv => PercentilesCover
  <2> SUFFICES ASSUME RingsInv, NEW o \in DOMAIN metrics.latency.byLabel
               PROVE  LET samples == metrics.latency.byLabel[o].samples
                          s == Snapshot(metrics).latency.byLabel[o]
                          below(x) == Cardinality({i \in DOMAIN samples : samples[i] <= x})
                      IN /\ 2 * below(s.p50) >= Len(samples)
                         /\ 100 * below(s.p99) >= 99 * Len(samples)
                         /\ s.min <= s.p50 /\ s.p50 <= s.p99 /\ s.p99 <= s.max
    BY DEF PercentilesCover
  <2> DEFINE samples == metrics.latency.byLabel[o].samples
  <2>1. /\ log.of[o] \in Seq(Latency)
        /\ Follows(metrics.latency.byLabel[o], log.of[o])
    BY DEF RingsInv
  <2>2. PICK n \in Nat : samples \in [1..n -> Int]
    BY <2>1, RingSamples
  <2>3. Snapshot(metrics).latency.byLabel[o] = Summarise(samples)
    BY DEF Snapshot
  <2> HIDE DEF samples
  <2>4. LET s == Summarise(samples)
            below(x) == Cardinality({i \in DOMAIN samples : samples[i] <= x})
        IN /\ 2 * below(s.p50) >= Len(samples) /\ 100 * below(s.p99) >= 99 * Len(samples)
           /\ s.min <= s.p50 /\ s.p50 <= s.p99 /\ s.p99 <= s.max
    BY <2>2, SummaryCovers
  <2> QED BY <2>3, <2>4 DEF samples
<1>2. LifecycleInv => TypeOK
  BY DEF LifecycleInv
<1> QED BY <1>1, <1>2, LifecycleInvariant, InitRings, NextRings, PTL DEF Spec

-----------------------------------------------------------------------------
\* The counters of m, one for each name, add up.
AllAddUp(m) ==
  /\ m = [counters |-> m.counters, latency |-> m.latency]
  /\ m.counters = [n \in CounterNames |-> m.counters[n]]
  /\ \A n \in CounterNames : AddsUp(m.counters[n])

\* A counter that adds up goes on to do so.  (metrics.py 21-40.)
LEMMA IncrementedAddsUp ==
  ASSUME NEW c, AddsUp(c), NEW key, NEW n \in Nat
  PROVE  LET by == c.byLabel
             new == Incremented(c, key, n)
         IN /\ AddsUp(new)
            /\ DOMAIN new.byLabel = DOMAIN by \cup {key}
            /\ \A k \in DOMAIN new.byLabel :
                 new.byLabel[k] = (IF k \in DOMAIN by THEN by[k] ELSE 0) + (IF k = key THEN n ELSE 0)
<1> DEFINE by == c.byLabel
           D == DOMAIN by
           new == Incremented(c, key, n)
           f == new.byLabel
<1>1. IsFiniteSet(D) /\ by \in [D -> Nat] /\ c.total = Total(by, D)
  BY DEF AddsUp
<1>2. /\ new.total = c.total + n
      /\ f = [k \in D \cup {key} |->
                (IF k \in D THEN by[k] ELSE 0) + (IF k = key THEN n ELSE 0)]
  BY DEF Incremented
<1> HIDE DEF new, f, by
<1>3. /\ DOMAIN f = D \cup {key} /\ f \in [D \cup {key} -> Nat]
      /\ \A k \in D \cup {key} :
           f[k] = (IF k \in D THEN by[k] ELSE 0) + (IF k = key THEN n ELSE 0)
  BY <1>1, <1>2
<1> HIDE DEF D
<1>4. IsFiniteSet(D \cup {key})
  BY <1>1, FS_AddElement
<1>5. Total(by, D) \in Nat
  BY <1>1, TotalFinite
<1>6. Total(f, D \cup {key}) = Total(by, D) + n
  <2>1. CASE key \in D
    <3>1. D \cup {key} = D
      BY <2>1
    <3>2. \A k \in D : by[k] \in Nat /\ f[k] \in Nat
      BY <1>1, <1>3
    <3>3. \A k \in D \ {key} : by[k] = f[k]
      BY <1>1, <1>3
    <3>4. Total(f, D) = Total(by, D) - by[key] + f[key]
      BY <1>1, <2>1, <3>2, <3>3, TotalUpdate
    <3>5. f[key] = by[key] + n
      BY <1>3, <2>1
    <3>6. by[key] \in Nat
      BY <1>1, <2>1
    <3>7. Total(f, D) = Total(by, D) + n
      BY <1>5, <3>4, <3>5, <3>6
    <3> QED BY <3>1, <3>7
  <2>2. CASE key \notin D
    <3>1. \A k \in D : by[k] \in Nat /\ f[k] \in Nat /\ f[k] = by[k]
      BY <1>1, <1>3, <2>2
    <3>2. Total(f, D) = Total(by, D)
      BY <3>1, TotalSame
    <3>3. f[key] \in Nat /\ f[key] = n
      BY <1>3, <2>2
    <3>4. Total(f, D \cup {key}) = Total(f, D) + f[key]
      BY <1>1, <2>2, <3>1, <3>3, TotalAdd
    <3> QED BY <3>2, <3>3, <3>4
  <2> QED BY <2>1, <2>2
<1>7. AddsUp(new)
  BY <1>1, <1>2, <1>3, <1>4, <1>6 DEF AddsUp, f
<1> QED BY <1>3, <1>7 DEF new, f, by, D

\* Only the counter that is incremented moves.
LEMMA IncrementMoves ==
  ASSUME NEW m, AllAddUp(m), NEW name \in CounterNames, NEW key, NEW k \in Nat, NEW new,
         new = IncrementBy(m, name, key, k)
  PROVE  /\ AllAddUp(new) /\ new.latency = m.latency
         /\ \A n \in CounterNames \ {name} : new.counters[n] = m.counters[n]
         /\ \A l : CountOf(new, name, l) = CountOf(m, name, l) + (IF l = key THEN k ELSE 0)
<1> DEFINE c == m.counters[name]
           d == Incremented(c, key, k)
<1>1. /\ m = [counters |-> m.counters, latency |-> m.latency]
      /\ m.counters = [n \in CounterNames |-> m.counters[n]]
      /\ \A n \in CounterNames : AddsUp(m.counters[n])
  BY DEF AllAddUp
<1>2. new = [counters |-> [m.counters EXCEPT ![name] = d], latency |-> m.latency]
  <2>1. new = [m EXCEPT !.counters[name] = Incremented(@, key, k)]
    BY DEF IncrementBy
  <2> QED BY ONLY <1>1, <2>1
<1>3. /\ new.counters = [m.counters EXCEPT ![name] = d] /\ new.latency = m.latency
      /\ new = [counters |-> new.counters, latency |-> new.latency]
  BY <1>2
<1> HIDE DEF d
<1>4. /\ new.counters = [n \in CounterNames |-> new.counters[n]]
      /\ \A n \in CounterNames \ {name} : new.counters[n] = m.counters[n]
      /\ new.counters[name] = d
  BY <1>1, <1>3
<1>5. /\ AddsUp(d) /\ DOMAIN d.byLabel = DOMAIN c.byLabel \cup {key}
      /\ \A l \in DOMAIN d.byLabel :
           d.byLabel[l] = (IF l \in DOMAIN c.byLabel THEN c.byLabel[l] ELSE 0)
                            + (IF l = key THEN k ELSE 0)
  BY <1>1, IncrementedAddsUp DEF d
<1>6. AllAddUp(new)
  BY <1>1, <1>3, <1>4, <1>5 DEF AllAddUp
<1>7. ASSUME NEW l
      PROVE  CountOf(new, name, l) = CountOf(m, name, l) + (IF l = key THEN k ELSE 0)
  <2>1. CountOf(new, name, l) = IF l \in DOMAIN d.byLabel THEN d.byLabel[l] ELSE 0
    BY <1>4 DEF CountOf
  <2>2. CountOf(m, name, l) = IF l \in DOMAIN c.byLabel THEN c.byLabel[l] ELSE 0
    BY DEF CountOf
  <2> HIDE DEF c
  <2> QED BY <1>5, <2>1, <2>2
<1> QED BY <1>3, <1>4, <1>6, <1>7

\* The number of flushes that m counts as a success.
Successes(m) == CountOf(m, "flush", "success")

\* What the counters of m and those of old have in common: all but a flush.
SameSuccesses(m, old) == AllAddUp(m) /\ m.latency = old.latency /\ Successes(m) = Successes(old)

LEMMA SuccessesNat ==
  ASSUME NEW m, AllAddUp(m)
  PROVE  Successes(m) \in Nat
<1>1. AddsUp(m.counters["flush"])
  BY DEF AllAddUp, CounterNames
<1> QED BY <1>1 DEF AddsUp, Successes, CountOf

\* What is counted under another name or label is no success of a flush.
LEMMA OtherCounts ==
  ASSUME NEW m, NEW old, SameSuccesses(m, old), NEW name \in CounterNames, NEW key, NEW k \in Nat,
         name # "flush" \/ key # "success", NEW new,
         new = IncrementBy(m, name, key, k)
  PROVE  SameSuccesses(new, old)
<1>1. /\ AllAddUp(new) /\ new.latency = m.latency
      /\ \A n \in CounterNames \ {name} : new.counters[n] = m.counters[n]
      /\ \A l : CountOf(new, name, l) = CountOf(m, name, l) + (IF l = key THEN k ELSE 0)
  <2>1. AllAddUp(m)
    BY DEF SameSuccesses
  <2> QED BY <2>1, IncrementMoves
<1>2. CASE name # "flush"
  BY <1>1, <1>2 DEF SameSuccesses, Successes, CountOf, CounterNames
<1>3. CASE name = "flush" /\ key # "success"
  <2>1. Successes(new) = Successes(m) + 0
    BY <1>1, <1>3 DEF Successes
  <2>2. Successes(m) \in Nat
    BY SuccessesNat DEF SameSuccesses
  <2> QED BY <1>1, <2>1, <2>2 DEF SameSuccesses
<1> QED BY <1>2, <1>3

\* What a step that observes leaves: the counters of m, and a log that is longer
\* by one latency of the operation.
LEMMA ObserveCounts ==
  ASSUME RingsInv, NEW m, AllAddUp(m), NEW o \in Operation, NEW ms \in Latency,
         Observe(m, o, ms)
  PROVE  /\ AllAddUp(metrics') /\ Successes(metrics') = Successes(m)
         /\ "flush" \in Operation =>
              Len(log'.of["flush"]) = Len(log.of["flush"]) + (IF o = "flush" THEN 1 ELSE 0)
<1>1. m = [counters |-> m.counters, latency |-> m.latency]
  BY DEF AllAddUp
<1>2. metrics' = [m EXCEPT !.latency = Observed(@, ms, o)]
      /\ log' = [log EXCEPT !.all = Append(@, ms), !.of[o] = Append(@, ms)]
  BY DEF Observe, RecordLatency
<1>3. metrics' = [counters |-> m.counters, latency |-> Observed(m.latency, ms, o)]
  BY ONLY <1>1, <1>2
<1>4. metrics'.counters = m.counters
      /\ metrics' = [counters |-> metrics'.counters, latency |-> metrics'.latency]
  BY <1>3
<1>5. AllAddUp(metrics') /\ Successes(metrics') = Successes(m)
  BY <1>4 DEF AllAddUp, Successes, CountOf
<1>6. ASSUME "flush" \in Operation
      PROVE  Len(log'.of["flush"]) = Len(log.of["flush"]) + (IF o = "flush" THEN 1 ELSE 0)
  <2>1. log \in [all : Seq(Latency), of : [Operation -> Seq(Latency)]]
    BY DEF RingsInv
  <2>2. log'.of = [log.of EXCEPT ![o] = Append(@, ms)]
    BY ONLY <1>2, <2>1
  <2>3. log.of \in [Operation -> Seq(Latency)] /\ log.of["flush"] \in Seq(Latency)
    BY <1>6, <2>1
  <2>4. log'.of["flush"] = IF o = "flush" THEN Append(log.of["flush"], ms) ELSE log.of["flush"]
    BY <1>6, <2>2, <2>3
  <2> DEFINE old == log.of["flush"]
  <2>5. old \in Seq(Latency) /\ Len(old) \in Nat /\ Len(Append(old, ms)) = Len(old) + 1
    BY <2>3, AppendLog
  <2>6. log'.of["flush"] = IF o = "flush" THEN Append(old, ms) ELSE old
    BY <2>4
  <2> HIDE DEF old
  <2>7. Len(log'.of["flush"]) = Len(old) + (IF o = "flush" THEN 1 ELSE 0)
    BY <2>5, <2>6
  <2> QED BY <2>7 DEF old
<1> QED BY <1>5, <1>6

\* A step that counts no success and observes no flush.
LEMMA CountersKept ==
  ASSUME CountersInv, NEW m, SameSuccesses(m, metrics),
         AllAddUp(metrics') /\ Successes(metrics') = Successes(m),
         "flush" \in Operation => Len(log'.of["flush"]) = Len(log.of["flush"])
  PROVE  CountersInv'
BY DEF CountersInv, SameSuccesses, AllAddUp, Successes

LEMMA InitCounters == Init => CountersInv
<1> SUFFICES ASSUME Init PROVE CountersInv
  OBVIOUS
<1>1. metrics.counters = [n \in CounterNames |-> NewCounter]
      /\ log = [all |-> <<>>, of |-> [o \in Operation |-> <<>>]]
  BY DEF Init, NewMetrics
<1>2. NewCounter.total = 0 /\ NewCounter.byLabel = <<>> /\ DOMAIN NewCounter.byLabel = {}
      /\ NewCounter.byLabel \in [{} -> Nat]
  BY DEF NewCounter
<1>3. AddsUp(NewCounter)
  BY <1>2, TotalNone, FS_EmptySet DEF AddsUp
<1>4. \A n \in CounterNames : metrics.counters[n] = NewCounter
  BY <1>1
<1>5. CountOf(metrics, "flush", "success") = 0
  BY <1>2, <1>4 DEF CountOf, CounterNames
<1>6. "flush" \in Operation => Len(log.of["flush"]) = 0
  BY <1>1
<1>7. metrics.counters = [n \in CounterNames |-> metrics.counters[n]]
  BY <1>1
<1>8. \A n \in CounterNames : AddsUp(metrics.counters[n])
  BY <1>3, <1>4
<1> QED BY <1>5, <1>6, <1>7, <1>8 DEF CountersInv

LEMMA NextCounters == TypeOK /\ RingsInv /\ CountersInv /\ [Next]_vars => CountersInv'
<1> SUFFICES ASSUME TypeOK, RingsInv, CountersInv, [Next]_vars PROVE CountersInv'
  OBVIOUS
<1>1. ASSUME UNCHANGED <<metrics, log>> PROVE CountersInv'
  BY <1>1 DEF CountersInv, CountOf
<1>2. AllAddUp(metrics) /\ SameSuccesses(metrics, metrics)
  BY DEF RingsInv, CountersInv, AllAddUp, SameSuccesses
<1>3. ASSUME NEW r \in Request, NEW ms \in Latency, Succeed(r, ms) PROVE CountersInv'
  <2> route[r] \in {"tokenize", "rehydrate", "flush", "rotate", "health", "metrics"}
      /\ route[r] \in Operation
    BY LifecycleAssumption DEF TypeOK
  <2>1. CASE route[r] = "tokenize"
    <3>1. PICK n \in 0..1 : Observe(RecordTokenization(metrics, "regex", n), "tokenize", ms)
      BY <1>3, <2>1 DEF Succeed
    <3> DEFINE called == Increment(metrics, "tokenizations", "regex")
               m == RecordTokenization(metrics, "regex", n)
    <3>2. SameSuccesses(called, metrics)
      BY <1>2, OtherCounts DEF Increment, CounterNames
    <3>3. m = IF n = 0 THEN called ELSE IncrementBy(called, "tokens_created", All, n)
      BY DEF RecordTokenization
    <3> HIDE DEF called, m
    <3>4. SameSuccesses(IncrementBy(called, "tokens_created", All, n), metrics)
      BY <3>2, OtherCounts DEF CounterNames
    <3>5. SameSuccesses(m, metrics)
      BY <3>2, <3>3, <3>4
    <3>6. Observe(m, "tokenize", ms)
      BY <3>1 DEF m
    <3>7. /\ AllAddUp(metrics') /\ Successes(metrics') = Successes(m)
          /\ "flush" \in Operation => Len(log'.of["flush"]) = Len(log.of["flush"]) + 0
      BY <2>1, <3>5, <3>6, ObserveCounts DEF SameSuccesses
    <3>8. "flush" \in Operation => Len(log.of["flush"]) \in Nat
      BY DEF RingsInv
    <3> QED BY <3>5, <3>7, <3>8, CountersKept
  <2>2. CASE route[r] = "rehydrate"
    <3>1. Observe(metrics, "rehydrate", ms)
      BY <1>3, <2>2 DEF Succeed
    <3>2. /\ AllAddUp(metrics') /\ Successes(metrics') = Successes(metrics)
          /\ "flush" \in Operation => Len(log'.of["flush"]) = Len(log.of["flush"]) + 0
      BY <1>2, <2>2, <3>1, ObserveCounts
    <3>3. "flush" \in Operation => Len(log.of["flush"]) \in Nat
      BY DEF RingsInv
    <3> QED BY <1>2, <3>2, <3>3, CountersKept
  <2>3. CASE route[r] = "flush"
    <3> DEFINE m == RecordFlush(metrics, "success")
    <3>1. m = IncrementBy(metrics, "flush", "success", 1)
      BY DEF RecordFlush, Increment
    <3>2. Observe(m, "flush", ms)
      BY <1>3, <2>3 DEF Succeed
    <3> HIDE DEF m
    <3>3. AllAddUp(m) /\ Successes(m) = Successes(metrics) + 1
      <4>1. "flush" \in CounterNames /\ 1 \in Nat
        BY DEF CounterNames
      <4>2. /\ AllAddUp(m)
            /\ \A l : CountOf(m, "flush", l) =
                        CountOf(metrics, "flush", l) + (IF l = "success" THEN 1 ELSE 0)
        BY <1>2, <3>1, <4>1, IncrementMoves
      <4> QED BY <4>2 DEF Successes
    <3>4. /\ AllAddUp(metrics') /\ Successes(metrics') = Successes(m)
          /\ Len(log'.of["flush"]) = Len(log.of["flush"]) + 1
      BY <2>3, <3>2, <3>3, ObserveCounts
    <3> QED BY <2>3, <3>3, <3>4 DEF CountersInv, AllAddUp, Successes
  <2>4. CASE route[r] = "rotate"
    <3>1. metrics' = IncrementBy(metrics, "dek_rotations", All, 1) /\ UNCHANGED log
      BY <1>3, <2>4 DEF Succeed, RecordDekRotation, Increment
    <3>2. SameSuccesses(metrics', metrics)
      BY <1>2, <3>1, OtherCounts DEF CounterNames
    <3> QED BY <1>2, <3>1, <3>2, CountersKept DEF SameSuccesses
  <2>5. CASE route[r] = "health"
    <3>1. metrics' = IncrementBy(metrics, "health_checks", "healthy", 1) /\ UNCHANGED log
      BY <1>3, <2>5 DEF Succeed, RecordHealthCheck, Increment
    <3>2. SameSuccesses(metrics', metrics)
      BY <1>2, <3>1, OtherCounts DEF CounterNames
    <3> QED BY <1>2, <3>1, <3>2, CountersKept DEF SameSuccesses
  <2>6. CASE route[r] = "metrics"
    BY <1>1, <1>3, <2>6 DEF Succeed
  <2> QED BY <2>1, <2>2, <2>3, <2>4, <2>5, <2>6
<1>4. ASSUME NEW r \in Request, Fail(r) PROVE CountersInv'
  <2> DEFINE failed == IncrementBy(metrics, "failures", "redis_error", 1)
  <2>1. /\ UNCHANGED log
        /\ metrics' \in {IncrementBy(metrics, "health_checks", "degraded", 1),
                         IncrementBy(failed, "flush", "fallback_ttl", 1),
                         metrics, failed,
                         IncrementBy(metrics, "monthly_quota_exceeded", "free", 1)}
    BY <1>4 DEF Fail, RecordHealthCheck, RecordFlush, RecordFailure, RecordMonthlyQuotaExceeded,
                Increment
  <2>2. SameSuccesses(failed, metrics)
    BY <1>2, OtherCounts DEF CounterNames
  <2> HIDE DEF failed
  <2>3. SameSuccesses(IncrementBy(failed, "flush", "fallback_ttl", 1), metrics)
    BY <2>2, OtherCounts DEF CounterNames
  <2>4. SameSuccesses(IncrementBy(metrics, "health_checks", "degraded", 1), metrics)
    BY <1>2, OtherCounts DEF CounterNames
  <2>5. SameSuccesses(IncrementBy(metrics, "monthly_quota_exceeded", "free", 1), metrics)
    BY <1>2, OtherCounts DEF CounterNames
  <2>6. SameSuccesses(metrics', metrics)
    BY <1>2, <2>1, <2>2, <2>3, <2>4, <2>5
  <2> QED BY <1>2, <2>1, <2>6, CountersKept DEF SameSuccesses
<1>5. CASE UNCHANGED vars
  BY <1>1, <1>5 DEF vars
<1>6. CASE Connect \/ Load \/ Stop \/ Shutdown \/ Drain \/ Expire \/ Sweep \/ Close
  BY <1>1, <1>6 DEF Connect, Load, Stop, Shutdown, Drain, Expire, Sweep, Close
<1>7. ASSUME NEW r \in Request, Arrive(r) \/ Register(r) \/ Leave(r) PROVE CountersInv'
  BY <1>1, <1>7 DEF Arrive, Register, Leave
<1> QED BY <1>3, <1>4, <1>5, <1>6, <1>7 DEF Next

-----------------------------------------------------------------------------
\* The counts of the buckets never fall and end at the number of the samples.
\* (metrics.py 314-331.)
LEMMA BucketsRise ==
  ASSUME NEW samples, NEW n \in Nat, samples \in [1..n -> Int]
  PROVE  LET b == Buckets(samples)
         IN /\ \A i \in 1..(Len(b) - 1) : b[i] <= b[i + 1]
            /\ b[Len(b)] = Len(samples)
<1> DEFINE b == Buckets(samples)
           p == Len(PromBuckets)
           count(i) == UpTo(samples, PromBuckets[i])
<1>1. /\ p \in Nat /\ DOMAIN PromBuckets = 1..p
      /\ \A i \in 1..p : PromBuckets[i] \in Int
      /\ \A i \in 1..p - 1 : PromBuckets[i] <= PromBuckets[i + 1]
  BY MetricsAssumption
<1>2. b = [i \in 1..p + 1 |-> IF i \in 1..p THEN count(i) ELSE Len(samples)]
  BY <1>1 DEF Buckets
<1>3. Len(samples) = n /\ DOMAIN samples = 1..n /\ \A j \in 1..n : samples[j] \in Int
  OBVIOUS
<1>4. IsFiniteSet(1..n) /\ Cardinality(1..n) = n
  BY FS_Interval
<1>5. ASSUME NEW x \in Int
      PROVE  /\ IsFiniteSet({j \in DOMAIN samples : samples[j] <= x})
             /\ UpTo(samples, x) \in Nat /\ UpTo(samples, x) <= n
  <2> DEFINE low == {j \in DOMAIN samples : samples[j] <= x}
  <2>1. low \in SUBSET (1..n)
    BY <1>3
  <2>2. UpTo(samples, x) = Cardinality(low)
    BY DEF UpTo
  <2> HIDE DEF low
  <2>3. IsFiniteSet(low) /\ Cardinality(low) <= n
    <3>1. IsFiniteSet(low) /\ Cardinality(low) <= Cardinality(1..n)
      BY <1>4, <2>1, FS_Subset
    <3> QED BY <1>4, <3>1
  <2>4. Cardinality(low) \in Nat
    BY <2>3, FS_CardinalityType
  <2> QED BY <2>2, <2>3, <2>4 DEF low
<1>6. ASSUME NEW x \in Int, NEW y \in Int, x <= y
      PROVE  UpTo(samples, x) <= UpTo(samples, y)
  <2>1. {j \in DOMAIN samples : samples[j] <= x} \in SUBSET {j \in DOMAIN samples : samples[j] <= y}
    BY <1>3, <1>6
  <2> QED BY <1>5, <2>1, FS_Subset DEF UpTo
<1> HIDE DEF b, p
<1>7. Len(b) = p + 1 /\ b[p + 1] = Len(samples) /\ \A i \in 1..p : b[i] = count(i)
  BY <1>1, <1>2
<1>8. ASSUME NEW i \in 1..p PROVE b[i] <= b[i + 1]
  <2>1. CASE i + 1 \in 1..p
    <3>1. PromBuckets[i] <= PromBuckets[i + 1] /\ PromBuckets[i] \in Int /\ PromBuckets[i + 1] \in Int
      BY <1>1, <2>1
    <3>2. count(i) <= count(i + 1)
      BY <1>6, <3>1
    <3> HIDE DEF count
    <3> QED BY <1>7, <2>1, <3>2
  <2>2. CASE i = p
    <3>1. count(i) <= n
      BY <1>1, <1>5
    <3> HIDE DEF count
    <3> QED BY <1>3, <1>7, <2>2, <3>1
  <2>3. i + 1 \in 1..p \/ i = p
    BY <1>1
  <2> QED BY <2>1, <2>2, <2>3
<1>9. 1..(Len(b) - 1) = 1..p
  BY <1>1, <1>7
<1> QED BY <1>7, <1>8, <1>9 DEF b

\* The lines of one counter.
LinesOf(n, by) ==
  IF DOMAIN by \subseteq {All}
    THEN {<<n, All, IF by = <<>> THEN 0 ELSE by[All]>>}
    ELSE {<<n, k, by[k]>> : k \in DOMAIN by}

LEMMA LinesOfOne ==
  ASSUME NEW m, NEW n \in CounterNames
  PROVE  {l \in CounterLines(m) : l[1] = n} = LinesOf(n, m.counters[n].byLabel)
<1>1. CounterLines(m) = UNION {LinesOf(k, m.counters[k].byLabel) : k \in CounterNames}
  BY DEF CounterLines, LinesOf
<1>2. \A k : \A l \in LinesOf(k, m.counters[k].byLabel) : l[1] = k
  BY DEF LinesOf
<1> QED BY <1>1, <1>2

\* The value of one line, and of none.
LEMMA OneLine ==
  ASSUME NEW l, l[3] \in Nat
  PROVE  LineSum({l}) = l[3] /\ LineSum({}) = 0
<1> DEFINE f == [x \in {l} |-> x[3]]
<1>1. f[l] = l[3]
  OBVIOUS
<1> HIDE DEF f
<1>2. Total(f, {l}) = l[3]
  BY <1>1, TotalOne
<1> QED BY <1>2, TotalNone DEF LineSum, f

\* The lines of a counter add up to it.  (metrics.py 279-296.)
LEMMA LinesAddUp ==
  ASSUME NEW c, AddsUp(c), NEW n
  PROVE  LineSum(LinesOf(n, c.byLabel)) = c.total
<1> DEFINE by == c.byLabel
           D == DOMAIN by
<1>1. IsFiniteSet(D) /\ by \in [D -> Nat] /\ c.total = Total(by, D)
  BY DEF AddsUp
<1> HIDE DEF by
<1>2. CASE D = {}
  <2>1. by = <<>>
    BY <1>1, <1>2
  <2>2. LinesOf(n, by) = {<<n, All, 0>>}
    BY <1>2, <2>1 DEF LinesOf
  <2>3. LineSum({<<n, All, 0>>}) = 0
    BY OneLine
  <2> QED BY <1>1, <1>2, <2>2, <2>3, TotalNone DEF by
<1>3. CASE D = {All}
  <2>1. by # <<>>
    BY <1>3
  <2>2. LinesOf(n, by) = {<<n, All, by[All]>>} /\ by[All] \in Nat
    BY <1>1, <1>3, <2>1 DEF LinesOf
  <2>3. LineSum({<<n, All, by[All]>>}) = by[All]
    <3> DEFINE l == <<n, All, by[All]>>
    <3>1. l[3] = by[All]
      OBVIOUS
    <3> HIDE DEF l
    <3>2. LineSum({l}) = by[All]
      BY <2>2, <3>1, OneLine
    <3> QED BY <3>2 DEF l
  <2>4. Total(by, D) = by[All]
    BY <1>3, <2>2, TotalOne
  <2> QED BY <1>1, <2>2, <2>3, <2>4 DEF by
<1>4. CASE ~ (D \subseteq {All})
  <2> DEFINE T == {<<n, k, by[k]>> : k \in D}
             g == [l \in T |-> l[3]]
             h == [k \in D |-> <<n, k, by[k]>>]
  <2>1. LinesOf(n, by) = T
    BY <1>4 DEF LinesOf
  <2>2. h \in Bijection(D, T)
    <3>1. h \in [D -> T] /\ \A x, y \in D : h[x] = h[y] => x = y
      OBVIOUS
    <3>2. \A y \in T : \E x \in D : h[x] = y
      OBVIOUS
    <3> HIDE DEF h, T
    <3> QED BY <3>1, <3>2 DEF Bijection, Injection, IsInjective, Surjection
  <2>3. ASSUME NEW k \in D PROVE by[k] \in Nat /\ by[k] = g[h[k]]
    <3>1. h[k] = <<n, k, by[k]>> /\ h[k] \in T
      OBVIOUS
    <3>2. g[h[k]] = h[k][3]
      <4> HIDE DEF h, T
      <4> QED BY <3>1
    <3> QED BY <1>1, <3>1, <3>2
  <2>4. Total(by, D) = Total(g, T)
    <3> HIDE DEF g, h, T
    <3> QED BY <1>1, <2>2, <2>3, TotalImage
  <2>5. LineSum(T) = Total(g, T)
    BY DEF LineSum
  <2> QED BY <1>1, <2>1, <2>4, <2>5 DEF by
<1> QED BY <1>2, <1>3, <1>4

\* The line of the flushes that succeeded, if there is one yet.
LEMMA SuccessLines ==
  ASSUME NEW m, AllAddUp(m)
  PROVE  LineSum({l \in CounterLines(m) : l[1] = "flush" /\ l[2] = "success"}) = Successes(m)
<1> DEFINE by == m.counters["flush"].byLabel
           lines == {l \in CounterLines(m) : l[1] = "flush" /\ l[2] = "success"}
<1>1. "flush" \in CounterNames /\ by \in [DOMAIN by -> Nat]
  BY DEF AllAddUp, AddsUp, CounterNames
<1>2. lines = {l \in LinesOf("flush", by) : l[2] = "success"}
  <2>1. {l \in CounterLines(m) : l[1] = "flush"} = LinesOf("flush", by)
    BY <1>1, LinesOfOne
  <2> HIDE DEF by
  <2> QED BY <2>1
<1>3. Successes(m) = IF "success" \in DOMAIN by THEN by["success"] ELSE 0
  BY DEF Successes, CountOf
<1> HIDE DEF by, lines
<1>4. "success" # All
  BY DEF All
<1>5. CASE "success" \in DOMAIN by
  <2>1. LinesOf("flush", by) = {<<"flush", k, by[k]>> : k \in DOMAIN by}
    BY <1>4, <1>5 DEF LinesOf
  <2>2. lines = {<<"flush", "success", by["success"]>>}
    BY <1>2, <1>5, <2>1
  <2>3. by["success"] \in Nat
    BY <1>1, <1>5
  <2>4. LineSum(lines) = by["success"]
    <3> DEFINE l == <<"flush", "success", by["success"]>>
    <3>1. l[3] = by["success"]
      OBVIOUS
    <3> HIDE DEF l
    <3>2. LineSum({l}) = by["success"]
      BY <2>3, <3>1, OneLine
    <3> QED BY <2>2, <3>2 DEF l
  <2> QED BY <1>3, <1>5, <2>4 DEF lines
<1>6. CASE "success" \notin DOMAIN by
  <2>1. lines = {}
    BY <1>2, <1>4, <1>6 DEF LinesOf
  <2>2. LineSum({}) = 0
    BY TotalNone DEF LineSum
  <2> QED BY <1>3, <1>6, <2>1, <2>2 DEF lines
<1> QED BY <1>5, <1>6

\* What the invariants say of what Prometheus reads.
LEMMA ExpositionHolds ==
  ASSUME RingsInv, CountersInv
  PROVE  ExpositionConsistent
<1>1. AllAddUp(metrics)
  BY DEF RingsInv, CountersInv, AllAddUp
<1>2. ASSUME NEW h \in HistogramLines(metrics)
      PROVE  /\ \A i \in 1..(Len(h.buckets) - 1) : h.buckets[i] <= h.buckets[i + 1]
             /\ h.buckets[Len(h.buckets)] = h.count
  <2> DEFINE byLabel == metrics.latency.byLabel
             overall == metrics.latency.overall
             series == IF byLabel = <<>> THEN [k \in {All} |-> overall] ELSE byLabel
  <2>1. PICK k \in DOMAIN series :
          h = [label |-> k, buckets |-> Buckets(series[k].samples),
               count |-> Len(series[k].samples), sum |-> Sum(series[k].samples)]
    BY DEF HistogramLines
  <2> DEFINE samples == series[k].samples
  <2>2. \E n \in Nat : samples \in [1..n -> Int]
    <3>1. /\ Follows(overall, log.all) /\ log.all \in Seq(Latency)
          /\ \A o \in DOMAIN byLabel : Follows(byLabel[o], log.of[o]) /\ log.of[o] \in Seq(Latency)
      BY DEF RingsInv
    <3>2. /\ \E n \in Nat : overall.samples \in [1..n -> Int]
          /\ \A o \in DOMAIN byLabel : \E n \in Nat : byLabel[o].samples \in [1..n -> Int]
      BY <3>1, RingSamples
    <3>3. series[k] = overall \/ (k \in DOMAIN byLabel /\ series[k] = byLabel[k])
      OBVIOUS
    <3> HIDE DEF series
    <3> QED BY <3>2, <3>3
  <2> HIDE DEF samples
  <2>3. h.buckets = Buckets(samples) /\ h.count = Len(samples)
    BY <2>1 DEF samples
  <2> QED BY <2>2, <2>3, BucketsRise
<1>3. ASSUME NEW n \in CounterNames
      PROVE  LineSum({l \in CounterLines(metrics) : l[1] = n}) = metrics.counters[n].total
  <2>1. {l \in CounterLines(metrics) : l[1] = n} = LinesOf(n, metrics.counters[n].byLabel)
    BY LinesOfOne
  <2>2. AddsUp(metrics.counters[n])
    BY <1>1 DEF AllAddUp
  <2> QED BY <2>1, <2>2, LinesAddUp
<1>4. "flush" \in Operation =>
        LineSum({l \in CounterLines(metrics) : l[1] = "flush" /\ l[2] = "success"})
          = Len(log.of["flush"])
  BY <1>1, SuccessLines DEF CountersInv, Successes
<1> QED BY <1>2, <1>3, <1>4 DEF ExpositionConsistent

\* In what Prometheus reads the buckets never fall and end at the count, the
\* lines of every counter add up to its total, and as many flushes have a
\* latency as are counted as a success; for any bounds of the buckets, any
\* capacity and however many requests.  (metrics.py 271-343.)
THEOREM LifecycleExposition == Spec => []ExpositionConsistent
<1>1. RingsInv /\ CountersInv => ExpositionConsistent
  BY ExpositionHolds
<1>2. LifecycleInv => TypeOK
  BY DEF LifecycleInv
<1> QED
  BY <1>1, <1>2, LifecycleInvariant, InitRings, NextRings, InitCounters, NextCounters, PTL
     DEF Spec
=============================================================================
