---------------------------- MODULE LimitsProofs ----------------------------
(***************************************************************************)
(* Proofs about the quotas and the rate limit: the month's counter covers  *)
(* what it let pass, the vault passes its quota by no more than what the   *)
(* calls that run at once may add, and no calendar minute lets more        *)
(* requests pass than the limit.  All three are about sums, whose laws are *)
(* those of CountingProofs.                                                *)
(***************************************************************************)
EXTENDS Quotas, RateLimit, CountingProofs

-----------------------------------------------------------------------------
\* The types of the quotas.
LEMMA QuotaTypes == Spec => []TypeOK
<1>1. Init => TypeOK
  <2> SUFFICES ASSUME Init PROVE TypeOK
    OBVIOUS
  <2>1. (CHOOSE r \in Request : TRUE) \in Request
    BY RequestAssumption
  <2>2. 1 \in 1..Months /\ 0 \in 0..MaxSpans
    BY SpansAssumption
  <2> QED BY <2>1, <2>2 DEF Init, TypeOK, CallState
<1>2. TypeOK /\ [Next]_vars => TypeOK'
  <2> SUFFICES ASSUME TypeOK, [Next]_vars PROVE TypeOK'
    OBVIOUS
  <2> USE DEF TypeOK
  <2>1. CASE UNCHANGED vars
    BY <2>1 DEF vars
  <2>2. ASSUME NEW c \in Call, NEW r \in Request, NEW n \in 0..MaxSpans, Start(c, r, n)
        PROVE  TypeOK'
    <3> DEFINE started == [call[c] EXCEPT !.pc = "count", !.req = r, !.n = n,
                                          !.toScan = Request, !.total = 0, !.reply = "none"]
    <3>1. call[c] \in CallState
      OBVIOUS
    <3>2. started \in CallState
      BY ONLY <3>1, r \in Request, n \in 0..MaxSpans DEF CallState
    <3>3. call' = [call EXCEPT ![c] = started] /\ UNCHANGED <<held, month, counter, accepted>>
      BY <2>2 DEF Start, Only
    <3> HIDE DEF started
    <3> QED BY <3>2, <3>3
  <2>3. ASSUME NEW c \in Call, NEW q \in Request, CountSet(c, q) PROVE TypeOK'
    <3>1. call[c].toScan \ {q} \in SUBSET Request /\ call[c].total + held[q] \in Nat
      BY DEF CallState
    <3>2. [call[c] EXCEPT !.toScan = @ \ {q}, !.total = @ + held[q]] \in CallState
      BY <3>1 DEF CallState
    <3> QED BY <2>3, <3>2 DEF CountSet, Only
  <2>4. ASSUME NEW c \in Call, CheckVault(c) PROVE TypeOK'
    <3>1. \A r \in {"ok", "vault"} : [call[c] EXCEPT !.pc = "idle", !.reply = r] \in CallState
      BY DEF CallState
    <3>2. \A p \in {"store", "reserve"} : [call[c] EXCEPT !.pc = p, !.month = month] \in CallState
      BY DEF CallState
    <3> QED BY <2>4, <3>1, <3>2 DEF CheckVault, Only, Finish
  <2>5. ASSUME NEW c \in Call, Reserve(c) PROVE TypeOK'
    <3>1. \A p \in {"store", "rollback"} : [call[c] EXCEPT !.pc = p] \in CallState
      BY DEF CallState
    <3>2. call[c].month \in 1..Months /\ call[c].n \in Nat
      BY DEF CallState
    <3>3. PICK times \in {1, 2} :
             /\ counter' = [counter EXCEPT ![call[c].month] = @ + times * call[c].n]
             /\ \E p \in {"store", "rollback"} :
                  call' = [call EXCEPT ![c] = [call[c] EXCEPT !.pc = p]]
             /\ \/ accepted' = accepted
                \/ accepted' = [accepted EXCEPT ![call[c].month] = @ + call[c].n]
      BY <2>5 DEF Reserve
    <3>4. times * call[c].n \in Int
      BY <3>2
    <3>5. call' \in [Call -> CallState]
      BY <3>1, <3>3
    <3>6. counter' \in [1..Months -> Int]
      BY <3>2, <3>3, <3>4
    <3>7. accepted' \in [1..Months -> Nat]
      BY ONLY <3>2, <3>3, accepted \in [1..Months -> Nat]
    <3> QED BY <2>5, <3>5, <3>6, <3>7 DEF Reserve
  <2>6. ASSUME NEW c \in Call, Rollback(c) PROVE TypeOK'
    <3>1. [call[c] EXCEPT !.pc = "idle", !.reply = "monthly"] \in CallState
      BY DEF CallState
    <3>2. call[c].month \in 1..Months /\ call[c].n \in Nat
      BY DEF CallState
    <3>3. PICK times \in {1, 2} :
             counter' = [counter EXCEPT ![call[c].month] = @ - times * call[c].n]
      BY <2>6 DEF Rollback
    <3>4. times * call[c].n \in Int
      BY <3>2
    <3>5. counter' \in [1..Months -> Int]
      BY ONLY <3>2, <3>3, <3>4, counter \in [1..Months -> Int]
    <3>6. call' \in [Call -> CallState]
      BY <2>6, <3>1 DEF Rollback, Finish
    <3> QED BY <2>6, <3>5, <3>6 DEF Rollback
  <2>7. ASSUME NEW c \in Call, StoreToken(c) PROVE TypeOK'
    <3>1. call[c].req \in Request /\ call[c].n - 1 \in 0..MaxSpans
      BY <2>7, SpansAssumption DEF CallState, StoreToken
    <3>2. \A p \in {"idle", call[c].pc}, r \in {"ok", call[c].reply} :
            [call[c] EXCEPT !.n = @ - 1, !.pc = p, !.reply = r] \in CallState
      <4>1. call[c] \in CallState
        OBVIOUS
      <4> QED BY ONLY <3>1, <4>1 DEF CallState
    <3>3. \E p \in {"idle", call[c].pc}, r \in {"ok", call[c].reply} :
            call' = [call EXCEPT ![c] = [call[c] EXCEPT !.n = @ - 1, !.pc = p, !.reply = r]]
      <4>1. CASE call[c].n = 1
        BY <2>7, <4>1 DEF StoreToken
      <4>2. CASE call[c].n # 1
        BY <2>7, <4>2 DEF StoreToken
      <4> QED BY <4>1, <4>2
    <3>4. call' \in [Call -> CallState]
      BY <3>2, <3>3
    <3>5. held' \in [Request -> Nat]
      BY <2>7, <3>1 DEF StoreToken
    <3> QED BY <2>7, <3>4, <3>5 DEF StoreToken
  <2>8. ASSUME NEW c \in Call, Abort(c) PROVE TypeOK'
    <3>1. [call[c] EXCEPT !.pc = "idle", !.reply = "failed"] \in CallState
      BY DEF CallState
    <3> QED BY <2>8, <3>1 DEF Abort, Only, Finish
  <2>9. ASSUME NEW r \in Request, Release(r) PROVE TypeOK'
    BY <2>9 DEF Release
  <2>10. CASE NewMonth
    BY <2>10, SpansAssumption DEF NewMonth
  <2> QED BY <2>1, <2>2, <2>3, <2>4, <2>5, <2>6, <2>7, <2>8, <2>9, <2>10 DEF Next
<1> QED BY <1>1, <1>2, PTL DEF Spec

\* The fields of a call.
LEMMA CallFields ==
  ASSUME NEW calls \in [Call -> CallState], NEW c \in Call
  PROVE  /\ calls[c].req \in Request
         /\ calls[c].toScan \in SUBSET Request
         /\ calls[c].total \in Nat
         /\ calls[c].n \in Nat /\ calls[c].n <= MaxSpans
         /\ calls[c].month \in 1..Months
  BY SpansAssumption DEF CallState

\* What the steps of a call make of its record; the others stay as they are.
OnlyCall(c) == \A d \in Call \ {c} : call'[d] = call[d]

LEMMA CallSteps ==
  ASSUME call \in [Call -> CallState], NEW c \in Call
  PROVE  /\ \A r \in Request, n \in 0..MaxSpans : Start(c, r, n) =>
              /\ OnlyCall(c) /\ call[c].pc = "idle" /\ call'[c].pc = "count"
              /\ call'[c].toScan = Request /\ call'[c].total = 0
         /\ \A q \in Request : CountSet(c, q) =>
              /\ OnlyCall(c) /\ call[c].pc = "count" /\ call'[c].pc = "count"
              /\ q \in call[c].toScan /\ call'[c].toScan = call[c].toScan \ {q}
              /\ call'[c].total = call[c].total + held[q]
         /\ CheckVault(c) =>
              /\ OnlyCall(c) /\ call[c].pc = "count" /\ call[c].toScan = {}
              /\ \/ call'[c].pc = "idle"
                 \/ /\ call'[c].pc \in {"store", "reserve"} /\ call'[c].n = call[c].n
                    /\ ~ VaultFull(call[c].total)
         /\ Reserve(c) =>
              /\ OnlyCall(c) /\ call[c].pc = "reserve"
              /\ call'[c].pc \in {"store", "rollback"} /\ call'[c].n = call[c].n
         /\ Rollback(c) => OnlyCall(c) /\ call[c].pc = "rollback" /\ call'[c].pc = "idle"
         /\ StoreToken(c) =>
              /\ OnlyCall(c) /\ call[c].pc = "store" /\ call[c].n > 0
              /\ call'[c].n = call[c].n - 1
              /\ call'[c].pc = IF call[c].n = 1 THEN "idle" ELSE "store"
         /\ Abort(c) => OnlyCall(c) /\ call[c].pc # "idle" /\ call'[c].pc = "idle"
<1> USE DEF OnlyCall, CallState
<1>1. ASSUME NEW r \in Request, NEW n \in 0..MaxSpans, Start(c, r, n)
      PROVE  /\ OnlyCall(c) /\ call[c].pc = "idle" /\ call'[c].pc = "count"
             /\ call'[c].toScan = Request /\ call'[c].total = 0
  BY <1>1 DEF Start
<1>2. ASSUME NEW q \in Request, CountSet(c, q)
      PROVE  /\ OnlyCall(c) /\ call[c].pc = "count" /\ call'[c].pc = "count"
             /\ q \in call[c].toScan /\ call'[c].toScan = call[c].toScan \ {q}
             /\ call'[c].total = call[c].total + held[q]
  BY <1>2 DEF CountSet
<1>3. ASSUME CheckVault(c)
      PROVE  /\ OnlyCall(c) /\ call[c].pc = "count" /\ call[c].toScan = {}
             /\ \/ call'[c].pc = "idle"
                \/ /\ call'[c].pc \in {"store", "reserve"} /\ call'[c].n = call[c].n
                   /\ ~ VaultFull(call[c].total)
  BY <1>3 DEF CheckVault, Finish
<1>4. ASSUME Reserve(c)
      PROVE  /\ OnlyCall(c) /\ call[c].pc = "reserve"
             /\ call'[c].pc \in {"store", "rollback"} /\ call'[c].n = call[c].n
  BY <1>4 DEF Reserve
<1>5. ASSUME Rollback(c)
      PROVE  OnlyCall(c) /\ call[c].pc = "rollback" /\ call'[c].pc = "idle"
  BY <1>5 DEF Rollback, Finish
<1>6. ASSUME StoreToken(c)
      PROVE  /\ OnlyCall(c) /\ call[c].pc = "store" /\ call[c].n > 0
             /\ call'[c].n = call[c].n - 1
             /\ call'[c].pc = IF call[c].n = 1 THEN "idle" ELSE "store"
  BY <1>6 DEF StoreToken
<1>7. ASSUME Abort(c)
      PROVE  OnlyCall(c) /\ call[c].pc # "idle" /\ call'[c].pc = "idle"
  BY <1>7 DEF Abort, Finish
<1> HIDE DEF OnlyCall, CallState
<1> QED BY <1>1, <1>2, <1>3, <1>4, <1>5, <1>6, <1>7

\* What is owed changes with the one call that changes.
LEMMA OwedMoves ==
  ASSUME TypeOK, TypeOK', NEW c \in Call, \A d \in Call \ {c} : call'[d] = call[d],
         NEW m \in 1..Months
  PROVE  /\ Total(Debt(m), Call) \in Nat
         /\ Total(Debt(m)', Call) \in Nat
         /\ Total(Debt(m)', Call) = Total(Debt(m), Call) - Debt(m)[c] + Debt(m)'[c]
<1>1. \A d \in Call : Debt(m)[d] \in Nat /\ Debt(m)'[d] \in Nat
  <2>1. call \in [Call -> CallState] /\ call' \in [Call -> CallState]
    BY DEF TypeOK
  <2> QED BY <2>1, CallFields DEF Debt
<1>2. \A d \in Call \ {c} : Debt(m)[d] = Debt(m)'[d]
  BY DEF Debt
<1> HIDE DEF Debt
<1> QED BY <1>1, <1>2, CallAssumption, TotalFinite, TotalUpdate

\* A step of a call that leaves the counters alone and does not make it owe
\* anything keeps the counters covering.
LEMMA OwesNoMore ==
  ASSUME TypeOK, TypeOK', CounterCovers, UNCHANGED <<counter, accepted>>,
         NEW c \in Call, \A d \in Call \ {c} : call'[d] = call[d],
         call'[c].pc # "rollback"
  PROVE  CounterCovers'
<1> SUFFICES ASSUME NEW m \in 1..Months
             PROVE  counter'[m] >= accepted'[m] + Total(Debt(m)', Call)
  BY DEF CounterCovers
<1>1. Debt(m)'[c] = 0 /\ Debt(m)[c] \in Nat
  BY CallFields DEF Debt, TypeOK
<1>2. counter[m] >= accepted[m] + Total(Debt(m), Call)
  BY DEF CounterCovers
<1>3. counter[m] \in Int /\ accepted[m] \in Nat
  BY DEF TypeOK
<1> QED BY <1>1, <1>2, <1>3, OwedMoves

LEMMA ReserveCovers ==
  ASSUME TypeOK, TypeOK', CounterCovers, AcceptedWithinLimit, ~Resends,
         NEW c \in Call, Reserve(c)
  PROVE  CounterCovers' /\ AcceptedWithinLimit'
<1> DEFINE k == call[c].month
           n == call[c].n
           over == OverLimit(counter[k] + n, n)
<1>1. k \in 1..Months /\ n \in Nat /\ counter[k] \in Int
  BY CallFields DEF TypeOK
<1>2. /\ counter' = [counter EXCEPT ![k] = counter[k] + 1 * n]
      /\ call' = [call EXCEPT ![c].pc = IF OverLimit(counter[k] + 1 * n, n)
                                        THEN "rollback" ELSE "store"]
      /\ accepted' = IF OverLimit(counter[k] + 1 * n, n) THEN accepted
                     ELSE [accepted EXCEPT ![k] = @ + n]
      /\ call[c].pc = "reserve"
  BY ONLY Reserve(c), ~Resends DEF Reserve
<1>3. 1 * n = n
  BY <1>1
<1>4. /\ counter' = [counter EXCEPT ![k] = counter[k] + n]
      /\ call' = [call EXCEPT ![c].pc = IF over THEN "rollback" ELSE "store"]
      /\ accepted' = IF over THEN accepted ELSE [accepted EXCEPT ![k] = @ + n]
  BY ONLY <1>2, <1>3
<1>5. /\ call'[c] = [call[c] EXCEPT !.pc = IF over THEN "rollback" ELSE "store"]
      /\ \A d \in Call \ {c} : call'[d] = call[d]
  BY ONLY <1>4, TypeOK DEF TypeOK
<1>6. \A m \in 1..Months : Debt(m)[c] = 0
  BY <1>2 DEF Debt
<1>7. \A m \in 1..Months : Debt(m)'[c] = IF over /\ m = k THEN n ELSE 0
  <2>1. /\ call'[c].month = k /\ call'[c].n = n
        /\ call'[c].pc = IF over THEN "rollback" ELSE "store"
    BY <1>5 DEF TypeOK, CallState
  <2> HIDE DEF k, n, over
  <2> QED BY ONLY <2>1, c \in Call DEF Debt
<1>8. \A m \in 1..Months :
        /\ counter[m] \in Int /\ accepted[m] \in Nat
        /\ counter[m] >= accepted[m] + Total(Debt(m), Call)
  BY DEF CounterCovers, TypeOK
<1>9. \A m \in 1..Months :
        /\ counter'[m] = counter[m] + (IF m = k THEN n ELSE 0)
        /\ accepted'[m] = accepted[m] + (IF m = k /\ ~ over THEN n ELSE 0)
  <2> HIDE DEF k, n, over
  <2> QED BY ONLY <1>1, <1>4, <1>8, TypeOK DEF TypeOK
<1>10. ASSUME NEW m \in 1..Months
       PROVE  counter'[m] >= accepted'[m] + Total(Debt(m)', Call)
  <2> HIDE DEF k, n, over
  <2>1. /\ Total(Debt(m), Call) \in Nat
        /\ Total(Debt(m)', Call) = Total(Debt(m), Call) + (IF over /\ m = k THEN n ELSE 0)
    BY <1>1, <1>5, <1>6, <1>7, OwedMoves
  <2> QED BY <2>1, <1>1, <1>8, <1>9
<1>11. ASSUME ~ Unlimited, NEW m \in 1..Months PROVE accepted'[m] <= MonthlyLimit
  <2>1. accepted[m] <= MonthlyLimit
    BY <1>11 DEF AcceptedWithinLimit
  <2>2. Total(Debt(m), Call) \in Nat
    BY <1>5, OwedMoves
  <2>3. ~ over => counter[k] + n <= MonthlyLimit
    BY <1>1, LimitAssumption DEF OverLimit
  <2> HIDE DEF k, n, over
  <2> QED BY <2>1, <2>2, <2>3, <1>1, <1>8, <1>9, LimitAssumption
<1> QED BY <1>10, <1>11 DEF CounterCovers, AcceptedWithinLimit

LEMMA RollbackCovers ==
  ASSUME TypeOK, TypeOK', CounterCovers, ~Resends, NEW c \in Call, Rollback(c)
  PROVE  CounterCovers'
<1> DEFINE k == call[c].month
           n == call[c].n
<1>1. k \in 1..Months /\ n \in Nat
  BY CallFields DEF TypeOK
<1>2. /\ counter' = [counter EXCEPT ![k] = counter[k] - 1 * n]
      /\ accepted' = accepted
      /\ call' = [call EXCEPT ![c].pc = "idle", ![c].reply = "monthly"]
      /\ call[c].pc = "rollback"
  BY ONLY Rollback(c), ~Resends DEF Rollback, Finish
<1>3. counter' = [counter EXCEPT ![k] = counter[k] - n]
  <2>1. 1 * n = n
    BY <1>1
  <2> QED BY ONLY <1>2, <2>1
<1>4. /\ call'[c].pc = "idle"
      /\ \A d \in Call \ {c} : call'[d] = call[d]
  BY ONLY <1>2, TypeOK DEF TypeOK, CallState
<1>5. \A m \in 1..Months :
        /\ Debt(m)[c] = IF m = k THEN n ELSE 0
        /\ Debt(m)'[c] = 0
  BY <1>2, <1>4 DEF Debt
<1>6. \A m \in 1..Months :
        /\ counter[m] \in Int /\ accepted[m] \in Nat
        /\ counter[m] >= accepted[m] + Total(Debt(m), Call)
        /\ counter'[m] = counter[m] - (IF m = k THEN n ELSE 0)
  <2> HIDE DEF k, n
  <2> QED BY <1>1, <1>3 DEF CounterCovers, TypeOK
<1>7. ASSUME NEW m \in 1..Months
      PROVE  counter'[m] >= accepted'[m] + Total(Debt(m)', Call)
  <2> HIDE DEF k, n
  <2>1. /\ Total(Debt(m), Call) \in Nat
        /\ Total(Debt(m)', Call) = Total(Debt(m), Call) - (IF m = k THEN n ELSE 0)
    BY <1>1, <1>4, <1>5, OwedMoves
  <2> QED BY <2>1, <1>1, <1>2, <1>6
<1> QED BY <1>7 DEF CounterCovers

\* While no command is sent twice, the month's counter covers what was accepted
\* and what is about to be taken back, whatever runs at once and wherever calls
\* die; hence in no month more tokens are accepted than the plan allows.
\* (tokenize_text.py 248-276, redis_api_key.py 291-303.)
LEMMA CountersStep ==
  ASSUME TypeOK, TypeOK', CounterCovers, AcceptedWithinLimit, ~Resends, [Next]_vars
  PROVE  CounterCovers' /\ AcceptedWithinLimit'
<1>1. ASSUME UNCHANGED <<counter, call, accepted>>
      PROVE  CounterCovers' /\ AcceptedWithinLimit'
  BY <1>1 DEF CounterCovers, AcceptedWithinLimit, Debt
<1>2. ASSUME NEW c \in Call, UNCHANGED <<counter, accepted>>, OnlyCall(c),
             call'[c].pc # "rollback"
      PROVE  CounterCovers' /\ AcceptedWithinLimit'
  <2>1. CounterCovers'
    BY <1>2, OwesNoMore DEF OnlyCall
  <2> QED BY <1>2, <2>1 DEF AcceptedWithinLimit
<1>3. CASE UNCHANGED vars
  BY <1>1, <1>3 DEF vars
<1> call \in [Call -> CallState]
  BY DEF TypeOK
<1>4. ASSUME NEW c \in Call, NEW r \in Request, NEW n \in 0..MaxSpans, Start(c, r, n)
      PROVE  CounterCovers' /\ AcceptedWithinLimit'
  <2>1. UNCHANGED <<counter, accepted>>
    BY <1>4 DEF Start, Only
  <2> QED BY <1>2, <1>4, <2>1, CallSteps
<1>5. ASSUME NEW c \in Call, NEW q \in Request, CountSet(c, q)
      PROVE  CounterCovers' /\ AcceptedWithinLimit'
  <2>1. UNCHANGED <<counter, accepted>>
    BY <1>5 DEF CountSet, Only
  <2> QED BY <1>2, <1>5, <2>1, CallSteps
<1>6. ASSUME NEW c \in Call, CheckVault(c) PROVE CounterCovers' /\ AcceptedWithinLimit'
  <2>1. UNCHANGED <<counter, accepted>>
    BY <1>6 DEF CheckVault, Only
  <2> QED BY <1>2, <1>6, <2>1, CallSteps
<1>7. ASSUME NEW c \in Call, StoreToken(c) PROVE CounterCovers' /\ AcceptedWithinLimit'
  <2>1. UNCHANGED <<counter, accepted>>
    BY <1>7 DEF StoreToken
  <2> QED BY <1>2, <1>7, <2>1, CallSteps
<1>8. ASSUME NEW c \in Call, Abort(c) PROVE CounterCovers' /\ AcceptedWithinLimit'
  <2>1. UNCHANGED <<counter, accepted>>
    BY <1>8 DEF Abort, Only
  <2> QED BY <1>2, <1>8, <2>1, CallSteps
<1>9. ASSUME NEW c \in Call, Rollback(c) PROVE CounterCovers' /\ AcceptedWithinLimit'
  BY <1>9, RollbackCovers DEF Rollback, AcceptedWithinLimit
<1> QED BY <1>1, <1>3, <1>4, <1>5, <1>6, <1>7, <1>8, <1>9, ReserveCovers
        DEF Next, Release, NewMonth

LEMMA CountersHold ==
  ASSUME ~Resends
  PROVE  Spec => [](TypeOK /\ CounterCovers /\ AcceptedWithinLimit)
<1>1. Init => CounterCovers /\ AcceptedWithinLimit
  <2> SUFFICES ASSUME Init PROVE CounterCovers /\ AcceptedWithinLimit
    OBVIOUS
  <2>1. \A m \in 1..Months : Total(Debt(m), Call) = 0
    <3> TAKE m \in 1..Months
    <3>1. \A c \in Call : Debt(m)[c] = 0
      BY DEF Init, Debt
    <3>2. \A c \in Call : Debt(m)[c] \in Nat /\ Debt(m)[c] <= 0
      BY <3>1
    <3>3. Total(Debt(m), Call) \in Nat /\ Cardinality(Call) \in Nat
      BY <3>2, CallAssumption, TotalFinite, FS_CardinalityType
    <3>4. Total(Debt(m), Call) <= Cardinality(Call) * 0
      BY <3>2, CallAssumption, TotalBound
    <3> QED BY <3>3, <3>4
  <2>2. CounterCovers
    BY <2>1 DEF Init, CounterCovers
  <2>3. AcceptedWithinLimit
    BY LimitAssumption DEF Init, AcceptedWithinLimit, Unlimited
  <2> QED BY <2>2, <2>3
<1>2. TypeOK /\ TypeOK' /\ CounterCovers /\ AcceptedWithinLimit /\ [Next]_vars
        => CounterCovers' /\ AcceptedWithinLimit'
  BY CountersStep
<1> QED BY <1>1, <1>2, QuotaTypes, PTL DEF Spec

\* While no command is sent twice, the month's counter covers what was accepted
\* and what is about to be taken back, whatever runs next to it and wherever
\* calls die.  (tokenize_text.py 248-276, redis_api_key.py 291-303.)
THEOREM QuotaCounterCovers ==
  ASSUME ~Resends
  PROVE  Spec => []CounterCovers
BY CountersHold, PTL

\* While no command is sent twice, no month gets more tokens than the plan
\* allows, for any number of calls that reserve and take back at once.
THEOREM QuotaAcceptedWithinLimit ==
  ASSUME ~Resends
  PROVE  Spec => []AcceptedWithinLimit
BY CountersHold, PTL

-----------------------------------------------------------------------------
\* The vault quota.  All sums are naturals.
LEMMA OvershootNumbers ==
  ASSUME NEW sizes \in [Request -> Nat], NEW calls \in [Call -> CallState],
         NEW S \in SUBSET Request
  PROVE  /\ Total(sizes, S) \in Nat
         /\ Total([c \in Call |-> IF calls[c].pc \in {"reserve", "store"}
                                 THEN calls[c].n ELSE 0], Call) \in Nat
<1>1. IsFiniteSet(S)
  BY RequestAssumption, FS_Subset
<1>2. \A c \in Call : calls[c].n \in Nat
  BY CallFields
<1> QED BY <1>1, <1>2, CallAssumption, TotalFinite

\* One call outside K more, one call's tokens less room.
LEMMA OutsideMore ==
  ASSUME NEW K \in SUBSET Call, NEW c \in Call, c \notin K
  PROVE  /\ Cardinality(Call \ K) * MaxSpans
              = Cardinality(Call \ (K \cup {c})) * MaxSpans + MaxSpans
         /\ Cardinality(Call \ K) * MaxSpans \in Nat
         /\ Cardinality(Call \ (K \cup {c})) * MaxSpans \in Nat
<1>1. IsFiniteSet(Call \ K) /\ IsFiniteSet(Call \ (K \cup {c}))
  BY CallAssumption, FS_Subset
<1>2. Call \ (K \cup {c}) = (Call \ K) \ {c} /\ c \in Call \ K
  OBVIOUS
<1>3. /\ Cardinality(Call \ K) \in Nat
      /\ Cardinality(Call \ (K \cup {c})) \in Nat
      /\ Cardinality(Call \ (K \cup {c})) = Cardinality(Call \ K) - 1
  <2>1. Cardinality((Call \ K) \ {c}) = Cardinality(Call \ K) - 1
    BY <1>1, <1>2, FS_RemoveElement
  <2>2. Cardinality(Call \ K) \in Nat /\ Cardinality(Call \ (K \cup {c})) \in Nat
    BY <1>1, FS_CardinalityType
  <2>3. Cardinality((Call \ K) \ {c}) = Cardinality(Call \ (K \cup {c}))
    BY ONLY <1>2, Zenon
  <2> QED BY ONLY <2>1, <2>2, <2>3
<1>4. \A a, b, M \in Nat : b = a - 1 => a * M = b * M + M /\ a * M \in Nat /\ b * M \in Nat
  OBVIOUS
<1> QED BY <1>3, <1>4, SpansAssumption

\* Steps that make no room smaller than what the scans miss by it.
LEMMA OvershootKeeps ==
  ASSUME TypeOK, TypeOK', OvershootInv, NEW d \in Nat,
         Total(held', Request) + Total(Admits', Call)
           <= Total(held, Request) + Total(Admits, Call) - d,
         Counting' \subseteq Counting,
         \A c \in Counting' : Potential(c)' >= Potential(c) - d
  PROVE  OvershootInv'
<1> SUFFICES ASSUME NEW K \in SUBSET Counting'
             PROVE  \/ Excess(K)' <= MaxTokens - 1
                    \/ \E c \in K : Excess(K)' <= Potential(c)'
  BY DEF OvershootInv
<1>1. \/ Excess(K) <= MaxTokens - 1
      \/ \E c \in K : Excess(K) <= Potential(c)
  BY DEF OvershootInv
<1>2. /\ Total(held, Request) \in Nat /\ Total(Admits, Call) \in Nat
      /\ Total(held', Request) \in Nat /\ Total(Admits', Call) \in Nat
  BY OvershootNumbers DEF TypeOK, Admits
<1>3. Cardinality(Call \ K) * MaxSpans \in Nat
  <2>1. IsFiniteSet(Call \ K)
    BY CallAssumption, FS_Subset
  <2> QED BY <2>1, FS_CardinalityType, SpansAssumption
<1>4. Excess(K)' <= Excess(K) - d /\ Excess(K) \in Int /\ Excess(K)' \in Int
  BY <1>2, <1>3 DEF Excess
<1>5. ASSUME NEW c \in K PROVE Potential(c) \in Int /\ Potential(c)' \in Int
  <2>1. /\ call \in [Call -> CallState] /\ call' \in [Call -> CallState]
        /\ held \in [Request -> Nat] /\ held' \in [Request -> Nat] /\ c \in Call
    BY DEF TypeOK, Counting
  <2>2. /\ call[c].total \in Nat /\ call[c].toScan \in SUBSET Request
        /\ call'[c].total \in Nat /\ call'[c].toScan \in SUBSET Request
    BY <2>1, CallFields
  <2>3. Total(held, call[c].toScan) \in Nat /\ Total(held', call'[c].toScan) \in Nat
    BY <2>1, <2>2, OvershootNumbers
  <2> QED BY <2>2, <2>3 DEF Potential
<1>6. CASE Excess(K) <= MaxTokens - 1
  BY <1>4, <1>6, LimitAssumption
<1>7. CASE \E c \in K : Excess(K) <= Potential(c)
  <2>1. PICK c \in K : Excess(K) <= Potential(c)
    BY <1>7
  <2>2. Potential(c)' >= Potential(c) - d
    OBVIOUS
  <2> QED BY <2>1, <2>2, <1>4, <1>5
<1> QED BY <1>1, <1>6, <1>7

\* The tokens that admitted calls will still store, when one call changes.
LEMMA AdmitsMoves ==
  ASSUME call \in [Call -> CallState], call' \in [Call -> CallState],
         NEW c \in Call, OnlyCall(c)
  PROVE  Total(Admits', Call) = Total(Admits, Call) - Admits[c] + Admits'[c]
<1>1. \A d \in Call : Admits[d] \in Nat /\ Admits'[d] \in Nat
  BY CallFields DEF Admits
<1>2. \A d \in Call \ {c} : Admits[d] = Admits'[d]
  BY DEF Admits, OnlyCall
<1> HIDE DEF Admits
<1> QED BY <1>1, <1>2, CallAssumption, TotalUpdate

\* A call begins: what exceeds the quota is what its scan will see.
LEMMA StartOvershoot ==
  ASSUME TypeOK, TypeOK', OvershootInv,
         NEW c \in Call, NEW r \in Request, NEW n \in 0..MaxSpans, Start(c, r, n)
  PROVE  OvershootInv'
<1> SUFFICES ASSUME NEW K \in SUBSET Counting'
             PROVE  \/ Excess(K)' <= MaxTokens - 1
                    \/ \E d \in K : Excess(K)' <= Potential(d)'
  BY DEF OvershootInv
<1>1. /\ call \in [Call -> CallState] /\ call' \in [Call -> CallState]
      /\ held \in [Request -> Nat] /\ held' = held /\ K \subseteq Call
  BY DEF TypeOK, Start, Only, Counting
<1>2. /\ OnlyCall(c) /\ call[c].pc = "idle" /\ call'[c].pc = "count"
      /\ call'[c].toScan = Request /\ call'[c].total = 0
  BY <1>1, CallSteps
<1>3. Admits[c] = 0 /\ Admits'[c] = 0
  BY <1>2 DEF Admits
<1>4. /\ Total(held, Request) \in Nat
      /\ Total(Admits, Call) \in Nat
      /\ Total(Admits', Call) = Total(Admits, Call)
  <2>1. Total(Admits, Call) \in Nat /\ Total(held, Request) \in Nat
    BY <1>1, OvershootNumbers DEF Admits
  <2> QED BY <2>1, <1>1, <1>2, <1>3, AdmitsMoves
<1>5. Excess(K)' = Excess(K)
  BY <1>1, <1>4 DEF Excess
<1>6. CASE c \in K
  <2>1. \A d \in K : Admits'[d] = 0
    BY <1>1 DEF Counting, Admits
  <2>2. Total(Admits', Call) <= Cardinality(Call \ K) * MaxSpans
    <3>1. IsFiniteSet(Call \ K)
      BY CallAssumption, FS_Subset
    <3>2. \A d \in Call : Admits'[d] \in Nat /\ Admits'[d] <= MaxSpans
      BY <1>1, CallFields, SpansAssumption DEF Admits
    <3>3. Slots(Admits', Call) = Slots(Admits', Call \ K)
      BY <2>1 DEF Slots
    <3>4. Total(Admits', Call \ K) <= Cardinality(Call \ K) * MaxSpans
      BY <3>1, <3>2, SpansAssumption, TotalBound
    <3> QED BY <3>3, <3>4 DEF Total
  <2>3. Cardinality(Call \ K) * MaxSpans \in Nat
    BY <1>6, OutsideMore, CallAssumption, FS_Subset, FS_CardinalityType, SpansAssumption
  <2>4. Excess(K)' <= Total(held, Request)
    BY <1>4, <1>1, <2>2, <2>3 DEF Excess
  <2>5. Potential(c)' = Total(held, Request)
    BY <1>1, <1>2, <1>4 DEF Potential
  <2> QED BY <1>6, <2>4, <2>5
<1>7. CASE c \notin K
  <2>1. K \in SUBSET Counting
    BY <1>1, <1>2, <1>7 DEF Counting, OnlyCall
  <2>2. \A d \in K : Potential(d)' = Potential(d)
    BY <1>1, <1>2, <1>7 DEF Potential, OnlyCall
  <2> QED BY <2>1, <2>2, <1>5 DEF OvershootInv
<1> QED BY <1>6, <1>7

\* A call leaves its scan without passing it: one scan less, the rest as it was.
LEMMA CountSetOvershoot ==
  ASSUME TypeOK, TypeOK', OvershootInv, NEW c \in Call, NEW q \in Request, CountSet(c, q)
  PROVE  OvershootInv'
<1>1. /\ call \in [Call -> CallState] /\ call' \in [Call -> CallState]
      /\ held \in [Request -> Nat] /\ held' = held
  BY DEF TypeOK, CountSet, Only
<1>2. /\ OnlyCall(c) /\ call[c].pc = "count" /\ call'[c].pc = "count"
      /\ q \in call[c].toScan /\ call'[c].toScan = call[c].toScan \ {q}
      /\ call'[c].total = call[c].total + held[q]
  BY <1>1, CallSteps
<1>3. Counting' = Counting
  BY <1>2 DEF Counting, OnlyCall
<1>4. Admits' = Admits
  BY <1>2 DEF Admits, OnlyCall
<1>5. Potential(c)' = Potential(c) /\ Potential(c) \in Int
  <2>1. call[c].toScan \in SUBSET Request /\ call[c].total \in Nat
    BY <1>1, CallFields
  <2>2. IsFiniteSet(call[c].toScan)
    BY <2>1, RequestAssumption, FS_Subset
  <2>3. Total(held, call[c].toScan) = Total(held, call[c].toScan \ {q}) + held[q]
    BY <1>1, <1>2, <2>1, <2>2, TotalRemove
  <2>4. /\ Total(held, call[c].toScan \ {q}) \in Nat /\ Total(held, call[c].toScan) \in Nat
        /\ held[q] \in Nat
    BY <1>1, <2>1, OvershootNumbers
  <2> QED BY <1>1, <1>2, <2>1, <2>3, <2>4 DEF Potential
<1>6. \A d \in Counting : Potential(d)' = Potential(d)
  BY <1>1, <1>2, <1>5 DEF Potential, OnlyCall, Counting
<1>7. \A K \in SUBSET Counting : Excess(K)' = Excess(K)
  BY <1>1, <1>4 DEF Excess
<1> HIDE DEF Counting, Potential, Excess
<1> QED BY <1>3, <1>6, <1>7 DEF OvershootInv

\* The steps of an admitted, refused or failing call.
LEMMA AdmittedOvershoot ==
  ASSUME TypeOK, TypeOK', OvershootInv, NEW c \in Call,
         Reserve(c) \/ Rollback(c) \/ StoreToken(c) \/ Abort(c)
  PROVE  OvershootInv'
<1>1. /\ call \in [Call -> CallState] /\ call' \in [Call -> CallState]
      /\ held \in [Request -> Nat] /\ held' \in [Request -> Nat]
  BY DEF TypeOK
<1>2. OnlyCall(c) /\ call'[c].pc # "count"
  BY <1>1, CallSteps
<1>3. call[c].n \in Nat /\ call'[c].n \in Nat /\ call[c].req \in Request
  BY <1>1, CallFields
<1>4. /\ Total(Admits', Call) = Total(Admits, Call) - Admits[c] + Admits'[c]
      /\ Total(Admits, Call) \in Nat /\ Total(held, Request) \in Nat
      /\ Admits[c] \in Nat /\ Admits'[c] \in Nat
  BY <1>1, <1>2, <1>3, AdmitsMoves, OvershootNumbers DEF Admits
<1>5. Counting' \subseteq Counting
  BY <1>2 DEF Counting, OnlyCall
<1>6. /\ \A r \in Request : held'[r] >= held[r]
      /\ Total(held', Request) + Total(Admits', Call)
           <= Total(held, Request) + Total(Admits, Call)
  <2>1. CASE UNCHANGED held /\ ~ StoreToken(c)
    <3>1. Admits'[c] <= Admits[c]
      BY <1>1, <1>3, <2>1, CallSteps DEF Admits
    <3> QED BY <1>1, <1>4, <2>1, <3>1
  <2>2. CASE StoreToken(c)
    <3>1. Admits[c] = call[c].n /\ Admits'[c] = call[c].n - 1
      BY <1>1, <1>3, <2>2, CallSteps DEF Admits
    <3>2. CASE held' = [held EXCEPT ![call[c].req] = @ + 1]
      <4>1. /\ held'[call[c].req] = held[call[c].req] + 1
            /\ \A r \in Request \ {call[c].req} : held[r] = held'[r]
        BY <1>1, <1>3, <3>2
      <4>2. Total(held', Request) = Total(held, Request) - held[call[c].req] + held'[call[c].req]
        BY <1>1, <1>3, <4>1, RequestAssumption, TotalUpdate
      <4>3. \A r \in Request : held'[r] >= held[r]
        BY <1>1, <4>1
      <4>4. held[call[c].req] \in Nat
        BY <1>1, <1>3
      <4> QED BY <1>3, <1>4, <3>1, <4>1, <4>2, <4>3, <4>4
    <3>3. CASE UNCHANGED held
      BY <1>1, <1>3, <1>4, <3>1, <3>3
    <3> QED BY <2>2, <3>2, <3>3 DEF StoreToken
  <2> QED BY <2>1, <2>2 DEF Reserve, Rollback, Abort, Only
<1>7. ASSUME NEW d \in Counting' PROVE Potential(d)' >= Potential(d) - 0
  <2>1. d \in Call /\ call'[d] = call[d]
    BY <1>2 DEF Counting, OnlyCall
  <2>2. call[d].toScan \in SUBSET Request /\ call[d].total \in Nat
    BY <1>1, <2>1, CallFields
  <2>3. IsFiniteSet(call[d].toScan)
    BY <2>2, RequestAssumption, FS_Subset
  <2>4. Total(held, call[d].toScan) <= Total(held', call[d].toScan)
    BY <1>1, <1>6, <2>2, <2>3, TotalMonotone
  <2>5. Total(held, call[d].toScan) \in Nat /\ Total(held', call[d].toScan) \in Nat
    BY <1>1, <2>2, OvershootNumbers
  <2> QED BY <2>1, <2>2, <2>4, <2>5 DEF Potential
<1>8. Total(held', Request) + Total(Admits', Call)
        <= Total(held, Request) + Total(Admits, Call) - 0
  BY <1>4, <1>6
<1> QED BY <1>5, <1>7, <1>8, OvershootKeeps

\* Tokens that go away leave the scans' sight by no more than their number.
LEMMA ReleaseOvershoot ==
  ASSUME TypeOK, TypeOK', OvershootInv, NEW r \in Request, Release(r)
  PROVE  OvershootInv'
<1>1. /\ held \in [Request -> Nat] /\ held' = [held EXCEPT ![r] = 0]
      /\ call \in [Call -> CallState] /\ call' = call
  BY DEF TypeOK, Release
<1>2. ASSUME NEW S \in SUBSET Request
      PROVE  /\ Total(held, S) \in Nat /\ Total(held', S) \in Nat
             /\ Total(held', S) = IF r \in S THEN Total(held, S) - held[r] ELSE Total(held, S)
  <2>1. IsFiniteSet(S) /\ held' \in [Request -> Nat]
    BY <1>1, RequestAssumption, FS_Subset
  <2>2. \A q \in S : held[q] \in Nat /\ held'[q] \in Nat
    BY <1>1, <2>1
  <2>3. Total(held, S) \in Nat /\ Total(held', S) \in Nat
    BY <2>1, <2>2, TotalFinite
  <2>4. CASE r \in S
    <3>1. held'[r] = 0 /\ \A q \in S \ {r} : held[q] = held'[q]
      BY <1>1, <2>4
    <3>2. Total(held', S) = Total(held, S) - held[r] + held'[r]
      BY <2>1, <2>2, <2>4, <3>1, TotalUpdate
    <3> QED BY <1>1, <2>3, <2>4, <3>1, <3>2
  <2>5. CASE r \notin S
    <3>1. \A q \in S : held[q] = held'[q]
      BY <1>1, <2>5
    <3>2. Total(held, S) = Total(held', S)
      BY <3>1, TotalSame
    <3> QED BY <2>3, <2>5, <3>2
  <2> QED BY <2>4, <2>5
<1>3. held[r] \in Nat /\ Admits' = Admits /\ Total(Admits, Call) \in Nat
  BY <1>1, OvershootNumbers DEF Admits
<1>4. Total(held', Request) + Total(Admits', Call)
        <= Total(held, Request) + Total(Admits, Call) - held[r]
  BY <1>2, <1>3
<1>5. \A d \in Call : Potential(d)' >= Potential(d) - held[r]
  <2> TAKE d \in Call
  <2>1. call[d].toScan \in SUBSET Request /\ call[d].total \in Nat
    BY <1>1, CallFields
  <2>2. /\ Total(held, call[d].toScan) \in Nat /\ Total(held', call[d].toScan) \in Nat
        /\ Total(held', call[d].toScan) >= Total(held, call[d].toScan) - held[r]
    BY <1>2, <1>3, <2>1
  <2>3. Potential(d)' = call[d].total + Total(held', call[d].toScan)
    BY <1>1 DEF Potential
  <2> QED BY <1>3, <2>1, <2>2, <2>3 DEF Potential
<1>6. Counting' = Counting /\ Counting \subseteq Call
  BY <1>1 DEF Counting
<1> HIDE DEF Potential, Counting, Admits
<1> QED BY <1>3, <1>4, <1>5, <1>6, OvershootKeeps

\* A call passes the quota: it saw less than MaxTokens, and adds no more than
\* what a call outside K may.
LEMMA CheckVaultOvershoot ==
  ASSUME TypeOK, TypeOK', OvershootInv, NEW c \in Call, CheckVault(c)
  PROVE  OvershootInv'
<1> SUFFICES ASSUME NEW K \in SUBSET Counting'
             PROVE  \/ Excess(K)' <= MaxTokens - 1
                    \/ \E d \in K : Excess(K)' <= Potential(d)'
  BY DEF OvershootInv
<1>1. /\ call \in [Call -> CallState] /\ call' \in [Call -> CallState]
      /\ held \in [Request -> Nat] /\ held' = held
  BY DEF TypeOK, CheckVault, Only
<1>2. /\ OnlyCall(c) /\ call[c].pc = "count" /\ call[c].toScan = {}
      /\ \/ call'[c].pc = "idle"
         \/ /\ call'[c].pc \in {"store", "reserve"} /\ call'[c].n = call[c].n
            /\ ~ VaultFull(call[c].total)
  BY <1>1, CallSteps
<1>3. K \subseteq Counting /\ c \notin K /\ c \in Counting /\ K \subseteq Call
  BY <1>2 DEF Counting, OnlyCall
<1>4. \A d \in K : Potential(d)' = Potential(d)
  BY <1>1, <1>2, <1>3 DEF Potential, OnlyCall
<1>5. call[c].n \in Nat /\ call[c].n <= MaxSpans /\ call[c].total \in Nat
  BY <1>1, CallFields
<1>6. /\ Total(Admits', Call) = Total(Admits, Call) - Admits[c] + Admits'[c]
      /\ Total(Admits, Call) \in Nat /\ Total(held, Request) \in Nat
      /\ Admits[c] = 0
  BY <1>1, <1>2, AdmitsMoves, OvershootNumbers DEF Admits
<1>7. CASE call'[c].pc = "idle"
  <2>1. Admits'[c] = 0
    BY <1>7 DEF Admits
  <2>2. Excess(K)' = Excess(K)
    BY <1>1, <1>6, <2>1 DEF Excess
  <2> QED BY <1>3, <1>4, <2>2 DEF OvershootInv
<1>8. CASE /\ call'[c].pc \in {"store", "reserve"} /\ call'[c].n = call[c].n
           /\ ~ VaultFull(call[c].total)
  <2> DEFINE L == K \cup {c}
  <2>1. L \in SUBSET Counting
    BY <1>3
  <2>2. Admits'[c] = call[c].n
    BY <1>8 DEF Admits
  <2>3. Excess(K)' <= Excess(L) /\ Excess(K)' \in Int /\ Excess(L) \in Int
    <3>1. /\ Cardinality(Call \ K) * MaxSpans = Cardinality(Call \ L) * MaxSpans + MaxSpans
          /\ Cardinality(Call \ K) * MaxSpans \in Nat
          /\ Cardinality(Call \ L) * MaxSpans \in Nat
      BY <1>3, OutsideMore
    <3> DEFINE k == Cardinality(Call \ K) * MaxSpans
               l == Cardinality(Call \ L) * MaxSpans
    <3>2. /\ Excess(K)' = Total(held, Request) + Total(Admits', Call) - k
          /\ Excess(L) = Total(held, Request) + Total(Admits, Call) - l
      BY <1>1 DEF Excess
    <3> HIDE DEF k, l
    <3>3. k = l + MaxSpans /\ k \in Nat /\ l \in Nat
      BY <3>1 DEF k, l
    <3>4. Total(Admits', Call) = Total(Admits, Call) + call[c].n
      BY <1>5, <1>6, <2>2
    <3> QED BY <3>2, <3>3, <3>4, <1>5, <1>6, SpansAssumption
  <2>4. Potential(c) <= MaxTokens - 1
    <3>1. Potential(c) = call[c].total
      BY <1>2, <1>5, TotalNone DEF Potential
    <3> QED BY <3>1, <1>5, <1>8, LimitAssumption DEF VaultFull
  <2>5. Potential(c) \in Int
    BY <1>2, <1>5, TotalNone DEF Potential
  <2>6. \/ Excess(L) <= MaxTokens - 1
        \/ \E d \in L : Excess(L) <= Potential(d)
    BY <2>1 DEF OvershootInv
  <2>7. CASE \E d \in K : Excess(L) <= Potential(d)
    <3>1. PICK d \in K : Excess(L) <= Potential(d)
      BY <2>7
    <3>2. Potential(d) \in Int /\ Potential(d)' = Potential(d)
      <4>1. /\ d \in Call /\ call[d].total \in Nat
            /\ Total(held, call[d].toScan) \in Nat
        BY <1>1, <1>3, CallFields, OvershootNumbers
      <4> QED BY <4>1, <1>4 DEF Potential
    <3> QED BY <2>3, <3>1, <3>2
  <2>8. CASE Excess(L) <= MaxTokens - 1 \/ Excess(L) <= Potential(c)
    BY <2>3, <2>4, <2>5, <2>8, LimitAssumption
  <2> QED BY <2>6, <2>7, <2>8
<1> QED BY <1>2, <1>7, <1>8

LEMMA OvershootStep ==
  ASSUME TypeOK, TypeOK', OvershootInv, [Next]_vars
  PROVE  OvershootInv'
<1>1. ASSUME UNCHANGED <<held, call>> PROVE OvershootInv'
  BY <1>1 DEF OvershootInv, Counting, Excess, Potential, Admits
<1>2. CASE UNCHANGED vars
  BY <1>1, <1>2 DEF vars
<1>3. CASE NewMonth
  BY <1>1, <1>3 DEF NewMonth
<1> QED BY <1>2, <1>3, StartOvershoot, CountSetOvershoot, CheckVaultOvershoot,
           AdmittedOvershoot, ReleaseOvershoot DEF Next

LEMMA OvershootInit == Init => OvershootInv
<1> SUFFICES ASSUME Init, NEW K \in SUBSET Counting
             PROVE  Excess(K) <= MaxTokens - 1
  BY DEF OvershootInv
<1>1. K = {}
  BY DEF Init, Counting
<1>2. /\ \A r \in Request : held[r] \in Nat /\ held[r] <= 0
      /\ \A c \in Call : Admits[c] \in Nat /\ Admits[c] <= 0
  BY DEF Init, Admits
<1>3. /\ Total(held, Request) \in Nat /\ Total(held, Request) <= Cardinality(Request) * 0
      /\ Total(Admits, Call) \in Nat /\ Total(Admits, Call) <= Cardinality(Call) * 0
  BY <1>2, RequestAssumption, CallAssumption, TotalBound, TotalFinite
<1>4. Cardinality(Request) \in Nat /\ Cardinality(Call) \in Nat
  BY RequestAssumption, CallAssumption, FS_CardinalityType
<1>5. Cardinality(Call) # 0
  BY CallAssumption, FS_EmptySet
<1>6. Total(held, Request) = 0 /\ Total(Admits, Call) = 0
  BY <1>3, <1>4
<1>7. Call \ K = Call
  BY <1>1
<1>8. \A a, M \in Nat \ {0} : a * M >= 1
  OBVIOUS
<1>9. Cardinality(Call) * MaxSpans >= 1 /\ Cardinality(Call) * MaxSpans \in Nat
  BY <1>4, <1>5, <1>8, SpansAssumption
<1> DEFINE room == Cardinality(Call) * MaxSpans
<1>10. Excess(K) = Total(held, Request) + Total(Admits, Call) - room
  BY <1>7 DEF Excess
<1> HIDE DEF room
<1>11. room >= 1 /\ room \in Nat
  BY <1>9 DEF room
<1> QED BY <1>6, <1>10, <1>11, LimitAssumption

\* The scan is stale and not atomic, tokens come and go while it runs and calls
\* die half-way: the vault passes its quota by no more than what the calls that
\* run at once may add, however many they are.  (tokenize_text.py 162-166,
\* redis_vault.py 234-255.)
THEOREM QuotaOvershootBounded == Spec => []OvershootBounded
<1>1. TypeOK /\ OvershootInv => OvershootBounded
  <2> SUFFICES ASSUME TypeOK, OvershootInv PROVE OvershootBounded
    OBVIOUS
  <2>1. Excess({}) <= MaxTokens - 1
    BY DEF OvershootInv
  <2>2. Total(held, Request) \in Nat /\ Total(Admits, Call) \in Nat
    BY OvershootNumbers DEF TypeOK, Admits
  <2>3. Call \ {} = Call /\ Cardinality(Call) \in Nat
    BY CallAssumption, FS_CardinalityType
  <2>4. Cardinality(Call) * MaxSpans \in Nat
    BY <2>3, SpansAssumption
  <2> QED BY <2>1, <2>2, <2>3, <2>4, LimitAssumption DEF Excess, OvershootBounded
<1> QED BY <1>1, OvershootInit, OvershootStep, QuotaTypes, PTL DEF Spec

-----------------------------------------------------------------------------
\* The minute of a tick.
LEMMA MinuteOf ==
  ASSUME NEW t \in 0..MaxTime
  PROVE  /\ t \div Window \in Minute
         /\ (t \div Window) * Window <= t
         /\ t < (t \div Window) * Window + Window
<1>1. \A n \in Nat : /\ n \div Window \in Nat
                     /\ (n \div Window) * Window <= n
                     /\ n < (n \div Window) * Window + Window
  BY TimeAssumption
<1>2. \A a, b \in Nat : a > b => a * Window >= b * Window + Window
  BY TimeAssumption
<1>3. t \in Nat /\ MaxTime \in Nat /\ t <= MaxTime
  BY TimeAssumption
<1>4. t \div Window \in Nat /\ MaxTime \div Window \in Nat
  BY <1>1, <1>3
<1>5. ~ (t \div Window > MaxTime \div Window)
  <2> SUFFICES ASSUME t \div Window > MaxTime \div Window PROVE FALSE
    OBVIOUS
  <2> DEFINE a == t \div Window
             b == MaxTime \div Window
  <2>1. a * Window >= b * Window + Window
    BY <1>2, <1>4
  <2>2. a * Window <= t /\ MaxTime < b * Window + Window
    BY <1>1, <1>3
  <2>3. a * Window \in Int /\ b * Window \in Int
    BY <1>4, TimeAssumption
  <2> DEFINE u == a * Window
             v == b * Window
  <2> HIDE DEF a, b, u, v
  <2>4. u >= v + Window /\ u <= t /\ MaxTime < v + Window /\ u \in Int /\ v \in Int
    BY <2>1, <2>2, <2>3 DEF u, v
  <2> QED BY <2>4, <1>3, TimeAssumption
<1> QED BY <1>1, <1>3, <1>4, <1>5 DEF Minute

\* When a counter of minute m may expire, and until when it is used.
LEMMA MinuteTimes ==
  ASSUME NEW m \in Minute
  PROVE  /\ m \in Nat /\ m * Window \in Nat
         /\ (m + 1) * Window = m * Window + Window
         /\ (m + 2) * Window = m * Window + 2 * Window
<1>1. m \in Nat
  <2>1. MaxTime \div Window \in Nat
    BY TimeAssumption
  <2> QED BY <2>1 DEF Minute
<1> QED BY <1>1, TimeAssumption

\* What the steps of a request make of its record.
OnlyReq(c) == \A d \in Client \ {c} : req'[d] = req[d]

Going(c) == req'[c].minute = req[c].minute /\ req'[c].since = req[c].since

LEMMA RateSteps ==
  ASSUME req \in [Client -> ReqState], NEW c \in Client
  PROVE  /\ Begin(c) =>
              /\ OnlyReq(c) /\ req[c].pc = "idle" /\ req'[c].pc = "eval"
              /\ req'[c].minute = now \div Window /\ req'[c].since = now
         /\ Eval(c) => OnlyReq(c) /\ req[c].pc = "eval" /\ req'[c].pc = "idle"
         /\ EvalFails(c) =>
              OnlyReq(c) /\ Going(c) /\ req[c].pc = "eval" /\ req'[c].pc = "incr"
         /\ Incr(c) =>
              /\ OnlyReq(c) /\ Going(c) /\ req[c].pc = "incr"
              /\ req'[c].pc = IF FirstHit(count[req[c].minute] + 1) THEN "expire" ELSE "idle"
         /\ Expire(c) => OnlyReq(c) /\ req[c].pc = "expire" /\ req'[c].pc = "idle"
         /\ Crash(c) => OnlyReq(c) /\ req[c].pc # "idle" /\ req'[c].pc = "idle"
<1> USE DEF OnlyReq, Going, ReqState
<1>1. ASSUME Begin(c)
      PROVE  /\ OnlyReq(c) /\ req[c].pc = "idle" /\ req'[c].pc = "eval"
             /\ req'[c].minute = now \div Window /\ req'[c].since = now
  BY <1>1 DEF Begin
<1>2. ASSUME Eval(c) PROVE OnlyReq(c) /\ req[c].pc = "eval" /\ req'[c].pc = "idle"
  BY <1>2 DEF Eval, Decide
<1>3. ASSUME EvalFails(c)
      PROVE  OnlyReq(c) /\ Going(c) /\ req[c].pc = "eval" /\ req'[c].pc = "incr"
  BY <1>3 DEF EvalFails
<1>4. ASSUME Incr(c)
      PROVE  /\ OnlyReq(c) /\ Going(c) /\ req[c].pc = "incr"
             /\ req'[c].pc = IF FirstHit(count[req[c].minute] + 1) THEN "expire" ELSE "idle"
  BY <1>4 DEF Incr, Decide
<1>5. ASSUME Expire(c) PROVE OnlyReq(c) /\ req[c].pc = "expire" /\ req'[c].pc = "idle"
  BY <1>5 DEF Expire, Decide
<1>6. ASSUME Crash(c) PROVE OnlyReq(c) /\ req[c].pc # "idle" /\ req'[c].pc = "idle"
  BY <1>6 DEF Crash
<1> HIDE DEF OnlyReq, Going, ReqState
<1> QED BY <1>1, <1>2, <1>3, <1>4, <1>5, <1>6

\* The types of the rate limit.
LEMMA ReqFields ==
  ASSUME NEW reqs \in [Client -> ReqState], NEW c \in Client
  PROVE  reqs[c].minute \in Minute /\ reqs[c].since \in 0..MaxTime /\ reqs[c].n \in Nat
BY DEF ReqState

LEMMA IncrementTypes ==
  ASSUME RateTypeOK, NEW m \in Minute, Increment(m)
  PROVE  count' \in [Minute -> Nat] /\ expiry' \in [Minute -> Int]
BY TimeAssumption DEF RateTypeOK, Increment, Ttl

LEMMA DecideTypes ==
  ASSUME RateTypeOK, NEW c \in Client, NEW n \in Nat, Decide(c, n)
  PROVE  req' \in [Client -> ReqState] /\ granted' \in [0..MaxTime -> [Minute -> Nat]]
<1>1. [req[c] EXCEPT !.pc = "idle"] \in ReqState
  BY DEF RateTypeOK, ReqState
<1>2. req' = [req EXCEPT ![c] = [req[c] EXCEPT !.pc = "idle"]]
  BY DEF Decide
<1>3. req[c].minute \in Minute
  BY ReqFields DEF RateTypeOK
<1>4. granted' \in [0..MaxTime -> [Minute -> Nat]]
  BY <1>3 DEF RateTypeOK, Decide
<1> QED BY <1>1, <1>2, <1>4 DEF RateTypeOK

LEMMA RateTypes == RateSpec => []RateTypeOK
<1>1. RateInit => RateTypeOK
  <2> SUFFICES ASSUME RateInit PROVE RateTypeOK
    OBVIOUS
  <2>1. 0 \in 0..MaxTime /\ 0 \in Minute
    BY TimeAssumption DEF Minute
  <2> QED BY <2>1 DEF RateInit, RateTypeOK, ReqState
<1>2. RateTypeOK /\ [RateNext]_rateVars => RateTypeOK'
  <2> SUFFICES ASSUME RateTypeOK, [RateNext]_rateVars PROVE RateTypeOK'
    OBVIOUS
  <2>1. CASE UNCHANGED rateVars
    BY <2>1 DEF rateVars, RateTypeOK
  <2>2. ASSUME NEW c \in Client, Begin(c) PROVE RateTypeOK'
    <3>1. now \div Window \in Minute
      BY MinuteOf DEF RateTypeOK
    <3> QED BY <2>2, <3>1 DEF Begin, RateTypeOK, ReqState
  <2>3. ASSUME NEW c \in Client, Eval(c) PROVE RateTypeOK'
    <3>1. req[c].minute \in Minute
      BY ReqFields DEF RateTypeOK
    <3>2. count[req[c].minute] + 1 \in Nat
      BY <3>1 DEF RateTypeOK
    <3> QED BY <2>3, <3>1, <3>2, IncrementTypes, DecideTypes DEF Eval, RateTypeOK
  <2>4. ASSUME NEW c \in Client, EvalFails(c) PROVE RateTypeOK'
    <3>1. req[c].minute \in Minute
      BY ReqFields DEF RateTypeOK
    <3>2. [req[c] EXCEPT !.pc = "incr"] \in ReqState
      BY DEF RateTypeOK, ReqState
    <3>3. count' \in [Minute -> Nat] /\ expiry' \in [Minute -> Int]
      BY <2>4, <3>1, IncrementTypes DEF EvalFails, RateTypeOK
    <3> QED BY <2>4, <3>2, <3>3 DEF EvalFails, RateTypeOK
  <2>5. ASSUME NEW c \in Client, Incr(c) PROVE RateTypeOK'
    <3>1. req[c].minute \in Minute
      BY ReqFields DEF RateTypeOK
    <3>2. count[req[c].minute] + 1 \in Nat
      BY <3>1 DEF RateTypeOK
    <3>3. [req[c] EXCEPT !.pc = "expire", !.n = count[req[c].minute] + 1] \in ReqState
      BY <3>2 DEF RateTypeOK, ReqState
    <3>4. req' \in [Client -> ReqState] /\ granted' \in [0..MaxTime -> [Minute -> Nat]]
      <4>1. CASE FirstHit(count[req[c].minute] + 1)
        BY <2>5, <3>3, <4>1 DEF Incr, RateTypeOK
      <4>2. CASE ~ FirstHit(count[req[c].minute] + 1)
        BY <2>5, <3>2, <4>2, DecideTypes DEF Incr
      <4> QED BY <4>1, <4>2
    <3> QED BY <2>5, <3>2, <3>4 DEF Incr, RateTypeOK
  <2>6. ASSUME NEW c \in Client, Expire(c) PROVE RateTypeOK'
    <3>1. req[c].n \in Nat
      BY ReqFields DEF RateTypeOK
    <3>2. expiry' \in [Minute -> Int]
      <4>1. now + Ttl \in Int
        BY TimeAssumption DEF RateTypeOK, Ttl
      <4> QED BY <2>6, <4>1 DEF Expire, RateTypeOK
    <3> QED BY <2>6, <3>1, <3>2, DecideTypes DEF Expire, RateTypeOK
  <2>7. ASSUME NEW c \in Client, Crash(c) PROVE RateTypeOK'
    <3>1. [req[c] EXCEPT !.pc = "idle"] \in ReqState
      BY DEF RateTypeOK, ReqState
    <3> QED BY <2>7, <3>1 DEF Crash, RateTypeOK
  <2>8. CASE Tick
    BY <2>8, TimeAssumption DEF Tick, RateTypeOK
  <2> QED BY <2>1, <2>2, <2>3, <2>4, <2>5, <2>6, <2>7, <2>8 DEF RateNext
<1> QED BY <1>1, <1>2, PTL DEF RateSpec

-----------------------------------------------------------------------------
\* The requests that are about to set an expiry, when one request changes.
LEMMA SettingMoves ==
  ASSUME NEW c \in Client, OnlyReq(c), NEW m
  PROVE  /\ Cardinality(Setting(m)) \in Nat
         /\ Cardinality(Setting(m)') \in Nat
         /\ Cardinality(Setting(m)') = Cardinality(Setting(m))
              - (IF c \in Setting(m) THEN 1 ELSE 0) + (IF c \in Setting(m)' THEN 1 ELSE 0)
<1>1. IsFiniteSet(Setting(m)) /\ IsFiniteSet(Setting(m)')
  BY RateAssumption, FS_Subset DEF Setting
<1>2. Setting(m)' \ {c} = Setting(m) \ {c}
  BY DEF Setting, OnlyReq
<1>3. ASSUME NEW S, IsFiniteSet(S)
      PROVE  /\ Cardinality(S) \in Nat
             /\ Cardinality(S \ {c}) = Cardinality(S) - (IF c \in S THEN 1 ELSE 0)
  BY <1>3, FS_RemoveElement, FS_CardinalityType
<1> DEFINE a == Cardinality(Setting(m))
           b == Cardinality(Setting(m)')
<1>4. a \in Nat /\ Cardinality(Setting(m) \ {c}) = a - (IF c \in Setting(m) THEN 1 ELSE 0)
  BY <1>1, <1>3
<1>5. b \in Nat /\ Cardinality(Setting(m)' \ {c}) = b - (IF c \in Setting(m)' THEN 1 ELSE 0)
  BY <1>1, <1>3
<1>6. Cardinality(Setting(m)' \ {c}) = Cardinality(Setting(m) \ {c})
  BY ONLY <1>2, Zenon
<1> HIDE DEF a, b
<1>7. b = a - (IF c \in Setting(m) THEN 1 ELSE 0) + (IF c \in Setting(m)' THEN 1 ELSE 0)
  BY ONLY <1>4, <1>5, <1>6
<1> QED BY <1>4, <1>5, <1>7 DEF a, b

\* The requests that were let pass, when one more is.
LEMMA GrantedMoves ==
  ASSUME RateTypeOK, NEW k \in Minute, NEW m \in Minute
  PROVE  /\ Granted(m) \in Nat
         /\ granted' = [granted EXCEPT ![now][k] = @ + 1] =>
              Granted(m)' = Granted(m) + (IF m = k THEN 1 ELSE 0)
         /\ UNCHANGED granted => Granted(m)' = Granted(m)
<1> DEFINE old == [t \in 0..MaxTime |-> granted[t][m]]
           new == [t \in 0..MaxTime |-> granted'[t][m]]
<1>1. IsFiniteSet(0..MaxTime)
  BY TimeAssumption, FS_Interval
<1>2. \A t \in 0..MaxTime : old[t] \in Nat
  BY DEF RateTypeOK
<1>3. Granted(m) \in Nat
  BY <1>1, <1>2, TotalFinite DEF Granted
<1>4. ASSUME granted' = [granted EXCEPT ![now][k] = @ + 1]
      PROVE  Granted(m)' = Granted(m) + (IF m = k THEN 1 ELSE 0)
  <2>1. /\ granted \in [0..MaxTime -> [Minute -> Nat]] /\ now \in 0..MaxTime
        /\ granted' = [granted EXCEPT ![now] = [granted[now] EXCEPT ![k] = granted[now][k] + 1]]
    BY <1>4 DEF RateTypeOK
  <2>2. \A t \in (0..MaxTime) \ {now} : granted'[t] = granted[t]
    BY ONLY <2>1
  <2>3. /\ granted'[now] = [granted[now] EXCEPT ![k] = granted[now][k] + 1]
        /\ granted[now] \in [Minute -> Nat]
    BY ONLY <2>1
  <2>4. new[now] = old[now] + (IF m = k THEN 1 ELSE 0) /\ old[now] \in Nat
    BY <2>1, <2>3
  <2>5. \A t \in (0..MaxTime) \ {now} : old[t] = new[t]
    BY <2>2
  <2>6. now \in 0..MaxTime
    BY <2>1
  <2> HIDE DEF old, new
  <2>7. \A t \in 0..MaxTime : old[t] \in Nat /\ new[t] \in Nat
    BY <1>2, <2>4, <2>5
  <2>8. Total(new, 0..MaxTime) = Total(old, 0..MaxTime) - old[now] + new[now]
    <3> DEFINE T == 0..MaxTime
    <3>1. /\ IsFiniteSet(T) /\ now \in T
          /\ \A t \in T : old[t] \in Nat /\ new[t] \in Nat
          /\ \A t \in T \ {now} : old[t] = new[t]
      BY <1>1, <2>5, <2>6, <2>7
    <3> HIDE DEF T
    <3>2. Total(new, T) = Total(old, T) - old[now] + new[now]
      BY ONLY <3>1, TotalUpdate
    <3> QED BY <3>2 DEF T
  <2>9. Total(old, 0..MaxTime) \in Nat
    BY <1>1, <2>7, TotalFinite
  <2>10. Total(new, 0..MaxTime) = Total(old, 0..MaxTime) + (IF m = k THEN 1 ELSE 0)
    BY <2>4, <2>8, <2>9
  <2> QED BY <2>10 DEF Granted, old, new
<1>5. UNCHANGED granted => Granted(m)' = Granted(m)
  BY DEF Granted
<1> QED BY <1>3, <1>4, <1>5

\* Passing moves with both.
LEMMA PassingMoves ==
  ASSUME RateTypeOK, NEW c \in Client, OnlyReq(c), NEW k \in Minute, NEW m \in Minute
  PROVE  /\ Passing(m) \in Nat
         /\ granted' = [granted EXCEPT ![now][k] = @ + 1] =>
              Passing(m)' = Passing(m) + (IF m = k THEN 1 ELSE 0)
                - (IF c \in Setting(m) THEN 1 ELSE 0) + (IF c \in Setting(m)' THEN 1 ELSE 0)
         /\ UNCHANGED granted =>
              Passing(m)' = Passing(m)
                - (IF c \in Setting(m) THEN 1 ELSE 0) + (IF c \in Setting(m)' THEN 1 ELSE 0)
<1> DEFINE a == Granted(m)
           b == Granted(m)'
           x == Cardinality(Setting(m))
           y == Cardinality(Setting(m)')
<1>1. /\ a \in Nat
      /\ granted' = [granted EXCEPT ![now][k] = @ + 1] => b = a + (IF m = k THEN 1 ELSE 0)
      /\ UNCHANGED granted => b = a
  BY GrantedMoves
<1>2. /\ x \in Nat /\ y \in Nat
      /\ y = x - (IF c \in Setting(m) THEN 1 ELSE 0) + (IF c \in Setting(m)' THEN 1 ELSE 0)
  BY SettingMoves
<1>3. Passing(m) = a + x /\ Passing(m)' = b + y
  BY DEF Passing
<1> HIDE DEF a, b, x, y
<1> QED BY ONLY <1>1, <1>2, <1>3

\* A step that uses one counter while its minute is current, and lets a request
\* pass only within the limit, keeps all counters covering.
LEMMA CoveredKeeps ==
  ASSUME RateTypeOK, RateTypeOK', UNCHANGED now, \A m \in Minute : Covered(m),
         NEW k \in Minute, k * Window <= now, now < (k + 2) * Window,
         NEW h \in {0, 1}, count' = [count EXCEPT ![k] = count[k] + h],
         UNCHANGED expiry \/ expiry' = [expiry EXCEPT ![k] = now + Ttl],
         \A m \in Minute :
           /\ Passing(m) \in Nat /\ Passing(m)' \in Int
           /\ Passing(m)' <= Passing(m)
                + (IF m = k /\ h = 1 /\ Allowed(count[k] + 1) THEN 1 ELSE 0)
  PROVE  \A m \in Minute : Covered(m)'
<1> TAKE m \in Minute
<1> DEFINE end == (m + 2) * Window
<1>1. /\ end \in Nat /\ (k + 2) * Window = k * Window + 2 * Window
      /\ k * Window \in Nat
  BY MinuteTimes, TimeAssumption
<1>2. Covered(m) /\ count[m] \in Nat /\ count[k] \in Nat
  BY DEF RateTypeOK
<1>3. /\ count'[m] = IF m = k THEN count[k] + h ELSE count[m]
      /\ expiry'[m] = expiry[m] \/ (m = k /\ expiry'[m] = now + Ttl)
  BY DEF RateTypeOK
<1>4. now \in Nat /\ expiry[m] \in Int
  BY TimeAssumption DEF RateTypeOK
<1>5. expiry'[m] = -1 \/ expiry'[m] >= end
  <2>1. CASE expiry'[m] = expiry[m]
    BY <1>2, <2>1 DEF Covered
  <2>2. CASE m = k /\ expiry'[m] = now + Ttl
    <3>1. end = k * Window + 2 * Window
      BY <1>1, <2>2
    <3> DEFINE base == k * Window
    <3> HIDE DEF base, end
    <3>2. end = base + 2 * Window /\ base <= now /\ base \in Nat
      BY <3>1, <1>1 DEF base
    <3> QED BY <2>2, <3>2, <1>4, TimeAssumption DEF Ttl
  <2> QED BY <1>3, <2>1, <2>2
<1>6. /\ Passing(m) <= Limit
      /\ now < end => Passing(m) <= count[m]
  BY <1>2 DEF Covered
<1>7. /\ Passing(m)' <= Limit
      /\ now < end => Passing(m)' <= count'[m]
  <2>1. CASE m = k /\ h = 1 /\ Allowed(count[k] + 1)
    <3>1. Passing(m) <= count[k]
      BY <1>6, <2>1
    <3> QED BY <3>1, <2>1, <1>2, <1>3, RateAssumption DEF Allowed
  <2>2. CASE ~ (m = k /\ h = 1 /\ Allowed(count[k] + 1))
    <3>1. Passing(m)' <= Passing(m) /\ Passing(m) \in Nat /\ Passing(m)' \in Int
      BY <2>2
    <3>2. count'[m] >= count[m]
      BY <1>2, <1>3
    <3> QED BY <3>1, <3>2, <1>2, <1>3, <1>6, RateAssumption
  <2> QED BY <2>1, <2>2
<1> QED BY <1>5, <1>7 DEF Covered

\* A running request uses its counter before the counter may expire.
LEMMA InTime ==
  ASSUME RateTypeOK, NEW c \in Client, OnTime(c), req[c].pc # "idle"
  PROVE  /\ req[c].minute \in Minute
         /\ req[c].minute * Window <= now
         /\ now < (req[c].minute + 2) * Window
<1> DEFINE k == req[c].minute
           base == k * Window
<1>1. k \in Minute /\ req[c].since \in Nat /\ now \in Nat
  <2>1. k \in Minute /\ req[c].since \in 0..MaxTime /\ now \in 0..MaxTime
    BY ReqFields DEF RateTypeOK
  <2> HIDE DEF k
  <2> QED BY <2>1
<1>2. /\ base \in Nat /\ (k + 1) * Window = base + Window
      /\ (k + 2) * Window = base + 2 * Window
  BY <1>1, MinuteTimes
<1>3. /\ req[c].since <= now /\ now <= req[c].since + 1
      /\ base <= req[c].since /\ req[c].since < base + Window
  BY <1>2 DEF OnTime
<1> HIDE DEF base
<1>4. base <= now /\ now < base + 2 * Window
  BY <1>1, <1>2, <1>3, TimeAssumption
<1> QED BY <1>1, <1>2, <1>4 DEF base

LEMMA OnTimeStep ==
  ASSUME RateTypeOK, RateTypeOK', \A c \in Client : OnTime(c), [RateNext]_rateVars
  PROVE  \A c \in Client : OnTime(c)'
<1>1. CASE UNCHANGED rateVars
  BY <1>1 DEF rateVars, OnTime
<1>2. ASSUME NEW c \in Client, OnlyReq(c), UNCHANGED now,
             req'[c].pc = "idle" \/ (Going(c) /\ req[c].pc # "idle")
      PROVE  \A d \in Client : OnTime(d)'
  BY <1>2 DEF OnlyReq, Going, OnTime
<1> req \in [Client -> ReqState]
  BY DEF RateTypeOK
<1>3. ASSUME NEW c \in Client, Begin(c) PROVE \A d \in Client : OnTime(d)'
  <2> DEFINE k == now \div Window
  <2>1. /\ OnlyReq(c) /\ req'[c].minute = k /\ req'[c].since = now /\ now' = now
    BY <1>3, RateSteps DEF Begin
  <2>2. k \in Minute /\ k * Window <= now /\ now < k * Window + Window
    BY MinuteOf DEF RateTypeOK
  <2>3. (k + 1) * Window = k * Window + Window
    BY <2>2, MinuteTimes
  <2>4. now \in Nat
    BY TimeAssumption DEF RateTypeOK
  <2> HIDE DEF k
  <2>5. OnTime(c)'
    BY <2>1, <2>2, <2>3, <2>4 DEF OnTime
  <2> QED BY <2>1, <2>5 DEF OnlyReq, OnTime
<1>4. ASSUME NEW c \in Client,
             Eval(c) \/ EvalFails(c) \/ Incr(c) \/ Expire(c) \/ Crash(c)
      PROVE  \A d \in Client : OnTime(d)'
  <2>1. now' = now
    BY <1>4 DEF Eval, EvalFails, Incr, Expire, Crash
  <2>2. OnlyReq(c) /\ (req'[c].pc = "idle" \/ (Going(c) /\ req[c].pc # "idle"))
    BY <1>4, RateSteps
  <2> QED BY <1>2, <2>1, <2>2
<1>5. CASE Tick
  <2>1. /\ now' = now + 1 /\ req' = req /\ now \in Nat
        /\ \A c \in Client : req[c].pc # "idle" => req[c].since = now
    BY <1>5, TimeAssumption DEF Tick, RateTypeOK
  <2> QED BY <2>1 DEF OnTime
<1> QED BY <1>1, <1>3, <1>4, <1>5 DEF RateNext

LEMMA CoveredStep ==
  ASSUME RateTypeOK, RateTypeOK', \A c \in Client : OnTime(c),
         \A m \in Minute : Covered(m), [RateNext]_rateVars
  PROVE  \A m \in Minute : Covered(m)'
<1> req \in [Client -> ReqState]
  BY DEF RateTypeOK
<1>1. CASE UNCHANGED rateVars
  BY <1>1 DEF rateVars, Covered, Passing, Granted, Setting
<1>2. ASSUME NEW c \in Client, Begin(c) \/ Crash(c) PROVE \A m \in Minute : Covered(m)'
  <2>1. /\ OnlyReq(c) /\ req'[c].pc # "expire"
        /\ UNCHANGED <<now, count, expiry, granted>>
    BY <1>2, RateSteps DEF Begin, Crash
  <2> TAKE m \in Minute
  <2>2. c \notin Setting(m)'
    BY <2>1 DEF Setting
  <2>3. Passing(m) \in Nat /\ Passing(m)' \in Int /\ Passing(m)' <= Passing(m)
    BY <2>1, <2>2, PassingMoves
  <2>4. Covered(m) /\ count[m] \in Nat
    BY DEF RateTypeOK
  <2> QED BY <2>1, <2>3, <2>4, RateAssumption DEF Covered
<1>3. ASSUME NEW c \in Client, Eval(c) \/ Incr(c) PROVE \A m \in Minute : Covered(m)'
  <2> DEFINE k == req[c].minute
             n == count[k] + 1
             passes == Allowed(n)
  <2>1. /\ OnlyReq(c) /\ c \in Client /\ req[c].pc \in {"eval", "incr"}
        /\ k \in Minute /\ k * Window <= now /\ now < (k + 2) * Window
    BY <1>3, RateSteps, InTime
  <2>2. /\ now' = now /\ count' = [count EXCEPT ![k] = count[k] + 1]
        /\ UNCHANGED expiry \/ expiry' = [expiry EXCEPT ![k] = now + Ttl]
    BY <1>3 DEF Eval, Incr, Increment
  <2>3. ASSUME NEW m \in Minute
        PROVE  /\ Passing(m) \in Nat /\ Passing(m)' \in Int
               /\ Passing(m)' <= Passing(m) + (IF m = k /\ 1 = 1 /\ passes THEN 1 ELSE 0)
    <3>1. c \notin Setting(m)
      BY <2>1 DEF Setting
    <3>2. CASE Incr(c) /\ FirstHit(n)
      <4>1. UNCHANGED granted /\ (c \in Setting(m)' => m = k)
        BY <2>1, <3>2, RateSteps DEF Incr, Setting, Going
      <4>2. passes
        BY <3>2, RateAssumption DEF FirstHit, Allowed
      <4> QED BY <2>1, <3>1, <4>1, <4>2, PassingMoves
    <3>3. CASE Eval(c) \/ (Incr(c) /\ ~ FirstHit(n))
      <4>1. granted' = IF passes THEN [granted EXCEPT ![now][k] = @ + 1] ELSE granted
        BY <3>3 DEF Eval, Incr, Decide
      <4>2. c \notin Setting(m)'
        BY <3>3, RateSteps DEF Setting
      <4>3. k \in Minute /\ OnlyReq(c)
        BY <2>1
      <4> HIDE DEF passes, k
      <4>4. /\ Passing(m) \in Nat
            /\ \/ Passing(m)' = Passing(m) + (IF m = k THEN 1 ELSE 0) - 0 + 0 /\ passes
               \/ Passing(m)' = Passing(m) - 0 + 0
        BY <3>1, <4>1, <4>2, <4>3, PassingMoves
      <4> QED BY <4>4
    <3> QED BY <1>3, <3>2, <3>3
  <2> HIDE DEF k
  <2>4. \A m \in Minute :
          /\ Passing(m) \in Nat /\ Passing(m)' \in Int
          /\ Passing(m)' <= Passing(m) + (IF m = k /\ 1 = 1 /\ Allowed(count[k] + 1) THEN 1 ELSE 0)
    BY <2>3
  <2> QED BY <2>1, <2>2, <2>4, CoveredKeeps
<1>4. ASSUME NEW c \in Client, EvalFails(c) PROVE \A m \in Minute : Covered(m)'
  <2> DEFINE k == req[c].minute
  <2>1. /\ OnlyReq(c) /\ req[c].pc = "eval" /\ req'[c].pc = "incr"
        /\ k \in Minute /\ k * Window <= now /\ now < (k + 2) * Window
    BY <1>4, RateSteps, InTime
  <2>2. \E h \in {0, 1} : count' = [count EXCEPT ![k] = count[k] + h]
    <3>1. count \in [Minute -> Nat]
      BY DEF RateTypeOK
    <3>2. count = [count EXCEPT ![k] = count[k] + 0]
      BY <2>1, <3>1
    <3> QED BY <1>4, <3>2 DEF EvalFails, Increment
  <2>3. /\ UNCHANGED <<now, granted>>
        /\ UNCHANGED expiry \/ expiry' = [expiry EXCEPT ![k] = now + Ttl]
    BY <1>4 DEF EvalFails, Increment
  <2>4. ASSUME NEW m \in Minute
        PROVE  Passing(m) \in Nat /\ Passing(m)' \in Int /\ Passing(m)' <= Passing(m)
    <3>1. c \notin Setting(m) /\ c \notin Setting(m)'
      BY <2>1 DEF Setting
    <3> QED BY <2>1, <2>3, <3>1, PassingMoves
  <2>5. PICK h \in {0, 1} : count' = [count EXCEPT ![k] = count[k] + h]
    BY <2>2
  <2> HIDE DEF k
  <2>6. \A m \in Minute :
          /\ Passing(m) \in Nat /\ Passing(m)' \in Int
          /\ Passing(m)' <= Passing(m) + (IF m = k /\ h = 1 /\ Allowed(count[k] + 1) THEN 1 ELSE 0)
    BY <2>4
  <2> QED BY <2>1, <2>3, <2>5, <2>6, CoveredKeeps
<1>5. ASSUME NEW c \in Client, Expire(c) PROVE \A m \in Minute : Covered(m)'
  <2> DEFINE k == req[c].minute
  <2>1. /\ OnlyReq(c) /\ req[c].pc = "expire" /\ req'[c].pc = "idle"
        /\ k \in Minute /\ k * Window <= now /\ now < (k + 2) * Window
    BY <1>5, RateSteps, InTime
  <2>2. /\ UNCHANGED <<now, count>> /\ expiry' = [expiry EXCEPT ![k] = now + Ttl]
        /\ UNCHANGED granted \/ granted' = [granted EXCEPT ![now][k] = @ + 1]
    BY <1>5 DEF Expire, Decide
  <2>3. count' = [count EXCEPT ![k] = count[k] + 0]
    <3>1. count \in [Minute -> Nat]
      BY DEF RateTypeOK
    <3> QED BY <2>1, <2>2, <3>1
  <2>4. ASSUME NEW m \in Minute
        PROVE  Passing(m) \in Nat /\ Passing(m)' \in Int /\ Passing(m)' <= Passing(m)
    <3>1. c \notin Setting(m)' /\ (c \in Setting(m) <=> m = k)
      BY <2>1 DEF Setting
    <3> HIDE DEF k
    <3> QED BY <2>1, <2>2, <3>1, PassingMoves
  <2> HIDE DEF k
  <2>5. \A m \in Minute :
          /\ Passing(m) \in Nat /\ Passing(m)' \in Int
          /\ Passing(m)' <= Passing(m) + (IF m = k /\ 0 = 1 /\ Allowed(count[k] + 1) THEN 1 ELSE 0)
    BY <2>4
  <2> QED BY <2>1, <2>2, <2>3, <2>5, CoveredKeeps
<1>6. CASE Tick
  <2> TAKE m \in Minute
  <2> DEFINE end == (m + 2) * Window
  <2>1. Passing(m)' = Passing(m)
    BY <1>6 DEF Tick, Passing, Granted, Setting
  <2>2. /\ now' = now + 1
        /\ count'[m] = IF expiry[m] = now + 1 THEN 0 ELSE count[m]
        /\ expiry'[m] = IF expiry[m] = now + 1 THEN -1 ELSE expiry[m]
    BY <1>6 DEF Tick
  <2>3. end \in Nat /\ now \in Nat /\ expiry[m] \in Int
    <3>1. m * Window \in Nat /\ end = m * Window + 2 * Window
      BY MinuteTimes
    <3>2. now \in Nat /\ expiry[m] \in Int
      BY TimeAssumption DEF RateTypeOK
    <3> QED BY <3>1, <3>2, TimeAssumption
  <2>4. /\ expiry[m] = -1 \/ expiry[m] >= end
        /\ Passing(m) <= Limit
        /\ now < end => Passing(m) <= count[m]
    BY DEF Covered
  <2> HIDE DEF end
  <2>5. /\ expiry'[m] = -1 \/ expiry'[m] >= end
        /\ Passing(m)' <= Limit
        /\ now' < end => Passing(m)' <= count'[m]
    BY <2>1, <2>2, <2>3, <2>4
  <2> QED BY <2>5 DEF Covered, end
<1> QED BY <1>1, <1>2, <1>3, <1>4, <1>5, <1>6 DEF RateNext

LEMMA RateInvInit == RateInit => RateInv
<1> SUFFICES ASSUME RateInit PROVE RateInv
  OBVIOUS
<1>1. \A c \in Client : OnTime(c)
  BY DEF RateInit, OnTime
<1>2. ASSUME NEW m \in Minute PROVE Covered(m)
  <2> DEFINE f == [t \in 0..MaxTime |-> granted[t][m]]
  <2>1. \A t \in 0..MaxTime : f[t] \in Nat /\ f[t] <= 0
    BY DEF RateInit
  <2>2. IsFiniteSet(0..MaxTime) /\ Cardinality(0..MaxTime) \in Nat
    BY TimeAssumption, FS_Interval, FS_CardinalityType
  <2> HIDE DEF f
  <2>3. /\ Total(f, 0..MaxTime) \in Nat
        /\ Total(f, 0..MaxTime) <= Cardinality(0..MaxTime) * 0
    BY <2>1, <2>2, TotalFinite, TotalBound
  <2>4. Granted(m) = 0
    BY <2>2, <2>3 DEF Granted, f
  <2>5. Setting(m) = {}
    BY DEF RateInit, Setting
  <2>6. Passing(m) = 0
    BY <2>4, <2>5, FS_EmptySet DEF Passing
  <2> QED BY <2>6, RateAssumption DEF Covered, RateInit
<1> QED BY <1>1, <1>2 DEF RateInv

\* Of the requests that begin in one calendar minute at most Limit pass, for any
\* number of requests and any length of the minute: also when the script fails
\* after it took effect, when a request dies half-way and when the counter
\* expires.  (redis_api_key.py 196-216.)
THEOREM RateMinuteLimit == RateSpec => []MinuteLimit
<1>1. RateTypeOK /\ RateTypeOK' /\ RateInv /\ [RateNext]_rateVars => RateInv'
  BY OnTimeStep, CoveredStep DEF RateInv
<1>2. RateTypeOK /\ RateInv => MinuteLimit
  <2> SUFFICES ASSUME RateTypeOK, RateInv, NEW m \in Minute PROVE Granted(m) <= Limit
    BY DEF MinuteLimit
  <2>1. Passing(m) <= Limit
    BY DEF RateInv, Covered
  <2>2. Granted(m) \in Nat
    BY GrantedMoves
  <2>3. Cardinality(Setting(m)) \in Nat
    <3>1. IsFiniteSet(Setting(m))
      BY RateAssumption, FS_Subset DEF Setting
    <3> QED BY <3>1, FS_CardinalityType
  <2> QED BY <2>1, <2>2, <2>3, RateAssumption DEF Passing
<1> QED BY <1>1, <1>2, RateInvInit, RateTypes, PTL DEF RateSpec
=============================================================================
