------------------------------- MODULE Quotas -------------------------------
(***************************************************************************)
(* The two quotas of a tokenize call of one organisation.  The vault quota *)
(* bounds the tokens that are alive: it is read by a scan over the index   *)
(* sets of all requests before anything is written.  The monthly quota     *)
(* bounds the tokens created in a calendar month: a counter that is        *)
(* incremented first and decremented again when it passed the limit.       *)
(***************************************************************************)
EXTENDS Integers, FiniteSets, Counting

CONSTANTS
  Call,          \* concurrent tokenize calls (texts)
  Request,       \* request ids
  MaxTokens,     \* max_tokens_per_org
  MonthlyLimit,  \* monthly_token_limit of the plan, -1 for none
  MaxSpans,      \* spans of a text
  Months,        \* months that are looked at
  MaxCounter,    \* bound: no call starts once the month's counter has passed it
  Resends,       \* redis-py may send a command twice
  Aborts         \* calls may fail or be cancelled half-way

ASSUME RequestAssumption == IsFiniteSet(Request) /\ Request # {}
ASSUME CallAssumption == IsFiniteSet(Call) /\ Call # {}
ASSUME LimitAssumption == MaxTokens \in Nat /\ MonthlyLimit \in Nat \cup {-1}
ASSUME SpansAssumption == MaxSpans \in Nat \ {0} /\ Months \in Nat \ {0}
                          /\ MaxCounter \in Nat
ASSUME FlagAssumption == {Resends, Aborts} \subseteq BOOLEAN

Unlimited == MonthlyLimit = -1

VARIABLES
  held,      \* size of the index set of each request
  month,     \* the current month
  counter,   \* ps:usage:{org}:{month}:tokens_created
  call,      \* running calls
  accepted   \* history: tokens of the calls that the monthly quota let pass

vars == <<held, month, counter, call, accepted>>

CallState == [pc : {"idle", "count", "reserve", "rollback", "store"}, req : Request,
              toScan : SUBSET Request, total : Nat, n : 0..MaxSpans,
              month : 1..Months, reply : {"none", "ok", "vault", "monthly", "failed"}]

TypeOK ==
  /\ held \in [Request -> Nat]
  /\ month \in 1..Months
  /\ counter \in [1..Months -> Int]
  /\ call \in [Call -> CallState]
  /\ accepted \in [1..Months -> Nat]

Only(c) == UNCHANGED <<held, month, counter, accepted>>
Finish(c, r) == call' = [call EXCEPT ![c].pc = "idle", ![c].reply = r]

-----------------------------------------------------------------------------
Start(c, r, n) ==
  /\ call[c].pc = "idle"
  /\ counter[month] <= MaxCounter
  /\ call' = [call EXCEPT ![c] = [@ EXCEPT !.pc = "count", !.req = r, !.n = n,
                                    !.toScan = Request, !.total = 0, !.reply = "none"]]
  /\ Only(c)

\* count_org_tokens: SCARD of one index set after the other.
CountSet(c, q) ==
  /\ call[c].pc = "count" /\ q \in call[c].toScan
  /\ call' = [call EXCEPT ![c].toScan = @ \ {q}, ![c].total = @ + held[q]]
  /\ Only(c)

\* Mutant: the call may start when the quota is just reached.
VaultFullLate(total) == total > MaxTokens

VaultFull(total) == total >= MaxTokens

CheckVault(c) ==
  /\ call[c].pc = "count" /\ call[c].toScan = {}
  /\ IF VaultFull(call[c].total) THEN Finish(c, "vault")
     ELSE IF call[c].n = 0 THEN Finish(c, "ok")
     ELSE call' = [call EXCEPT ![c].pc = IF Unlimited THEN "store" ELSE "reserve",
                               ![c].month = month]
  /\ Only(c)

\* INCRBY on the month's counter; a resent command counts twice.  The limit is
\* compared with what the command answered.
\* Mutant: the comparison leaves out the tokens of this call.
OverLimitBefore(total, n) == total - n > MonthlyLimit

OverLimit(total, n) == total > MonthlyLimit

Reserve(c) ==
  LET m == call[c].month
      n == call[c].n
  IN
  /\ call[c].pc = "reserve"
  /\ \E times \in IF Resends THEN {1, 2} ELSE {1} :
       LET total == counter[m] + times * n
       IN /\ counter' = [counter EXCEPT ![m] = total]
          /\ call' = [call EXCEPT ![c].pc = IF OverLimit(total, n) THEN "rollback" ELSE "store"]
          /\ accepted' = IF OverLimit(total, n) THEN accepted
                         ELSE [accepted EXCEPT ![m] = @ + n]
  /\ UNCHANGED <<held, month>>

\* DECRBY, and the call is refused.
\* Mutant: more is taken back than was reserved.
RollbackTwice(c) ==
  /\ call[c].pc = "rollback"
  /\ counter' = [counter EXCEPT ![call[c].month] = @ - 2 * call[c].n]
  /\ Finish(c, "monthly")
  /\ UNCHANGED <<held, month, accepted>>

Rollback(c) ==
  /\ call[c].pc = "rollback"
  /\ \E times \in IF Resends THEN {1, 2} ELSE {1} :
       counter' = [counter EXCEPT ![call[c].month] = @ - times * call[c].n]
  /\ Finish(c, "monthly")
  /\ UNCHANGED <<held, month, accepted>>

\* One token is stored under a new hash, or again under one of the request.
StoreToken(c) ==
  /\ call[c].pc = "store" /\ call[c].n > 0
  /\ held' = [held EXCEPT ![call[c].req] = @ + 1] \/ (held[call[c].req] > 0 /\ UNCHANGED held)
  /\ call' = [call EXCEPT ![c].n = @ - 1,
                          ![c].pc = IF call[c].n = 1 THEN "idle" ELSE @,
                          ![c].reply = IF call[c].n = 1 THEN "ok" ELSE @]
  /\ UNCHANGED <<month, counter, accepted>>

\* A timeout, an error or a crash.
Abort(c) ==
  /\ Aborts
  /\ call[c].pc # "idle"
  /\ Finish(c, "failed")
  /\ Only(c)

\* The tokens of a request expire or are flushed.
Release(r) ==
  /\ held[r] > 0
  /\ held' = [held EXCEPT ![r] = 0]
  /\ UNCHANGED <<month, counter, call, accepted>>

NewMonth ==
  /\ month < Months
  /\ month' = month + 1
  /\ UNCHANGED <<held, counter, call, accepted>>

Init ==
  /\ held = [r \in Request |-> 0]
  /\ month = 1
  /\ counter = [m \in 1..Months |-> 0]
  /\ call = [c \in Call |-> [pc |-> "idle", req |-> CHOOSE r \in Request : TRUE,
                             toScan |-> {}, total |-> 0, n |-> 0, month |-> 1,
                             reply |-> "none"]]
  /\ accepted = [m \in 1..Months |-> 0]

Next ==
  \/ \E c \in Call :
       \/ \E r \in Request, n \in 0..MaxSpans : Start(c, r, n)
       \/ \E q \in Request : CountSet(c, q)
       \/ CheckVault(c)
       \/ Reserve(c)
       \/ Rollback(c)
       \/ StoreToken(c)
       \/ Abort(c)
  \/ \E r \in Request : Release(r)
  \/ NewMonth

Spec == Init /\ [][Next]_vars

-----------------------------------------------------------------------------
\* In no month does the organisation get more tokens than its plan allows.
AcceptedWithinLimit ==
  Unlimited \/ \A m \in 1..Months : accepted[m] <= MonthlyLimit

\* What a refused call is about to take back of a month.
Debt(m) ==
  [c \in Call |-> IF call[c].pc = "rollback" /\ call[c].month = m THEN call[c].n ELSE 0]

\* The counter covers what was accepted and what is about to be taken back,
\* whatever runs next to it and wherever calls die: it errs on one side only.
CounterCovers ==
  \A m \in 1..Months : counter[m] >= accepted[m] + Total(Debt(m), Call)

\* The scan is stale and not atomic, yet the vault passes its quota by no more
\* than what the calls that run at once may add.
OvershootBounded ==
  Total(held, Request) <= MaxTokens - 1 + Cardinality(Call) * MaxSpans

\* What makes OvershootBounded inductive.  Admitted calls have passed the vault
\* quota and will store their tokens.  A call that still counts will see at
\* most its Potential, of which it has counted a part.  For every set K of
\* counting calls: when only the calls outside K may exceed the quota, either
\* there is still room or one of K is going to see what exceeds it.
Admits == [c \in Call |-> IF call[c].pc \in {"reserve", "store"} THEN call[c].n ELSE 0]

Counting == {c \in Call : call[c].pc = "count"}

Potential(c) == call[c].total + Total(held, call[c].toScan)

Excess(K) ==
  Total(held, Request) + Total(Admits, Call) - Cardinality(Call \ K) * MaxSpans

OvershootInv ==
  \A K \in SUBSET Counting :
    Excess(K) <= MaxTokens - 1 \/ \E c \in K : Excess(K) <= Potential(c)

\* A call is refused for the month only if it does not fit.
RefusedOnlyIfFull ==
  [][\A c \in Call : call[c].pc = "reserve" /\ call'[c].pc = "rollback" =>
       accepted[call[c].month] + call[c].n > MonthlyLimit]_vars

\* The monthly quota is checked first: when the month is used up, no call is
\* refused on the vault's account.
MonthlyBeforeVault ==
  [][\A c \in Call : call[c].reply # "vault" /\ call'[c].reply = "vault" =>
       counter[month] < MonthlyLimit]_vars
=============================================================================
