------------------------------ MODULE MCLimits ------------------------------
(***************************************************************************)
(* Instances of Quotas and RateLimit for TLC.  The two keep counters of    *)
(* their own and never read one another's: a behaviour is one of either,   *)
(* and all variables of the other one stay as they were initially.         *)
(***************************************************************************)
EXTENDS Quotas, RateLimit, TLC

VARIABLE limit  \* which of the two is looked at

BothInit == Init /\ RateInit /\ limit \in {"quotas", "rate"}

BothNext ==
  \/ limit = "quotas" /\ Next /\ UNCHANGED <<rateVars, limit>>
  \/ limit = "rate" /\ RateNext /\ UNCHANGED <<vars, limit>>

BothSpec == BothInit /\ [][BothNext]_<<vars, rateVars, limit>>

NoLimit == -1

Symmetry == Permutations(Call) \cup Permutations(Request) \cup Permutations(Client)
=============================================================================
