----------------------------- MODULE MCApiKeys -----------------------------
(***************************************************************************)
(* Instances of ApiKeys for TLC.                                           *)
(***************************************************************************)
EXTENDS ApiKeys, TLC

\* One plan, or two of which the free one allows fewer keys.
OnePlan == [p \in Plan |-> 2]
TwoPlans == [p \in Plan |-> IF p = FreePlan THEN 1 ELSE 2]

AdminSymmetry == Permutations(Admin)
=============================================================================
