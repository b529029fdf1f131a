------------------------------ MODULE Counting ------------------------------
(***************************************************************************)
(* Sums and listings of finite sets, defined by numbers of elements: what  *)
(* they are follows from facts about cardinality, with no induction over   *)
(* the set.                                                                *)
(***************************************************************************)
EXTENDS Integers, FiniteSets

\* The sum of the values of f over S: one slot for every unit of every value.
Slots(f, S) == UNION {{x} \X (1..f[x]) : x \in S}

Total(f, S) == Cardinality(Slots(f, S))

\* The elements of S up to x, as R, a set of pairs, orders them.
Until(S, R, x) == {y \in S : <<y, x>> \in R}

\* The elements of S one after the other, as R orders them: the k-th has
\* k elements up to it.
InOrder(S, R) ==
  LET ranked == {<<Cardinality(Until(S, R, x)), x>> : x \in S}
  IN [k \in 1..Cardinality(S) |-> CHOOSE x \in S : <<k, x>> \in ranked]
=============================================================================
