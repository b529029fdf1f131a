--------------------------- MODULE MCDatasetFiles ---------------------------
(***************************************************************************)
(* One dataset, enough to be split, and small packs; one of its examples   *)
(* has an entity that clean_mix removes.                                   *)
(***************************************************************************)
EXTENDS DatasetFiles

MCRecord(text, dirty) == [text |-> text, dirty |-> dirty, chat |-> FALSE]

MCExamples == [s \in {"multinerd"} |->
  <<MCRecord("m1", TRUE), MCRecord("m2", FALSE), MCRecord("m3", FALSE),
    MCRecord("m4", FALSE), MCRecord("m5", FALSE), MCRecord("m6", FALSE)>>]
MCSynthetic == {<<MCRecord("s1", FALSE)>>}
MCHardNegatives == {<<MCRecord("n1", FALSE), MCRecord("n2", FALSE)>>,
                    <<MCRecord("n1", FALSE), MCRecord("n1", FALSE)>>}
MCBoundaryHard == {<<MCRecord("b1", FALSE)>>}
\* As they are, and with the second half first.
MCOrders ==
  [n \in 6..60 |-> {[i \in 1..n |-> ((i + k - 1) % n) + 1] : k \in {n, n \div 2}}]

\* The names in alphabetical order, "." before "_".
Copies(n) == <<<<n, "processed">>, <<n, "synthetic">>>>
Named(n) == <<<<n>>>> \o Copies(n)
MCNamesSorted ==
  <<<<"boundary_hard">>>> \o Named("boundary_hard_clean") \o Copies("boundary_hard")
    \o Named("chat_formatted") \o Named("hard_negatives") \o Named("multinerd") \o Named("synthetic")
MCListedBefore ==
  {<<MCNamesSorted[i], MCNamesSorted[j]>> :
     <<i, j>> \in {x \in (1..Len(MCNamesSorted)) \X (1..Len(MCNamesSorted)) : x[1] <= x[2]}}
=============================================================================
