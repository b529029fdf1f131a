--------------------------- MODULE MCTokenNaming ---------------------------
(***************************************************************************)
(* Instances of TokenNaming for TLC.                                       *)
(***************************************************************************)
EXTENDS TokenNaming, TLC

CONSTANTS v1, h1, t1

\* All values share a hash under every DEK.
Crowded == [p \in Dek \X Value |-> h1]

\* Under the second DEK the values swap their hashes.
CONSTANT d1
Swapped == [p \in Dek \X Value |->
              IF (p[1] = d1) = (p[2] = v1) THEN h1 ELSE CHOOSE h \in Hash : h # h1]

\* A conversation on one request id: one call after the other, each of which
\* carries along all tokens; values may be detected with two types.
Conversation ==
  [base |-> Crowded, texts |-> 2, ids |-> {CHOOSE r \in Request : TRUE}, types |-> Type,
   carryOver |-> {TRUE}, overlap |-> FALSE, freshIds |-> FALSE, rotations |-> FALSE]

\* Single texts with ids of their own, across a rotation.
Single ==
  [base |-> Swapped, texts |-> 1, ids |-> Request, types |-> {t1},
   carryOver |-> BOOLEAN, overlap |-> TRUE, freshIds |-> TRUE, rotations |-> TRUE]

Both == {Conversation, Single}

\* Three texts across a rotation.
Stale == {[Single EXCEPT !.texts = 3, !.carryOver = {TRUE}, !.overlap = FALSE]}

CallSymmetry == Permutations(Call)
=============================================================================
