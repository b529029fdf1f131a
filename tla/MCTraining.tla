----------------------------- MODULE MCTraining -----------------------------
(***************************************************************************)
(* The training data, for TLC: what becomes of one row (NerChain) and what *)
(* becomes of the files (DatasetFiles).  Neither reads the state of the    *)
(* other: a behaviour is one of either, and the variables of the other one *)
(* stay as they were initially.                                            *)
(***************************************************************************)
EXTENDS MCNerChain, MCDatasetFiles

VARIABLE part  \* which of the two is looked at

AnyRow == CHOOSE r \in Rows : TRUE

BothInit ==
  \/ part = "row" /\ Init /\ FilesInit
  \/ part = "files" /\ FilesInit /\ Init /\ row = AnyRow

BothNext ==
  \/ part = "row" /\ Next /\ UNCHANGED <<filesVars, part>>
  \/ part = "files" /\ FilesNext /\ UNCHANGED <<vars, part>>

BothSpec == BothInit /\ [][BothNext]_<<vars, filesVars, part>>
=============================================================================
