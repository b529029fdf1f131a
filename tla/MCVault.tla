------------------------------ MODULE MCVault ------------------------------
(***************************************************************************)
(* Instances of Vault for TLC, and the statement that Vault implements     *)
(* VaultService.                                                           *)
(***************************************************************************)
EXTENDS VaultRefinement, TLC

\* Rotations are interchangeable, and so are tokenize calls; no CHOOSE of the
\* specification ranges over them, and VaultService knows neither.
RotatorSymmetry == Permutations(Rotator)
TokenizerSymmetry == Permutations(Tokenizer)
=============================================================================
