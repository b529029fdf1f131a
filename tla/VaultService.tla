---------------------------- MODULE VaultService ----------------------------
(***************************************************************************)
(* What the vault promises its readers: the tokens that rehydrate can      *)
(* restore, each with its remaining life, and the recorded result of every *)
(* rotation.  A token becomes readable by a store only, ceases to be by    *)
(* expiry or flush, and a rotation is one atomic event that no reader can  *)
(* notice: it changes nothing readable and records how many tokens were.   *)
(***************************************************************************)
EXTENDS Integers, FiniteSets

CONSTANTS Address, Life, OpId, None

VARIABLES
  readable,  \* remaining life of each restorable token, 0 when there is none
  done       \* the recorded count of each rotation

svars == <<readable, done>>

SInit ==
  /\ readable = [a \in Address |-> 0]
  /\ done = [op \in OpId |-> None]

Put(a) ==
  /\ readable' = [readable EXCEPT ![a] = Life]
  /\ UNCHANGED done

Delete(S) ==
  /\ readable' = [a \in Address |-> IF a \in S THEN 0 ELSE readable[a]]
  /\ UNCHANGED done

Age ==
  /\ readable' = [a \in Address |-> IF readable[a] > 0 THEN readable[a] - 1 ELSE 0]
  /\ UNCHANGED done

Rotation(op) ==
  /\ done[op] = None
  /\ done' = [done EXCEPT ![op] = Cardinality({a \in Address : readable[a] > 0})]
  /\ UNCHANGED readable

SNext ==
  \/ \E a \in Address : Put(a)
  \/ \E S \in SUBSET Address : Delete(S)
  \/ Age
  \/ \E op \in OpId : Rotation(op)

SSpec == SInit /\ [][SNext]_svars
=============================================================================
