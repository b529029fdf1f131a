-------------------------- MODULE VaultRefinement --------------------------
(***************************************************************************)
(* Vault implements VaultService: a token is readable when rehydrate would *)
(* restore it, that is when it is live and under the stored DEK.           *)
(***************************************************************************)
EXTENDS Vault

Readable ==
  [a \in Addr |-> IF a[2] \in Restored(a[1], Hash) THEN ttl[a] ELSE 0]

Service == INSTANCE VaultService
  WITH Address <- Addr, Life <- TTL, OpId <- Op, None <- NoResult,
       readable <- Readable, done <- result

\* Seen through rehydrate, the interleaved vault is the atomic one: a rotation
\* neither hides nor revives nor prolongs a token for any reader, and the count
\* it records is the number of tokens readable at its commit.
ImplementsService == Service!SSpec
=============================================================================
