---------------------------- MODULE MCLifecycle ----------------------------
(***************************************************************************)
(* Three requests and a ring of two samples for Lifecycle.                 *)
(***************************************************************************)
EXTENDS Lifecycle

MCPromBuckets == <<10, 100>>
=============================================================================
