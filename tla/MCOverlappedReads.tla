------------------------- MODULE MCOverlappedReads -------------------------
(***************************************************************************)
(* Instance of OverlappedReads: a goroutine that writes, one that checks.  *)
(***************************************************************************)
EXTENDS OverlappedReads, MCConcurrentEnforcer
=============================================================================
