------------------------- MODULE MCSequentialCalls -------------------------
(***************************************************************************)
(* Instance of SequentialCalls: one goroutine making every call.           *)
(***************************************************************************)
EXTENDS SequentialCalls, MCConcurrentEnforcer

EveryCall == [t \in Threads |-> UserWrites \cup RoleWrites \cup Checks]
=============================================================================
