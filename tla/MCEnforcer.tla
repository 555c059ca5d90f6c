----------------------------- MODULE MCEnforcer -----------------------------
(***************************************************************************)
(* Instances of Enforcer.                                                  *)
(***************************************************************************)
EXTENDS Enforcer, TLC

\* A concrete permission, and one that Valid rejects.
ReadAndInvalid ==
    {[resource |-> <<"article">>, action |-> <<"read">>],
     [resource |-> <<"article">>, action |-> Empty]}

\* Two permissions of one resource, one of which covers the other.
ReadAndAny ==
    {[resource |-> <<"article">>, action |-> <<"read">>],
     [resource |-> <<"article">>, action |-> Star]}

Symmetry == Permutations(UserIDs) \cup Permutations(RoleIDs)
=============================================================================
