-------------------------- MODULE SequentialCalls --------------------------
(***************************************************************************)
(* When calls do not overlap, the step-by-step methods of                  *)
(* ConcurrentEnforcer implement the atomic ones of Enforcer.               *)
(*                                                                         *)
(* settled is a history variable: the shared state when last no call was   *)
(* under way, which is what an observer between two calls sees.            *)
(***************************************************************************)
EXTENDS ConcurrentEnforcer

VARIABLE settled

Shared ==
    [users |-> users, roles |-> roles, cache |-> cache, directRoles |-> directRoles,
     roleHolders |-> roleHolders]

SInit == CInit /\ settled = Shared

SNext == CNext /\ settled' = IF Idle' THEN Shared' ELSE settled

SSpec == SInit /\ [][SNext]_<<cvars, settled>>

Atomic == INSTANCE Enforcer
    WITH users <- settled.users, roles <- settled.roles, cache <- settled.cache,
         directRoles <- settled.directRoles, roleHolders <- settled.roleHolders

\* Each completed call of one goroutine is one action of Enforcer or changes
\* nothing: the atomic actions are what the methods of package authz do store
\* call by store call and lock by lock.
ImplementsEnforcer == Atomic!Spec

\* CreateUser may name roles that CreateRole makes only later, and CreateRole
\* evicts nobody: the memoized set of a user may then lack the new role's
\* permissions.  It never has more than the store grants, inheritance left
\* aside: whatever is revoked, detached or deleted is evicted.
LateRolesOnlyLag ==
    Idle => \A id \in UserIDs :
        UserExists(id) /\ Flat(id) /\ cache[id] # Nil => cache[id] \subseteq Effective(users[id])
=============================================================================
