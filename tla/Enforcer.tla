------------------------------ MODULE Enforcer ------------------------------
(***************************************************************************)
(* The Enforcer of package authz over a MemoryStore, with calls that do    *)
(* not overlap: one action per API method.  A call that returns an error   *)
(* changes nothing, so it is a stuttering step and the action is disabled; *)
(* the exception, DeleteUser of an unknown user, is part of its action.    *)
(* ConcurrentEnforcer splits the same methods into the steps between which *)
(* other goroutines run.                                                   *)
(***************************************************************************)
EXTENDS MemoryStore, FiniteSets

CONSTANTS
    MaxDepth,     \* WithMaxDepth: the cap validateInheritance applies
    LateRoles,    \* the roles CreateUser may name before they are created
    MaxRestarts   \* bound on the number of restarts over the same store

ASSUME MaxDepthAssumption    == MaxDepth \in Nat \ {0}
ASSUME LateRolesAssumption   == LateRoles \subseteq RoleIDs
ASSUME MaxRestartsAssumption == MaxRestarts \in Nat

VARIABLES
    cache,        \* cache[id] is the user's memoized granted set, or Nil
    directRoles,  \* directRoles[id] is the memoized set of direct roles, or Nil
    roleHolders,  \* roleHolders[name] is the reverse index role -> users
    restarts      \* how often a new Enforcer was built over the store

memo == <<cache, directRoles, roleHolders>>
vars == <<users, roles, cache, directRoles, roleHolders, restarts>>

-----------------------------------------------------------------------------
(* Roles and permissions derived from the store.                           *)

\* S contains the parent of each of its roles.
ParentClosed(S) == \A r \in S : ParentOf(r) # Nil => ParentOf(r) \in S

\* resolveRoles: the roles reached from rs by following Parent, names without
\* a stored role included.  The worklist with its seen set computes the least
\* parent-closed set that contains rs.
ResolveRoles(rs) ==
    {r \in RoleIDs : \A S \in SUBSET RoleIDs :
                        rs \subseteq S /\ ParentClosed(S) => r \in S}

\* What computeAndCache collects for the user u: the permissions of the
\* resolved roles that exist, and the direct grants.
Effective(u) ==
    u.direct \cup UNION {roles[r].permissions :
                            r \in {q \in ResolveRoles(u.roles) : RoleExists(q)}}

\* The ancestor walk dropped: only the new parent itself is looked at.
ValidateNoWalkMutant(name, parent) ==
    parent # Nil => RoleExists(parent) /\ parent # name

\* validateInheritance returns no error: the parent exists, and following
\* Parent from it ends within MaxDepth roles (at a role without a parent or at
\* a missing one) and never meets name.
ValidateInheritance(name, parent) ==
    parent # Nil =>
        /\ RoleExists(parent)
        /\ \E n \in 1..MaxDepth : \E chain \in [1..n -> RoleIDs \ {name}] :
             /\ chain[1] = parent
             /\ \A i \in 1..(n - 1) : ParentOf(chain[i]) = chain[i + 1]
             /\ ParentOf(chain[n]) = Nil

-----------------------------------------------------------------------------
(* The memoized state.                                                     *)

\* Evictions and index updates that were forgotten.
EvictNobodyMutant(ids)         == cache
InvalidateNobodyMutant(name)   == cache
GrantHolderMutant(id, rs)      == roleHolders
RevokeHolderMutant(id, name)   == roleHolders

\* invalidateUser for each of ids.
Evict(ids) == [id \in UserIDs |-> IF id \in ids THEN Nil ELSE cache[id]]

\* invalidateRoleHolders: only the users that hold the role directly.
InvalidateRoleHolders(name) == Evict(roleHolders[name])

\* grantHolder for each role of rs.
GrantHolder(id, rs) ==
    [r \in RoleIDs |-> roleHolders[r] \cup (IF r \in rs THEN {id} ELSE {})]

\* revokeHolder.
RevokeHolder(id, name) == [roleHolders EXCEPT ![name] = @ \ {id}]

\* The entry setDirectRoles leaves for a user with direct roles rs.
DirectEntry(rs) == IF rs = {} THEN Nil ELSE rs

\* An entry that is there is deleted but never replaced.
SetDirectRolesMutant(id, rs) ==
    [directRoles EXCEPT ![id] = IF @ # Nil /\ rs # {} THEN @ ELSE DirectEntry(rs)]

\* setDirectRoles.
SetDirectRoles(id, rs) == [directRoles EXCEPT ![id] = DirectEntry(rs)]

-----------------------------------------------------------------------------
(* authz/users.go                                                          *)

CreateUser(id, rs) ==
    /\ rs \subseteq {r \in RoleIDs : RoleExists(r)} \cup LateRoles
    /\ StoreCreateUser(id, [roles |-> rs, direct |-> {}])
    /\ roleHolders' = GrantHolder(id, rs)
    /\ directRoles' = SetDirectRoles(id, rs)
    /\ UNCHANGED <<roles, cache, restarts>>

\* DeleteUser evicts before it asks the store, so also for an unknown user.
DeleteUser(id) ==
    /\ StoreDeleteUser(id) \/ (~UserExists(id) /\ UNCHANGED users)
    /\ cache' = Evict({id})
    /\ directRoles' = SetDirectRoles(id, {})
    /\ roleHolders' = [r \in RoleIDs |-> roleHolders[r] \ {id}]
    /\ UNCHANGED <<roles, restarts>>

AssignRole(id, name) ==
    /\ RoleExists(name)
    /\ UserExists(id)
    /\ name \notin users[id].roles
    /\ LET held == users[id].roles \cup {name}
       IN  /\ StoreUpdateUser(id, [users[id] EXCEPT !.roles = held])
           /\ roleHolders' = GrantHolder(id, {name})
           /\ directRoles' = SetDirectRoles(id, held)
    /\ cache' = Evict({id})
    /\ UNCHANGED <<roles, restarts>>

RevokeRole(id, name) ==
    /\ UserExists(id)
    /\ RoleExists(name)
    /\ LET kept == users[id].roles \ {name}
       IN  /\ StoreUpdateUser(id, [users[id] EXCEPT !.roles = kept])
           /\ roleHolders' = RevokeHolder(id, name)
           /\ directRoles' = SetDirectRoles(id, kept)
    /\ cache' = Evict({id})
    /\ UNCHANGED <<roles, restarts>>

GrantDirectPermission(id, p) ==
    /\ Valid(p)
    /\ UserExists(id)
    /\ p \notin users[id].direct
    /\ StoreUpdateUser(id, [users[id] EXCEPT !.direct = @ \cup {p}])
    /\ cache' = Evict({id})
    /\ UNCHANGED <<roles, directRoles, roleHolders, restarts>>

RevokeDirectPermission(id, p) ==
    /\ Valid(p)
    /\ UserExists(id)
    /\ StoreUpdateUser(id, [users[id] EXCEPT !.direct = @ \ {p}])
    /\ cache' = Evict({id})
    /\ UNCHANGED <<roles, directRoles, roleHolders, restarts>>

-----------------------------------------------------------------------------
(* authz/roles.go                                                          *)

CreateRole(name, perms, parent) ==
    /\ \A p \in perms : Valid(p)
    /\ ValidateInheritance(name, parent)
    /\ StoreCreateRole(name, [permissions |-> perms, parent |-> parent])
    /\ UNCHANGED <<users, memo, restarts>>

UpdateRole(name, perms, parent) ==
    /\ \A p \in perms : Valid(p)
    /\ ValidateInheritance(name, parent)
    /\ StoreUpdateRole(name, [permissions |-> perms, parent |-> parent])
    /\ cache' = InvalidateRoleHolders(name)
    /\ UNCHANGED <<users, directRoles, roleHolders, restarts>>

\* A grant that does not check the permission.
GrantPermissionMutant(name, p) ==
    /\ RoleExists(name)
    /\ p \notin roles[name].permissions
    /\ StoreUpdateRole(name, [roles[name] EXCEPT !.permissions = @ \cup {p}])
    /\ cache' = InvalidateRoleHolders(name)
    /\ UNCHANGED <<users, directRoles, roleHolders, restarts>>

GrantPermission(name, p) ==
    /\ Valid(p)
    /\ RoleExists(name)
    /\ p \notin roles[name].permissions
    /\ StoreUpdateRole(name, [roles[name] EXCEPT !.permissions = @ \cup {p}])
    /\ cache' = InvalidateRoleHolders(name)
    /\ UNCHANGED <<users, directRoles, roleHolders, restarts>>

RevokePermission(name, p) ==
    /\ Valid(p)
    /\ RoleExists(name)
    /\ StoreUpdateRole(name, [roles[name] EXCEPT !.permissions = @ \ {p}])
    /\ cache' = InvalidateRoleHolders(name)
    /\ UNCHANGED <<users, directRoles, roleHolders, restarts>>

SetParent(name, parent) ==
    /\ RoleExists(name)
    /\ parent # Nil => RoleExists(parent)
    /\ roles[name].parent # parent
    /\ ValidateInheritance(name, parent)
    /\ StoreUpdateRole(name, [roles[name] EXCEPT !.parent = parent])
    /\ cache' = InvalidateRoleHolders(name)
    /\ UNCHANGED <<users, directRoles, roleHolders, restarts>>

\* No child is found, so none is detached.
ChildrenOfMutant(name) == {}

ChildrenOf(name) == {r \in RoleIDs : ParentOf(r) = name}

\* DeleteRole: detach the users the index names, detach the children (evicting
\* their direct holders), drop the index entry, evict the users, then delete.
\* The loop returns early when the store does not know an indexed user; that
\* the index names no such user is HoldersSound.
DeleteRole(name) ==
    LET holders  == roleHolders[name]
        children == ChildrenOf(name)
    IN  /\ RoleExists(name)
        /\ \A id \in holders : UserExists(id)
        /\ users' = [id \in UserIDs |->
                        IF id \in holders
                        THEN [users[id] EXCEPT !.roles = @ \ {name}]
                        ELSE users[id]]
        /\ directRoles' = [id \in UserIDs |->
                              IF id \in holders
                              THEN DirectEntry(users[id].roles \ {name})
                              ELSE directRoles[id]]
        /\ roles' = [r \in RoleIDs |->
                        CASE r = name -> Nil
                          [] r # name /\ r \in children -> [roles[r] EXCEPT !.parent = Nil]
                          [] OTHER -> roles[r]]
        /\ roleHolders' = [roleHolders EXCEPT ![name] = {}]
        /\ cache' = Evict(holders \cup UNION {roleHolders[c] : c \in children})
        /\ UNCHANGED restarts

-----------------------------------------------------------------------------
(* authz/check.go: the reads that memoize                                  *)

\* Check, HasPermission, HasAllPermissions, HasAnyPermission and
\* PermissionsFor on a cache miss: getGrantedSetFull and computeAndCache.
FillGrantedSet(id) ==
    /\ cache[id] = Nil
    /\ UserExists(id)
    /\ cache' = [cache EXCEPT ![id] = Effective(users[id])]
    /\ directRoles' = [directRoles EXCEPT ![id] = IF @ = Nil THEN users[id].roles ELSE @]
    /\ UNCHANGED <<users, roles, roleHolders, restarts>>

\* HasRole, HasAnyRole and HasAllRoles on a miss: directRolesOf.
FillDirectRoles(id) ==
    /\ directRoles[id] = Nil
    /\ UserExists(id)
    /\ directRoles' = [directRoles EXCEPT ![id] = users[id].roles]
    /\ UNCHANGED <<users, roles, cache, roleHolders, restarts>>

\* The answer of HasPermission and Check, and of HasAllPermissions and
\* HasAnyPermission for each permission they are given: on a hit the store is
\* still asked for the user, then the memoized set decides.
GrantsTo(id, required) ==
    /\ UserExists(id)
    /\ \E p \in (IF cache[id] # Nil THEN cache[id] ELSE Effective(users[id])) :
          Matches(p, required)

\* The answer of HasRole, and of HasAnyRole and HasAllRoles for each role they
\* are given: on a hit the store is not asked at all.
HoldsRole(id, name) ==
    IF directRoles[id] # Nil
    THEN name \in directRoles[id]
    ELSE UserExists(id) /\ name \in users[id].roles

-----------------------------------------------------------------------------
Init ==
    /\ StoreInit
    /\ cache = [id \in UserIDs |-> Nil]
    /\ directRoles = [id \in UserIDs |-> Nil]
    /\ roleHolders = [name \in RoleIDs |-> {}]
    /\ restarts = 0

\* The process restarts: New(WithStore(s)) over the store of the previous run.
Restart ==
    /\ restarts < MaxRestarts
    /\ restarts' = restarts + 1
    /\ cache' = [id \in UserIDs |-> Nil]
    /\ directRoles' = [id \in UserIDs |-> Nil]
    /\ roleHolders' = [name \in RoleIDs |-> {}]
    /\ UNCHANGED <<users, roles>>

UserCall(id) ==
    \/ \E rs \in SUBSET RoleIDs : CreateUser(id, rs)
    \/ DeleteUser(id)
    \/ \E name \in RoleIDs : AssignRole(id, name)
    \/ \E name \in RoleIDs : RevokeRole(id, name)
    \/ \E p \in Permissions : GrantDirectPermission(id, p)
    \/ \E p \in Permissions : RevokeDirectPermission(id, p)
    \/ FillGrantedSet(id)
    \/ FillDirectRoles(id)

RoleCall(name) ==
    \/ \E perms \in SUBSET Permissions, parent \in RoleIDs \cup {Nil} :
          CreateRole(name, perms, parent)
    \/ \E perms \in SUBSET Permissions, parent \in RoleIDs \cup {Nil} :
          UpdateRole(name, perms, parent)
    \/ \E p \in Permissions : GrantPermission(name, p)
    \/ \E p \in Permissions : RevokePermission(name, p)
    \/ \E parent \in RoleIDs \cup {Nil} : SetParent(name, parent)
    \/ DeleteRole(name)

Next ==
    \/ \E id \in UserIDs : UserCall(id)
    \/ \E name \in RoleIDs : RoleCall(name)
    \/ Restart

Spec == Init /\ [][Next]_vars

-----------------------------------------------------------------------------
ValidPermissions == {p \in Permissions : Valid(p)}

\* The store holds only well-formed permissions: every write path of the API
\* checks Valid.
TypeOK ==
    /\ StoreTypeOK
    /\ \A id \in UserIDs : UserExists(id) => users[id].direct \subseteq ValidPermissions
    /\ \A r \in RoleIDs : RoleExists(r) => roles[r].permissions \subseteq ValidPermissions
    /\ cache \in [UserIDs -> {Nil} \cup SUBSET ValidPermissions]
    /\ directRoles \in [UserIDs -> {Nil} \cup SUBSET RoleIDs]
    /\ roleHolders \in [RoleIDs -> SUBSET UserIDs]
    /\ restarts \in 0..MaxRestarts

\* The users that hold name according to the store.
HoldersOf(name) == {id \in UserIDs : UserExists(id) /\ name \in users[id].roles}

\* The reverse index names only users that the store knows and that hold the
\* role: DeleteRole's loop over it never meets an unknown user and returns
\* early with the role half deleted.
HoldersSound == \A r \in RoleIDs : roleHolders[r] \subseteq HoldersOf(r)

\* The reverse index names every holder of every role, whatever sequence of
\* calls built it: invalidateRoleHolders and DeleteRole reach all of them.
HoldersComplete == \A r \in RoleIDs : HoldersOf(r) \subseteq roleHolders[r]

\* HasRole, which answers from directRoles without asking the store, answers
\* what the store says, for deleted and re-created users too.
HasRoleExact ==
    \A id \in UserIDs, r \in RoleIDs :
        HoldsRole(id, r) <=> UserExists(id) /\ r \in users[id].roles

\* Nothing is memoized for a user the store does not know, so a user created
\* later under the same name starts from nothing.
NoGhostEntries ==
    \A id \in UserIDs : ~UserExists(id) =>
        cache[id] = Nil /\ directRoles[id] = Nil /\ \A r \in RoleIDs : id \notin roleHolders[r]

\* Following Parent from any role ends: validateInheritance keeps every
\* sequence of creations, updates and re-parentings free of cycles.  (A finite
\* graph has a cycle iff some non-empty set holds a parent of each member.)
Acyclic ==
    \A S \in SUBSET RoleIDs : S # {} => \E r \in S : ParentOf(r) \notin S

\* The parent of every stored role exists: a dangling ancestor "can only come
\* from external store edits" (authz/validate.go).
NoDanglingParent ==
    \A r \in RoleIDs : ParentOf(r) # Nil => RoleExists(ParentOf(r))

\* DeleteRole "cascade-detaches it from every user's Roles" (authz/roles.go):
\* no user is left holding a role that is gone, to be granted whatever role is
\* created under that name next.
CascadeDetaches ==
    \A id \in UserIDs : UserExists(id) => \A r \in users[id].roles : RoleExists(r)

\* A user all of whose roles are without a parent.
Flat(id) == \A r \in users[id].roles : ParentOf(r) = Nil

\* For a user whose roles have no parents the memoized set is the effective
\* one: each change to the user or to one of its roles evicted the entry.
FlatCacheExact ==
    \A id \in UserIDs :
        UserExists(id) /\ Flat(id) /\ cache[id] # Nil => cache[id] = Effective(users[id])

\* Whatever the inheritance, no grant made to the user or to a role it holds
\* directly is missing from the memoized set.
DirectGrantsCached ==
    \A id \in UserIDs :
        UserExists(id) /\ cache[id] # Nil =>
            /\ users[id].direct \subseteq cache[id]
            /\ \A r \in users[id].roles : RoleExists(r) => roles[r].permissions \subseteq cache[id]

\* As long as the Enforcer is the one that built the store, its index leads
\* DeleteRole and invalidateRoleHolders to every holder.
IndexCompleteUntilRestart == restarts = 0 => HoldersComplete /\ CascadeDetaches

\* As long as the Enforcer is the one that built the store, every mutation
\* evicted the entries it made wrong, inheritance left aside.
CacheExactUntilRestart == restarts = 0 => FlatCacheExact /\ DirectGrantsCached

\* Check answers from the current store: "Mutations invalidate the affected
\* entries ... so the next check recomputes lazily" (authz/authz.go).
CheckExact ==
    \A id \in UserIDs, required \in Permissions :
        GrantsTo(id, required) <=>
            UserExists(id) /\ \E p \in Effective(users[id]) : Matches(p, required)

\* "validateInheritance rejects ... chains deeper than maxDepth"
\* (authz/validate.go): no stored role has more than MaxDepth ancestors.
DepthBounded ==
    \A r \in RoleIDs : RoleExists(r) => Cardinality(ResolveRoles({r})) <= MaxDepth + 1
=============================================================================
