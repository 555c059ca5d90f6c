--------------------------- MODULE EnforcerProofs ---------------------------
(***************************************************************************)
(* Proofs about Enforcer for every set of users, roles and permissions.    *)
(***************************************************************************)
EXTENDS Enforcer, TLAPS

USE NilAssumption, MaxRestartsAssumption, LateRolesAssumption, MaxDepthAssumption

-----------------------------------------------------------------------------
(* Type correctness.                                                       *)

LEMMA EffectiveType ==
    ASSUME TypeOK, NEW id \in UserIDs, UserExists(id)
    PROVE  Effective(users[id]) \subseteq ValidPermissions
  BY DEF TypeOK, StoreTypeOK, Effective, ResolveRoles, UserExists, RoleExists, User

\* Every reachable state is well typed and the store holds only permissions
\* that Permission.Valid accepts.
THEOREM TypeCorrect == Spec => []TypeOK
<1>1. Init => TypeOK
  BY DEF Init, StoreInit, TypeOK, StoreTypeOK, UserExists, RoleExists
<1>2. TypeOK /\ [Next]_vars => TypeOK'
  <2> SUFFICES ASSUME TypeOK, [Next]_vars PROVE TypeOK'
    OBVIOUS
  <2> USE DEF TypeOK, StoreTypeOK, User, Role, UserExists, RoleExists
  <2>1. ASSUME NEW id \in UserIDs, NEW rs \in SUBSET RoleIDs, CreateUser(id, rs)
        PROVE  TypeOK'
    BY <2>1 DEF CreateUser, StoreCreateUser, GrantHolder, SetDirectRoles, DirectEntry
  <2>2. ASSUME NEW id \in UserIDs, DeleteUser(id)
        PROVE  TypeOK'
    BY <2>2 DEF DeleteUser, StoreDeleteUser, Evict, SetDirectRoles, DirectEntry
  <2>3. ASSUME NEW id \in UserIDs, NEW name \in RoleIDs, AssignRole(id, name)
        PROVE  TypeOK'
    BY <2>3 DEF AssignRole, StoreUpdateUser, GrantHolder, SetDirectRoles, DirectEntry, Evict
  <2>4. ASSUME NEW id \in UserIDs, NEW name \in RoleIDs, RevokeRole(id, name)
        PROVE  TypeOK'
    BY <2>4 DEF RevokeRole, StoreUpdateUser, RevokeHolder, SetDirectRoles, DirectEntry, Evict
  <2>5. ASSUME NEW id \in UserIDs, NEW p \in Permissions, GrantDirectPermission(id, p)
        PROVE  TypeOK'
    BY <2>5 DEF GrantDirectPermission, StoreUpdateUser, Evict, ValidPermissions
  <2>6. ASSUME NEW id \in UserIDs, NEW p \in Permissions, RevokeDirectPermission(id, p)
        PROVE  TypeOK'
    BY <2>6 DEF RevokeDirectPermission, StoreUpdateUser, Evict
  <2>7. ASSUME NEW id \in UserIDs, FillGrantedSet(id)
        PROVE  TypeOK'
    BY <2>7, EffectiveType DEF FillGrantedSet
  <2>8. ASSUME NEW id \in UserIDs, FillDirectRoles(id)
        PROVE  TypeOK'
    BY <2>8 DEF FillDirectRoles
  <2>9. ASSUME NEW name \in RoleIDs, NEW perms \in SUBSET Permissions,
               NEW parent \in RoleIDs \cup {Nil}, CreateRole(name, perms, parent)
        PROVE  TypeOK'
    BY <2>9 DEF CreateRole, StoreCreateRole, memo, ValidPermissions
  <2>10. ASSUME NEW name \in RoleIDs, NEW perms \in SUBSET Permissions,
                NEW parent \in RoleIDs \cup {Nil}, UpdateRole(name, perms, parent)
         PROVE  TypeOK'
    BY <2>10 DEF UpdateRole, StoreUpdateRole, InvalidateRoleHolders, Evict, ValidPermissions
  <2>11. ASSUME NEW name \in RoleIDs, NEW p \in Permissions, GrantPermission(name, p)
         PROVE  TypeOK'
    BY <2>11 DEF GrantPermission, StoreUpdateRole, InvalidateRoleHolders, Evict, ValidPermissions
  <2>12. ASSUME NEW name \in RoleIDs, NEW p \in Permissions, RevokePermission(name, p)
         PROVE  TypeOK'
    BY <2>12 DEF RevokePermission, StoreUpdateRole, InvalidateRoleHolders, Evict
  <2>13. ASSUME NEW name \in RoleIDs, NEW parent \in RoleIDs \cup {Nil}, SetParent(name, parent)
         PROVE  TypeOK'
    BY <2>13 DEF SetParent, StoreUpdateRole, InvalidateRoleHolders, Evict
  <2>14. ASSUME NEW name \in RoleIDs, DeleteRole(name)
         PROVE  TypeOK'
    BY <2>14 DEF DeleteRole, ChildrenOf, ParentOf, DirectEntry, Evict
  <2>15. CASE Restart
    BY <2>15 DEF Restart
  <2>16. CASE UNCHANGED vars
    BY <2>16 DEF vars
  <2> QED
    BY <2>1, <2>2, <2>3, <2>4, <2>5, <2>6, <2>7, <2>8, <2>9, <2>10, <2>11, <2>12,
       <2>13, <2>14, <2>15, <2>16 DEF Next, UserCall, RoleCall
<1> QED
  BY <1>1, <1>2, PTL DEF Spec

-----------------------------------------------------------------------------
(* The memoized state names only users the store knows.                    *)

\* Each memoized set of direct roles is the stored one.
DirectRolesExact ==
    \A id \in UserIDs : directRoles[id] # Nil =>
        UserExists(id) /\ directRoles[id] = users[id].roles

\* Taking a role from a user leaves a user.
LEMMA WithoutRole ==
    ASSUME NEW u \in User, NEW name
    PROVE  LET w == [u EXCEPT !.roles = @ \ {name}]
           IN  w \in User /\ w # Nil /\ w.roles = u.roles \ {name} /\ w.direct = u.direct
  BY DEF User

MemoInv == TypeOK /\ HoldersSound /\ NoGhostEntries /\ DirectRolesExact

LEMMA MemoInvariant == Spec => []MemoInv
<1>1. Init => MemoInv
  BY DEF Init, StoreInit, MemoInv, TypeOK, StoreTypeOK, HoldersSound, NoGhostEntries,
         DirectRolesExact, UserExists, RoleExists
<1>2. MemoInv /\ TypeOK' /\ [Next]_vars => MemoInv'
  <2> SUFFICES ASSUME MemoInv, TypeOK', [Next]_vars PROVE MemoInv'
    OBVIOUS
  <2> USE DEF MemoInv, TypeOK, StoreTypeOK, User, UserExists, HoldersSound, HoldersOf,
              NoGhostEntries, DirectRolesExact
  <2>1. ASSUME NEW id \in UserIDs, NEW rs \in SUBSET RoleIDs, CreateUser(id, rs)
        PROVE  MemoInv'
    BY <2>1 DEF CreateUser, StoreCreateUser, GrantHolder, SetDirectRoles, DirectEntry
  <2>2. ASSUME NEW id \in UserIDs, DeleteUser(id)
        PROVE  MemoInv'
    BY <2>2 DEF DeleteUser, StoreDeleteUser, Evict, SetDirectRoles, DirectEntry
  <2>3. ASSUME NEW id \in UserIDs, NEW name \in RoleIDs, AssignRole(id, name)
        PROVE  MemoInv'
    BY <2>3 DEF AssignRole, StoreUpdateUser, GrantHolder, SetDirectRoles, DirectEntry, Evict
  <2>4. ASSUME NEW id \in UserIDs, NEW name \in RoleIDs, RevokeRole(id, name)
        PROVE  MemoInv'
    BY <2>4 DEF RevokeRole, StoreUpdateUser, RevokeHolder, SetDirectRoles, DirectEntry, Evict
  <2>5. ASSUME NEW id \in UserIDs, NEW p \in Permissions, GrantDirectPermission(id, p)
        PROVE  MemoInv'
    BY <2>5 DEF GrantDirectPermission, StoreUpdateUser, Evict
  <2>6. ASSUME NEW id \in UserIDs, NEW p \in Permissions, RevokeDirectPermission(id, p)
        PROVE  MemoInv'
    BY <2>6 DEF RevokeDirectPermission, StoreUpdateUser, Evict
  <2>7. ASSUME NEW id \in UserIDs, FillGrantedSet(id)
        PROVE  MemoInv'
    BY <2>7 DEF FillGrantedSet
  <2>8. ASSUME NEW id \in UserIDs, FillDirectRoles(id)
        PROVE  MemoInv'
    BY <2>8 DEF FillDirectRoles
  <2>9. ASSUME NEW name \in RoleIDs, NEW perms \in SUBSET Permissions,
               NEW parent \in RoleIDs \cup {Nil}, CreateRole(name, perms, parent)
        PROVE  MemoInv'
    BY <2>9 DEF CreateRole, StoreCreateRole, memo
  <2>10. ASSUME NEW name \in RoleIDs, NEW perms \in SUBSET Permissions,
               NEW parent \in RoleIDs \cup {Nil}, UpdateRole(name, perms, parent)
        PROVE  MemoInv'
    BY <2>10 DEF UpdateRole, StoreUpdateRole, InvalidateRoleHolders, Evict
  <2>11. ASSUME NEW name \in RoleIDs, NEW p \in Permissions, GrantPermission(name, p)
        PROVE  MemoInv'
    BY <2>11 DEF GrantPermission, StoreUpdateRole, InvalidateRoleHolders, Evict
  <2>12. ASSUME NEW name \in RoleIDs, NEW p \in Permissions, RevokePermission(name, p)
        PROVE  MemoInv'
    BY <2>12 DEF RevokePermission, StoreUpdateRole, InvalidateRoleHolders, Evict
  <2>13. ASSUME NEW name \in RoleIDs, NEW parent \in RoleIDs \cup {Nil}, SetParent(name, parent)
        PROVE  MemoInv'
    BY <2>13 DEF SetParent, StoreUpdateRole, InvalidateRoleHolders, Evict
  <2>14. ASSUME NEW name \in RoleIDs, DeleteRole(name)
        PROVE  MemoInv'
    <3>1. /\ users' = [id \in UserIDs |-> IF id \in roleHolders[name]
                                          THEN [users[id] EXCEPT !.roles = @ \ {name}]
                                          ELSE users[id]]
          /\ directRoles' = [id \in UserIDs |-> IF id \in roleHolders[name]
                                                THEN DirectEntry(users[id].roles \ {name})
                                                ELSE directRoles[id]]
          /\ roleHolders' = [roleHolders EXCEPT ![name] = {}]
          /\ \A id \in UserIDs : cache'[id] \in {Nil, cache[id]}
      BY <2>14 DEF DeleteRole, Evict
    <3>2. \A id \in roleHolders[name] : id \in UserIDs /\ users[id] \in User
      OBVIOUS
    <3>3. \A id \in roleHolders[name] : users'[id] = [users[id] EXCEPT !.roles = @ \ {name}]
      BY <3>1, <3>2
    <3>4. ASSUME NEW id \in roleHolders[name]
          PROVE  users'[id] # Nil /\ users'[id].roles = users[id].roles \ {name}
      <4> DEFINE w == [users[id] EXCEPT !.roles = @ \ {name}]
      <4>1. users[id] \in User
        BY <3>2
      <4>2. w # Nil /\ w.roles = users[id].roles \ {name}
        BY ONLY <4>1, WithoutRole
      <4>3. users'[id] = w
        BY <3>3
      <4> QED
        BY ONLY <4>2, <4>3
    <3>5. \A id \in UserIDs \ roleHolders[name] : users'[id] = users[id]
      BY <3>1
    <3>6. HoldersSound'
      BY <3>1, <3>4, <3>5
    <3>7. NoGhostEntries'
      BY <3>1, <3>4, <3>5
    <3>8. DirectRolesExact'
      BY <3>1, <3>4, <3>5 DEF DirectEntry
    <3> QED
      BY <3>6, <3>7, <3>8
  <2>15. CASE Restart
    BY <2>15 DEF Restart
  <2>16. CASE UNCHANGED vars
    BY <2>16 DEF vars
  <2> QED
    BY <2>1, <2>2, <2>3, <2>4, <2>5, <2>6, <2>7, <2>8, <2>9, <2>10, <2>11, <2>12,
       <2>13, <2>14, <2>15, <2>16 DEF Next, UserCall, RoleCall
<1> QED
  BY <1>1, <1>2, TypeCorrect, PTL DEF Spec

\* HasRole's answers from the memoized direct roles are the store's answers, and
\* neither memo nor index outlives its user: for every sequence of calls, late
\* roles and restarts included.
THEOREM MemoCorrect == Spec => [](HoldersSound /\ NoGhostEntries /\ HasRoleExact)
<1>1. MemoInv => HasRoleExact
  BY DEF MemoInv, DirectRolesExact, HasRoleExact, HoldsRole
<1> QED
  BY <1>1, MemoInvariant, PTL DEF MemoInv

-----------------------------------------------------------------------------
(* Inheritance stays acyclic, with no dangling parent.                     *)

InheritanceInv == TypeOK /\ Acyclic /\ NoDanglingParent

\* A validated parent lies on a parent-closed set of roles that avoids name.
LEMMA ValidatedChain ==
    ASSUME TypeOK, NEW name \in RoleIDs, NEW parent \in RoleIDs,
           ValidateInheritance(name, parent)
    PROVE  \E A \in SUBSET (RoleIDs \ {name}) : parent \in A /\ ParentClosed(A)
<1>0. PICK n \in 1..MaxDepth : \E chain \in [1..n -> RoleIDs \ {name}] :
          /\ chain[1] = parent
          /\ \A i \in 1..(n - 1) : ParentOf(chain[i]) = chain[i + 1]
          /\ ParentOf(chain[n]) = Nil
  BY DEF ValidateInheritance
<1>1. PICK chain \in [1..n -> RoleIDs \ {name}] :
          /\ chain[1] = parent
          /\ \A i \in 1..(n - 1) : ParentOf(chain[i]) = chain[i + 1]
          /\ ParentOf(chain[n]) = Nil
  BY <1>0
<1> DEFINE A == {chain[i] : i \in 1..n}
<1>2. A \in SUBSET (RoleIDs \ {name}) /\ parent \in A
  BY <1>1
<1>3. ASSUME NEW i \in 1..n, ParentOf(chain[i]) # Nil
      PROVE  ParentOf(chain[i]) \in A
  <2>1. i \in 1..(n - 1) /\ i + 1 \in 1..n
    BY <1>1, <1>3
  <2> QED
    BY <1>1, <2>1
<1>4. ParentClosed(A)
  BY <1>3 DEF ParentClosed
<1> QED
  BY <1>2, <1>4

\* Giving name no parent, or one from which following Parent does not lead back
\* to it, and leaving every other parent alone keeps the roles acyclic.
LEMMA ReparentClosed ==
    ASSUME Acyclic, NEW name \in RoleIDs, NEW parent \in RoleIDs \cup {Nil},
           parent # Nil => \E A \in SUBSET (RoleIDs \ {name}) : parent \in A /\ ParentClosed(A),
           ParentOf(name)' = parent,
           \A r \in RoleIDs \ {name} : ParentOf(r)' = ParentOf(r)
    PROVE  Acyclic'
<1> SUFFICES ASSUME NEW S \in SUBSET RoleIDs, S # {},
                    \A r \in S : ParentOf(r)' \in S
             PROVE  FALSE
  BY DEF Acyclic
<1>1. CASE name \notin S
  BY <1>1 DEF Acyclic
<1>2. CASE name \in S
  <2>1. parent \in S /\ parent \in RoleIDs
    BY <1>2
  <2>2. PICK A \in SUBSET (RoleIDs \ {name}) : parent \in A /\ ParentClosed(A)
    BY <2>1, NilAssumption
  <2>3. \A r \in S \cap A : ParentOf(r) \in S \cap A
    <3>1. ASSUME NEW r \in S \cap A PROVE ParentOf(r) \in S
      BY <2>2
    <3> QED
      BY <2>2, <3>1, NilAssumption DEF ParentClosed
  <2>4. S \cap A # {} /\ S \cap A \in SUBSET RoleIDs
    BY <2>1, <2>2
  <2> QED
    BY <2>3, <2>4 DEF Acyclic
<1> QED
  BY <1>1, <1>2

\* Giving name a validated parent keeps the roles acyclic.
LEMMA ReparentAcyclic ==
    ASSUME TypeOK, Acyclic,
           NEW name \in RoleIDs, NEW parent \in RoleIDs \cup {Nil},
           ValidateInheritance(name, parent),
           ParentOf(name)' = parent,
           \A r \in RoleIDs \ {name} : ParentOf(r)' = ParentOf(r)
    PROVE  Acyclic'
<1>1. parent # Nil => \E A \in SUBSET (RoleIDs \ {name}) : parent \in A /\ ParentClosed(A)
  BY ValidatedChain
<1> QED
  BY <1>1, ReparentClosed

\* For every sequence of creations, updates, re-parentings and deletions the
\* Parent graph has no cycle and no dangling parent.
THEOREM InheritanceCorrect == Spec => [](Acyclic /\ NoDanglingParent)
<1>1. Init => Acyclic /\ NoDanglingParent
  BY DEF Init, StoreInit, Acyclic, NoDanglingParent, ParentOf, RoleExists
<1>2. InheritanceInv /\ TypeOK' /\ [Next]_vars => InheritanceInv'
  <2> SUFFICES ASSUME InheritanceInv, TypeOK', [Next]_vars PROVE InheritanceInv'
    OBVIOUS
  <2> USE DEF InheritanceInv
  <2>10. \A r \in RoleIDs : ParentOf(r) \in RoleIDs \cup {Nil}
    BY DEF TypeOK, StoreTypeOK, Role, ParentOf, RoleExists
  <2>0. ASSUME UNCHANGED roles PROVE InheritanceInv'
    BY <2>0 DEF Acyclic, NoDanglingParent, ParentOf, RoleExists
  <2>1. ASSUME NEW id \in UserIDs, UserCall(id) PROVE InheritanceInv'
    BY <2>0, <2>1 DEF UserCall, CreateUser, DeleteUser, AssignRole, RevokeRole,
       GrantDirectPermission, RevokeDirectPermission, FillGrantedSet, FillDirectRoles
  <2>2. ASSUME NEW name \in RoleIDs, NEW perms \in SUBSET Permissions,
               NEW parent \in RoleIDs \cup {Nil}, CreateRole(name, perms, parent)
        PROVE  InheritanceInv'
    <3>1. ParentOf(name)' = parent /\ \A r \in RoleIDs \ {name} : ParentOf(r)' = ParentOf(r)
      BY <2>2 DEF CreateRole, StoreCreateRole, TypeOK, StoreTypeOK, Role, ParentOf, RoleExists
    <3>2. ValidateInheritance(name, parent) /\ (parent # Nil => RoleExists(parent))
      BY <2>2 DEF CreateRole, ValidateInheritance
    <3>3. Acyclic'
      BY <3>1, <3>2, ReparentAcyclic
    <3>4. NoDanglingParent'
      BY <2>2, <3>1, <3>2 DEF CreateRole, StoreCreateRole, NoDanglingParent, TypeOK, StoreTypeOK, Role, ParentOf, RoleExists
    <3> QED
      BY <3>3, <3>4
  <2>3. ASSUME NEW name \in RoleIDs, NEW perms \in SUBSET Permissions,
               NEW parent \in RoleIDs \cup {Nil}, UpdateRole(name, perms, parent)
        PROVE  InheritanceInv'
    <3>1. ParentOf(name)' = parent /\ \A r \in RoleIDs \ {name} : ParentOf(r)' = ParentOf(r)
      BY <2>3 DEF UpdateRole, StoreUpdateRole, TypeOK, StoreTypeOK, Role, ParentOf, RoleExists
    <3>2. ValidateInheritance(name, parent) /\ (parent # Nil => RoleExists(parent))
      BY <2>3 DEF UpdateRole, ValidateInheritance
    <3>3. Acyclic'
      BY <3>1, <3>2, ReparentAcyclic
    <3>4. NoDanglingParent'
      BY <2>3, <3>1, <3>2 DEF UpdateRole, StoreUpdateRole, NoDanglingParent, TypeOK, StoreTypeOK, Role, ParentOf, RoleExists
    <3> QED
      BY <3>3, <3>4
  <2>4. ASSUME NEW name \in RoleIDs, NEW p \in Permissions, GrantPermission(name, p)
        PROVE  InheritanceInv'
    <3>1. \A r \in RoleIDs : ParentOf(r)' = ParentOf(r) /\ (RoleExists(r)' <=> RoleExists(r))
      BY <2>4 DEF GrantPermission, StoreUpdateRole, TypeOK, StoreTypeOK, Role, ParentOf, RoleExists
    <3>2. Acyclic'
      BY <3>1 DEF Acyclic
    <3>3. NoDanglingParent'
      BY <2>10, <3>1 DEF NoDanglingParent, RoleExists
    <3> QED
      BY <3>2, <3>3
  <2>5. ASSUME NEW name \in RoleIDs, NEW p \in Permissions, RevokePermission(name, p)
        PROVE  InheritanceInv'
    <3>1. \A r \in RoleIDs : ParentOf(r)' = ParentOf(r) /\ (RoleExists(r)' <=> RoleExists(r))
      BY <2>5 DEF RevokePermission, StoreUpdateRole, TypeOK, StoreTypeOK, Role, ParentOf, RoleExists
    <3>2. Acyclic'
      BY <3>1 DEF Acyclic
    <3>3. NoDanglingParent'
      BY <2>10, <3>1 DEF NoDanglingParent, RoleExists
    <3> QED
      BY <3>2, <3>3
  <2>6. ASSUME NEW name \in RoleIDs, NEW parent \in RoleIDs \cup {Nil}, SetParent(name, parent)
        PROVE  InheritanceInv'
    <3>1. ParentOf(name)' = parent /\ \A r \in RoleIDs \ {name} : ParentOf(r)' = ParentOf(r)
      BY <2>6 DEF SetParent, StoreUpdateRole, TypeOK, StoreTypeOK, Role, ParentOf, RoleExists
    <3>2. ValidateInheritance(name, parent) /\ (parent # Nil => RoleExists(parent))
      BY <2>6 DEF SetParent, ValidateInheritance
    <3>3. Acyclic'
      BY <3>1, <3>2, ReparentAcyclic
    <3>4. NoDanglingParent'
      BY <2>6, <3>1, <3>2 DEF SetParent, StoreUpdateRole, NoDanglingParent, TypeOK, StoreTypeOK, Role, ParentOf, RoleExists
    <3> QED
      BY <3>3, <3>4
  <2>7. ASSUME NEW name \in RoleIDs, DeleteRole(name)
        PROVE  InheritanceInv'
    <3>1. \A r \in RoleIDs : ParentOf(r)' \in {Nil, ParentOf(r)} /\ ParentOf(r)' # name
      BY <2>7 DEF DeleteRole, ChildrenOf, TypeOK, StoreTypeOK, Role, ParentOf, RoleExists
    <3>2. \A r \in RoleIDs \ {name} : (RoleExists(r)' <=> RoleExists(r))
      BY <2>7 DEF DeleteRole, ChildrenOf, TypeOK, StoreTypeOK, Role, ParentOf, RoleExists
    <3>3. Acyclic'
      BY <3>1 DEF Acyclic
    <3>4. NoDanglingParent'
      BY <2>10, <3>1, <3>2 DEF NoDanglingParent, RoleExists
    <3> QED
      BY <3>3, <3>4
  <2>8. CASE Restart
    BY <2>0, <2>8 DEF Restart
  <2>9. CASE UNCHANGED vars
    BY <2>0, <2>9 DEF vars
  <2> QED
    BY <2>1, <2>2, <2>3, <2>4, <2>5, <2>6, <2>7, <2>8, <2>9 DEF Next, RoleCall
<1> QED
  BY <1>1, <1>2, TypeCorrect, PTL DEF Spec, InheritanceInv

-----------------------------------------------------------------------------
(* The reverse index and the cache of one Enforcer that built its store.   *)

\* The process that will not have restarted has not restarted.
LEMMA SameProcess ==
    ASSUME TypeOK, [Next]_vars, restarts' = 0
    PROVE  restarts = 0 /\ ~Restart
<1>1. CASE Restart
  BY <1>1 DEF Restart, TypeOK
<1>2. CASE UNCHANGED vars
  BY <1>2 DEF vars, Restart
<1>3. ASSUME NEW id \in UserIDs, UserCall(id) PROVE restarts' = restarts
  BY <1>3 DEF UserCall, CreateUser, DeleteUser, AssignRole, RevokeRole, GrantDirectPermission,
              RevokeDirectPermission, FillGrantedSet, FillDirectRoles
<1>4. ASSUME NEW name \in RoleIDs, RoleCall(name) PROVE restarts' = restarts
  BY <1>4 DEF RoleCall, CreateRole, UpdateRole, GrantPermission, RevokePermission, SetParent,
              DeleteRole
<1> QED
  BY <1>1, <1>2, <1>3, <1>4 DEF Next, Restart, TypeOK

\* Until a restart the reverse index names every holder.
LEMMA IndexComplete == Spec => [](restarts = 0 => HoldersComplete)
<1>1. Init => HoldersComplete
  BY DEF Init, StoreInit, HoldersComplete, HoldersOf, UserExists
<1>2. MemoInv /\ (restarts = 0 => HoldersComplete) /\ [Next]_vars
      => (restarts = 0 => HoldersComplete)'
  <2> SUFFICES ASSUME MemoInv, restarts = 0 => HoldersComplete, [Next]_vars, restarts' = 0
               PROVE  HoldersComplete'
    OBVIOUS
  <2>0. HoldersComplete /\ ~Restart
    BY SameProcess DEF MemoInv
  <2> USE DEF MemoInv, TypeOK, StoreTypeOK, User, UserExists, HoldersComplete, HoldersOf
  <2>1. ASSUME NEW id \in UserIDs, NEW rs \in SUBSET RoleIDs, CreateUser(id, rs)
        PROVE  HoldersComplete'
    BY <2>0, <2>1 DEF CreateUser, StoreCreateUser, GrantHolder
  <2>2. ASSUME NEW id \in UserIDs, DeleteUser(id)
        PROVE  HoldersComplete'
    BY <2>0, <2>2 DEF DeleteUser, StoreDeleteUser
  <2>3. ASSUME NEW id \in UserIDs, NEW name \in RoleIDs, AssignRole(id, name)
        PROVE  HoldersComplete'
    BY <2>0, <2>3 DEF AssignRole, StoreUpdateUser, GrantHolder
  <2>4. ASSUME NEW id \in UserIDs, NEW name \in RoleIDs, RevokeRole(id, name)
        PROVE  HoldersComplete'
    BY <2>0, <2>4 DEF RevokeRole, StoreUpdateUser, RevokeHolder
  <2>5. ASSUME NEW id \in UserIDs, NEW p \in Permissions,
               GrantDirectPermission(id, p) \/ RevokeDirectPermission(id, p)
        PROVE  HoldersComplete'
    BY <2>0, <2>5 DEF GrantDirectPermission, RevokeDirectPermission, StoreUpdateUser
  <2>6. ASSUME UNCHANGED <<users, roleHolders>>
        PROVE  HoldersComplete'
    BY <2>0, <2>6
  <2>7. ASSUME NEW name \in RoleIDs, DeleteRole(name)
        PROVE  HoldersComplete'
    BY <2>0, <2>7 DEF DeleteRole
  <2>8. ASSUME NEW name \in RoleIDs, RoleCall(name), ~DeleteRole(name)
        PROVE  HoldersComplete'
    BY <2>6, <2>8 DEF RoleCall, CreateRole, UpdateRole, GrantPermission, RevokePermission,
                      SetParent, memo
  <2>9. ASSUME NEW id \in UserIDs, FillGrantedSet(id) \/ FillDirectRoles(id)
        PROVE  HoldersComplete'
    BY <2>6, <2>9 DEF FillGrantedSet, FillDirectRoles
  <2>10. CASE UNCHANGED vars
    BY <2>6, <2>10 DEF vars
  <2> QED
    BY <2>1, <2>2, <2>3, <2>4, <2>5, <2>7, <2>8, <2>9, <2>10, <2>0 DEF Next, UserCall
<1> QED
  BY <1>1, <1>2, MemoInvariant, PTL DEF Spec

\* Where callers name only existing roles, deleting a role detaches it from
\* every user: the index that DeleteRole walks is complete.
THEOREM CascadeCorrect ==
    ASSUME LateRoles = {}
    PROVE  Spec => []IndexCompleteUntilRestart
<1>1. Init => CascadeDetaches
  BY DEF Init, StoreInit, CascadeDetaches, UserExists
<1>2. /\ MemoInv /\ (restarts = 0 => HoldersComplete) /\ (restarts = 0 => CascadeDetaches)
      /\ [Next]_vars
      => (restarts = 0 => CascadeDetaches)'
  <2> SUFFICES ASSUME MemoInv, restarts = 0 => HoldersComplete, restarts = 0 => CascadeDetaches,
                      [Next]_vars, restarts' = 0
               PROVE  CascadeDetaches'
    OBVIOUS
  <2>0. HoldersComplete /\ CascadeDetaches /\ ~Restart
    BY SameProcess DEF MemoInv
  <2> USE DEF MemoInv, TypeOK, StoreTypeOK, User, Role, UserExists, RoleExists, CascadeDetaches
  <2>1. ASSUME NEW id \in UserIDs, NEW rs \in SUBSET RoleIDs, CreateUser(id, rs)
        PROVE  CascadeDetaches'
    BY <2>0, <2>1 DEF CreateUser, StoreCreateUser
  <2>2. ASSUME NEW id \in UserIDs, DeleteUser(id)
        PROVE  CascadeDetaches'
    BY <2>0, <2>2 DEF DeleteUser, StoreDeleteUser
  <2>3. ASSUME NEW id \in UserIDs, NEW name \in RoleIDs,
               AssignRole(id, name) \/ RevokeRole(id, name)
        PROVE  CascadeDetaches'
    BY <2>0, <2>3 DEF AssignRole, RevokeRole, StoreUpdateUser
  <2>4. ASSUME NEW id \in UserIDs, NEW p \in Permissions,
               GrantDirectPermission(id, p) \/ RevokeDirectPermission(id, p)
        PROVE  CascadeDetaches'
    BY <2>0, <2>4 DEF GrantDirectPermission, RevokeDirectPermission, StoreUpdateUser
  <2>5. ASSUME UNCHANGED users, \A r \in RoleIDs : RoleExists(r) => RoleExists(r)'
        PROVE  CascadeDetaches'
    BY <2>0, <2>5
  <2>6. ASSUME NEW name \in RoleIDs, RoleCall(name), ~DeleteRole(name)
        PROVE  CascadeDetaches'
    BY <2>5, <2>6 DEF RoleCall, CreateRole, UpdateRole, GrantPermission, RevokePermission,
                      SetParent, StoreCreateRole, StoreUpdateRole
  <2>7. ASSUME NEW name \in RoleIDs, DeleteRole(name)
        PROVE  CascadeDetaches'
    <3>1. \A r \in RoleIDs \ {name} : RoleExists(r) => RoleExists(r)'
      BY <2>0, <2>7 DEF DeleteRole, ChildrenOf, ParentOf
    <3>2. ASSUME NEW id \in UserIDs, id \in roleHolders[name]
          PROVE  users'[id].roles = users[id].roles \ {name}
      BY <2>7, <3>2 DEF DeleteRole, HoldersSound, HoldersOf
    <3>3. ASSUME NEW id \in UserIDs, id \notin roleHolders[name], UserExists(id)
          PROVE  users'[id] = users[id] /\ name \notin users[id].roles
      BY <2>0, <2>7, <3>3 DEF DeleteRole, HoldersComplete, HoldersOf
    <3>4. ASSUME NEW id \in UserIDs, UserExists(id)'
          PROVE  UserExists(id)
      BY <2>7, <3>4 DEF DeleteRole, HoldersSound, HoldersOf
    <3> QED
      BY <2>0, <3>1, <3>2, <3>3, <3>4
  <2>8. ASSUME NEW id \in UserIDs, FillGrantedSet(id) \/ FillDirectRoles(id)
        PROVE  CascadeDetaches'
    BY <2>5, <2>8 DEF FillGrantedSet, FillDirectRoles
  <2>9. CASE UNCHANGED vars
    BY <2>5, <2>9 DEF vars
  <2> QED
    BY <2>1, <2>2, <2>3, <2>4, <2>6, <2>7, <2>8, <2>9, <2>0 DEF Next, UserCall
<1> QED
  BY <1>1, <1>2, MemoInvariant, IndexComplete, PTL DEF Spec, IndexCompleteUntilRestart

-----------------------------------------------------------------------------
(* The memoized sets.                                                      *)

\* Every role a user holds is among the resolved ones, and without parents
\* there are no others.
LEMMA ResolveHeld ==
    ASSUME NEW rs \in SUBSET RoleIDs
    PROVE  /\ rs \subseteq ResolveRoles(rs)
           /\ (\A r \in rs : ParentOf(r) = Nil) => ResolveRoles(rs) = rs
  BY DEF ResolveRoles, ParentClosed

\* What the user's cache entry must be if nobody it inherits from is involved.
EntryExact(id) ==
    UserExists(id) /\ cache[id] # Nil =>
        /\ Flat(id) => cache[id] = Effective(users[id])
        /\ users[id].direct \subseteq cache[id]
        /\ \A r \in users[id].roles : RoleExists(r) => roles[r].permissions \subseteq cache[id]

\* The step evicts the user, or leaves alone the entry, the user and its roles.
EvictsOrSpares(id) ==
    \/ cache'[id] = Nil
    \/ /\ UserExists(id)' => UserExists(id)
       /\ cache'[id] = cache[id]
       /\ users'[id] = users[id]
       /\ UserExists(id) => \A r \in users[id].roles : roles'[r] = roles[r]

LEMMA EntryKept ==
    ASSUME TypeOK, TypeOK', NEW id \in UserIDs, EntryExact(id), EvictsOrSpares(id)
    PROVE  EntryExact(id)'
<1> SUFFICES ASSUME UserExists(id)', cache'[id] # Nil PROVE EntryExact(id)'
  BY DEF EntryExact
<1> DEFINE u == users[id]
<1>1. /\ UserExists(id) /\ users'[id] = u /\ cache'[id] = cache[id]
      /\ \A r \in u.roles : roles'[r] = roles[r]
      /\ u.roles \in SUBSET RoleIDs
  BY DEF EvictsOrSpares, UserExists, TypeOK, StoreTypeOK, User
<1>2. \A r \in u.roles : ParentOf(r)' = ParentOf(r) /\ (RoleExists(r)' <=> RoleExists(r))
  BY <1>1 DEF ParentOf, RoleExists
<1>3. ASSUME Flat(id)'
      PROVE  cache'[id] = Effective(users[id])'
  <2>1. Flat(id)
    BY <1>1, <1>2, <1>3 DEF Flat
  <2>2. ResolveRoles(u.roles) = u.roles
    BY <1>1, <2>1, ResolveHeld DEF Flat
  <2>3. (ResolveRoles(u.roles) = u.roles)'
    BY <1>1, <1>2, <2>1 DEF Flat, ResolveRoles, ParentClosed
  <2>4. Effective(users[id])' = Effective(users[id])
    BY <1>1, <1>2, <2>2, <2>3 DEF Effective
  <2> QED
    BY <1>1, <2>1, <2>4 DEF EntryExact
<1> QED
  BY <1>1, <1>2, <1>3 DEF EntryExact

\* A change to the role name alone spares the users that do not hold it and,
\* the index being complete, evicts the others.
LEMMA HoldersEvicted ==
    ASSUME TypeOK, HoldersComplete, NEW name \in RoleIDs,
           UNCHANGED users, cache' = InvalidateRoleHolders(name),
           \A r \in RoleIDs \ {name} : roles'[r] = roles[r],
           NEW id \in UserIDs
    PROVE  EvictsOrSpares(id)
<1>1. CASE id \in roleHolders[name]
  BY <1>1 DEF EvictsOrSpares, InvalidateRoleHolders, Evict
<1>2. CASE id \notin roleHolders[name]
  <2>1. cache'[id] = cache[id] /\ users'[id] = users[id]
    BY <1>2 DEF InvalidateRoleHolders, Evict
  <2>2. UserExists(id) => users[id].roles \in SUBSET (RoleIDs \ {name})
    BY <1>2 DEF HoldersComplete, HoldersOf, TypeOK, StoreTypeOK, User, UserExists
  <2> QED
    BY <2>1, <2>2 DEF EvictsOrSpares, UserExists
<1> QED
  BY <1>1, <1>2

\* An entry written by computeAndCache is exact.
LEMMA FilledExact ==
    ASSUME TypeOK, NEW id \in UserIDs, UserExists(id),
           cache'[id] = Effective(users[id]), UNCHANGED <<users, roles>>
    PROVE  EntryExact(id)'
<1>1. Effective(users[id])' = Effective(users[id])
  BY DEF Effective, ResolveRoles, ParentClosed, ParentOf, RoleExists
<1>2. users[id].roles \in SUBSET RoleIDs
  BY DEF TypeOK, StoreTypeOK, User, UserExists
<1>3. users[id].direct \subseteq Effective(users[id])
  BY DEF Effective
<1>4. \A r \in users[id].roles : RoleExists(r) => roles[r].permissions \subseteq Effective(users[id])
  BY <1>2, ResolveHeld DEF Effective
<1> QED
  BY <1>1, <1>3, <1>4 DEF EntryExact, RoleExists

\* For the Enforcer that built its store, with callers that name only existing
\* roles, every memoized set holds all grants to the user and to the roles it
\* holds directly, and is exactly the effective set of a user without inherited
\* roles, whatever sequence of calls led there.
THEOREM CacheCorrect ==
    ASSUME LateRoles = {}
    PROVE  Spec => []CacheExactUntilRestart
<1> DEFINE Exact == \A id \in UserIDs : EntryExact(id)
           Index == HoldersComplete /\ CascadeDetaches
<1>1. Init => Exact
  BY DEF Init, StoreInit, EntryExact, UserExists
<1>2. /\ MemoInv /\ TypeOK' /\ (restarts = 0 => Index) /\ (restarts = 0 => Exact)
      /\ [Next]_vars
      => (restarts = 0 => Exact)'
  <2> SUFFICES ASSUME MemoInv, TypeOK', restarts = 0 => Index, restarts = 0 => Exact,
                      [Next]_vars, restarts' = 0, NEW x \in UserIDs
               PROVE  EntryExact(x)'
    OBVIOUS
  <2>0. TypeOK /\ Index /\ Exact /\ ~Restart
    BY SameProcess DEF MemoInv
  <2>1. ASSUME EvictsOrSpares(x) PROVE EntryExact(x)'
    BY <2>0, <2>1, EntryKept
  <2>2. ASSUME UNCHANGED <<users, roles, cache>> PROVE EntryExact(x)'
    BY <2>1, <2>2 DEF EvictsOrSpares, UserExists
  <2>3. ASSUME NEW id \in UserIDs, NEW rs \in SUBSET RoleIDs, CreateUser(id, rs)
        PROVE  EntryExact(x)'
    BY <2>0, <2>1, <2>3 DEF CreateUser, StoreCreateUser, EvictsOrSpares, UserExists, TypeOK, StoreTypeOK,
                            MemoInv, NoGhostEntries
  <2>4. ASSUME NEW id \in UserIDs, DeleteUser(id)
        PROVE  EntryExact(x)'
    BY <2>0, <2>1, <2>4 DEF DeleteUser, StoreDeleteUser, Evict, EvictsOrSpares, UserExists,
                            TypeOK, StoreTypeOK
  <2>5. ASSUME NEW id \in UserIDs, NEW name \in RoleIDs,
               AssignRole(id, name) \/ RevokeRole(id, name)
        PROVE  EntryExact(x)'
    BY <2>0, <2>1, <2>5 DEF AssignRole, RevokeRole, StoreUpdateUser, Evict, EvictsOrSpares,
                            UserExists, TypeOK, StoreTypeOK
  <2>6. ASSUME NEW id \in UserIDs, NEW p \in Permissions,
               GrantDirectPermission(id, p) \/ RevokeDirectPermission(id, p)
        PROVE  EntryExact(x)'
    BY <2>0, <2>1, <2>6 DEF GrantDirectPermission, RevokeDirectPermission, StoreUpdateUser, Evict,
                            EvictsOrSpares, UserExists, TypeOK, StoreTypeOK
  <2>7. ASSUME NEW id \in UserIDs, FillGrantedSet(id)
        PROVE  EntryExact(x)'
    <3>1. CASE x = id
      BY <2>0, <2>7, <3>1, FilledExact DEF FillGrantedSet, TypeOK
    <3>2. CASE x # id
      BY <2>0, <2>1, <2>7, <3>2 DEF FillGrantedSet, EvictsOrSpares, UserExists, TypeOK
    <3> QED
      BY <3>1, <3>2
  <2>8. ASSUME NEW id \in UserIDs, FillDirectRoles(id)
        PROVE  EntryExact(x)'
    BY <2>2, <2>8 DEF FillDirectRoles
  <2>9. ASSUME NEW name \in RoleIDs, NEW perms \in SUBSET Permissions,
               NEW parent \in RoleIDs \cup {Nil}, CreateRole(name, perms, parent)
        PROVE  EntryExact(x)'
    <3>1. UserExists(x) => \A r \in users[x].roles : r \in RoleIDs \ {name}
      BY <2>0, <2>9 DEF CreateRole, StoreCreateRole, CascadeDetaches, TypeOK, StoreTypeOK,
                        User, UserExists
    <3>2. \A r \in RoleIDs \ {name} : roles'[r] = roles[r]
      BY <2>0, <2>9 DEF CreateRole, StoreCreateRole, TypeOK, StoreTypeOK
    <3> QED
      BY <2>1, <2>9, <3>1, <3>2 DEF CreateRole, memo, EvictsOrSpares, UserExists
  <2>10. ASSUME NEW name \in RoleIDs, RoleCall(name), ~DeleteRole(name),
                cache' = InvalidateRoleHolders(name)
         PROVE  EntryExact(x)'
    <3>1. UNCHANGED users /\ \A r \in RoleIDs \ {name} : roles'[r] = roles[r]
      BY <2>0, <2>10 DEF RoleCall, CreateRole, UpdateRole, GrantPermission, RevokePermission,
                         SetParent, StoreCreateRole, StoreUpdateRole, TypeOK, StoreTypeOK
    <3> QED
      BY <2>0, <2>1, <2>10, <3>1, HoldersEvicted
  <2>11. ASSUME NEW name \in RoleIDs, DeleteRole(name)
         PROVE  EntryExact(x)'
    <3> DEFINE gone == roleHolders[name] \cup UNION {roleHolders[c] : c \in ChildrenOf(name)}
    <3>1. CASE x \in gone
      <4>1. cache'[x] = Nil
        BY <2>11, <3>1 DEF DeleteRole, Evict
      <4> QED
        BY <2>1, <4>1 DEF EvictsOrSpares
    <3>2. CASE x \notin gone
      <4>1. users'[x] = users[x] /\ cache'[x] = cache[x]
        BY <2>11, <3>2 DEF DeleteRole, Evict
      <4>2. ASSUME UserExists(x), NEW r \in users[x].roles
            PROVE  r \in RoleIDs /\ r # name /\ r \notin ChildrenOf(name)
        <5>1. r \in RoleIDs /\ x \in roleHolders[r]
          BY <2>0, <4>2 DEF HoldersComplete, HoldersOf, TypeOK, StoreTypeOK, User, UserExists
        <5> QED
          BY <3>2, <5>1
      <4>3. \A r \in RoleIDs : r # name /\ r \notin ChildrenOf(name) => roles'[r] = roles[r]
        BY <2>11 DEF DeleteRole
      <4> QED
        BY <2>1, <4>1, <4>2, <4>3 DEF EvictsOrSpares, UserExists
    <3> QED
      BY <3>1, <3>2
  <2>12. CASE UNCHANGED vars
    BY <2>2, <2>12 DEF vars
  <2>13. ASSUME NEW name \in RoleIDs, RoleCall(name)
         PROVE  EntryExact(x)'
    <3>1. CASE \E perms \in SUBSET Permissions, parent \in RoleIDs \cup {Nil} :
                  CreateRole(name, perms, parent)
      BY <2>9, <3>1
    <3>2. CASE DeleteRole(name)
      BY <2>11, <3>2
    <3> QED
      BY <2>10, <2>13, <3>1, <3>2 DEF RoleCall, UpdateRole, GrantPermission, RevokePermission,
                                      SetParent
  <2> QED
    BY <2>3, <2>4, <2>5, <2>6, <2>7, <2>8, <2>12, <2>13, <2>0 DEF Next, UserCall
<1>3. Exact => FlatCacheExact /\ DirectGrantsCached
  BY DEF EntryExact, FlatCacheExact, DirectGrantsCached
<1> QED
  <2>1. Spec => [](restarts = 0 => Index)
    BY CascadeCorrect, PTL DEF IndexCompleteUntilRestart
  <2> QED
    BY <1>1, <1>2, <1>3, <2>1, MemoInvariant, TypeCorrect, PTL DEF Spec, CacheExactUntilRestart
=============================================================================
