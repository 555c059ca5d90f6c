------------------------ MODULE SequentialCallsProofs ------------------------
(***************************************************************************)
(* Proofs about the methods of the Enforcer called by one goroutine: what  *)
(* its step-by-step calls leave memoized, and that each of them does what  *)
(* the atomic action of Enforcer says.                                     *)
(***************************************************************************)
EXTENDS OneWriterProofs, SequentialCalls

-----------------------------------------------------------------------------
(* The memoized sets when users may be created with roles that do not      *)
(* exist yet.                                                              *)

\* A role created late only adds to what a user without inherited roles may do.
LEMMA RoleCreatedAdds ==
    ASSUME TypeOK, NEW t \in Threads, NEW id \in UserIDs, UserExists(id), RoleCreated(t, id), Flat(id)'
    PROVE  Flat(id) /\ Effective(users[id]) \subseteq Effective(users[id])'
<1>1. users[id] \in User /\ users'[id] = users[id] /\ users[id].roles \subseteq RoleIDs
  BY DEF RoleCreated, TypeOK, StoreTypeOK, UserExists, User
<1>2. \A r \in RoleIDs : RoleExists(r) => RoleExists(r)' /\ roles'[r] = roles[r]
  BY DEF RoleCreated, RoleExists
<1>3. \A r \in users[id].roles : ParentOf(r)' = Nil
  BY <1>1 DEF Flat
<1>4. \A r \in users[id].roles : ParentOf(r) = Nil
  BY <1>1, <1>2, <1>3 DEF ParentOf, RoleExists
<1>5. ResolveRoles(users[id].roles) = users[id].roles
  BY <1>1, <1>4, ResolveHeld DEF User
<1>6. (ResolveRoles(users[id].roles) = users[id].roles)'
  BY <1>1, <1>3 DEF ResolveRoles, ParentClosed
<1> QED
  BY <1>1, <1>2, <1>4, <1>5, <1>6 DEF Effective, Flat

\* A memoized set has nothing that the store does not grant, or its user is yet
\* to be evicted.
SetLags(f, id) ==
    /\ UserExists(id) /\ ~Deleting(f, id)
    /\ Window(f, id) \/ (Flat(id) => cache[id] \subseteq Effective(users[id]))

LEMMA SetLagsStep ==
    ASSUME TypeOK, FramesOK, NEW t \in Threads, Start(t) \/ Step(t), ~Flaky, Copies(t), Indexed(t),
           Visits(frame[t]), FreshRead(frame[t]), NEW id \in UserIDs, cache'[id] # Nil,
           cache[id] # Nil => SetLags(frame[t], id)
    PROVE  SetLags(frame[t], id)'
<1>1. ~Deleting(frame[t], id)'
  BY DeletingFrom
<1>2. CASE Start(t)
  <2>1. users' = users /\ roles' = roles /\ cache' = cache /\ frame[t] = Nil
    BY <1>2 DEF Start, vars, memo
  <2>2. SetLags(frame[t], id) /\ ~Window(frame[t], id)
    BY <2>1 DEF Window
  <2> QED
    BY <1>1, <2>1, <2>2, SameEffective DEF SetLags
<1>3. CASE Step(t)
  <2>1. \/ SetEvicted(id) \/ SetBehind(t, id) \/ SetSpared(t, id) \/ RoleCreated(t, id)
        \/ SetUnused(id) \/ SetOrphaned(t, id) \/ SetPublished(t, id)
    BY <1>3, CacheEntryStep
  <2>2. frame[t] # Nil
    BY <1>3, Effects
  <2>3. ~SetEvicted(id) /\ ~SetUnused(id) /\ ~SetOrphaned(t, id)
    BY <2>2 DEF SetEvicted, SetUnused, SetOrphaned, SetLags, Deleting
  <2>4. CASE SetBehind(t, id)
    BY <1>1, <2>4 DEF SetBehind, SetLags
  <2>5. CASE SetSpared(t, id)
    <3>1. /\ UserExists(id) /\ SameSources(id) /\ cache'[id] = cache[id]
          /\ Flat(id) => cache[id] \subseteq Effective(users[id])
      BY <2>5 DEF SetSpared, SetLags, SameSources
    <3>2. UserExists(id)' /\ (Flat(id)' => Flat(id) /\ Effective(users[id])' = Effective(users[id]))
      BY <3>1, SourcesKept
    <3> QED
      BY <1>1, <3>1, <3>2 DEF SetLags
  <2>6. CASE RoleCreated(t, id)
    <3>1. /\ UserExists(id) /\ cache'[id] = cache[id]
          /\ Flat(id) => cache[id] \subseteq Effective(users[id])
      BY <2>6 DEF RoleCreated, SetLags
    <3>2. UserExists(id)'
      BY <2>6, <3>1 DEF RoleCreated, UserExists
    <3>3. Flat(id)' => Flat(id) /\ Effective(users[id]) \subseteq Effective(users[id])'
      BY <2>6, <3>1, RoleCreatedAdds
    <3> QED
      BY <1>1, <3>1, <3>2, <3>3 DEF SetLags
  <2>7. CASE SetPublished(t, id)
    <3>1. PICK f : f = frame[t]
      OBVIOUS
    <3>2. /\ f.pc = "publish" /\ id = f.id /\ users' = users /\ roles' = roles
          /\ cache'[id] = f.perms \cup f.user.direct
      BY <2>7, <3>1 DEF SetPublished
    <3>3. f.call \in Call /\ f.pc \in DOMAIN Program[f.call.op] \ {"start"} /\ f.user \in User
      BY <2>2, <3>1, CallFacts
    <3>4. f.call.op = "Check"
      BY <3>2, <3>3, StepTable
    <3>5. UserExists(id) /\ f.user = users[id] /\ (Flat(id) => f.perms = Granted(f.user.roles))
      BY <2>2, <3>1, <3>2, <3>4 DEF FreshRead, ReadCopy, ReadSteps
    <3>6. Flat(id) => cache'[id] = Effective(users[id])
      BY <3>2, <3>3, <3>5, FlatEffective DEF Flat
    <3> QED
      BY <1>1, <3>2, <3>5, <3>6, SameEffective DEF SetLags
  <2> QED
    BY <2>1, <2>3, <2>4, <2>5, <2>6, <2>7
<1> QED
  BY <1>2, <1>3

\* One goroutine alone, over a store that does not fail, with users that may
\* hold roles before they exist: between calls no memoized set of a user
\* without inherited roles has a permission that the store does not grant.
\* Whatever revokes, detaches or deletes evicts (invalidateUser,
\* invalidateRoleHolders, and the last loop of DeleteRole).
THEOREM AloneSetsOnlyLag ==
    ASSUME NEW w, Threads = {w}, ~Flaky
    PROVE  SSpec => []LateRolesOnlyLag
<1> DEFINE Base == TypeOK /\ FramesOK /\ Copies(w) /\ Indexed(w) /\ SoundBut(frame[w])
           Sets == \A id \in UserIDs : cache[id] # Nil => SetLags(frame[w], id)
           Inv == Visits(frame[w]) /\ FreshRead(frame[w]) /\ Sets
<1>1. CInit => Inv
  BY DEF CInit, Visits, FreshRead, ReadCopy
<1>2. Base /\ Inv /\ [CNext]_cvars => Inv'
  <2> SUFFICES ASSUME Base, Inv, [CNext]_cvars PROVE Inv'
    OBVIOUS
  <2>1. CASE UNCHANGED cvars
    <3>1. users' = users /\ roles' = roles /\ frame' = frame /\ cache' = cache
      BY <2>1 DEF cvars, vars, memo
    <3>2. Visits(frame[w])' /\ FreshRead(frame[w])'
      BY <3>1, Unmoved
    <3>3. Sets'
      BY <3>1, Unmoved, SameEffective DEF SetLags
    <3> QED
      BY <3>2, <3>3
  <2>2. CASE CNext
    <3>1. Start(w) \/ Step(w)
      BY <2>2 DEF CNext
    <3>2. Visits(frame[w])'
      BY <3>1, VisitsStart, VisitsStep
    <3>3. FreshRead(frame[w])'
      BY <3>1, FreshStart, FreshStep
    <3>4. Sets'
      BY <3>1, SetLagsStep
    <3> QED
      BY <3>2, <3>3, <3>4
  <2> QED
    BY <2>1, <2>2
<1>3. Base /\ Inv => LateRolesOnlyLag
  BY DEF LateRolesOnlyLag, SetLags, Window, Idle
<1>4. CSafety => []Base
  <2>1. OnlyWriter(w)
    BY DEF OnlyWriter
  <2>2. CSafety => [](TypeOK /\ FramesOK /\ Copies(w) /\ SoundBut(frame[w]))
    BY <2>1, CopiesInvariant
  <2>3. CSafety => [](TypeOK /\ FramesOK /\ Copies(w) /\ Indexed(w))
    BY <2>1, IndexInvariant
  <2> QED
    BY <2>2, <2>3, PTL
<1>5. SSpec => CSafety
  <2>1. SInit => CInit
    BY DEF SInit
  <2>2. [SNext]_<<cvars, settled>> => [CNext]_cvars
    BY DEF SNext
  <2> QED
    BY <2>1, <2>2, PTL DEF SSpec, CSafety
<1> QED
  BY <1>1, <1>2, <1>3, <1>4, <1>5, PTL DEF CSafety

-----------------------------------------------------------------------------
(* What a call has done so far, compared with the state it found.          *)

\* The call has written nothing yet.
Untouched ==
    /\ users = settled.users /\ roles = settled.roles /\ cache = settled.cache
    /\ directRoles = settled.directRoles /\ roleHolders = settled.roleHolders

CreateUserSoFar(f) ==
    LET c == f.call
    IN  /\ f.user = [roles |-> c.roles, direct |-> {}]
        /\ c.roles \subseteq {r \in RoleIDs : settled.roles[r] # Nil} \cup LateRoles
        /\ f.pc = "createUser" => Untouched /\ f.todo = c.roles
        /\ f.pc \in {"grantHolder", "setDirectRoles"} =>
              /\ settled.users[c.id] = Nil
              /\ users = [settled.users EXCEPT ![c.id] = f.user]
              /\ roles = settled.roles /\ cache = settled.cache /\ directRoles = settled.directRoles
              /\ roleHolders = Atomic!GrantHolder(c.id, c.roles \ f.todo)
              /\ f.pc = "setDirectRoles" => f.todo = {}

DeleteUserSoFar(f) ==
    LET id == f.call.id
    IN  /\ f.pc = "evict" => Untouched
        /\ f.pc = "deleteUser" =>
              /\ users = settled.users /\ roles = settled.roles
              /\ cache = Atomic!Evict({id}) /\ directRoles = Atomic!SetDirectRoles(id, {})
              /\ roleHolders = [r \in RoleIDs |-> settled.roleHolders[r] \ {id}]

\* The calls that read a user, edit the copy and write it back.
UserEdits   == {"AssignRole", "RevokeRole", "GrantDirectPermission", "RevokeDirectPermission"}
UserWritten == {"grantHolder", "revokeHolder", "setDirectRoles", "invalidateUser"}

\* The user was found, the edit is needed, and the copy is the user with it.
UserRead(f) ==
    LET c == f.call
        u == settled.users[c.id]
    IN  /\ u # Nil /\ f.user = EditedUser(c, u)
        /\ c.op = "AssignRole" => c.name \notin u.roles
        /\ c.op = "GrantDirectPermission" => ~(c.perms \subseteq u.direct)

EditUserSoFar(f) ==
    LET c == f.call
    IN  /\ f.pc \in {"getRole", "getUser", "updateUser"} => Untouched
        /\ f.pc \notin {"getRole", "getUser"} => UserRead(f)
        /\ c.op = "RevokeRole" /\ f.pc = "getRole" => UserRead(f)
        /\ c.op \in {"AssignRole", "RevokeRole"} /\ f.pc \notin {"getRole", "getUser"} =>
              settled.roles[c.name] # Nil
        /\ c.op = "AssignRole" /\ f.pc = "getUser" => settled.roles[c.name] # Nil
        /\ f.pc \in UserWritten =>
              /\ users = [settled.users EXCEPT ![c.id] = f.user]
              /\ roles = settled.roles /\ cache = settled.cache
              /\ directRoles = IF c.op \in {"AssignRole", "RevokeRole"} /\ f.pc = "invalidateUser"
                               THEN Atomic!SetDirectRoles(c.id, f.user.roles)
                               ELSE settled.directRoles
              /\ c.op = "AssignRole" =>
                    /\ roleHolders = Atomic!GrantHolder(c.id, {c.name} \ f.todo)
                    /\ IF f.pc = "grantHolder" THEN f.todo \subseteq {c.name} ELSE f.todo = {}
              /\ c.op = "RevokeRole" =>
                    roleHolders = IF f.pc = "revokeHolder" THEN settled.roleHolders
                                  ELSE Atomic!RevokeHolder(c.id, c.name)
              /\ c.op \notin {"AssignRole", "RevokeRole"} => roleHolders = settled.roleHolders

\* The calls that write one role.
RoleEdits == {"CreateRole", "UpdateRole", "GrantPermission", "RevokePermission", "SetParent"}

\* validateInheritance has found depth - 1 roles other than the one that gets
\* the parent; at is the next.
WalkSoFar(f) ==
    LET c == f.call
    IN  /\ settled.roles[c.parent] # Nil
        /\ f.depth = 1 => f.at = c.parent
        /\ f.depth > 1 =>
              \E chain \in [1..(f.depth - 1) -> RoleIDs \ {c.name}] :
                  /\ chain[1] = c.parent
                  /\ \A i \in 1..(f.depth - 2) : Atomic!ParentOf(chain[i]) = chain[i + 1]
                  /\ Atomic!ParentOf(chain[f.depth - 1]) = f.at

\* The copy of the role is the role with the edit, which is needed.
RoleRead(f) ==
    LET c == f.call
        r == settled.roles[c.name]
    IN  /\ c.op \in {"CreateRole", "UpdateRole"} =>
              f.role = [permissions |-> c.perms, parent |-> c.parent]
        /\ c.op \in {"GrantPermission", "RevokePermission", "SetParent"} /\ f.pc # "getRole" =>
              /\ r # Nil /\ f.role = EditedRole(c, r)
              /\ c.op = "GrantPermission" => ~(c.perms \subseteq r.permissions)
              /\ c.op = "SetParent" => c.parent # r.parent

\* validateInheritance is to start, under way, or through.
ParentWalked(f) ==
    LET c == f.call
    IN  /\ f.pc \in {"getRole", "findParent", "getParent"} => f.depth = 1 /\ f.at = c.parent
        /\ f.pc = "walk" => WalkSoFar(f)
        /\ c.op \in Parenting /\ f.pc \in {"createRole", "updateRole", "invalidateRoleHolders"} =>
              Atomic!ValidateInheritance(c.name, c.parent)

EditRoleSoFar(f) ==
    LET name == f.call.name
    IN  /\ RoleRead(f) /\ ParentWalked(f)
        /\ f.pc # "invalidateRoleHolders" => Untouched
        /\ f.pc = "invalidateRoleHolders" =>
              /\ settled.roles[name] # Nil /\ roles = [settled.roles EXCEPT ![name] = f.role]
              /\ users = settled.users /\ cache = settled.cache
              /\ directRoles = settled.directRoles /\ roleHolders = settled.roleHolders

\* DeleteRole: the user without the role, and the role without its parent.
Detached(id, name) == [settled.users[id] EXCEPT !.roles = @ \ {name}]
Orphan(r)          == [settled.roles[r] EXCEPT !.parent = Nil]

\* The users when those of gone have lost the role, the entries of directRoles
\* when theirs have followed, and the roles when those of freed have lost their
\* parent.
UsersWithout(name, gone) ==
    [id \in UserIDs |-> IF id \in gone THEN Detached(id, name) ELSE settled.users[id]]

EntriesWithout(name, gone) ==
    [id \in UserIDs |-> IF id \in gone THEN DirectEntry(settled.users[id].roles \ {name})
                        ELSE settled.directRoles[id]]

RolesWithout(freed) == [r \in RoleIDs |-> IF r \in freed THEN Orphan(r) ELSE settled.roles[r]]

\* The memoized set of a user when the holders of the roles rs have been evicted.
Spared(id, rs) == IF \E r \in rs : id \in settled.roleHolders[r] THEN Nil ELSE settled.cache[id]

\* DeleteRole is in its loop over the users that the index named.
DetachSteps == {"detachUser", "updateUser", "revokeHolder", "setDirectRoles"}

DetachSoFar(f) ==
    LET name    == f.call.name
        holders == settled.roleHolders[name]
    IN  /\ f.todo \subseteq holders /\ roles = settled.roles /\ cache = settled.cache
        /\ f.pc # "detachUser" => f.id \in holders \ f.todo /\ f.user = Detached(f.id, name)
        /\ users = UsersWithout(name,
              holders \ (IF f.pc = "updateUser" THEN f.todo \cup {f.id} ELSE f.todo))
        /\ directRoles = EntriesWithout(name,
              holders \ (IF f.pc = "detachUser" THEN f.todo ELSE f.todo \cup {f.id}))

\* It is in its loop over the children; the users that do not hold the role
\* are evicted with the children they hold.
ChildrenSoFar(f) ==
    LET name    == f.call.name
        holders == settled.roleHolders[name]
        kids    == Atomic!ChildrenOf(name)
        left    == {child.name : child \in f.todo}
    IN  /\ \A child \in f.todo : child.name \in kids /\ child.role = Orphan(child.name)
        /\ roles = RolesWithout(kids \ left)
        /\ f.pc = "detachChild" =>
              \A id \in UserIDs \ holders : cache[id] = Spared(id, kids \ left)
        /\ f.pc = "invalidateRoleHolders" =>
              /\ f.name \in kids \ left
              /\ \A id \in UserIDs \ holders : cache[id] = Spared(id, kids \ (left \cup {f.name}))

\* It is in its loop over the memoized sets of its holders.
EvictedSoFar(f) ==
    LET name    == f.call.name
        holders == settled.roleHolders[name]
        kids    == Atomic!ChildrenOf(name)
    IN  /\ roles = RolesWithout(kids)
        /\ \A id \in UserIDs \ holders : cache[id] = Spared(id, kids)
        /\ f.pc = "dropHolders" => f.todo = holders
        /\ f.pc # "dropHolders" => roleHolders[name] = {}
        /\ f.pc = "invalidateHolder" =>
              f.todo \subseteq holders /\ \A id \in holders \ f.todo : cache[id] = Nil
        /\ f.pc = "deleteRole" => \A id \in holders : cache[id] = Nil

\* What DeleteRole found; the index of the role itself only shrinks.
Found(f) ==
    LET name    == f.call.name
        holders == settled.roleHolders[name]
    IN  /\ settled.roles[name] # Nil
        /\ f.seen = holders /\ \A id \in holders : settled.users[id] # Nil
        /\ \A r \in RoleIDs \ {name} : roleHolders[r] = settled.roleHolders[r]
        /\ roleHolders[name] \subseteq holders

DeleteRoleSoFar(f) ==
    LET name    == f.call.name
        holders == settled.roleHolders[name]
    IN  /\ f.pc \in {"getRole", "readHolders"} => Untouched
        /\ f.pc = "readHolders" => settled.roles[name] # Nil
        /\ f.pc \notin {"getRole", "readHolders"} => Found(f)
        /\ f.pc \in DetachSteps => DetachSoFar(f)
        /\ f.pc \in AfterDetach =>
              users = UsersWithout(name, holders) /\ directRoles = EntriesWithout(name, holders)
        /\ f.pc = "listRoles" => roles = settled.roles /\ cache = settled.cache
        /\ f.pc \in {"detachChild", "invalidateRoleHolders"} => ChildrenSoFar(f)
        /\ f.pc \in {"dropHolders", "invalidateHolder", "deleteRole"} => EvictedSoFar(f)

\* Check: the work list has reached only roles that the user has, and the
\* parents of those it has left behind.
CheckSoFar(f) ==
    LET held == ResolveRoles(f.user.roles)
    IN  /\ Untouched
        /\ f.pc # "readCache" => settled.cache[f.id] = Nil
        /\ f.pc \in {"resolve", "collect", "publish"} => UserExists(f.id) /\ f.user = users[f.id]
        /\ f.pc \in {"readCache", "getUser", "resolve"} => f.perms = {}
        /\ f.pc = "resolve" =>
              /\ f.user.roles \subseteq f.seen /\ f.todo \subseteq f.seen /\ f.seen \subseteq held
              /\ \A r \in f.seen \ f.todo : ParentOf(r) # Nil => ParentOf(r) \in f.seen
        /\ f.pc = "collect" => f.todo \subseteq held /\ f.perms \cup Granted(f.todo) = Granted(held)
        /\ f.pc = "publish" => f.perms = Granted(held)

HasRoleSoFar(f) ==
    /\ Untouched
    /\ f.pc # "readDirectRoles" => settled.directRoles[f.id] = Nil
    /\ f.pc = "publishDirectRoles" => UserExists(f.id) /\ f.user = users[f.id]

SoFar(f) ==
    /\ f = Nil => Untouched
    /\ f # Nil =>
          /\ f.call.op = "CreateUser" => CreateUserSoFar(f)
          /\ f.call.op = "DeleteUser" => DeleteUserSoFar(f)
          /\ f.call.op \in UserEdits => EditUserSoFar(f)
          /\ f.call.op \in RoleEdits => EditRoleSoFar(f)
          /\ f.call.op = "DeleteRole" => DeleteRoleSoFar(f)
          /\ f.call.op = "Check" => CheckSoFar(f)
          /\ f.call.op = "HasRole" => HasRoleSoFar(f)

-----------------------------------------------------------------------------
(* What a step does to what is settled, and how a call ends.               *)

\* A step that writes nothing that is shared.
Still ==
    /\ users' = users /\ roles' = roles /\ cache' = cache
    /\ directRoles' = directRoles /\ roleHolders' = roleHolders

\* Nothing has changed since the call started, or all that an atomic call does.
Settles == settled' = Shared' => Atomic!Next \/ UNCHANGED Atomic!vars

LEMMA NoRestart ==
    ASSUME NEW t \in Threads, Start(t) \/ Step(t)
    PROVE  restarts' = restarts
  BY DEF Start, Step, At, LoopDone, StoreFails, GetUser, GetRole, GetParent, Walk, CreateUserStep,
         UpdateUserStep, DeleteUserStep, CreateRoleStep, UpdateRoleStep, DeleteRoleStep,
         ReadHolders, DetachUser, ListRoles, DetachChild, DropHolders, InvalidateHolder,
         EvictUser, GrantHolderStep, RevokeHolderStep, SetDirectRolesStep, InvalidateUserStep,
         InvalidateRoleHoldersStep, ReadCache, Resolve, Collect, Publish, ReadDirectRoles,
         PublishDirectRoles, vars, memo

\* While a call is under way what was settled stays.
LEMMA SettledStays ==
    ASSUME settled' = settled
    PROVE  /\ settled'.users = settled.users /\ settled'.roles = settled.roles
           /\ settled'.cache = settled.cache /\ settled'.directRoles = settled.directRoles
           /\ settled'.roleHolders = settled.roleHolders
           /\ \A ids : Atomic!Evict(ids)' = Atomic!Evict(ids)
           /\ \A id, rs : Atomic!GrantHolder(id, rs)' = Atomic!GrantHolder(id, rs)
           /\ \A id, name : Atomic!RevokeHolder(id, name)' = Atomic!RevokeHolder(id, name)
           /\ \A id, rs : Atomic!SetDirectRoles(id, rs)' = Atomic!SetDirectRoles(id, rs)
           /\ \A r : Atomic!ParentOf(r)' = Atomic!ParentOf(r)
           /\ \A name : Atomic!ChildrenOf(name)' = Atomic!ChildrenOf(name)
           /\ \A name, parent : Atomic!ValidateInheritance(name, parent)'
                                <=> Atomic!ValidateInheritance(name, parent)
  BY DEF Atomic!Evict, Atomic!GrantHolder, Atomic!RevokeHolder, Atomic!SetDirectRoles,
         Atomic!ParentOf, Atomic!RoleExists, Atomic!ChildrenOf, Atomic!ValidateInheritance

LEMMA StillSettles ==
    ASSUME NEW t \in Threads, Step(t), Untouched, Still
    PROVE  Settles
<1>1. restarts' = restarts
  BY NoRestart
<1>2. settled' = Shared' => UNCHANGED Atomic!vars
  BY <1>1 DEF Untouched, Still, Shared, Atomic!vars
<1> QED
  BY <1>2 DEF Settles

\* A call ends with the last step of its program, or where it has written
\* nothing.
LEMMA Ends ==
    ASSUME TypeOK, FramesOK, NEW t \in Threads, Step(t), ~Flaky, Copies(t), Visits(frame[t]),
           frame'[t] = Nil
    PROVE  \/ After(frame[t].call, frame[t].pc) = "return"
           \/ Still /\ frame[t].pc \notin CommittedSteps
<1>1. PICK f : f = frame[t]
  OBVIOUS
<1>2. /\ f # Nil /\ f.call \in Call /\ f.pc \in DOMAIN Program[f.call.op] \ {"start"}
      /\ ~StoreFails(t)
  BY <1>1, Effects, CallFacts DEF StoreFails
<1> SUFFICES ASSUME After(f.call, f.pc) # "return" PROVE Still /\ f.pc \notin CommittedSteps
  BY <1>1
<1>3. f.pc \notin CommittedSteps
  BY <1>1, KeepsGoing
<1>4. ~Proceed(t, Done(f))
  BY <1>1, <1>2, GoesOn
<1>5. CASE f.pc = "createUser"
  <2>1. CreateUserStep(t)
    BY <1>1, <1>2, <1>5, ActionAt
  <2> QED
    BY <1>1, <1>3, <1>4, <2>1 DEF CreateUserStep, Still, memo
<1>6. CASE f.pc = "updateRole"
  <2>1. UpdateRoleStep(t)
    BY <1>1, <1>2, <1>6, ActionAt
  <2> QED
    BY <1>1, <1>3, <1>4, <2>1 DEF UpdateRoleStep, Still, memo
<1>7. f.pc # "evict"
  <2>1. f.pc = "evict" => EvictUser(t)
    BY <1>1, ActionAt
  <2> QED
    BY <1>1, <1>4, <2>1 DEF EvictUser
<1>8. f.pc \notin {"deleteUser", "createRole", "deleteRole", "publish", "publishDirectRoles"}
  BY <1>2, StepTable
<1>9. CASE f.pc \notin {"createUser", "updateRole"}
  <2>1. f.pc \notin {"updateUser", "detachChild", "dropHolders", "grantHolder", "revokeHolder",
                     "setDirectRoles", "invalidateHolder", "invalidateUser", "invalidateRoleHolders"}
    BY <1>3 DEF CommittedSteps, UserWindow, DeleteWindow
  <2> QED
    BY <1>1, <1>3, <1>7, <1>8, <1>9, <2>1, Effects DEF Still
<1> QED
  BY <1>5, <1>6, <1>9

\* What one goroutine alone knows at every step of a call.
Known(t) ==
    TypeOK /\ Atomic!TypeOK /\ FramesOK /\ Copies(t) /\ SoundBut(frame[t]) /\ Visits(frame[t])

LEMMA NotLast ==
    ASSUME TypeOK, FramesOK, NEW t \in Threads, Step(t), frame'[t] # Nil
    PROVE  After(frame[t].call, frame[t].pc) # "return" \/ frame[t].pc \in Loops
<1>1. PICK f : f = frame[t]
  OBVIOUS
<1>2. PICK h : h = frame'[t]
  OBVIOUS
<1>3. /\ f # Nil /\ f.call \in Call /\ f.pc \in DOMAIN Program[f.call.op] \ {"start"} /\ h.call = f.call
      /\ Follows(f, h)
  BY <1>1, <1>2, Effects, CallFacts, NextFrame DEF Follows
<1>4. h.pc # "return"
  <2>1. FramesOK'
    BY FramesStep
  <2>2. h.pc \in DOMAIN Program[h.call.op]
    BY <1>2, <2>1 DEF FramesOK, FrameOK, FrameBasic
  <2>3. f.call.op \in Ops
    BY <1>3 DEF Call
  <2> QED
    BY <1>3, <2>2, <2>3, OpNames DEF Program
<1>5. CASE f.pc \in {"detachUser", "detachChild", "walk"}
  BY <1>1, <1>3, <1>5, StepTable
<1>6. CASE f.pc \notin {"detachUser", "detachChild", "walk"}
  BY <1>1, <1>3, <1>4, <1>6 DEF Follows, Loops
<1> QED
  BY <1>5, <1>6

LEMMA CreateUserStepped ==
    ASSUME NEW t \in Threads, Known(t), Step(t), ~Flaky, NEW f, f = frame[t], NEW h, h = frame'[t],
           f.call.op = "CreateUser", CreateUserSoFar(f)
    PROVE  /\ h = Nil => Settles
           /\ h # Nil /\ settled' = settled => CreateUserSoFar(h)'
<1>1. TypeOK /\ FramesOK /\ Copies(t) /\ Visits(frame[t])
  BY DEF Known
<1>2. /\ f # Nil /\ f.call \in Call /\ f.pc \in DOMAIN Program[f.call.op] \ {"start"}
      /\ f \in FrameRecord /\ f.id = f.call.id /\ f.id \in UserIDs /\ ~StoreFails(t)
      /\ FrameLoops(f) /\ f.call.roles \subseteq RoleIDs
  BY <1>1, Effects, CallFacts DEF UserOps, FrameNames, StoreFails, Call
<1>3. f.pc \in {"createUser", "grantHolder", "setDirectRoles"}
  BY <1>2 DEF Program
<1>4. PICK c : c = f.call
  OBVIOUS
<1>5. /\ f.user = [roles |-> c.roles, direct |-> {}]
      /\ c.roles \subseteq {r \in RoleIDs : settled.roles[r] # Nil} \cup LateRoles
  BY <1>4 DEF CreateUserSoFar
\* The call goes on.
<1>6. ASSUME h # Nil, settled' = settled PROVE CreateUserSoFar(h)'
  <2>1. Follows(f, h) /\ h.call = c
    BY <1>1, <1>4, <1>6, NextFrame DEF Follows
  <2>2. h.user = f.user
    BY <1>3, <2>1 DEF Follows, RecopySteps
  <2>3. CASE f.pc = "createUser"
    <3>1. h.pc = "grantHolder" /\ h.todo = c.roles
      BY <1>2, <1>4, <2>1, <2>3, StepTable DEF Follows, RelistSteps, Loops, CreateUserSoFar
    <3>2. CreateUserStep(t) /\ ~Return(t)
      BY <1>1, <1>2, <1>6, <2>3, ActionAt, Moved
    <3>3. /\ users[c.id] = Nil /\ users' = [users EXCEPT ![c.id] = f.user]
          /\ roles' = roles /\ cache' = cache /\ directRoles' = directRoles /\ roleHolders' = roleHolders
      BY <1>2, <1>4, <3>2 DEF CreateUserStep, StoreCreateUser, UserExists, memo
    <3>4. Untouched
      BY <2>3 DEF CreateUserSoFar
    <3>5. roleHolders = Atomic!GrantHolder(c.id, {})
      BY <1>1, <3>4 DEF Untouched, Atomic!GrantHolder, TypeOK
    <3>6. c.roles \ h.todo = {}
      BY <3>1
    <3> QED
      BY <1>5, <1>6, <2>1, <2>2, <3>1, <3>3, <3>4, <3>5, <3>6, SettledStays DEF CreateUserSoFar, Untouched
  <2>4. CASE f.pc = "grantHolder"
    <3>1. /\ users' = users /\ roles' = roles /\ cache' = cache /\ directRoles' = directRoles
      BY <2>4, Effects
    <3>2. /\ settled.users[c.id] = Nil
          /\ users = [settled.users EXCEPT ![c.id] = f.user]
          /\ roles = settled.roles /\ cache = settled.cache /\ directRoles = settled.directRoles
          /\ roleHolders = Atomic!GrantHolder(c.id, c.roles \ f.todo)
      BY <1>4, <2>4 DEF CreateUserSoFar
    <3>3. f.todo \subseteq c.roles
      BY <1>1, <1>2, <1>5, <2>4 DEF Copies, UserCopy
    <3>4. ASSUME roleHolders' = Atomic!GrantHolder(c.id, c.roles \ h.todo),
                 h.pc = "grantHolder" \/ (h.pc = "setDirectRoles" /\ h.todo = {})
          PROVE  CreateUserSoFar(h)'
      BY <1>5, <1>6, <2>1, <2>2, <3>1, <3>2, <3>4, SettledStays DEF CreateUserSoFar
    <3>5. CASE GrantHolderStep(t)
      <4>1. PICK name \in f.todo :
               /\ h.pc = "grantHolder" /\ h.todo = f.todo \ {name}
               /\ \A r \in RoleIDs : roleHolders'[r] = roleHolders[r] \cup (IF r = name THEN {f.id} ELSE {})
        BY <1>1, <3>5, GrantTurn
      <4>2. roleHolders' \in [RoleIDs -> SUBSET UserIDs]
        BY <1>1, <1>2, <3>5 DEF GrantHolderStep, GrantHolder, TypeOK
      <4>3. roleHolders' = Atomic!GrantHolder(c.id, c.roles \ h.todo)
        BY <1>2, <1>4, <3>2, <3>3, <4>1, <4>2 DEF Atomic!GrantHolder
      <4>4. h.pc = "grantHolder"
        BY <4>1
      <4> QED
        BY <3>4, <4>3, <4>4
    <3>6. CASE LoopDone(t)
      <4>1. f.todo = {} /\ h.pc = "setDirectRoles" /\ h.todo = {} /\ roleHolders' = roleHolders
        <5>1. f.todo = {} /\ h.pc = After(f.call, f.pc) /\ h.todo = f.seen /\ UNCHANGED vars
          BY <1>1, <1>6, <3>6, LoopOver
        <5>2. f.seen = {}
          BY <1>2 DEF FrameLoops
        <5> QED
          BY <1>2, <2>4, <5>1, <5>2, StepTable DEF vars
      <4>2. c.roles \ h.todo = c.roles \ f.todo
        BY <4>1
      <4>3. roleHolders' = Atomic!GrantHolder(c.id, c.roles \ h.todo)
        BY <3>2, <4>1, <4>2
      <4> QED
        BY <3>4, <4>1, <4>3
    <3> QED
      BY <2>4, <3>5, <3>6, ActionAt
  <2>5. f.pc # "setDirectRoles"
    BY <1>1, <1>2, <1>6, NotLast, StepTable DEF Loops
  <2> QED
    BY <1>3, <2>3, <2>4, <2>5
\* The call ends.
<1>7. ASSUME h = Nil PROVE Settles
  <2>1. After(f.call, f.pc) = "return" \/ (Still /\ f.pc \notin CommittedSteps)
    BY <1>1, <1>7, Ends
  <2>2. CASE f.pc = "createUser"
    BY <1>2, <2>1, <2>2, StepTable, StillSettles DEF CreateUserSoFar
  <2>3. CASE f.pc = "setDirectRoles"
    <3>1. SetDirectRolesStep(t) /\ restarts' = restarts
      BY <2>3, ActionAt, NoRestart
    <3>2. /\ users' = users /\ roles' = roles /\ cache' = cache /\ roleHolders' = roleHolders
          /\ directRoles' = SetDirectRoles(c.id, f.user.roles)
      BY <1>2, <1>4, <3>1 DEF SetDirectRolesStep
    <3>3. /\ settled.users[c.id] = Nil
          /\ users = [settled.users EXCEPT ![c.id] = f.user]
          /\ roles = settled.roles /\ cache = settled.cache /\ directRoles = settled.directRoles
          /\ roleHolders = Atomic!GrantHolder(c.id, c.roles)
      BY <1>4, <2>3 DEF CreateUserSoFar
    <3>4. ASSUME settled' = Shared' PROVE Atomic!CreateUser(c.id, c.roles)
      <4>1. /\ settled'.users = users' /\ settled'.roles = roles' /\ settled'.cache = cache'
            /\ settled'.directRoles = directRoles' /\ settled'.roleHolders = roleHolders'
        BY <3>4 DEF Shared
      <4>2. directRoles' = Atomic!SetDirectRoles(c.id, c.roles)
        BY <1>5, <3>2, <3>3 DEF SetDirectRoles, DirectEntry, Atomic!SetDirectRoles, Atomic!DirectEntry
      <4> QED
        BY <1>4, <1>5, <3>1, <3>2, <3>3, <4>1, <4>2
           DEF Atomic!CreateUser, Atomic!StoreCreateUser, Atomic!UserExists, Atomic!RoleExists
    <3> QED
      BY <1>2, <1>4, <3>4 DEF Settles, Atomic!Next, Atomic!UserCall
  <2>4. f.pc # "grantHolder"
    BY <1>2, <2>1, StepTable DEF CommittedSteps, UserWindow
  <2> QED
    BY <1>3, <2>2, <2>3, <2>4
<1> QED
  BY <1>6, <1>7

\* What every step of a call of one goroutine alone starts from.
LEMMA Stepping ==
    ASSUME NEW t \in Threads, Known(t), Step(t), ~Flaky, NEW f, f = frame[t], NEW h, h = frame'[t]
    PROVE  /\ f # Nil /\ f.call \in Call /\ f.pc \in DOMAIN Program[f.call.op] \ {"start"}
           /\ f \in FrameRecord /\ f.user \in User /\ FrameNames(f) /\ FrameLoops(f) /\ UserCopy(f)
           /\ f.call.op \in UserOps => f.id = f.call.id /\ f.id \in UserIDs
           /\ f.call.op \in RoleOps => f.call.name \in RoleIDs
           /\ f.call.op \in RoleOps \ {"DeleteRole"} => f.name = f.call.name
           /\ f.call.roles \subseteq RoleIDs /\ f.call.perms \subseteq ValidPermissions
           /\ f.call.perms \subseteq Permissions /\ f.call.parent \in RoleIDs \cup {Nil}
           /\ ~StoreFails(t) /\ restarts' = restarts
           /\ h # Nil =>
                /\ Follows(f, h) /\ h.call = f.call
                /\ After(f.call, f.pc) # "return" \/ f.pc \in Loops
           /\ h = Nil => After(f.call, f.pc) = "return" \/ (Still /\ f.pc \notin CommittedSteps)
<1>1. TypeOK /\ FramesOK /\ Copies(t) /\ Visits(frame[t])
  BY DEF Known
<1>2. /\ f # Nil /\ f.call \in Call /\ f.pc \in DOMAIN Program[f.call.op] \ {"start"}
      /\ f \in FrameRecord /\ f.user \in User /\ FrameNames(f) /\ FrameLoops(f)
      /\ f.call.op \in UserOps => f.id \in UserIDs
      /\ f.call.op \in RoleOps => f.call.name \in RoleIDs
  BY <1>1, Effects, CallFacts
<1>3. UserCopy(f)
  BY <1>1, <1>2 DEF Copies
<1>4. FrameOK(t, f)
  BY <1>1, <1>2, InCall
<1>5. f.call.perms \subseteq ValidPermissions
  BY <1>4 DEF FrameOK, FrameBasic
<1>6. /\ f.call.roles \subseteq RoleIDs /\ f.call.perms \subseteq Permissions
      /\ f.call.parent \in RoleIDs \cup {Nil}
  BY <1>2 DEF Call
<1>7. ~StoreFails(t) /\ restarts' = restarts
  BY NoRestart DEF StoreFails
<1>8. h # Nil => /\ Follows(f, h) /\ h.call = f.call
                 /\ After(f.call, f.pc) # "return" \/ f.pc \in Loops
  <2>1. h # Nil => Follows(f, h)
    BY <1>1, NextFrame
  <2>2. h # Nil => After(f.call, f.pc) # "return" \/ f.pc \in Loops
    BY <1>1, NotLast
  <2> QED
    BY <2>1, <2>2 DEF Follows
<1>9. h = Nil => After(f.call, f.pc) = "return" \/ (Still /\ f.pc \notin CommittedSteps)
  BY <1>1, Ends
<1>10. /\ f.call.op \in UserOps => f.id = f.call.id
       /\ f.call.op \in RoleOps \ {"DeleteRole"} => f.name = f.call.name
  BY <1>2 DEF FrameNames
<1> QED
  BY <1>2, <1>3, <1>5, <1>6, <1>7, <1>8, <1>9, <1>10

\* What a step leaves is what the next call finds.
LEMMA SettledNow ==
    ASSUME settled' = Shared'
    PROVE  /\ settled'.users = users' /\ settled'.roles = roles' /\ settled'.cache = cache'
           /\ settled'.directRoles = directRoles' /\ settled'.roleHolders = roleHolders'
  BY DEF Shared

LEMMA DeleteUserStepped ==
    ASSUME NEW t \in Threads, Known(t), Step(t), ~Flaky, NEW f, f = frame[t], NEW h, h = frame'[t],
           f.call.op = "DeleteUser", DeleteUserSoFar(f)
    PROVE  /\ h = Nil => Settles
           /\ h # Nil /\ settled' = settled => DeleteUserSoFar(h)'
<1>1. /\ f # Nil /\ f.call \in Call /\ f.pc \in DOMAIN Program[f.call.op] \ {"start"}
      /\ f.call.id = f.id /\ f.id \in UserIDs /\ ~StoreFails(t) /\ restarts' = restarts
  BY Stepping DEF UserOps
<1>2. f.pc \in {"evict", "deleteUser"}
  BY <1>1 DEF Program
<1>3. PICK id : id = f.id
  OBVIOUS
<1>4. ASSUME h # Nil, settled' = settled PROVE DeleteUserSoFar(h)'
  <2>1. Follows(f, h) /\ h.call = f.call /\ f.pc = "evict"
    BY <1>1, <1>2, <1>4, Stepping, StepTable DEF Loops
  <2>2. h.pc = "deleteUser"
    BY <1>1, <2>1, StepTable DEF Follows
  <2>3. Untouched /\ EvictUser(t)
    BY <2>1, ActionAt DEF DeleteUserSoFar
  <2>4. /\ users' = users /\ roles' = roles /\ cache' = Evict({id})
        /\ directRoles' = SetDirectRoles(id, {})
        /\ roleHolders' = [r \in RoleIDs |-> roleHolders[r] \ {id}]
    BY <1>3, <2>3 DEF EvictUser
  <2>5. /\ Evict({id}) = Atomic!Evict({id})
        /\ SetDirectRoles(id, {}) = Atomic!SetDirectRoles(id, {})
    BY <2>3 DEF Untouched, Evict, Atomic!Evict, SetDirectRoles, Atomic!SetDirectRoles, DirectEntry,
                Atomic!DirectEntry
  <2> QED
    BY <1>1, <1>3, <1>4, <2>1, <2>2, <2>3, <2>4, <2>5, SettledStays DEF Untouched, DeleteUserSoFar
<1>5. ASSUME h = Nil PROVE Settles
  <2>1. CASE f.pc = "evict"
    <3>1. After(f.call, f.pc) # "return"
      BY <1>1, <2>1, StepTable
    <3>2. Untouched /\ Still
      BY <1>5, <2>1, <3>1, Stepping DEF DeleteUserSoFar
    <3> QED
      BY <3>2, StillSettles
  <2>2. CASE f.pc = "deleteUser"
    <3>1. DeleteUserStep(t)
      BY <1>1, <2>2, ActionAt
    <3>2. /\ roles' = roles /\ cache' = cache /\ directRoles' = directRoles /\ roleHolders' = roleHolders
          /\ users' = IF UserExists(id) THEN [users EXCEPT ![id] = Nil] ELSE users
      BY <1>3, <3>1 DEF DeleteUserStep, StoreDeleteUser, memo
    <3>3. /\ users = settled.users /\ roles = settled.roles
          /\ cache = Atomic!Evict({id}) /\ directRoles = Atomic!SetDirectRoles(id, {})
          /\ roleHolders = [r \in RoleIDs |-> settled.roleHolders[r] \ {id}]
      BY <1>1, <1>3, <2>2 DEF DeleteUserSoFar
    <3>4. ASSUME settled' = Shared' PROVE Atomic!DeleteUser(id)
      BY <1>1, <3>2, <3>3, <3>4, SettledNow
         DEF Atomic!DeleteUser, Atomic!StoreDeleteUser, Atomic!UserExists, UserExists
    <3> QED
      BY <1>1, <1>3, <3>4 DEF Settles, Atomic!Next, Atomic!UserCall
  <2> QED
    BY <1>2, <2>1, <2>2
<1> QED
  BY <1>4, <1>5

-----------------------------------------------------------------------------
(* The calls that edit a user.                                             *)

\* What a step that writes nothing leaves as it was.
LEMMA Reads ==
    ASSUME UNCHANGED vars
    PROVE  /\ Still
           /\ settled' = settled /\ Untouched => Untouched'
  BY DEF vars, memo, Still, Untouched

\* What an edited user is made of.
LEMMA EditedUserParts ==
    ASSUME NEW c \in Call, NEW u \in User
    PROVE  /\ c.op = "AssignRole" =>
                /\ EditedUser(c, u) = [u EXCEPT !.roles = u.roles \cup {c.name}]
                /\ EditedUser(c, u).roles = u.roles \cup {c.name}
           /\ c.op = "RevokeRole" =>
                /\ EditedUser(c, u) = [u EXCEPT !.roles = u.roles \ {c.name}]
                /\ EditedUser(c, u).roles = u.roles \ {c.name}
           /\ c.op = "GrantDirectPermission" =>
                EditedUser(c, u) = [u EXCEPT !.direct = u.direct \cup c.perms]
           /\ c.op = "RevokeDirectPermission" =>
                EditedUser(c, u) = [u EXCEPT !.direct = u.direct \ c.perms]
  BY DEF EditedUser, User

LEMMA UserReadKept ==
    ASSUME NEW f, NEW h, UserRead(f), settled' = settled, h.call = f.call, h.user = f.user
    PROVE  UserRead(h)'
  BY SettledStays DEF UserRead

\* The copy of the user that getUser leaves in the frame.
LEMMA GotUser ==
    ASSUME FramesOK, NEW t \in Threads, GetUser(t), NEW f, f = frame[t], NEW h, h = frame'[t], h # Nil
    PROVE  /\ UserExists(f.id) /\ ~UserNeedsNothing(f.call) /\ h.user = EditedUser(f.call, users[f.id])
           /\ f.call.op = "Check" => h.todo = users[f.id].roles /\ h.seen = users[f.id].roles
<1>1. ~Return(t) /\ f # Nil
  BY Moved DEF GetUser, At
<1>2. f \in FrameRecord
  BY <1>1, CallFacts
<1>3. PICK u : u = users[f.id]
  OBVIOUS
<1>4. PICK e : e = EditedUser(f.call, u)
  OBVIOUS
<1>5. PICK g : g = [Done(f) EXCEPT !.user = e]
  OBVIOUS
<1>6. /\ UserExists(f.id) /\ ~UserNeedsNothing(f.call)
      /\ Proceed(t, IF f.call.op = "Check" THEN [g EXCEPT !.todo = u.roles, !.seen = u.roles] ELSE g)
  BY <1>1, <1>3, <1>4, <1>5 DEF GetUser
<1>7. h = IF f.call.op = "Check" THEN [g EXCEPT !.todo = u.roles, !.seen = u.roles] ELSE g
  BY <1>6, Moved
<1>8. DOMAIN g = {"call", "pc", "id", "name", "user", "role", "todo", "seen", "perms", "at", "depth"}
      /\ g.user = e
  BY <1>2, <1>5 DEF Done, FrameRecord
<1> QED
  BY <1>3, <1>4, <1>6, <1>7, <1>8

\* The reads of a call that edits a user.
LEMMA EditUserReads ==
    ASSUME NEW t \in Threads, Known(t), Step(t), ~Flaky, NEW f, f = frame[t], NEW h, h = frame'[t],
           f.call.op \in UserEdits, EditUserSoFar(f), f.pc \in {"getRole", "getUser"}, h # Nil,
           settled' = settled
    PROVE  EditUserSoFar(h)'
<1>1. /\ f # Nil /\ f.call \in Call /\ f.pc \in DOMAIN Program[f.call.op] \ {"start"}
      /\ f.id = f.call.id /\ f.id \in UserIDs /\ ~StoreFails(t) /\ Follows(f, h) /\ h.call = f.call
  BY Stepping DEF UserOps, UserEdits
<1>2. PICK c : c = f.call
  OBVIOUS
<1>3. Untouched
  BY DEF EditUserSoFar
<1>4. /\ settled'.users = settled.users /\ settled'.roles = settled.roles
  BY SettledStays
<1>5. CASE f.pc = "getRole"
  <2>1. GetRole(t) /\ ~Return(t) /\ Untouched'
    BY <1>1, <1>3, <1>5, ActionAt, Moved, Reads DEF GetRole, Known
  <2>2. \/ c.op = "AssignRole" /\ h.pc = "getUser"
        \/ c.op = "RevokeRole" /\ h.pc = "updateUser"
    BY <1>1, <1>2, <1>5, StepTable DEF UserEdits, Follows
  <2>3. f.name = c.name
    BY <1>2, <2>2, Stepping DEF RoleOps
  <2>4. settled.roles[c.name] # Nil
    BY <1>3, <2>1, <2>3 DEF GetRole, RoleExists, Untouched
  <2>5. c.op = "RevokeRole" => UserRead(h)'
    <3>1. c.op = "RevokeRole" => UserRead(f)
      BY <1>2, <1>5 DEF EditUserSoFar
    <3>2. h.user = f.user
      BY <1>1, <1>5 DEF Follows, RecopySteps
    <3> QED
      BY <1>1, <3>1, <3>2, UserReadKept
  <2> QED
    BY <1>1, <1>2, <1>4, <2>1, <2>2, <2>4, <2>5 DEF EditUserSoFar, UserWritten
<1>6. CASE f.pc = "getUser"
  <2>1. GetUser(t) /\ FramesOK
    BY <1>1, <1>6, ActionAt DEF Known
  <2>2. /\ UserExists(f.id) /\ ~UserNeedsNothing(c) /\ h.user = EditedUser(c, users[f.id])
    BY <1>2, <2>1, GotUser
  <2>3. Untouched'
    BY <1>3, <2>1, Reads DEF GetUser
  <2>4. IF c.op = "RevokeRole" THEN h.pc = "getRole" ELSE h.pc = "updateUser"
    BY <1>1, <1>2, <1>6, StepTable DEF UserEdits, Follows
  <2>5. UserRead(h)'
    BY <1>1, <1>2, <1>3, <1>4, <2>2 DEF UserRead, UserNeedsNothing, UserExists, Untouched
  <2>6. c.op = "AssignRole" => settled.roles[c.name] # Nil
    BY <1>2, <1>6 DEF EditUserSoFar
  <2> QED
    BY <1>1, <1>2, <1>4, <2>3, <2>4, <2>5, <2>6 DEF EditUserSoFar, UserWritten
<1> QED
  BY <1>5, <1>6

\* The writes of a call that edits a user, up to the eviction.
LEMMA EditUserWrites ==
    ASSUME NEW t \in Threads, Known(t), Step(t), ~Flaky, NEW f, f = frame[t], NEW h, h = frame'[t],
           f.call.op \in UserEdits, EditUserSoFar(f), f.pc \notin {"getRole", "getUser"}, h # Nil,
           settled' = settled
    PROVE  EditUserSoFar(h)'
<1>1. /\ f # Nil /\ f.call \in Call /\ f.pc \in DOMAIN Program[f.call.op] \ {"start"}
      /\ f.id = f.call.id /\ f.id \in UserIDs /\ ~StoreFails(t) /\ Follows(f, h) /\ h.call = f.call
      /\ FrameLoops(f) /\ UserCopy(f) /\ f.user \in User
  BY Stepping DEF UserOps, UserEdits
<1>2. PICK c : c = f.call
  OBVIOUS
<1>3. PICK id : id = f.id
  OBVIOUS
<1>4. f.pc \in {"updateUser", "grantHolder", "revokeHolder", "setDirectRoles", "invalidateUser"}
  BY <1>1 DEF UserEdits, Program
<1>5. f.pc # "invalidateUser"
  BY <1>1, Stepping, StepTable DEF Loops
<1>6. h.user = f.user
  BY <1>1, <1>4 DEF Follows, RecopySteps
<1>7. UserRead(f) /\ UserRead(h)'
  <2>1. UserRead(f)
    BY DEF EditUserSoFar
  <2> QED
    BY <1>1, <1>6, <2>1, UserReadKept
<1>8. /\ settled'.users = settled.users /\ settled'.roles = settled.roles /\ settled'.cache = settled.cache
      /\ settled'.directRoles = settled.directRoles /\ settled'.roleHolders = settled.roleHolders
  BY SettledStays
<1>9. c.op \in {"AssignRole", "RevokeRole"} => settled.roles[c.name] # Nil
  BY <1>2 DEF EditUserSoFar
<1>10. /\ roleHolders \in [RoleIDs -> SUBSET UserIDs]
       /\ Atomic!GrantHolder(id, {}) = settled.roleHolders
  <2>1. roleHolders \in [RoleIDs -> SUBSET UserIDs] /\ settled.roleHolders \in [RoleIDs -> SUBSET UserIDs]
    BY DEF Known, TypeOK, Atomic!TypeOK
  <2> QED
    BY <2>1 DEF Atomic!GrantHolder
\* What the index is at the steps where the user has been written.
<1> DEFINE Index(g) ==
             /\ c.op = "AssignRole" =>
                   /\ roleHolders' = Atomic!GrantHolder(id, {c.name} \ g.todo)
                   /\ IF g.pc = "grantHolder" THEN g.todo \subseteq {c.name} ELSE g.todo = {}
             /\ c.op = "RevokeRole" =>
                   roleHolders' = IF g.pc = "revokeHolder" THEN settled.roleHolders
                                  ELSE Atomic!RevokeHolder(id, c.name)
             /\ c.op \notin {"AssignRole", "RevokeRole"} => roleHolders' = settled.roleHolders
           Entry(g) ==
             directRoles' = IF c.op \in {"AssignRole", "RevokeRole"} /\ g.pc = "invalidateUser"
                            THEN Atomic!SetDirectRoles(id, g.user.roles) ELSE settled.directRoles
<1>11. ASSUME h.pc \in UserWritten, users' = [settled.users EXCEPT ![id] = f.user],
              roles' = settled.roles, cache' = settled.cache, Index(h), Entry(h)
       PROVE  EditUserSoFar(h)'
  <2>1. h.pc \notin {"getRole", "getUser", "updateUser"}
    BY <1>11 DEF UserWritten
  <2>2. \A ids, rs : Atomic!GrantHolder(ids, rs)' = Atomic!GrantHolder(ids, rs)
    BY SettledStays
  <2>3. \A ids, name : Atomic!RevokeHolder(ids, name)' = Atomic!RevokeHolder(ids, name)
    BY SettledStays
  <2>4. \A ids, rs : Atomic!SetDirectRoles(ids, rs)' = Atomic!SetDirectRoles(ids, rs)
    BY SettledStays
  <2>5. h.call.id = id /\ h.call = c
    BY <1>1, <1>2, <1>3
  <2>6. h.pc \in UserWritten =>
          /\ c.op = "AssignRole" =>
               /\ roleHolders' = Atomic!GrantHolder(id, {c.name} \ h.todo)'
               /\ IF h.pc = "grantHolder" THEN h.todo \subseteq {c.name} ELSE h.todo = {}
          /\ c.op = "RevokeRole" =>
               roleHolders' = IF h.pc = "revokeHolder" THEN settled'.roleHolders
                              ELSE Atomic!RevokeHolder(id, c.name)'
          /\ c.op \notin {"AssignRole", "RevokeRole"} => roleHolders' = settled'.roleHolders
    BY <1>8, <1>11, <2>2, <2>3
  <2>7. directRoles' = IF c.op \in {"AssignRole", "RevokeRole"} /\ h.pc = "invalidateUser"
                       THEN Atomic!SetDirectRoles(id, h.user.roles)' ELSE settled'.directRoles
    BY <1>8, <1>11, <2>4
  <2>8. users' = [settled'.users EXCEPT ![id] = h.user] /\ roles' = settled'.roles /\ cache' = settled'.cache
    BY <1>6, <1>8, <1>11
  <2>9. c.op \in {"AssignRole", "RevokeRole"} => settled'.roles[c.name] # Nil
    BY <1>8, <1>9
  <2> HIDE DEF Index, Entry
  <2> QED
    BY <1>7, <2>1, <2>5, <2>6, <2>7, <2>8, <2>9 DEF EditUserSoFar
<1>12. CASE f.pc = "updateUser"
  <2>1. UpdateUserStep(t) /\ ~Return(t) /\ Untouched
    BY <1>1, <1>12, ActionAt, Moved DEF EditUserSoFar, Known
  <2>2. /\ users' = [users EXCEPT ![id] = f.user]
        /\ roles' = roles /\ cache' = cache /\ directRoles' = directRoles /\ roleHolders' = roleHolders
    BY <1>3, <2>1 DEF UpdateUserStep, StoreUpdateUser, memo
  <2>3. \/ c.op = "AssignRole" /\ h.pc = "grantHolder" /\ h.todo = {c.name}
        \/ c.op = "RevokeRole" /\ h.pc = "revokeHolder"
        \/ c.op \in {"GrantDirectPermission", "RevokeDirectPermission"} /\ h.pc = "invalidateUser"
    <3>1. h.pc = After(c, f.pc) /\ h.todo = f.todo
      BY <1>1, <1>2, <1>12 DEF Follows, RelistSteps, Loops
    <3>2. c.op = "AssignRole" => f.todo = {c.name}
      BY <1>1, <1>2, <1>12 DEF UserCopy
    <3> QED
      BY <1>1, <1>2, <1>12, <3>1, <3>2, StepTable DEF UserEdits
  <2>4. Index(h) /\ Entry(h)
    <3>1. roleHolders' = settled.roleHolders /\ directRoles' = settled.directRoles
      BY <2>1, <2>2 DEF Untouched
    <3>2. {c.name} \ {c.name} = {}
      OBVIOUS
    <3> QED
      BY <1>10, <2>3, <3>1, <3>2
  <2>5. h.pc \in UserWritten
    BY <2>3 DEF UserWritten
  <2> HIDE DEF Index, Entry
  <2> QED
    BY <1>11, <2>1, <2>2, <2>4, <2>5 DEF Untouched
<1>13. ASSUME f.pc \in UserWritten
       PROVE  /\ users = [settled.users EXCEPT ![id] = f.user]
              /\ roles = settled.roles /\ cache = settled.cache
              /\ f.pc # "invalidateUser" => directRoles = settled.directRoles
              /\ c.op = "AssignRole" =>
                    /\ roleHolders = Atomic!GrantHolder(id, {c.name} \ f.todo)
                    /\ IF f.pc = "grantHolder" THEN f.todo \subseteq {c.name} ELSE f.todo = {}
              /\ c.op = "RevokeRole" =>
                    roleHolders = IF f.pc = "revokeHolder" THEN settled.roleHolders
                                  ELSE Atomic!RevokeHolder(id, c.name)
  BY <1>1, <1>2, <1>3, <1>13 DEF EditUserSoFar
<1>14. CASE f.pc = "grantHolder"
  <2>1. /\ users' = users /\ roles' = roles /\ cache' = cache /\ directRoles' = directRoles
    BY <1>14, Effects
  <2>2. c.op = "AssignRole" /\ roleHolders = Atomic!GrantHolder(id, {c.name} \ f.todo)
        /\ users = [settled.users EXCEPT ![id] = f.user] /\ roles = settled.roles
        /\ cache = settled.cache /\ directRoles = settled.directRoles /\ f.todo \subseteq {c.name}
    <3>1. c.op = "AssignRole"
      BY <1>1, <1>2, <1>14, StepTable DEF UserEdits
    <3> QED
      BY <1>13, <1>14, <3>1 DEF UserWritten
  <2>3. CASE GrantHolderStep(t)
    <3>1. PICK name \in f.todo :
             /\ h.pc = "grantHolder" /\ h.todo = f.todo \ {name}
             /\ \A r \in RoleIDs : roleHolders'[r] = roleHolders[r] \cup (IF r = name THEN {f.id} ELSE {})
      BY <2>3, GrantTurn DEF Known
    <3>2. roleHolders' \in [RoleIDs -> SUBSET UserIDs]
      BY <1>1, <1>10, <2>3 DEF GrantHolderStep, GrantHolder
    <3>3. name = c.name
      BY <2>2, <3>1
    <3>4. roleHolders' = Atomic!GrantHolder(id, {c.name} \ h.todo)
      BY <1>3, <2>2, <3>1, <3>2, <3>3 DEF Atomic!GrantHolder
    <3>5. Index(h) /\ Entry(h)
      BY <2>1, <2>2, <3>1, <3>4
    <3>6. h.pc \in UserWritten
      BY <3>1 DEF UserWritten
    <3> HIDE DEF Index, Entry
    <3> QED
      BY <1>11, <2>1, <2>2, <3>5, <3>6
  <2>4. CASE LoopDone(t)
    <3>1. f.todo = {} /\ h.pc = "setDirectRoles" /\ h.todo = {} /\ roleHolders' = roleHolders
      <4>1. f.todo = {} /\ h.pc = After(f.call, f.pc) /\ h.todo = f.seen /\ UNCHANGED vars
        BY <2>4, LoopOver DEF Known
      <4>2. f.seen = {}
        BY <1>1, <1>2, <2>2 DEF FrameLoops
      <4> QED
        BY <1>1, <1>14, <4>1, <4>2, StepTable DEF vars, memo
    <3>2. Index(h) /\ Entry(h)
      BY <2>1, <2>2, <3>1
    <3>3. h.pc \in UserWritten
      BY <3>1 DEF UserWritten
    <3> HIDE DEF Index, Entry
    <3> QED
      BY <1>11, <2>1, <2>2, <3>2, <3>3
  <2> QED
    BY <1>14, <2>3, <2>4, ActionAt
<1>15. CASE f.pc = "revokeHolder"
  <2>1. c.op = "RevokeRole" /\ h.pc = "setDirectRoles"
    BY <1>1, <1>2, <1>15, StepTable DEF UserEdits, Follows
  <2>2. RevokeHolderStep(t) /\ users' = users /\ roles' = roles /\ cache' = cache /\ directRoles' = directRoles
    BY <1>15, ActionAt, Effects
  <2>3. roleHolders' = Atomic!RevokeHolder(id, c.name)
    BY <1>2, <1>3, <1>13, <1>15, <2>1, <2>2
       DEF RevokeHolderStep, RevokeHolder, Atomic!RevokeHolder, UserWritten
  <2>4. Index(h) /\ Entry(h)
    BY <1>13, <1>15, <2>1, <2>2, <2>3 DEF UserWritten
  <2>5. h.pc \in UserWritten
    BY <2>1 DEF UserWritten
  <2> HIDE DEF Index, Entry
  <2> QED
    BY <1>11, <1>13, <1>15, <2>2, <2>4, <2>5 DEF UserWritten
<1>16. CASE f.pc = "setDirectRoles"
  <2>1. c.op \in {"AssignRole", "RevokeRole"} /\ h.pc = "invalidateUser" /\ h.todo = f.todo
    BY <1>1, <1>2, <1>16, StepTable DEF UserEdits, Follows, RelistSteps, Loops
  <2>2. SetDirectRolesStep(t) /\ users' = users /\ roles' = roles /\ cache' = cache /\ roleHolders' = roleHolders
    BY <1>16, ActionAt, Effects
  <2>3. directRoles' = Atomic!SetDirectRoles(id, h.user.roles)
    BY <1>3, <1>6, <1>13, <1>16, <2>2
       DEF SetDirectRolesStep, SetDirectRoles, DirectEntry, Atomic!SetDirectRoles, Atomic!DirectEntry,
           UserWritten
  <2>4. Index(h)
    BY <1>13, <1>16, <2>1, <2>2 DEF UserWritten
  <2>5. Entry(h)
    BY <2>1, <2>3
  <2>6. h.pc \in UserWritten
    BY <2>1 DEF UserWritten
  <2> HIDE DEF Index, Entry
  <2> QED
    BY <1>11, <1>13, <1>16, <2>2, <2>4, <2>5, <2>6 DEF UserWritten
<1> HIDE DEF Index, Entry
<1> QED
  BY <1>4, <1>5, <1>12, <1>14, <1>15, <1>16

\* The last step of a call that edits a user.
LEMMA EditUserEnds ==
    ASSUME NEW t \in Threads, Known(t), Step(t), ~Flaky, NEW f, f = frame[t], frame'[t] = Nil,
           f.call.op \in UserEdits, EditUserSoFar(f)
    PROVE  Settles
<1>1. /\ f # Nil /\ f.call \in Call /\ f.pc \in DOMAIN Program[f.call.op] \ {"start"}
      /\ f.call.id = f.id /\ f.id \in UserIDs /\ restarts' = restarts
      /\ f.call.perms \subseteq ValidPermissions
  BY Stepping DEF UserOps, UserEdits
<1>2. After(f.call, f.pc) = "return" \/ (Still /\ f.pc \notin CommittedSteps)
  BY Stepping
<1>3. PICK c : c = f.call
  OBVIOUS
<1>4. PICK id : id = f.id
  OBVIOUS
<1>5. f.pc \in {"getRole", "getUser", "updateUser", "grantHolder", "revokeHolder", "setDirectRoles",
                "invalidateUser"}
  BY <1>1 DEF UserEdits, Program
<1>6. CASE f.pc # "invalidateUser"
  <2>1. After(f.call, f.pc) # "return"
    BY <1>1, <1>5, <1>6, StepTable DEF UserEdits
  <2>2. Untouched
    BY <1>2, <1>5, <1>6, <2>1 DEF EditUserSoFar, CommittedSteps, UserWindow, DeleteWindow
  <2> QED
    BY <1>2, <2>1, <2>2, StillSettles
<1>7. CASE f.pc = "invalidateUser"
  <2>1. /\ users' = users /\ roles' = roles /\ directRoles' = directRoles /\ roleHolders' = roleHolders
        /\ cache' = Evict({id})
    BY <1>4, <1>7, CriticalAt DEF InvalidateUserStep
  <2>2. PICK u : u = settled.users[id]
    OBVIOUS
  <2>3. UserRead(f) /\ u \in User /\ u # Nil /\ f.user = EditedUser(c, u)
    <3>1. UserRead(f)
      BY <1>7 DEF EditUserSoFar
    <3>2. settled.users \in [UserIDs -> User \cup {Nil}]
      BY DEF Known, Atomic!TypeOK, Atomic!StoreTypeOK, Atomic!User, Atomic!Role, User
    <3> QED
      BY <1>1, <1>3, <1>4, <2>2, <3>1, <3>2 DEF UserRead
  <2>4. /\ users = [settled.users EXCEPT ![id] = f.user]
        /\ roles = settled.roles /\ cache = settled.cache
        /\ directRoles = IF c.op \in {"AssignRole", "RevokeRole"}
                         THEN Atomic!SetDirectRoles(id, f.user.roles) ELSE settled.directRoles
        /\ c.op = "AssignRole" => roleHolders = Atomic!GrantHolder(id, {c.name} \ f.todo) /\ f.todo = {}
        /\ c.op = "RevokeRole" => roleHolders = Atomic!RevokeHolder(id, c.name)
        /\ c.op \notin {"AssignRole", "RevokeRole"} => roleHolders = settled.roleHolders
        /\ c.op \in {"AssignRole", "RevokeRole"} => settled.roles[c.name] # Nil
    BY <1>1, <1>3, <1>4, <1>7 DEF EditUserSoFar, UserWritten
  <2>5. cache' = Atomic!Evict({id})
    BY <2>1, <2>4 DEF Evict, Atomic!Evict
  <2> SUFFICES ASSUME settled' = Shared' PROVE Atomic!Next
    BY DEF Settles
  <2>6. /\ settled'.users = [settled.users EXCEPT ![id] = f.user] /\ settled'.roles = settled.roles
        /\ settled'.cache = Atomic!Evict({id}) /\ settled'.directRoles = directRoles
        /\ settled'.roleHolders = roleHolders
    BY <2>1, <2>4, <2>5, SettledNow
  <2>7. CASE c.op = "AssignRole"
    <3>1. f.user = [u EXCEPT !.roles = u.roles \cup {c.name}] /\ f.user.roles = u.roles \cup {c.name}
      BY <1>1, <1>3, <2>3, <2>7, EditedUserParts
    <3>2. c.name \notin u.roles
      BY <1>1, <1>3, <1>4, <2>2, <2>3, <2>7 DEF UserRead
    <3>3. roleHolders = Atomic!GrantHolder(id, {c.name})
      <4>1. f.todo = {} => {c.name} \ f.todo = {c.name}
        OBVIOUS
      <4> QED
        BY <2>4, <2>7, <4>1
    <3>4. Atomic!AssignRole(id, c.name)
      BY <1>1, <2>2, <2>3, <2>4, <2>6, <2>7, <3>1, <3>2, <3>3
         DEF Atomic!AssignRole, Atomic!RoleExists, Atomic!UserExists, Atomic!StoreUpdateUser
    <3>5. c.name \in RoleIDs
      BY <1>1, <1>3, <2>7, CallFacts, Stepping DEF RoleOps
    <3> QED
      BY <1>1, <1>4, <3>4, <3>5 DEF Atomic!Next, Atomic!UserCall
  <2>8. CASE c.op = "RevokeRole"
    <3>1. f.user = [u EXCEPT !.roles = u.roles \ {c.name}] /\ f.user.roles = u.roles \ {c.name}
      BY <1>1, <1>3, <2>3, <2>8, EditedUserParts
    <3>2. Atomic!RevokeRole(id, c.name)
      BY <1>1, <2>2, <2>3, <2>4, <2>6, <2>8, <3>1
         DEF Atomic!RevokeRole, Atomic!RoleExists, Atomic!UserExists, Atomic!StoreUpdateUser
    <3>3. c.name \in RoleIDs
      BY <1>1, <1>3, <2>8, CallFacts, Stepping DEF RoleOps
    <3> QED
      BY <1>1, <1>4, <3>2, <3>3 DEF Atomic!Next, Atomic!UserCall
  <2>9. CASE c.op \in {"GrantDirectPermission", "RevokeDirectPermission"}
    <3>1. PICK p \in Permissions : c.perms = {p} /\ Atomic!Valid(p)
      <4>1. PICK p \in Permissions : c.perms = {p}
        BY <1>1, <1>3, <2>9 DEF Call
      <4>2. Valid(p)
        BY <1>1, <1>3, <4>1 DEF ValidPermissions
      <4> QED
        BY <4>1, <4>2 DEF Valid, Atomic!Valid, Star, Atomic!Star, Empty, Atomic!Empty
    <3>2. CASE c.op = "GrantDirectPermission"
      <4>1. f.user = [u EXCEPT !.direct = u.direct \cup {p}]
        <5>1. EditedUser(c, u) = [u EXCEPT !.direct = u.direct \cup c.perms]
          BY <1>1, <1>3, <2>3, <3>2, EditedUserParts
        <5> QED
          BY <2>3, <3>1, <5>1
      <4>2. p \notin u.direct
        BY <1>1, <1>3, <1>4, <2>2, <2>3, <3>1, <3>2 DEF UserRead
      <4>3. Atomic!GrantDirectPermission(id, p)
        BY <1>1, <2>2, <2>3, <2>4, <2>6, <2>9, <3>1, <3>2, <4>1, <4>2
           DEF Atomic!GrantDirectPermission, Atomic!UserExists, Atomic!StoreUpdateUser
      <4> QED
        BY <1>1, <1>4, <3>1, <4>3 DEF Atomic!Next, Atomic!UserCall
    <3>3. CASE c.op = "RevokeDirectPermission"
      <4>1. f.user = [u EXCEPT !.direct = u.direct \ {p}]
        <5>1. EditedUser(c, u) = [u EXCEPT !.direct = u.direct \ c.perms]
          BY <1>1, <1>3, <2>3, <3>3, EditedUserParts
        <5> QED
          BY <2>3, <3>1, <5>1
      <4>2. Atomic!RevokeDirectPermission(id, p)
        BY <1>1, <2>2, <2>3, <2>4, <2>6, <2>9, <3>1, <3>3, <4>1
           DEF Atomic!RevokeDirectPermission, Atomic!UserExists, Atomic!StoreUpdateUser
      <4> QED
        BY <1>1, <1>4, <3>1, <4>2 DEF Atomic!Next, Atomic!UserCall
    <3> QED
      BY <2>9, <3>2, <3>3
  <2> QED
    BY <1>3, <2>7, <2>8, <2>9 DEF UserEdits
<1> QED
  BY <1>6, <1>7

LEMMA EditUserStepped ==
    ASSUME NEW t \in Threads, Known(t), Step(t), ~Flaky, NEW f, f = frame[t], NEW h, h = frame'[t],
           f.call.op \in UserEdits, EditUserSoFar(f)
    PROVE  /\ h = Nil => Settles
           /\ h # Nil /\ settled' = settled => EditUserSoFar(h)'
<1>1. h = Nil => Settles
  BY EditUserEnds
<1>2. h # Nil /\ settled' = settled => EditUserSoFar(h)'
  <2>1. CASE f.pc \in {"getRole", "getUser"}
    BY <2>1, EditUserReads
  <2>2. CASE f.pc \notin {"getRole", "getUser"}
    BY <2>2, EditUserWrites
  <2> QED
    BY <2>1, <2>2
<1> QED
  BY <1>1, <1>2

-----------------------------------------------------------------------------
(* The calls that edit a role.                                             *)

\* What an edited role is made of.
LEMMA EditedRoleParts ==
    ASSUME NEW c \in Call, NEW r \in Role
    PROVE  /\ c.op = "GrantPermission" =>
                EditedRole(c, r) = [r EXCEPT !.permissions = r.permissions \cup c.perms]
           /\ c.op = "RevokePermission" =>
                EditedRole(c, r) = [r EXCEPT !.permissions = r.permissions \ c.perms]
           /\ c.op = "SetParent" => EditedRole(c, r) = [r EXCEPT !.parent = c.parent]
  BY DEF EditedRole, Role

\* The copy of the role that getRole leaves in the frame.
LEMMA GotRole ==
    ASSUME FramesOK, NEW t \in Threads, GetRole(t), NEW f, f = frame[t], NEW h, h = frame'[t], h # Nil
    PROVE  /\ RoleExists(f.name) /\ ~RoleNeedsNothing(f.call)
           /\ f.call.op \notin {"AssignRole", "RevokeRole", "DeleteRole"} =>
                h.role = EditedRole(f.call, roles[f.name])
<1>1. ~Return(t) /\ f # Nil
  BY Moved DEF GetRole, At
<1>2. f \in FrameRecord
  BY <1>1, CallFacts
<1>3. PICK e : e = EditedRole(f.call, roles[f.name])
  OBVIOUS
<1>4. PICK g : g = [Done(f) EXCEPT !.role = e]
  OBVIOUS
<1>5. /\ RoleExists(f.name) /\ ~RoleNeedsNothing(f.call)
      /\ f.call.op \notin {"AssignRole", "RevokeRole", "DeleteRole"} => Proceed(t, g)
  BY <1>1, <1>3, <1>4 DEF GetRole
<1>6. g.role = e
  BY <1>2, <1>4 DEF Done, FrameRecord
<1>7. Proceed(t, g) => h = g
  BY Moved
<1> QED
  BY <1>3, <1>5, <1>6, <1>7

\* A turn of the walk of validateInheritance that goes on.
LEMMA WalkTurn ==
    ASSUME FramesOK, NEW t \in Threads, Walk(t), NEW f, f = frame[t], NEW h, h = frame'[t], h # Nil
    PROVE  /\ f.at # f.call.name /\ f.depth \in 1..MaxDepth
           /\ IF ParentOf(f.at) = Nil THEN h.pc = After(f.call, f.pc)
              ELSE h.pc = "walk" /\ h.at = ParentOf(f.at) /\ h.depth = f.depth + 1
<1>1. ~Return(t) /\ f # Nil /\ f.pc = "walk"
  BY Moved DEF Walk, At
<1>2. f \in FrameRecord
  BY <1>1, CallFacts
<1>3. f.depth \in 1..(MaxDepth + 1) /\ MaxDepth \in Nat
  BY <1>2, MaxDepthAssumption DEF FrameRecord
<1>4. f.at # f.call.name /\ ~(f.depth > MaxDepth)
  BY <1>1 DEF Walk
<1>5. CASE ParentOf(f.at) = Nil
  <2>1. h = Done(f)
    BY <1>1, <1>5, Moved DEF Walk
  <2> QED
    BY <1>2, <1>3, <1>4, <1>5, <2>1 DEF Done, FrameRecord
<1>6. CASE ParentOf(f.at) # Nil
  <2>1. PICK a : a = ParentOf(f.at)
    OBVIOUS
  <2>2. h = [f EXCEPT !.at = a, !.depth = f.depth + 1]
    BY <1>1, <1>6, <2>1, Moved DEF Walk
  <2> QED
    BY <1>1, <1>2, <1>3, <1>4, <1>6, <2>1, <2>2 DEF FrameRecord
<1> QED
  BY <1>5, <1>6

\* The roles that the walk has seen, with the one it looks at.
LEMMA Walked ==
    ASSUME NEW f, WalkSoFar(f), f.at \in RoleIDs, f.at # f.call.name, f.depth \in Nat \ {0}
    PROVE  \E chain \in [1..f.depth -> RoleIDs \ {f.call.name}] :
              /\ chain[1] = f.call.parent /\ chain[f.depth] = f.at
              /\ \A i \in 1..(f.depth - 1) : Atomic!ParentOf(chain[i]) = chain[i + 1]
<1>1. PICK d \in Nat \ {0} : d = f.depth
  OBVIOUS
<1>2. CASE d = 1
  <2>1. f.at = f.call.parent
    BY <1>1, <1>2 DEF WalkSoFar
  <2>2. PICK chain : chain = [i \in 1..d |-> f.at]
    OBVIOUS
  <2>3. chain \in [1..d -> RoleIDs \ {f.call.name}]
    BY <2>2
  <2>4. chain[1] = f.call.parent /\ chain[d] = f.at
    BY <1>2, <2>1, <2>2
  <2>5. \A i \in 1..(d - 1) : Atomic!ParentOf(chain[i]) = chain[i + 1]
    BY <1>2
  <2> QED
    BY <1>1, <2>3, <2>4, <2>5
<1>3. CASE d > 1
  <2>1. PICK seen \in [1..(d - 1) -> RoleIDs \ {f.call.name}] :
           /\ seen[1] = f.call.parent
           /\ \A i \in 1..(d - 2) : Atomic!ParentOf(seen[i]) = seen[i + 1]
           /\ Atomic!ParentOf(seen[d - 1]) = f.at
    BY <1>1, <1>3 DEF WalkSoFar
  <2>2. PICK chain : chain = [i \in 1..d |-> IF i = d THEN f.at ELSE seen[i]]
    OBVIOUS
  <2>3. chain[d] = f.at /\ \A i \in 1..(d - 1) : chain[i] = seen[i] /\ i \in 1..d
    BY <2>2
  <2>4. chain \in [1..d -> RoleIDs \ {f.call.name}]
    <3>1. \A i \in 1..d : i = d \/ i \in 1..(d - 1)
      OBVIOUS
    <3>2. \A i \in 1..d : chain[i] \in RoleIDs \ {f.call.name}
      BY <2>1, <2>3, <3>1
    <3> QED
      BY <2>2, <3>2
  <2>5. chain[1] = f.call.parent
    BY <1>3, <2>1, <2>3
  <2>6. ASSUME NEW i \in 1..(d - 1) PROVE Atomic!ParentOf(chain[i]) = chain[i + 1]
    <3>1. CASE i = d - 1
      BY <1>3, <2>1, <2>3, <3>1
    <3>2. CASE i # d - 1
      <4>1. i \in 1..(d - 2) /\ i + 1 \in 1..(d - 1)
        BY <3>2
      <4> QED
        BY <2>1, <2>3, <4>1
    <3> QED
      BY <3>1, <3>2
  <2> QED
    BY <1>1, <2>3, <2>4, <2>5, <2>6
<1> QED
  BY <1>1, <1>2, <1>3

LEMMA RoleReadKept ==
    ASSUME NEW f, NEW h, RoleRead(f), settled' = settled, h.call = f.call, h.role = f.role,
           f.pc # "getRole"
    PROVE  RoleRead(h)'
  BY SettledStays DEF RoleRead

\* The reads of a call that writes a role, down to the last role of the walk.
LEMMA EditRoleReads ==
    ASSUME NEW t \in Threads, Known(t), Step(t), ~Flaky, NEW f, f = frame[t], NEW h, h = frame'[t],
           f.call.op \in RoleEdits, EditRoleSoFar(f), h # Nil, settled' = settled,
           f.pc \in {"getRole", "findParent", "getParent", "walk"}
    PROVE  EditRoleSoFar(h)'
<1>1. /\ f # Nil /\ f.call \in Call /\ f.pc \in DOMAIN Program[f.call.op] \ {"start"}
      /\ f.name = f.call.name /\ f.name \in RoleIDs /\ ~StoreFails(t) /\ Follows(f, h)
      /\ h.call = f.call /\ FrameNames(f) /\ f.call.parent \in RoleIDs \cup {Nil}
  BY Stepping DEF RoleOps, RoleEdits
<1>2. PICK c : c = f.call
  OBVIOUS
<1>3. Untouched /\ RoleRead(f) /\ ParentWalked(f)
  BY DEF EditRoleSoFar
<1>4. /\ settled'.roles = settled.roles
      /\ \A name, parent : Atomic!ValidateInheritance(name, parent)'
                           <=> Atomic!ValidateInheritance(name, parent)
      /\ \A r : Atomic!ParentOf(r)' = Atomic!ParentOf(r)
  BY SettledStays
<1>5. UNCHANGED vars
  BY <1>1, ActionAt DEF GetRole, GetParent, Walk
<1>6. Untouched' /\ users' = users /\ roles' = roles
  BY <1>3, <1>5, Reads DEF vars
<1>7. \A r : ParentOf(r) = Atomic!ParentOf(r)
  BY <1>3 DEF Untouched, ParentOf, RoleExists, Atomic!ParentOf, Atomic!RoleExists
<1>8. ASSUME RoleRead(h)', ParentWalked(h)', h.pc # "invalidateRoleHolders"
      PROVE  EditRoleSoFar(h)'
  BY <1>6, <1>8 DEF EditRoleSoFar
<1>9. CASE f.pc = "getRole"
  <2>1. GetRole(t) /\ FramesOK
    BY <1>1, <1>9, ActionAt DEF Known
  <2>2. c.op \in {"GrantPermission", "RevokePermission", "SetParent"}
    BY <1>1, <1>2, <1>9, StepTable DEF RoleEdits
  <2>3. /\ RoleExists(f.name) /\ ~RoleNeedsNothing(c) /\ h.role = EditedRole(c, roles[f.name])
    BY <1>2, <2>1, <2>2, GotRole
  <2>4. RoleRead(h)'
    BY <1>1, <1>2, <1>3, <1>4, <2>2, <2>3 DEF RoleRead, RoleNeedsNothing, RoleExists, Untouched
  <2>5. h.pc = "updateRole" \/ (c.parent # Nil /\ h.pc = "findParent")
    BY <1>1, <1>2, <1>9, <2>2, StepTable DEF Follows
  <2>6. f.depth = 1 /\ h.depth = 1 /\ h.at = c.parent
    BY <1>1, <1>2, <1>3, <1>9 DEF Follows, ParentWalked
  <2>7. c.op \in Parenting /\ h.pc = "updateRole" => Atomic!ValidateInheritance(c.name, c.parent)
    <3>1. c.op = "SetParent" /\ h.pc = "updateRole" => c.parent = Nil
      BY <1>1, <1>2, <1>9, StepTable DEF Follows
    <3> QED
      BY <2>2, <3>1 DEF Parenting, Atomic!ValidateInheritance
  <2>8. ParentWalked(h)'
    BY <1>1, <1>2, <1>4, <2>5, <2>6, <2>7 DEF ParentWalked
  <2> QED
    BY <1>8, <2>4, <2>5, <2>8
<1>10. ASSUME f.pc # "getRole" PROVE RoleRead(h)'
  <2>1. h.role = f.role
    BY <1>1, <1>10 DEF Follows
  <2> QED
    BY <1>1, <1>3, <1>10, <2>1, RoleReadKept
<1>11. CASE f.pc \in {"findParent", "getParent"}
  <2>1. GetParent(t) /\ ~Return(t)
    BY <1>1, <1>11, ActionAt, Moved DEF Known
  <2>2. RoleExists(c.parent) /\ settled.roles[c.parent] # Nil
    BY <1>2, <1>3, <2>1 DEF GetParent, RoleExists, Untouched
  <2>3. h.pc \in {"getParent", "walk"}
    <3>1. c.parent # Nil
      BY <1>1, <1>2, <1>11 DEF FrameNames
    <3> QED
      BY <1>1, <1>2, <1>11, <3>1, StepTable DEF Follows
  <2>4. h.depth = 1 /\ h.at = c.parent
    BY <1>1, <1>2, <1>3, <1>11 DEF Follows, ParentWalked
  <2>5. WalkSoFar(h)'
    BY <1>1, <1>2, <1>4, <2>2, <2>4 DEF WalkSoFar
  <2>6. ParentWalked(h)'
    BY <1>1, <1>2, <2>3, <2>4, <2>5 DEF ParentWalked
  <2>7. RoleRead(h)'
    BY <1>10, <1>11
  <2> QED
    BY <1>8, <2>3, <2>6, <2>7
<1>12. CASE f.pc = "walk"
  <2>1. Walk(t) /\ FramesOK
    BY <1>1, <1>12, ActionAt DEF Known
  <2>2. /\ f.at # c.name /\ f.depth \in 1..MaxDepth /\ MaxDepth \in Nat
        /\ IF ParentOf(f.at) = Nil THEN h.pc = After(c, f.pc)
           ELSE h.pc = "walk" /\ h.at = ParentOf(f.at) /\ h.depth = f.depth + 1
    BY <1>2, <2>1, WalkTurn, MaxDepthAssumption
  <2>3. f.at \in RoleIDs /\ c.parent # Nil /\ WalkSoFar(f)
    BY <1>1, <1>2, <1>3, <1>12 DEF FrameNames, ParentWalked
  <2>4. PICK chain \in [1..f.depth -> RoleIDs \ {c.name}] :
           /\ chain[1] = c.parent /\ chain[f.depth] = f.at
           /\ \A i \in 1..(f.depth - 1) : Atomic!ParentOf(chain[i]) = chain[i + 1]
    BY <1>2, <2>2, <2>3, Walked
  <2>5. CASE ParentOf(f.at) = Nil
    <3>1. h.pc \in {"createRole", "updateRole"}
      BY <1>1, <1>2, <1>12, <2>2, <2>5, StepTable
    <3>2. settled.roles[c.parent] # Nil
      BY <1>2, <2>3 DEF WalkSoFar
    <3>3. Atomic!ParentOf(chain[f.depth]) = Nil
      BY <1>7, <2>4, <2>5
    <3>4. Atomic!ValidateInheritance(c.name, c.parent)
      BY <2>2, <2>4, <3>2, <3>3 DEF Atomic!ValidateInheritance, Atomic!RoleExists
    <3>5. ParentWalked(h)'
      BY <1>1, <1>2, <1>4, <3>1, <3>4 DEF ParentWalked
    <3>6. RoleRead(h)'
      BY <1>10, <1>12
    <3> QED
      BY <1>8, <3>1, <3>5, <3>6
  <2>6. CASE ParentOf(f.at) # Nil
    <3>1. h.pc = "walk" /\ h.at = Atomic!ParentOf(f.at) /\ h.depth = f.depth + 1
      BY <1>7, <2>2, <2>6
    <3>2. settled.roles[c.parent] # Nil
      BY <1>2, <2>3 DEF WalkSoFar
    <3>3. WalkSoFar(h)
      <4>1. h.depth - 1 = f.depth /\ h.depth - 2 = f.depth - 1 /\ h.depth # 1
        BY <2>2, <3>1
      <4>2. \E ch \in [1..(h.depth - 1) -> RoleIDs \ {c.name}] :
               /\ ch[1] = c.parent
               /\ \A i \in 1..(h.depth - 2) : Atomic!ParentOf(ch[i]) = ch[i + 1]
               /\ Atomic!ParentOf(ch[h.depth - 1]) = h.at
        BY <2>4, <3>1, <4>1
      <4> QED
        BY <1>1, <1>2, <3>2, <4>1, <4>2 DEF WalkSoFar
    <3>4. WalkSoFar(h)'
      BY <1>4, <3>3 DEF WalkSoFar
    <3>5. ParentWalked(h)'
      BY <3>1, <3>4 DEF ParentWalked
    <3>6. RoleRead(h)'
      BY <1>10, <1>12
    <3> QED
      BY <1>8, <3>1, <3>5, <3>6
  <2> QED
    BY <2>5, <2>6
<1> QED
  BY <1>9, <1>11, <1>12

LEMMA EditRoleStepped ==
    ASSUME NEW t \in Threads, Known(t), Step(t), ~Flaky, NEW f, f = frame[t], NEW h, h = frame'[t],
           f.call.op \in RoleEdits, EditRoleSoFar(f)
    PROVE  /\ h = Nil => Settles
           /\ h # Nil /\ settled' = settled => EditRoleSoFar(h)'
<1>1. /\ f # Nil /\ f.call \in Call /\ f.pc \in DOMAIN Program[f.call.op] \ {"start"}
      /\ f.name = f.call.name /\ f.name \in RoleIDs /\ ~StoreFails(t) /\ restarts' = restarts
      /\ f.call.parent \in RoleIDs \cup {Nil} /\ f.call.perms \in SUBSET Permissions
      /\ \A p \in f.call.perms : Atomic!Valid(p)
  <2>1. /\ f # Nil /\ f.call \in Call /\ f.pc \in DOMAIN Program[f.call.op] \ {"start"}
        /\ f.name = f.call.name /\ f.name \in RoleIDs /\ ~StoreFails(t) /\ restarts' = restarts
        /\ f.call.parent \in RoleIDs \cup {Nil} /\ f.call.perms \in SUBSET Permissions
        /\ f.call.perms \subseteq ValidPermissions
    BY Stepping DEF RoleOps, RoleEdits
  <2>2. \A p \in f.call.perms : Valid(p)
    BY <2>1 DEF ValidPermissions
  <2> QED
    BY <2>1, <2>2 DEF Valid, Atomic!Valid, Star, Atomic!Star, Empty, Atomic!Empty
<1>2. PICK c : c = f.call
  OBVIOUS
<1>3. PICK name \in RoleIDs : name = f.name
  BY <1>1
<1>4. RoleRead(f) /\ ParentWalked(f) /\ c.name = name
  BY <1>1, <1>2, <1>3 DEF EditRoleSoFar
<1>5. f.pc \in {"getRole", "findParent", "getParent", "walk", "createRole", "updateRole",
                "invalidateRoleHolders"}
  BY <1>1 DEF RoleEdits, Program
<1>6. ASSUME h # Nil, settled' = settled PROVE EditRoleSoFar(h)'
  <2>1. Follows(f, h) /\ h.call = f.call
    BY <1>6, Stepping
  <2>2. CASE f.pc \in {"getRole", "findParent", "getParent", "walk"}
    BY <1>6, <2>2, EditRoleReads
  <2>3. f.pc \notin {"createRole", "invalidateRoleHolders"}
    BY <1>1, <1>6, Stepping, StepTable DEF Loops, RoleEdits
  <2>4. CASE f.pc = "updateRole"
    <3>1. h.pc = "invalidateRoleHolders" /\ h.role = f.role
      BY <1>1, <2>1, <2>4, StepTable DEF Follows
    <3>2. UpdateRoleStep(t) /\ ~Return(t) /\ Untouched
      BY <1>1, <1>6, <2>4, ActionAt, Moved DEF EditRoleSoFar, Known
    <3>3. /\ RoleExists(name) /\ roles' = [roles EXCEPT ![name] = f.role]
          /\ users' = users /\ cache' = cache /\ directRoles' = directRoles /\ roleHolders' = roleHolders
      BY <1>3, <3>2 DEF UpdateRoleStep, StoreUpdateRole, memo
    <3>4. RoleRead(h)'
      BY <1>4, <1>6, <2>1, <2>4, <3>1, RoleReadKept
    <3>5. ParentWalked(h)'
      <4>1. c.op \in Parenting => Atomic!ValidateInheritance(c.name, c.parent)
        BY <1>2, <1>4, <2>4 DEF ParentWalked
      <4>2. c.op \in Parenting => Atomic!ValidateInheritance(c.name, c.parent)'
        BY <1>6, <4>1, SettledStays
      <4> QED
        BY <1>2, <2>1, <3>1, <4>2 DEF ParentWalked
    <3> QED
      BY <1>2, <1>4, <1>6, <2>1, <3>1, <3>2, <3>3, <3>4, <3>5, SettledStays
         DEF EditRoleSoFar, Untouched, RoleExists
  <2> QED
    BY <1>5, <2>2, <2>3, <2>4
<1>7. ASSUME h = Nil PROVE Settles
  <2>1. After(f.call, f.pc) = "return" \/ Still
    BY <1>7, Stepping
  <2>2. CASE f.pc \in {"getRole", "findParent", "getParent", "walk", "updateRole"}
    <3>1. After(f.call, f.pc) # "return"
      BY <1>1, <2>2, StepTable
    <3> QED
      BY <2>1, <2>2, <3>1, StillSettles DEF EditRoleSoFar
  <2>3. CASE f.pc = "createRole"
    <3>1. CreateRoleStep(t) /\ c.op = "CreateRole" /\ Untouched
      BY <1>1, <1>2, <2>3, ActionAt, StepTable DEF EditRoleSoFar
    <3>2. users' = users /\ cache' = cache /\ directRoles' = directRoles /\ roleHolders' = roleHolders
      BY <3>1 DEF CreateRoleStep, memo
    <3>3. CASE RoleExists(name)
      <4>1. roles' = roles
        BY <1>3, <3>1, <3>3 DEF CreateRoleStep
      <4> QED
        BY <3>1, <3>2, <4>1, StillSettles DEF Still
    <3>4. CASE ~RoleExists(name)
      <4>1. roles' = [roles EXCEPT ![name] = [permissions |-> c.perms, parent |-> c.parent]]
        BY <1>2, <1>3, <1>4, <3>1, <3>4 DEF CreateRoleStep, StoreCreateRole, RoleRead
      <4>2. Atomic!ValidateInheritance(name, c.parent)
        BY <1>2, <1>4, <2>3, <3>1 DEF ParentWalked, Parenting
      <4>3. ASSUME settled' = Shared' PROVE Atomic!CreateRole(name, c.perms, c.parent)
        BY <1>1, <1>2, <3>1, <3>2, <3>4, <4>1, <4>2, <4>3, SettledNow
           DEF Untouched, RoleExists, Atomic!CreateRole, Atomic!StoreCreateRole, Atomic!RoleExists,
               Atomic!memo
      <4> QED
        BY <1>1, <1>2, <4>3 DEF Settles, Atomic!Next, Atomic!RoleCall
    <3> QED
      BY <3>3, <3>4
  <2>4. CASE f.pc = "invalidateRoleHolders"
    <3>1. /\ users' = users /\ roles' = roles /\ directRoles' = directRoles /\ roleHolders' = roleHolders
          /\ cache' = InvalidateRoleHolders(name)
      BY <1>3, <2>4, CriticalAt DEF InvalidateRoleHoldersStep
    <3>2. PICK r : r = settled.roles[name]
      OBVIOUS
    <3>3. /\ r # Nil /\ roles = [settled.roles EXCEPT ![name] = f.role]
          /\ users = settled.users /\ cache = settled.cache
          /\ directRoles = settled.directRoles /\ roleHolders = settled.roleHolders
      BY <1>2, <1>4, <2>4, <3>2 DEF EditRoleSoFar
    <3>4. r \in Role
      BY <3>2, <3>3 DEF Known, Atomic!TypeOK, Atomic!StoreTypeOK, Atomic!Role, Role
    <3>5. cache' = Atomic!InvalidateRoleHolders(name)
      BY <3>1, <3>3 DEF InvalidateRoleHolders, Evict, Atomic!InvalidateRoleHolders, Atomic!Evict
    <3>6. c.op \in Parenting => Atomic!ValidateInheritance(name, c.parent)
      BY <1>2, <1>4, <2>4 DEF ParentWalked
    <3> SUFFICES ASSUME settled' = Shared' PROVE Atomic!Next
      BY DEF Settles
    <3>7. /\ settled'.users = settled.users /\ settled'.roles = [settled.roles EXCEPT ![name] = f.role]
          /\ settled'.cache = Atomic!InvalidateRoleHolders(name)
          /\ settled'.directRoles = settled.directRoles /\ settled'.roleHolders = settled.roleHolders
      BY <3>1, <3>3, <3>5, SettledNow
    <3>8. CASE c.op = "UpdateRole"
      <4>1. f.role = [permissions |-> c.perms, parent |-> c.parent]
        BY <1>2, <1>4, <3>8 DEF RoleRead
      <4>2. Atomic!UpdateRole(name, c.perms, c.parent)
        BY <1>1, <1>2, <3>2, <3>3, <3>6, <3>7, <3>8, <4>1
           DEF Parenting, Atomic!UpdateRole, Atomic!StoreUpdateRole, Atomic!RoleExists
      <4> QED
        BY <1>1, <1>2, <4>2 DEF Atomic!Next, Atomic!RoleCall
    <3>9. CASE c.op \in {"GrantPermission", "RevokePermission", "SetParent"}
      <4>1. /\ f.role = EditedRole(c, r)
            /\ c.op = "GrantPermission" => ~(c.perms \subseteq r.permissions)
            /\ c.op = "SetParent" => c.parent # r.parent
        BY <1>2, <1>4, <2>4, <3>2, <3>9 DEF RoleRead
      <4>2. CASE c.op = "SetParent"
        <5>1. f.role = [r EXCEPT !.parent = c.parent]
          BY <1>1, <1>2, <3>4, <4>1, <4>2, EditedRoleParts
        <5>2. Atomic!ValidateInheritance(name, c.parent)
          BY <3>6, <4>2 DEF Parenting
        <5>3. c.parent # Nil => Atomic!RoleExists(c.parent)
          BY <5>2 DEF Atomic!ValidateInheritance
        <5>4. Atomic!SetParent(name, c.parent)
          BY <1>1, <3>2, <3>3, <3>7, <4>1, <4>2, <5>1, <5>2, <5>3
             DEF Atomic!SetParent, Atomic!StoreUpdateRole, Atomic!RoleExists
        <5> QED
          BY <1>1, <1>2, <5>4 DEF Atomic!Next, Atomic!RoleCall
      <4>3. CASE c.op \in {"GrantPermission", "RevokePermission"}
        <5>1. PICK p \in Permissions : c.perms = {p} /\ Atomic!Valid(p)
          BY <1>1, <1>2, <4>3 DEF Call
        <5>2. CASE c.op = "GrantPermission"
          <6>1. f.role = [r EXCEPT !.permissions = r.permissions \cup {p}]
            <7>1. EditedRole(c, r) = [r EXCEPT !.permissions = r.permissions \cup c.perms]
              BY <1>1, <1>2, <3>4, <5>2, EditedRoleParts
            <7> QED
              BY <4>1, <5>1, <7>1
          <6>2. p \notin r.permissions
            BY <4>1, <5>1, <5>2
          <6>3. Atomic!GrantPermission(name, p)
            BY <1>1, <3>2, <3>3, <3>7, <5>1, <6>1, <6>2
               DEF Atomic!GrantPermission, Atomic!StoreUpdateRole, Atomic!RoleExists
          <6> QED
            BY <5>1, <6>3 DEF Atomic!Next, Atomic!RoleCall
        <5>3. CASE c.op = "RevokePermission"
          <6>1. f.role = [r EXCEPT !.permissions = r.permissions \ {p}]
            <7>1. EditedRole(c, r) = [r EXCEPT !.permissions = r.permissions \ c.perms]
              BY <1>1, <1>2, <3>4, <5>3, EditedRoleParts
            <7> QED
              BY <4>1, <5>1, <7>1
          <6>2. Atomic!RevokePermission(name, p)
            BY <1>1, <3>2, <3>3, <3>7, <5>1, <6>1
               DEF Atomic!RevokePermission, Atomic!StoreUpdateRole, Atomic!RoleExists
          <6> QED
            BY <5>1, <6>2 DEF Atomic!Next, Atomic!RoleCall
        <5> QED
          BY <4>3, <5>2, <5>3
      <4> QED
        BY <3>9, <4>2, <4>3
    <3>10. c.op \in {"UpdateRole", "GrantPermission", "RevokePermission", "SetParent"}
      BY <1>1, <1>2, <2>4, StepTable DEF RoleEdits
    <3> QED
      BY <3>8, <3>9, <3>10
  <2> QED
    BY <1>5, <2>2, <2>3, <2>4
<1> QED
  BY <1>6, <1>7

-----------------------------------------------------------------------------
(* The calls that only read.                                               *)

\* A turn of the worklist of resolveRoles.
LEMMA ResolveTurn ==
    ASSUME FramesOK, NEW t \in Threads, Resolve(t), NEW f, f = frame[t], NEW h, h = frame'[t]
    PROVE  \E r \in f.todo :
              /\ h.pc = "resolve"
              /\ h.todo = (f.todo \ {r}) \cup AncestorsToVisit(f, r)
              /\ h.seen = f.seen \cup AncestorsToVisit(f, r)
<1>1. f # Nil /\ f.pc = "resolve"
  BY DEF Resolve, At
<1>2. f \in FrameRecord
  BY <1>1, CallFacts
<1>3. PICK r \in f.todo :
         Proceed(t, [f EXCEPT !.todo = (@ \ {r}) \cup AncestorsToVisit(f, r),
                              !.seen = @ \cup AncestorsToVisit(f, r)])
  BY <1>1 DEF Resolve
<1>4. PICK more : more = AncestorsToVisit(f, r)
  OBVIOUS
<1>5. PICK g : g = [f EXCEPT !.todo = (@ \ {r}) \cup more, !.seen = @ \cup more]
  OBVIOUS
<1>6. g.pc = "resolve" /\ g.todo = (f.todo \ {r}) \cup more /\ g.seen = f.seen \cup more
  BY <1>1, <1>2, <1>5 DEF FrameRecord
<1>7. Proceed(t, g)
  BY <1>3, <1>4, <1>5, Zenon
<1>8. h = g
  BY <1>6, <1>7, Moved
<1> QED
  BY <1>4, <1>6, <1>8

\* A turn of the loop of computeAndCache.
LEMMA CollectTurn ==
    ASSUME FramesOK, NEW t \in Threads, Collect(t), NEW f, f = frame[t], NEW h, h = frame'[t]
    PROVE  \E r \in f.todo :
              /\ h.pc = "collect" /\ h.todo = f.todo \ {r}
              /\ h.perms \cup Granted(h.todo) = f.perms \cup Granted(f.todo)
<1>1. f # Nil /\ f.pc = "collect"
  BY DEF Collect, At
<1>2. f \in FrameRecord
  BY <1>1, CallFacts
<1>3. PICK r \in f.todo :
         Proceed(t, [f EXCEPT !.todo = @ \ {r},
                              !.perms = @ \cup (IF RoleExists(r) THEN roles[r].permissions ELSE {})])
  BY <1>1 DEF Collect
<1>4. PICK some : some = IF RoleExists(r) THEN roles[r].permissions ELSE {}
  OBVIOUS
<1>5. PICK g : g = [f EXCEPT !.todo = @ \ {r}, !.perms = @ \cup some]
  OBVIOUS
<1>6. g.pc = "collect" /\ g.todo = f.todo \ {r} /\ g.perms = f.perms \cup some
  BY <1>1, <1>2, <1>5 DEF FrameRecord
<1>7. Proceed(t, g)
  BY <1>3, <1>4, <1>5, Zenon
<1>8. h = g
  BY <1>6, <1>7, Moved
<1>9. Granted(f.todo) = some \cup Granted(f.todo \ {r})
  BY <1>4 DEF Granted
<1> QED
  BY <1>6, <1>8, <1>9

\* The end of either loop leaves what was seen and collected.
LEMMA ReadLoopOver ==
    ASSUME FramesOK, NEW t \in Threads, LoopDone(t), NEW f, f = frame[t], NEW h, h = frame'[t], h # Nil
    PROVE  f.todo = {} /\ h.pc = After(f.call, f.pc) /\ h.todo = f.seen /\ h.perms = f.perms
<1>1. f # Nil /\ f.todo = {} /\ h.pc = After(f.call, f.pc) /\ h.todo = f.seen
  BY LoopOver
<1>2. f \in FrameRecord /\ Proceed(t, [Done(f) EXCEPT !.todo = f.seen])
  BY <1>1, CallFacts DEF LoopDone
<1>3. h = [Done(f) EXCEPT !.todo = f.seen]
  BY <1>2, Moved
<1>4. h.perms = f.perms
  BY <1>2, <1>3 DEF Done, FrameRecord
<1> QED
  BY <1>1, <1>4

\* The resolved roles contain the parent of each of them, and are the fewest
\* that do.
LEMMA ResolvedClosed ==
    ASSUME TypeOK, NEW rs \in SUBSET RoleIDs
    PROVE  /\ ResolveRoles(rs) \subseteq RoleIDs
           /\ \A r \in ResolveRoles(rs) : ParentOf(r) # Nil => ParentOf(r) \in ResolveRoles(rs)
           /\ \A S \in SUBSET RoleIDs : rs \subseteq S /\ ParentClosed(S) => ResolveRoles(rs) \subseteq S
<1>1. \A r \in RoleIDs : ParentOf(r) \in RoleIDs \cup {Nil}
  BY ParentType
<1> QED
  BY <1>1 DEF ResolveRoles, ParentClosed

\* What was collected for the resolved roles is what the atomic call computes.
LEMMA SameDerived ==
    ASSUME Untouched
    PROVE  \A u : Atomic!Effective(u) = Effective(u)
<1>1. roles = settled.roles
  BY DEF Untouched
<1>2. \A r : Atomic!RoleExists(r) <=> RoleExists(r)
  BY <1>1 DEF RoleExists, Atomic!RoleExists
<1>3. \A r : Atomic!ParentOf(r) = ParentOf(r)
  BY <1>1, <1>2 DEF ParentOf, Atomic!ParentOf
<1>4. \A S : Atomic!ParentClosed(S) <=> ParentClosed(S)
  BY <1>3 DEF ParentClosed, Atomic!ParentClosed
<1>5. \A rs : Atomic!ResolveRoles(rs) = ResolveRoles(rs)
  BY <1>4 DEF ResolveRoles, Atomic!ResolveRoles
<1> QED
  BY <1>1, <1>2, <1>5 DEF Effective, Atomic!Effective

LEMMA HasRoleStepped ==
    ASSUME NEW t \in Threads, Known(t), Step(t), ~Flaky, NEW f, f = frame[t], NEW h, h = frame'[t],
           f.call.op = "HasRole", HasRoleSoFar(f)
    PROVE  /\ h = Nil => Settles
           /\ h # Nil /\ settled' = settled => HasRoleSoFar(h)'
<1>1. /\ f # Nil /\ f.call \in Call /\ f.pc \in DOMAIN Program[f.call.op] \ {"start"}
      /\ f.id \in UserIDs /\ ~StoreFails(t) /\ restarts' = restarts
  BY Stepping DEF UserOps, Readers
<1>2. f.pc \in {"readDirectRoles", "getUser", "publishDirectRoles"}
  BY <1>1 DEF Program
<1>3. Untouched /\ FramesOK /\ TypeOK
  BY DEF HasRoleSoFar, Known
<1>4. ASSUME h # Nil, settled' = settled PROVE HasRoleSoFar(h)'
  <2>1. Follows(f, h) /\ h.call = f.call /\ f.pc # "publishDirectRoles"
    BY <1>1, <1>4, Stepping, StepTable DEF Loops
  <2>2. h.id = f.id /\ settled'.directRoles = settled.directRoles
    BY <1>2, <1>4, <2>1, SettledStays DEF Follows, RetargetSteps
  <2>3. CASE f.pc = "readDirectRoles"
    <3>1. ReadDirectRoles(t) /\ ~Return(t) /\ h.pc = "getUser"
      BY <1>1, <1>3, <1>4, <2>1, <2>3, CriticalAt, Moved, StepTable DEF Follows
    <3>2. settled.directRoles[f.id] = Nil /\ Untouched'
      BY <1>3, <1>4, <3>1, Reads DEF ReadDirectRoles, Untouched
    <3> QED
      BY <2>2, <3>1, <3>2 DEF HasRoleSoFar
  <2>4. CASE f.pc = "getUser"
    <3>1. GetUser(t) /\ h.pc = "publishDirectRoles"
      BY <1>1, <2>1, <2>4, ActionAt, StepTable DEF Follows
    <3>2. UserExists(f.id) /\ h.user = users[f.id]
      <4>1. UserExists(f.id) /\ h.user = EditedUser(f.call, users[f.id])
        BY <1>3, <1>4, <3>1, GotUser
      <4> QED
        BY <4>1 DEF EditedUser
    <3>3. users' = users /\ Untouched'
      BY <1>3, <1>4, <3>1, Reads DEF GetUser, vars
    <3>4. settled.directRoles[f.id] = Nil
      BY <2>4 DEF HasRoleSoFar
    <3> QED
      BY <2>2, <3>1, <3>2, <3>3, <3>4 DEF HasRoleSoFar, UserExists
  <2> QED
    BY <1>2, <2>1, <2>3, <2>4
<1>5. ASSUME h = Nil PROVE Settles
  <2>1. CASE f.pc \in {"readDirectRoles", "getUser"}
    <3>1. After(f.call, f.pc) # "return"
      BY <1>1, <2>1, StepTable
    <3> QED
      BY <1>3, <1>5, <3>1, Stepping, StillSettles
  <2>2. CASE f.pc = "publishDirectRoles"
    <3>1. /\ users' = users /\ roles' = roles /\ cache' = cache /\ roleHolders' = roleHolders
          /\ directRoles' = [directRoles EXCEPT ![f.id] = IF @ = Nil THEN f.user.roles ELSE @]
      BY <1>1, <2>2, ActionAt DEF PublishDirectRoles, MemoizeDirectRoles
    <3>2. directRoles[f.id] = Nil /\ UserExists(f.id) /\ f.user = users[f.id]
      BY <1>3, <2>2 DEF HasRoleSoFar, Untouched
    <3>3. directRoles' = [directRoles EXCEPT ![f.id] = users[f.id].roles]
      BY <3>1, <3>2
    <3>4. ASSUME settled' = Shared' PROVE Atomic!FillDirectRoles(f.id)
      BY <1>1, <1>3, <3>1, <3>2, <3>3, <3>4, SettledNow
         DEF Untouched, UserExists, Atomic!FillDirectRoles, Atomic!UserExists
    <3> QED
      BY <1>1, <3>4 DEF Settles, Atomic!Next, Atomic!UserCall
  <2> QED
    BY <1>2, <2>1, <2>2
<1> QED
  BY <1>4, <1>5

LEMMA CheckStepped ==
    ASSUME NEW t \in Threads, Known(t), Step(t), ~Flaky, NEW f, f = frame[t], NEW h, h = frame'[t],
           f.call.op = "Check", CheckSoFar(f)
    PROVE  /\ h = Nil => Settles
           /\ h # Nil /\ settled' = settled => CheckSoFar(h)'
<1>1. /\ f # Nil /\ f.call \in Call /\ f.pc \in DOMAIN Program[f.call.op] \ {"start"}
      /\ f.id \in UserIDs /\ ~StoreFails(t) /\ restarts' = restarts /\ FrameLoops(f) /\ f.user \in User
  BY Stepping DEF UserOps, Readers
<1>2. f.pc \in {"readCache", "getUser", "resolve", "collect", "publish"}
  BY <1>1 DEF Program
<1>3. Untouched /\ FramesOK /\ TypeOK
  BY DEF CheckSoFar, Known
<1>4. ASSUME h # Nil, settled' = settled PROVE CheckSoFar(h)'
  <2>1. Follows(f, h) /\ h.call = f.call /\ f.pc # "publish" /\ ~Return(t)
    BY <1>1, <1>3, <1>4, Stepping, StepTable, Moved DEF Loops
  <2>2. h.id = f.id /\ settled'.cache = settled.cache
    BY <1>2, <1>4, <2>1, SettledStays DEF Follows, RetargetSteps
  <2>3. UNCHANGED vars
    BY <1>1, <1>2, <2>1, ActionAt, CriticalAt DEF ReadCache, GetUser, Resolve, Collect, LoopDone
  <2>4. Untouched' /\ users' = users /\ roles' = roles
    BY <1>3, <1>4, <2>3, Reads DEF vars
  <2>5. /\ \A rs : ResolveRoles(rs)' = ResolveRoles(rs)
        /\ \A rs : Granted(rs)' = Granted(rs)
        /\ \A r : ParentOf(r)' = ParentOf(r)
        /\ UserExists(h.id)' <=> UserExists(f.id)
    BY <2>2, <2>4 DEF ResolveRoles, ParentClosed, Granted, ParentOf, RoleExists, UserExists
  <2>6. PICK held : held = ResolveRoles(f.user.roles)
    OBVIOUS
  <2>7. CASE f.pc = "readCache"
    <3>1. ReadCache(t) /\ h.pc = "getUser"
      BY <1>1, <2>1, <2>7, CriticalAt, StepTable DEF Follows
    <3>2. settled.cache[f.id] = Nil
      BY <1>3, <2>1, <3>1 DEF ReadCache, Untouched
    <3>3. h.perms = {}
      BY <2>1, <2>7 DEF Follows, CheckSoFar
    <3> QED
      BY <2>2, <2>4, <3>1, <3>2, <3>3 DEF CheckSoFar
  <2>8. ASSUME f.pc # "readCache" PROVE settled.cache[f.id] = Nil
    BY <2>8 DEF CheckSoFar
  <2>9. CASE f.pc = "getUser"
    <3>1. GetUser(t) /\ h.pc = "resolve"
      BY <1>1, <2>1, <2>9, ActionAt, StepTable DEF Follows
    <3>2. PICK u : u = users[f.id]
      OBVIOUS
    <3>3. UserExists(f.id) /\ h.user = u /\ h.todo = u.roles /\ h.seen = u.roles
      <4>1. /\ UserExists(f.id) /\ h.user = EditedUser(f.call, u)
            /\ h.todo = u.roles /\ h.seen = u.roles
        BY <1>3, <1>4, <3>1, <3>2, GotUser
      <4> QED
        BY <4>1 DEF EditedUser
    <3>4. u.roles \subseteq ResolveRoles(u.roles)
      <4>1. u \in User
        BY <1>1, <1>3, <3>2, <3>3 DEF TypeOK, StoreTypeOK, UserExists
      <4> QED
        BY <4>1, ResolveHeld DEF User
    <3>5. h.perms = {}
      BY <2>1, <2>9 DEF Follows, CheckSoFar
    <3>6. \A r : r \notin h.seen \ h.todo
      BY <3>3
    <3> QED
      BY <2>2, <2>4, <2>5, <2>8, <2>9, <3>1, <3>2, <3>3, <3>4, <3>5, <3>6 DEF CheckSoFar
  <2>10. ASSUME f.pc \in {"resolve", "collect"}
         PROVE  UserExists(f.id) /\ h.user = f.user /\ f.user = users[f.id]
    BY <2>1, <2>10 DEF Follows, RecopySteps, CheckSoFar
  <2>11. CASE f.pc = "resolve"
    <3>1. /\ f.perms = {} /\ f.user.roles \subseteq f.seen /\ f.todo \subseteq f.seen
          /\ f.seen \subseteq held
          /\ \A r \in f.seen \ f.todo : ParentOf(r) # Nil => ParentOf(r) \in f.seen
      BY <2>6, <2>11 DEF CheckSoFar
    <3>2. /\ f.user.roles \in SUBSET RoleIDs /\ f.seen \subseteq RoleIDs
          /\ \A r \in held : ParentOf(r) # Nil => ParentOf(r) \in held
      BY <1>1, <1>3, <2>6, ResolvedClosed DEF User, FrameLoops
    <3>3. CASE Resolve(t)
      <4>1. PICK r \in f.todo :
               /\ h.pc = "resolve"
               /\ h.todo = (f.todo \ {r}) \cup AncestorsToVisit(f, r)
               /\ h.seen = f.seen \cup AncestorsToVisit(f, r)
        BY <1>3, <1>4, <3>3, ResolveTurn
      <4>2. PICK more : more = AncestorsToVisit(f, r)
        OBVIOUS
      <4>3. more = {ParentOf(r)} \ ({Nil} \cup f.seen)
        BY <4>2 DEF AncestorsToVisit
      <4>4. more \subseteq held /\ (ParentOf(r) # Nil => ParentOf(r) \in f.seen \cup more)
        BY <3>1, <3>2, <4>3
      <4>5. /\ f.user.roles \subseteq h.seen /\ h.todo \subseteq h.seen /\ h.seen \subseteq held
            /\ \A q \in h.seen \ h.todo : ParentOf(q) # Nil => ParentOf(q) \in h.seen
        <5>1. h.todo = (f.todo \ {r}) \cup more /\ h.seen = f.seen \cup more
          BY <4>1, <4>2
        <5>2. f.user.roles \subseteq h.seen /\ h.todo \subseteq h.seen /\ h.seen \subseteq held
          BY <3>1, <4>4, <5>1
        <5>3. ASSUME NEW q \in h.seen \ h.todo, ParentOf(q) # Nil PROVE ParentOf(q) \in h.seen
          <6>1. q = r \/ q \in f.seen \ f.todo
            BY <5>1, <5>3
          <6> QED
            BY <3>1, <4>4, <5>1, <5>3, <6>1
        <5> QED
          BY <5>2, <5>3
      <4>6. h.perms = {}
        BY <2>1, <2>11, <3>1 DEF Follows
      <4> QED
        BY <2>2, <2>4, <2>5, <2>6, <2>8, <2>10, <2>11, <4>1, <4>5, <4>6 DEF CheckSoFar
    <3>4. CASE LoopDone(t)
      <4>1. f.todo = {} /\ h.pc = "collect" /\ h.todo = f.seen /\ h.perms = {}
        BY <1>1, <1>3, <1>4, <2>11, <3>1, <3>4, ReadLoopOver, StepTable
      <4>2. f.seen = held
        <5>1. ParentClosed(f.seen)
          BY <3>1, <4>1 DEF ParentClosed
        <5> QED
          BY <1>3, <2>6, <3>1, <3>2, <5>1, ResolvedClosed
      <4>3. h.todo \subseteq held /\ h.perms \cup Granted(h.todo) = Granted(held)
        BY <4>1, <4>2
      <4> QED
        BY <2>2, <2>4, <2>5, <2>6, <2>8, <2>10, <2>11, <4>1, <4>3 DEF CheckSoFar
    <3> QED
      BY <1>1, <2>11, <3>3, <3>4, CriticalAt
  <2>12. CASE f.pc = "collect"
    <3>1. f.todo \subseteq held /\ f.perms \cup Granted(f.todo) = Granted(held)
      BY <2>6, <2>12 DEF CheckSoFar
    <3>2. CASE Collect(t)
      <4>1. PICK r \in f.todo :
               /\ h.pc = "collect" /\ h.todo = f.todo \ {r}
               /\ h.perms \cup Granted(h.todo) = f.perms \cup Granted(f.todo)
        BY <1>3, <1>4, <3>2, CollectTurn
      <4>2. h.todo \subseteq held /\ h.perms \cup Granted(h.todo) = Granted(held)
        BY <3>1, <4>1
      <4> QED
        BY <2>2, <2>4, <2>5, <2>6, <2>8, <2>10, <2>12, <4>1, <4>2 DEF CheckSoFar
    <3>3. CASE LoopDone(t)
      <4>1. f.todo = {} /\ h.pc = "publish" /\ h.perms = f.perms
        BY <1>1, <1>3, <1>4, <2>12, <3>3, ReadLoopOver, StepTable
      <4>2. h.perms = Granted(held)
        <5>1. Granted({}) = {}
          BY DEF Granted
        <5> QED
          BY <3>1, <4>1, <5>1
      <4> QED
        BY <2>2, <2>4, <2>5, <2>6, <2>8, <2>10, <2>12, <4>1, <4>2 DEF CheckSoFar
    <3> QED
      BY <1>1, <2>12, <3>2, <3>3, CriticalAt
  <2> QED
    BY <1>2, <2>1, <2>7, <2>9, <2>11, <2>12
<1>5. ASSUME h = Nil PROVE Settles
  <2>1. CASE f.pc # "publish"
    <3>1. After(f.call, f.pc) # "return"
      BY <1>1, <1>2, <2>1, StepTable
    <3> QED
      BY <1>3, <1>5, <3>1, Stepping, StillSettles
  <2>2. CASE f.pc = "publish"
    <3>1. Publish(t)
      BY <2>2, ActionAt
    <3>2. PICK u : u = users[f.id]
      OBVIOUS
    <3>3. /\ cache[f.id] = Nil /\ UserExists(f.id) /\ f.user = u /\ f.perms = Granted(ResolveRoles(u.roles))
      BY <1>3, <2>2, <3>2 DEF CheckSoFar, Untouched
    <3>4. f.perms \cup f.user.direct = Effective(u)
      BY <3>3 DEF Effective, Granted
    <3>5. /\ users' = users /\ roles' = roles /\ roleHolders' = roleHolders
          /\ cache' = [cache EXCEPT ![f.id] = Effective(u)]
          /\ directRoles' = [directRoles EXCEPT ![f.id] = IF @ = Nil THEN u.roles ELSE @]
      <4>1. /\ users' = users /\ roles' = roles /\ roleHolders' = roleHolders
            /\ cache' = [cache EXCEPT ![f.id] = IF cache[f.id] = Nil THEN f.perms \cup f.user.direct
                                                ELSE cache[f.id]]
            /\ directRoles' = [directRoles EXCEPT ![f.id] = IF @ = Nil THEN f.user.roles ELSE @]
        BY <3>1 DEF Publish, MemoizeDirectRoles
      <4> QED
        BY <3>3, <3>4, <4>1
    <3>6. ASSUME settled' = Shared' PROVE Atomic!FillGrantedSet(f.id)
      <4>1. Atomic!Effective(u) = Effective(u)
        BY <1>3, SameDerived
      <4> QED
        BY <1>1, <1>3, <3>2, <3>3, <3>5, <3>6, <4>1, SettledNow
           DEF Untouched, UserExists, Atomic!FillGrantedSet, Atomic!UserExists
    <3> QED
      BY <1>1, <3>6 DEF Settles, Atomic!Next, Atomic!UserCall
  <2> QED
    BY <2>1, <2>2
<1> QED
  BY <1>4, <1>5

-----------------------------------------------------------------------------
(* DeleteRole.                                                             *)

\* The frames that readHolders and listRoles leave.
LEMMA HoldersRead ==
    ASSUME FramesOK, NEW t \in Threads, ReadHolders(t), NEW f, f = frame[t], NEW h, h = frame'[t], h # Nil
    PROVE  /\ h.pc = After(f.call, f.pc) /\ h.todo = roleHolders[f.name] /\ h.seen = roleHolders[f.name]
           /\ UNCHANGED vars
<1>1. f # Nil /\ UNCHANGED vars
  BY DEF ReadHolders, At
<1>2. f \in FrameRecord
  BY <1>1, CallFacts
<1>3. PICK holders : holders = roleHolders[f.name]
  OBVIOUS
<1>4. PICK g : g = [Done(f) EXCEPT !.todo = holders, !.seen = holders]
  OBVIOUS
<1>5. h = g
  BY <1>3, <1>4, Moved DEF ReadHolders
<1> QED
  BY <1>1, <1>2, <1>3, <1>4, <1>5 DEF Done, FrameRecord

LEMMA ChildrenListed ==
    ASSUME FramesOK, NEW t \in Threads, ListRoles(t), NEW f, f = frame[t], NEW h, h = frame'[t], h # Nil
    PROVE  /\ h.pc = After(f.call, f.pc) /\ h.seen = f.seen /\ UNCHANGED vars
           /\ h.todo = {[name |-> c, role |-> [roles[c] EXCEPT !.parent = Nil]] :
                           c \in ChildrenOf(f.call.name)}
<1>1. f # Nil /\ UNCHANGED vars
  BY DEF ListRoles, At
<1>2. f \in FrameRecord
  BY <1>1, CallFacts
<1>3. PICK children : children = {[name |-> c, role |-> [roles[c] EXCEPT !.parent = Nil]] :
                                     c \in ChildrenOf(f.call.name)}
  OBVIOUS
<1>4. PICK g : g = [Done(f) EXCEPT !.todo = children]
  OBVIOUS
<1>5. Proceed(t, g)
  BY <1>3, <1>4, Zenon DEF ListRoles
<1>6. h = g
  BY <1>5, Moved
<1> QED
  BY <1>1, <1>2, <1>3, <1>4, <1>6 DEF Done, FrameRecord

\* A turn of the loop that evicts the holders.
LEMMA EvictTurn ==
    ASSUME FramesOK, NEW t \in Threads, InvalidateHolder(t), NEW f, f = frame[t],
           NEW h, h = frame'[t], h # Nil
    PROVE  \E id \in f.todo : /\ h.pc = "invalidateHolder" /\ h.todo = f.todo \ {id}
                              /\ \A x \in UserIDs : cache'[x] = IF x = id THEN Nil ELSE cache[x]
<1>1. f # Nil /\ f.pc = "invalidateHolder"
  BY DEF InvalidateHolder, At
<1>2. f \in FrameRecord
  BY <1>1, CallFacts
<1>3. PICK id \in f.todo : cache' = Evict({id}) /\ Proceed(t, [f EXCEPT !.todo = @ \ {id}])
  BY DEF InvalidateHolder
<1>4. h = [f EXCEPT !.todo = f.todo \ {id}]
  BY <1>3, Moved
<1>5. \A x \in UserIDs : cache'[x] = IF x = id THEN Nil ELSE cache[x]
  BY <1>3 DEF Evict
<1> QED
  BY <1>1, <1>2, <1>4, <1>5 DEF FrameRecord

\* What DeleteRole found stays while it runs.
LEMMA FoundStays ==
    ASSUME settled' = settled
    PROVE  /\ \A id, name : Detached(id, name)' = Detached(id, name)
           /\ \A r : Orphan(r)' = Orphan(r)
           /\ \A name, gone : UsersWithout(name, gone)' = UsersWithout(name, gone)
           /\ \A name, gone : EntriesWithout(name, gone)' = EntriesWithout(name, gone)
           /\ \A freed : RolesWithout(freed)' = RolesWithout(freed)
           /\ \A id, rs : Spared(id, rs)' = Spared(id, rs)
  BY SettledStays DEF Detached, Orphan, UsersWithout, EntriesWithout, RolesWithout, Spared

LEMMA FoundKept ==
    ASSUME NEW f, NEW h, Found(f), h.call = f.call, h.seen = f.seen, settled' = settled,
           \/ roleHolders' = roleHolders
           \/ /\ \A r \in RoleIDs \ {f.call.name} : roleHolders'[r] = roleHolders[r]
              /\ roleHolders'[f.call.name] \subseteq roleHolders[f.call.name]
    PROVE  Found(h)'
<1>1. PICK name : name = f.call.name
  OBVIOUS
<1>2. settled'.roles = settled.roles /\ settled'.users = settled.users /\ settled'.roleHolders = settled.roleHolders
  BY SettledStays
<1>3. \A r \in RoleIDs \ {name} : roleHolders'[r] = settled.roleHolders[r]
  BY <1>1 DEF Found
<1>4. roleHolders'[name] \subseteq settled.roleHolders[name]
  BY <1>1 DEF Found
<1> QED
  BY <1>1, <1>2, <1>3, <1>4 DEF Found

\* DeleteRole looks the role up and reads the index.
LEMMA DeleteRoleReads ==
    ASSUME NEW t \in Threads, Known(t), Step(t), ~Flaky, NEW f, f = frame[t], NEW h, h = frame'[t],
           f.call.op = "DeleteRole", DeleteRoleSoFar(f), h # Nil, settled' = settled,
           f.pc \in {"getRole", "readHolders"}
    PROVE  DeleteRoleSoFar(h)'
<1>1. /\ f # Nil /\ f.call \in Call /\ f.pc \in DOMAIN Program[f.call.op] \ {"start"}
      /\ ~StoreFails(t) /\ Follows(f, h) /\ h.call = f.call /\ FrameNames(f) /\ f.call.name \in RoleIDs
  BY Stepping DEF RoleOps
<1>2. PICK name : name = f.call.name
  OBVIOUS
<1>3. Untouched /\ FramesOK /\ f.name = name
  BY <1>1, <1>2 DEF DeleteRoleSoFar, Known, FrameNames
<1>4. /\ settled'.roles = settled.roles /\ settled'.users = settled.users /\ settled'.cache = settled.cache
      /\ settled'.roleHolders = settled.roleHolders
  BY SettledStays
<1>5. CASE f.pc = "getRole"
  <2>1. GetRole(t) /\ h.pc = "readHolders"
    BY <1>1, <1>5, ActionAt, StepTable DEF Follows
  <2>2. settled.roles[name] # Nil
    BY <1>3, <2>1, GotRole DEF RoleExists, Untouched
  <2>3. Untouched'
    BY <1>3, <2>1, Reads DEF GetRole
  <2> QED
    BY <1>1, <1>2, <1>4, <2>1, <2>2, <2>3 DEF DeleteRoleSoFar, DetachSteps, AfterDetach
<1>6. CASE f.pc = "readHolders"
  <2>1. ReadHolders(t) /\ UNCHANGED vars
    BY <1>6, ActionAt DEF ReadHolders
  <2>2. PICK holders : holders = settled.roleHolders[name]
    OBVIOUS
  <2>3. h.pc = "detachUser" /\ h.todo = holders /\ h.seen = holders
    BY <1>1, <1>2, <1>3, <1>6, <2>1, <2>2, HoldersRead, StepTable DEF Untouched
  <2>4. settled.roles[name] # Nil
    BY <1>2, <1>6 DEF DeleteRoleSoFar
  <2>5. \A id \in holders : settled.users[id] # Nil
    <3>1. \A id \in roleHolders[name] : id \in HoldersOf(name)
      BY <1>1, <1>2, <1>6 DEF Known, SoundBut
    <3> QED
      BY <1>3, <2>2, <3>1 DEF HoldersOf, UserExists, Untouched
  <2>6. /\ users' = settled.users /\ roles' = settled.roles /\ cache' = settled.cache
        /\ directRoles' = settled.directRoles /\ roleHolders' = settled.roleHolders
    BY <1>3, <2>1 DEF Untouched, vars, memo
  <2>7. Found(h)'
    BY <1>1, <1>2, <1>4, <2>2, <2>3, <2>4, <2>5, <2>6 DEF Found
  <2>8. /\ UsersWithout(name, {}) = settled.users
        /\ EntriesWithout(name, {}) = settled.directRoles
    <3>1. settled.users \in [UserIDs -> Atomic!User \cup {Nil}]
      BY DEF Known, Atomic!TypeOK, Atomic!StoreTypeOK
    <3>2. settled.directRoles \in [UserIDs -> {Nil} \cup SUBSET RoleIDs]
      BY DEF Known, Atomic!TypeOK
    <3> QED
      BY <3>1, <3>2 DEF UsersWithout, EntriesWithout
  <2>9. DetachSoFar(h)'
    <3>1. holders \ holders = {}
      OBVIOUS
    <3> QED
      BY <1>1, <1>2, <1>4, <2>2, <2>3, <2>6, <2>8, <3>1, FoundStays DEF DetachSoFar
  <2> QED
    BY <2>3, <2>7, <2>9 DEF DeleteRoleSoFar, DetachSteps, AfterDetach
<1> QED
  BY <1>5, <1>6

\* DeleteRole goes through the users that the index named.
LEMMA DeleteRoleDetaches ==
    ASSUME NEW t \in Threads, Known(t), Step(t), ~Flaky, NEW f, f = frame[t], NEW h, h = frame'[t],
           f.call.op = "DeleteRole", DeleteRoleSoFar(f), h # Nil, settled' = settled,
           f.pc \in DetachSteps
    PROVE  DeleteRoleSoFar(h)'
<1>1. /\ f # Nil /\ f.call \in Call /\ f.pc \in DOMAIN Program[f.call.op] \ {"start"}
      /\ ~StoreFails(t) /\ Follows(f, h) /\ h.call = f.call /\ f.call.name \in RoleIDs
      /\ f.user \in User /\ FrameLoops(f)
  BY Stepping DEF RoleOps
<1>2. PICK name : name = f.call.name
  OBVIOUS
<1>3. PICK holders : holders = settled.roleHolders[name]
  OBVIOUS
<1>4. /\ settled'.roles = settled.roles /\ settled'.users = settled.users /\ settled'.cache = settled.cache
      /\ settled'.roleHolders = settled.roleHolders
  BY SettledStays
<1>5. Found(f) /\ DetachSoFar(f) /\ FramesOK /\ TypeOK
  BY DEF DeleteRoleSoFar, DetachSteps, Known
<1>6. roles = settled.roles /\ cache = settled.cache /\ f.todo \subseteq holders /\ holders \subseteq UserIDs
  <2>1. settled.roleHolders \in [RoleIDs -> SUBSET UserIDs]
    BY DEF Known, Atomic!TypeOK
  <2> QED
    BY <1>1, <1>2, <1>3, <1>5, <2>1 DEF DetachSoFar
<1>7. roles' = settled.roles /\ cache' = settled.cache
  BY <1>6, Effects DEF DetachSteps
<1>8. /\ users = UsersWithout(name,
            holders \ (IF f.pc = "updateUser" THEN f.todo \cup {f.id} ELSE f.todo))
      /\ directRoles = EntriesWithout(name,
            holders \ (IF f.pc = "detachUser" THEN f.todo ELSE f.todo \cup {f.id}))
  BY <1>2, <1>3, <1>5 DEF DetachSoFar
<1>9. f.pc # "detachUser" => f.id \in holders \ f.todo /\ f.user = Detached(f.id, name)
  BY <1>2, <1>3, <1>5 DEF DetachSoFar
\* What is left to prove of a step of the loop.
<1>10. ASSUME h.pc \in DetachSteps, Found(h)', h.todo \subseteq holders,
              h.pc # "detachUser" => h.id \in holders \ h.todo /\ h.user = Detached(h.id, name),
              users' = UsersWithout(name,
                 holders \ (IF h.pc = "updateUser" THEN h.todo \cup {h.id} ELSE h.todo)),
              directRoles' = EntriesWithout(name,
                 holders \ (IF h.pc = "detachUser" THEN h.todo ELSE h.todo \cup {h.id}))
       PROVE  DeleteRoleSoFar(h)'
  <2>1. DetachSoFar(h)'
    BY <1>1, <1>2, <1>3, <1>4, <1>7, <1>10, FoundStays DEF DetachSoFar
  <2> QED
    BY <1>10, <2>1 DEF DeleteRoleSoFar, DetachSteps, AfterDetach
<1>11. f.pc # "detachUser" => h.user = f.user /\ h.id = f.id /\ h.seen = f.seen /\ h.todo = f.todo
  BY <1>1 DEF Follows, RecopySteps, RetargetSteps, RelistSteps, Loops, DetachSteps
<1>12. CASE f.pc = "detachUser"
  <2>1. users' = users /\ directRoles' = directRoles /\ roleHolders' = roleHolders /\ h.seen = f.seen
    BY <1>1, <1>12, Effects DEF Follows
  <2>2. Found(h)'
    BY <1>1, <1>5, <2>1, FoundKept
  <2>3. CASE DetachUser(t)
    <3>1. PICK id \in f.todo \cap UserIDs :
             /\ UserExists(id) /\ h.id = id /\ h.todo = f.todo \ {id}
             /\ h.user.roles = users[id].roles \ {name} /\ h.user.direct = users[id].direct
             /\ \/ h.pc = "updateUser"
                \/ h.pc = "revokeHolder" /\ h.user = users[id]
      BY <1>2, <1>5, <2>3, DetachTurn
    <3>2. users = UsersWithout(name, holders \ f.todo)
          /\ directRoles = EntriesWithout(name, holders \ f.todo)
      BY <1>8, <1>12
    <3>3. users[id] = settled.users[id]
      BY <3>1, <3>2 DEF UsersWithout
    <3>4. h.user = Detached(id, name)
      <4>1. users[id] \in User /\ h.user \in User
        <5>1. h \in FrameRecord
          BY <1>5, FramesStep, CallFacts DEF FramesOK, FrameOK, FrameBasic
        <5> QED
          BY <1>5, <3>1, <5>1 DEF TypeOK, StoreTypeOK, UserExists, FrameRecord
      <4>2. PICK u \in User : u = h.user
        BY <4>1
      <4>3. PICK v \in User : v = users[id]
        BY <4>1
      <4>4. u.roles = v.roles \ {name} /\ u.direct = v.direct
        BY <3>1, <4>2, <4>3
      <4>5. u = [v EXCEPT !.roles = v.roles \ {name}]
        BY <4>4 DEF User
      <4>6. Detached(id, name) = [v EXCEPT !.roles = v.roles \ {name}]
        BY <3>3, <4>3 DEF Detached
      <4> QED
        BY <4>2, <4>5, <4>6
    <3>5. holders \ (h.todo \cup {h.id}) = holders \ f.todo
      BY <3>1
    <3>6. CASE h.pc = "updateUser"
      BY <1>6, <1>10, <2>1, <2>2, <3>1, <3>2, <3>4, <3>5, <3>6 DEF DetachSteps
    <3>7. CASE h.pc = "revokeHolder" /\ h.user = users[id]
      <4>1. users = UsersWithout(name, holders \ h.todo)
        <5>1. \A x \in UserIDs : x \in holders \ h.todo <=> (x \in holders \ f.todo \/ x = id)
          BY <1>6, <3>1
        <5>2. users[id] = Detached(id, name)
          BY <3>4, <3>7
        <5>3. \A x \in UserIDs : users[x] = IF x \in holders \ h.todo THEN Detached(x, name)
                                            ELSE settled.users[x]
          BY <3>2, <5>1, <5>2 DEF UsersWithout
        <5>4. users = [x \in UserIDs |-> users[x]]
          BY <3>2 DEF UsersWithout
        <5> QED
          BY <5>3, <5>4 DEF UsersWithout
      <4> QED
        BY <1>6, <1>10, <2>1, <2>2, <3>1, <3>2, <3>4, <3>5, <3>7, <4>1 DEF DetachSteps
    <3> QED
      BY <3>1, <3>6, <3>7
  <2>4. CASE LoopDone(t)
    <3>1. f.todo = {} /\ h.pc = "listRoles"
      BY <1>1, <1>5, <1>12, <2>4, LoopOver, StepTable
    <3>2. holders \ f.todo = holders
      BY <3>1
    <3>3. users' = UsersWithout(name, holders) /\ directRoles' = EntriesWithout(name, holders)
      BY <1>8, <1>12, <2>1, <3>2
    <3> QED
      BY <1>1, <1>2, <1>3, <1>4, <1>7, <2>2, <3>1, <3>3, FoundStays
         DEF DeleteRoleSoFar, DetachSteps, AfterDetach
  <2> QED
    BY <1>1, <1>12, <2>3, <2>4, ActionAt
<1>13. CASE f.pc = "updateUser"
  <2>1. h.pc = "revokeHolder"
    BY <1>1, <1>13, StepTable DEF Follows
  <2>2. UpdateUserStep(t) /\ ~Return(t)
    BY <1>1, <1>5, <1>13, ActionAt, Moved
  <2>3. users' = [users EXCEPT ![f.id] = f.user] /\ directRoles' = directRoles /\ roleHolders' = roleHolders
    BY <2>2 DEF UpdateUserStep, StoreUpdateUser, memo
  <2>4. Found(h)'
    BY <1>1, <1>5, <1>11, <1>13, <2>3, FoundKept
  <2>5. users' = UsersWithout(name, holders \ h.todo)
    <3>1. users = UsersWithout(name, holders \ (f.todo \cup {f.id}))
      BY <1>8, <1>13
    <3>2. f.id \in holders \ f.todo /\ f.user = Detached(f.id, name) /\ f.id \in UserIDs
      BY <1>6, <1>9, <1>13
    <3> QED
      BY <1>11, <1>13, <2>3, <3>1, <3>2 DEF UsersWithout
  <2>6. directRoles' = EntriesWithout(name, holders \ (h.todo \cup {h.id}))
    BY <1>8, <1>11, <1>13, <2>3
  <2> QED
    BY <1>6, <1>9, <1>10, <1>11, <1>13, <2>1, <2>4, <2>5, <2>6 DEF DetachSteps
<1>14. CASE f.pc = "revokeHolder"
  <2>1. h.pc = "setDirectRoles"
    BY <1>1, <1>14, StepTable DEF Follows
  <2>2. RevokeHolderStep(t) /\ users' = users /\ directRoles' = directRoles
    BY <1>14, ActionAt, Effects
  <2>3. Found(h)'
    <3>1. roleHolders' = [roleHolders EXCEPT ![name] = @ \ {f.id}]
      BY <1>2, <2>2 DEF RevokeHolderStep, RevokeHolder
    <3>2. /\ \A r \in RoleIDs \ {name} : roleHolders'[r] = roleHolders[r]
          /\ roleHolders'[name] \subseteq roleHolders[name]
      BY <1>1, <1>2, <1>5, <3>1 DEF TypeOK
    <3> QED
      BY <1>1, <1>2, <1>5, <1>11, <1>14, <3>2, FoundKept
  <2> QED
    BY <1>6, <1>8, <1>9, <1>10, <1>11, <1>14, <2>1, <2>2, <2>3 DEF DetachSteps
<1>15. CASE f.pc = "setDirectRoles"
  <2>1. h.pc = "detachUser"
    BY <1>1, <1>15, StepTable DEF Follows
  <2>2. /\ users' = users /\ roleHolders' = roleHolders
        /\ directRoles' = [directRoles EXCEPT ![f.id] = DirectEntry(f.user.roles)]
    BY <1>15, ActionAt DEF SetDirectRolesStep, SetDirectRoles
  <2>3. Found(h)'
    BY <1>1, <1>5, <1>11, <1>15, <2>2, FoundKept
  <2>4. directRoles' = EntriesWithout(name, holders \ h.todo)
    <3>1. directRoles = EntriesWithout(name, holders \ (f.todo \cup {f.id}))
      BY <1>8, <1>15
    <3>2. f.id \in holders \ f.todo /\ f.user = Detached(f.id, name) /\ f.id \in UserIDs
      BY <1>6, <1>9, <1>15
    <3>3. f.user.roles = settled.users[f.id].roles \ {name}
      <4>1. settled.users[f.id] \in User
        <5>1. settled.users \in [UserIDs -> User \cup {Nil}]
          BY DEF Known, Atomic!TypeOK, Atomic!StoreTypeOK, Atomic!User, User
        <5> QED
          BY <1>2, <1>3, <1>5, <3>2, <5>1 DEF Found
      <4> QED
        BY <3>2, <4>1 DEF Detached, User
    <3>4. f.todo = h.todo
      BY <1>11, <1>15
    <3> QED
      BY <2>2, <3>1, <3>2, <3>3, <3>4 DEF EntriesWithout
  <2>5. users' = UsersWithout(name, holders \ h.todo)
    BY <1>8, <1>11, <1>15, <2>2
  <2> QED
    BY <1>6, <1>10, <1>11, <1>15, <2>1, <2>3, <2>4, <2>5 DEF DetachSteps
<1> QED
  BY <1>12, <1>13, <1>14, <1>15 DEF DetachSteps

\* DeleteRole lists the children and takes their parent from them.
LEMMA DeleteRoleChildren ==
    ASSUME NEW t \in Threads, Known(t), Step(t), ~Flaky, NEW f, f = frame[t], NEW h, h = frame'[t],
           f.call.op = "DeleteRole", DeleteRoleSoFar(f), h # Nil, settled' = settled,
           f.pc \in {"listRoles", "detachChild", "invalidateRoleHolders"}
    PROVE  DeleteRoleSoFar(h)'
<1>1. /\ f # Nil /\ f.call \in Call /\ f.pc \in DOMAIN Program[f.call.op] \ {"start"}
      /\ ~StoreFails(t) /\ Follows(f, h) /\ h.call = f.call /\ f.call.name \in RoleIDs
      /\ FrameLoops(f) /\ FramesOK
  BY Stepping DEF RoleOps, Known
<1>2. PICK name \in RoleIDs : name = f.call.name
  BY <1>1
<1>3. PICK holders : holders = settled.roleHolders[name]
  OBVIOUS
<1>4. PICK kids : kids = Atomic!ChildrenOf(name)
  OBVIOUS
<1>5. PICK left : left = {child.name : child \in f.todo}
  OBVIOUS
<1>6. /\ settled'.roles = settled.roles /\ settled'.users = settled.users /\ settled'.cache = settled.cache
      /\ settled'.roleHolders = settled.roleHolders /\ Atomic!ChildrenOf(name)' = kids
  BY <1>4, SettledStays
<1>7. /\ Found(f) /\ users' = UsersWithout(name, holders) /\ directRoles' = EntriesWithout(name, holders)
      /\ roleHolders' = roleHolders /\ h.seen = f.seen
  <2>1. /\ Found(f) /\ users = UsersWithout(name, holders) /\ directRoles = EntriesWithout(name, holders)
    BY <1>2, <1>3 DEF DeleteRoleSoFar, AfterDetach
  <2>2. users' = users /\ directRoles' = directRoles /\ roleHolders' = roleHolders
    BY Effects
  <2> QED
    BY <1>1, <2>1, <2>2 DEF Follows
<1>8. Found(h)'
  BY <1>1, <1>7, FoundKept
<1>9. kids \subseteq RoleIDs
  BY <1>4 DEF Atomic!ChildrenOf
\* What is left to prove where the loop goes on.
<1>10. ASSUME NEW rest, rest = {child.name : child \in h.todo},
              \A child \in h.todo : child.name \in kids /\ child.role = Orphan(child.name),
              roles' = RolesWithout(kids \ rest),
              \/ /\ h.pc = "detachChild"
                 /\ \A id \in UserIDs \ holders : cache'[id] = Spared(id, kids \ rest)
              \/ /\ h.pc = "invalidateRoleHolders" /\ h.name \in kids \ rest
                 /\ \A id \in UserIDs \ holders : cache'[id] = Spared(id, kids \ (rest \cup {h.name}))
       PROVE  DeleteRoleSoFar(h)'
  <2>1. ChildrenSoFar(h)'
    BY <1>1, <1>2, <1>3, <1>6, <1>10, FoundStays DEF ChildrenSoFar
  <2>2. users' = UsersWithout(name, holders)' /\ directRoles' = EntriesWithout(name, holders)'
    BY <1>7, FoundStays
  <2> QED
    BY <1>1, <1>2, <1>3, <1>6, <1>8, <1>10, <2>1, <2>2 DEF DeleteRoleSoFar, DetachSteps, AfterDetach
<1>11. CASE f.pc = "listRoles"
  <2>1. ListRoles(t) /\ h.pc = "detachChild" /\ cache' = cache /\ roles' = roles
    BY <1>1, <1>11, ActionAt, Effects, StepTable DEF Follows
  <2>2. roles = settled.roles /\ cache = settled.cache
    BY <1>11 DEF DeleteRoleSoFar
  <2>3. ChildrenOf(name) = kids
    BY <1>4, <2>2 DEF ChildrenOf, ParentOf, RoleExists, Atomic!ChildrenOf, Atomic!ParentOf,
                      Atomic!RoleExists
  <2>4. h.todo = {[name |-> c, role |-> [roles[c] EXCEPT !.parent = Nil]] : c \in ChildrenOf(f.call.name)}
    BY <1>1, <2>1, ChildrenListed
  <2>5. h.todo = {[name |-> c, role |-> Orphan(c)] : c \in kids}
    BY <1>2, <2>2, <2>3, <2>4 DEF Orphan
  <2>6. PICK rest : rest = {child.name : child \in h.todo}
    OBVIOUS
  <2>7. \A child \in h.todo : child.name \in kids /\ child.role = Orphan(child.name)
    BY <2>5
  <2>8. RolesWithout({}) = settled.roles
    <3>1. settled.roles \in [RoleIDs -> Atomic!Role \cup {Nil}]
      BY DEF Known, Atomic!TypeOK, Atomic!StoreTypeOK
    <3> QED
      BY <3>1 DEF RolesWithout
  <2>9. \A id : Spared(id, {}) = settled.cache[id]
    BY DEF Spared
  <2>10. kids \ rest = {}
    <3>1. ASSUME NEW c \in kids PROVE \E child \in h.todo : child.name = c
      <4>1. PICK child : child = [name |-> c, role |-> Orphan(c)]
        OBVIOUS
      <4>2. child \in h.todo
        BY <2>5, <4>1, Zenon
      <4> QED
        BY <4>1, <4>2
    <3> QED
      BY <2>6, <3>1
  <2>11. roles' = RolesWithout(kids \ rest)
    BY <2>1, <2>2, <2>8, <2>10
  <2>12. \A id \in UserIDs \ holders : cache'[id] = Spared(id, kids \ rest)
    BY <2>1, <2>2, <2>9, <2>10
  <2> QED
    BY <1>10, <2>1, <2>6, <2>7, <2>11, <2>12
<1>12. ASSUME f.pc \in {"detachChild", "invalidateRoleHolders"}
       PROVE  /\ \A child \in f.todo : child.name \in kids /\ child.role = Orphan(child.name)
              /\ roles = RolesWithout(kids \ left) /\ f.todo \subseteq Child
              /\ f.pc = "detachChild" =>
                    \A id \in UserIDs \ holders : cache[id] = Spared(id, kids \ left)
              /\ f.pc = "invalidateRoleHolders" =>
                    /\ f.name \in kids \ left
                    /\ \A id \in UserIDs \ holders : cache[id] = Spared(id, kids \ (left \cup {f.name}))
  <2>1. ChildrenSoFar(f)
    BY <1>12 DEF DeleteRoleSoFar
  <2>2. f.todo \subseteq Child
    BY <1>1, <1>12 DEF FrameLoops, DetachedChild
  <2> QED
    BY <1>2, <1>3, <1>4, <1>5, <2>1, <2>2 DEF ChildrenSoFar
<1>13. CASE f.pc = "detachChild"
  <2>1. cache' = cache
    BY <1>13, Effects
  <2>2. CASE DetachChild(t)
    <3>1. \A child \in f.todo : RoleExists(child.name)
      BY <1>1, <1>13 DEF Known, Visits
    <3>2. PICK child \in f.todo :
             /\ roles' = [roles EXCEPT ![child.name] = child.role]
             /\ h.pc = "invalidateRoleHolders" /\ h.name = child.name /\ h.todo = f.todo \ {child}
      BY <1>1, <2>2, <3>1, ChildTurn
    <3>3. PICK rest : rest = {d.name : d \in h.todo}
      OBVIOUS
    <3>4. \A d \in f.todo : d.name = child.name => d = child
      BY <1>12, <1>13, <3>2 DEF Child
    <3>5. rest = left \ {child.name}
      BY <1>5, <3>2, <3>3, <3>4
    <3>6. /\ child.name \in kids /\ child.name \in left /\ child.role = Orphan(child.name)
          /\ child.name \in RoleIDs
      BY <1>5, <1>9, <1>12, <1>13, <3>2
    <3>7. \A d \in h.todo : d.name \in kids /\ d.role = Orphan(d.name)
      BY <1>12, <1>13, <3>2
    <3>8. /\ kids \ rest = (kids \ left) \cup {child.name}
          /\ rest \cup {child.name} = left
      BY <3>5, <3>6
    <3>9. roles' = RolesWithout(kids \ rest)
      BY <1>12, <1>13, <3>2, <3>6, <3>8 DEF RolesWithout
    <3>10. \A id \in UserIDs \ holders : cache'[id] = Spared(id, kids \ (rest \cup {h.name}))
      BY <1>12, <1>13, <2>1, <3>2, <3>8
    <3>11. h.name \in kids \ rest
      BY <3>2, <3>8
    <3> QED
      BY <1>10, <3>2, <3>3, <3>7, <3>9, <3>10, <3>11
  <2>3. CASE LoopDone(t)
    <3>1. f.todo = {} /\ h.pc = "dropHolders" /\ h.todo = f.seen /\ roles' = roles
      BY <1>1, <1>13, <2>3, LoopOver, StepTable DEF vars
    <3>2. kids \ left = kids
      BY <1>5, <3>1
    <3>3. h.todo = holders
      BY <1>2, <1>3, <1>7, <3>1 DEF Found
    <3>4. EvictedSoFar(h)'
      <4>1. roles' = RolesWithout(kids) /\ \A id \in UserIDs \ holders : cache'[id] = Spared(id, kids)
        BY <1>12, <1>13, <2>1, <3>1, <3>2
      <4>2. roles' = RolesWithout(kids)' /\ \A id \in UserIDs \ holders : cache'[id] = Spared(id, kids)'
        BY <4>1, FoundStays
      <4> QED
        BY <1>1, <1>2, <1>3, <1>6, <3>1, <3>3, <4>2 DEF EvictedSoFar
    <3>5. users' = UsersWithout(name, holders)' /\ directRoles' = EntriesWithout(name, holders)'
      BY <1>7, FoundStays
    <3> QED
      BY <1>1, <1>2, <1>3, <1>6, <1>8, <3>1, <3>4, <3>5 DEF DeleteRoleSoFar, DetachSteps, AfterDetach
  <2> QED
    BY <1>1, <1>13, <2>2, <2>3, ActionAt
<1>14. CASE f.pc = "invalidateRoleHolders"
  <2>1. cache' = Evict(roleHolders[f.name]) /\ roles' = roles
    BY <1>14, CriticalAt DEF InvalidateRoleHoldersStep, InvalidateRoleHolders
  <2>2. h.pc = "detachChild" /\ h.todo = f.todo
    BY <1>1, <1>14, StepTable DEF Follows, RelistSteps, Loops
  <2>3. f.name \in kids \ left /\ f.name \in RoleIDs
    BY <1>9, <1>12, <1>14
  <2>4. \A id \in UserIDs \ holders :
           id \in roleHolders[f.name] <=> id \in settled.roleHolders[f.name]
    BY <1>2, <1>3, <1>7, <2>3 DEF Found
  <2>5. kids \ left = (kids \ (left \cup {f.name})) \cup {f.name}
    BY <2>3
  <2>6. ASSUME NEW id \in UserIDs \ holders PROVE cache'[id] = Spared(id, kids \ left)
    <3>1. cache[id] = Spared(id, kids \ (left \cup {f.name}))
      BY <1>12, <1>14, <2>6
    <3>2. cache'[id] = IF id \in settled.roleHolders[f.name] THEN Nil ELSE cache[id]
      BY <2>1, <2>4, <2>6 DEF Evict
    <3> QED
      BY <2>5, <3>1, <3>2 DEF Spared
  <2> QED
    BY <1>5, <1>10, <1>12, <1>14, <2>1, <2>2, <2>6
<1> QED
  BY <1>11, <1>13, <1>14

\* DeleteRole drops the index of the role and evicts its holders.
LEMMA DeleteRoleEvicts ==
    ASSUME NEW t \in Threads, Known(t), Step(t), ~Flaky, NEW f, f = frame[t], NEW h, h = frame'[t],
           f.call.op = "DeleteRole", DeleteRoleSoFar(f), h # Nil, settled' = settled,
           f.pc \in {"dropHolders", "invalidateHolder"}
    PROVE  DeleteRoleSoFar(h)'
<1>1. /\ f # Nil /\ f.call \in Call /\ f.pc \in DOMAIN Program[f.call.op] \ {"start"}
      /\ ~StoreFails(t) /\ Follows(f, h) /\ h.call = f.call /\ f.call.name \in RoleIDs
      /\ FramesOK /\ TypeOK
  BY Stepping DEF RoleOps, Known
<1>2. PICK name \in RoleIDs : name = f.call.name
  BY <1>1
<1>3. PICK holders : holders = settled.roleHolders[name]
  OBVIOUS
<1>4. PICK kids : kids = Atomic!ChildrenOf(name)
  OBVIOUS
<1>5. /\ settled'.roles = settled.roles /\ settled'.users = settled.users /\ settled'.cache = settled.cache
      /\ settled'.roleHolders = settled.roleHolders /\ Atomic!ChildrenOf(name)' = kids
  BY <1>4, SettledStays
<1>6. /\ Found(f) /\ EvictedSoFar(f)
      /\ users = UsersWithout(name, holders) /\ directRoles = EntriesWithout(name, holders)
  BY <1>2, <1>3 DEF DeleteRoleSoFar, AfterDetach
<1>7. /\ users' = users /\ directRoles' = directRoles /\ roles' = roles /\ h.seen = f.seen
  BY <1>1, Effects DEF Follows
<1>8. users' = UsersWithout(name, holders)' /\ directRoles' = EntriesWithout(name, holders)'
  BY <1>6, <1>7, FoundStays
<1>9. /\ roles = RolesWithout(kids)
      /\ \A id \in UserIDs \ holders : cache[id] = Spared(id, kids)
  BY <1>2, <1>3, <1>4, <1>6 DEF EvictedSoFar
<1>10. holders \subseteq UserIDs
  BY <1>2, <1>3 DEF Known, Atomic!TypeOK
\* What is left to prove of each step.
<1>11. ASSUME Found(h)', roleHolders'[name] = {},
              \A id \in UserIDs \ holders : cache'[id] = cache[id],
              \/ /\ h.pc = "invalidateHolder" /\ h.todo \subseteq holders
                 /\ \A id \in holders \ h.todo : cache'[id] = Nil
              \/ h.pc = "deleteRole" /\ \A id \in holders : cache'[id] = Nil
       PROVE  DeleteRoleSoFar(h)'
  <2>1. roles' = RolesWithout(kids)' /\ \A id \in UserIDs \ holders : cache'[id] = Spared(id, kids)'
    BY <1>7, <1>9, <1>11, FoundStays
  <2>2. EvictedSoFar(h)'
    BY <1>1, <1>2, <1>3, <1>5, <1>11, <2>1 DEF EvictedSoFar
  <2> QED
    BY <1>1, <1>2, <1>3, <1>5, <1>8, <1>11, <2>2 DEF DeleteRoleSoFar, DetachSteps, AfterDetach
<1>12. CASE f.pc = "dropHolders"
  <2>1. h.pc = "invalidateHolder" /\ h.todo = f.todo
    BY <1>1, <1>12, StepTable DEF Follows, RelistSteps, Loops
  <2>2. cache' = cache /\ roleHolders' = [roleHolders EXCEPT ![name] = {}]
    BY <1>2, <1>12, ActionAt DEF DropHolders
  <2>3. roleHolders'[name] = {} /\ \A r \in RoleIDs \ {name} : roleHolders'[r] = roleHolders[r]
    BY <1>1, <2>2 DEF TypeOK
  <2>4. roleHolders'[name] \subseteq roleHolders[name]
    BY <2>3
  <2>5. Found(h)'
    BY <1>1, <1>2, <1>6, <1>7, <2>3, <2>4, FoundKept
  <2>6. h.todo = holders
    BY <1>2, <1>3, <1>6, <1>12, <2>1 DEF EvictedSoFar
  <2> QED
    BY <1>11, <2>1, <2>2, <2>3, <2>5, <2>6
<1>13. CASE f.pc = "invalidateHolder"
  <2>1. roleHolders' = roleHolders
    BY <1>13, Effects
  <2>2. Found(h)'
    BY <1>1, <1>6, <1>7, <2>1, FoundKept
  <2>3. /\ roleHolders[name] = {} /\ f.todo \subseteq holders
        /\ \A id \in holders \ f.todo : cache[id] = Nil
    BY <1>2, <1>3, <1>6, <1>13 DEF EvictedSoFar
  <2>4. CASE InvalidateHolder(t)
    <3>1. PICK id \in f.todo : /\ h.pc = "invalidateHolder" /\ h.todo = f.todo \ {id}
                               /\ \A x \in UserIDs : cache'[x] = IF x = id THEN Nil ELSE cache[x]
      BY <1>1, <2>4, EvictTurn
    <3> QED
      BY <1>10, <1>11, <2>1, <2>2, <2>3, <3>1
  <2>5. CASE LoopDone(t)
    <3>1. f.todo = {} /\ h.pc = "deleteRole" /\ cache' = cache
      BY <1>1, <1>13, <2>5, LoopOver, StepTable DEF vars, memo
    <3> QED
      BY <1>11, <2>1, <2>2, <2>3, <3>1
  <2> QED
    BY <1>13, <2>4, <2>5, ActionAt
<1> QED
  BY <1>12, <1>13

\* DeleteRole deletes the role and returns.
LEMMA DeleteRoleEnds ==
    ASSUME NEW t \in Threads, Known(t), Step(t), ~Flaky, NEW f, f = frame[t], frame'[t] = Nil,
           f.call.op = "DeleteRole", DeleteRoleSoFar(f)
    PROVE  Settles
<1>1. /\ f # Nil /\ f.call \in Call /\ f.pc \in DOMAIN Program[f.call.op] \ {"start"}
      /\ ~StoreFails(t) /\ f.call.name \in RoleIDs /\ restarts' = restarts /\ TypeOK
      /\ After(f.call, f.pc) = "return" \/ (Still /\ f.pc \notin CommittedSteps)
  BY Stepping DEF RoleOps, Known
<1>2. PICK name \in RoleIDs : name = f.call.name
  BY <1>1
<1>3. f.pc \in {"getRole", "deleteRole"}
  <2>1. f.pc \in {"getRole", "readHolders", "detachUser", "updateUser", "revokeHolder", "setDirectRoles",
                  "listRoles", "detachChild", "invalidateRoleHolders", "dropHolders",
                  "invalidateHolder", "deleteRole"}
    BY <1>1 DEF Program
  <2>2. f.pc # "deleteRole" => After(f.call, f.pc) # "return"
    BY <1>1, <2>1, StepTable
  <2> QED
    BY <1>1, <2>1, <2>2 DEF CommittedSteps, UserWindow, DeleteWindow
<1>4. CASE f.pc = "getRole"
  <2>1. After(f.call, f.pc) # "return"
    BY <1>1, <1>4, StepTable
  <2> QED
    BY <1>1, <1>4, <2>1, StillSettles DEF DeleteRoleSoFar
<1>5. CASE f.pc = "deleteRole"
  <2>1. PICK holders : holders = settled.roleHolders[name]
    OBVIOUS
  <2>2. PICK kids : kids = Atomic!ChildrenOf(name)
    OBVIOUS
  <2>3. /\ Found(f) /\ EvictedSoFar(f)
        /\ users = UsersWithout(name, holders) /\ directRoles = EntriesWithout(name, holders)
    BY <1>2, <1>5, <2>1 DEF DeleteRoleSoFar, AfterDetach
  <2>4. /\ settled.roles[name] # Nil /\ \A id \in holders : settled.users[id] # Nil
        /\ \A r \in RoleIDs \ {name} : roleHolders[r] = settled.roleHolders[r]
    BY <1>2, <2>1, <2>3 DEF Found
  <2>5. /\ roles = RolesWithout(kids) /\ roleHolders[name] = {}
        /\ \A id \in UserIDs \ holders : cache[id] = Spared(id, kids)
        /\ \A id \in holders : cache[id] = Nil
    BY <1>2, <1>5, <2>1, <2>2, <2>3 DEF EvictedSoFar
  <2>6. /\ users' = users /\ cache' = cache /\ directRoles' = directRoles /\ roleHolders' = roleHolders
    BY <1>5, Effects
  <2>7. DeleteRoleStep(t)
    BY <1>1, <1>5, ActionAt
  <2>8. roles' = IF roles[name] # Nil THEN [roles EXCEPT ![name] = Nil] ELSE roles
    BY <1>2, <2>7 DEF DeleteRoleStep, StoreDeleteRole, RoleExists
  <2>9. roles' = [r \in RoleIDs |-> CASE r = name -> Nil
                                      [] r # name /\ r \in kids -> [settled.roles[r] EXCEPT !.parent = Nil]
                                      [] OTHER -> settled.roles[r]]
    <3>1. roles' = [r \in RoleIDs |-> IF r = name THEN Nil ELSE roles[r]]
      BY <1>1, <2>8 DEF TypeOK, StoreTypeOK
    <3> QED
      BY <2>5, <3>1 DEF RolesWithout, Orphan
  <2>10. roleHolders' = [settled.roleHolders EXCEPT ![name] = {}]
    <3>1. settled.roleHolders \in [RoleIDs -> SUBSET UserIDs]
      BY DEF Known, Atomic!TypeOK
    <3> QED
      BY <1>1, <2>4, <2>5, <2>6, <3>1 DEF TypeOK
  <2>11. cache' = Atomic!Evict(holders \cup UNION {settled.roleHolders[c] : c \in kids})
    <3>1. \A id \in UserIDs : cache[id] = IF id \in holders \/ \E r \in kids : id \in settled.roleHolders[r]
                                          THEN Nil ELSE settled.cache[id]
      BY <2>5 DEF Spared
    <3>2. PICK out : out = holders \cup UNION {settled.roleHolders[c] : c \in kids}
      OBVIOUS
    <3>3. \A id : id \in out <=> id \in holders \/ \E r \in kids : id \in settled.roleHolders[r]
      BY <3>2
    <3>4. cache = [id \in UserIDs |-> cache[id]]
      BY <1>1 DEF TypeOK
    <3>5. cache' = [id \in UserIDs |-> IF id \in out THEN Nil ELSE settled.cache[id]]
      BY <2>6, <3>1, <3>3, <3>4
    <3> QED
      BY <3>2, <3>5 DEF Atomic!Evict
  <2>12. users' = [id \in UserIDs |-> IF id \in holders
                                      THEN [settled.users[id] EXCEPT !.roles = @ \ {name}]
                                      ELSE settled.users[id]]
    BY <2>3, <2>6 DEF UsersWithout, Detached
  <2>13. directRoles' = [id \in UserIDs |-> IF id \in holders
                                            THEN Atomic!DirectEntry(settled.users[id].roles \ {name})
                                            ELSE settled.directRoles[id]]
    BY <2>3, <2>6 DEF EntriesWithout, DirectEntry, Atomic!DirectEntry
  <2>14. ASSUME settled' = Shared' PROVE Atomic!DeleteRole(name)
    <3>1. /\ settled'.users = users' /\ settled'.roles = roles' /\ settled'.cache = cache'
          /\ settled'.directRoles = directRoles' /\ settled'.roleHolders = roleHolders'
      BY <2>14, SettledNow
    <3> QED
      BY <1>1, <2>1, <2>2, <2>4, <2>9, <2>10, <2>11, <2>12, <2>13, <3>1
         DEF Atomic!DeleteRole, Atomic!RoleExists, Atomic!UserExists
  <2> QED
    BY <2>14 DEF Settles, Atomic!Next, Atomic!RoleCall
<1> QED
  BY <1>3, <1>4, <1>5

LEMMA DeleteRoleStepped ==
    ASSUME NEW t \in Threads, Known(t), Step(t), ~Flaky, NEW f, f = frame[t], NEW h, h = frame'[t],
           f.call.op = "DeleteRole", DeleteRoleSoFar(f)
    PROVE  /\ h = Nil => Settles
           /\ h # Nil /\ settled' = settled => DeleteRoleSoFar(h)'
<1>1. ASSUME h # Nil, settled' = settled PROVE DeleteRoleSoFar(h)'
  <2>1. /\ f.call \in Call /\ f.pc \in DOMAIN Program[f.call.op] \ {"start"}
        /\ After(f.call, f.pc) # "return" \/ f.pc \in Loops
    BY <1>1, Stepping
  <2>2. f.pc # "deleteRole"
    BY <2>1, StepTable DEF Loops
  <2>3. f.pc \in {"getRole", "readHolders"} \cup DetachSteps \cup
                 {"listRoles", "detachChild", "invalidateRoleHolders"} \cup
                 {"dropHolders", "invalidateHolder"}
    BY <2>1, <2>2 DEF Program, DetachSteps
  <2> QED
    BY <1>1, <2>3, DeleteRoleReads, DeleteRoleDetaches, DeleteRoleChildren, DeleteRoleEvicts
<1> QED
  BY <1>1, DeleteRoleEnds

-----------------------------------------------------------------------------
(* The refinement.                                                         *)

\* A call starts with nothing done.
LEMMA SoFarStart ==
    ASSUME FramesOK, NEW t \in Threads, Start(t), SoFar(frame[t]), NEW h, h = frame'[t]
    PROVE  h # Nil /\ Still /\ (settled' = settled => SoFar(h)')
<1>1. PICK c \in Menu[t] :
         /\ Proceed(t, Frame(c)) /\ UNCHANGED vars /\ frame[t] = Nil
         /\ c.op = "CreateUser" => \A r \in c.roles : RoleExists(r) \/ r \in LateRoles
  BY DEF Start
<1>2. c \in Call
  BY <1>1, MenuAssumption
<1>3. c.op \in Ops
  BY <1>2 DEF Call
<1>4. PICK g : g = Frame(c)
  OBVIOUS
<1>5. /\ g.call = c /\ g.pc = After(c, "start") /\ g.user = [roles |-> c.roles, direct |-> {}]
      /\ g.role = [permissions |-> c.perms, parent |-> c.parent] /\ g.perms = {}
      /\ g.todo = (IF c.op = "AssignRole" THEN {c.name} ELSE c.roles)
      /\ g.at = c.parent /\ g.depth = 1
  BY <1>4 DEF Frame
<1>6. h = g
  <2>1. g.pc # "return"
    BY <1>2, <1>3, <1>5, StartTable, OpNames
  <2> QED
    BY <1>1, <1>4, <2>1, Moved
<1>7. h # Nil
  <2>1. c.perms \subseteq Permissions /\ c.roles \subseteq RoleIDs /\ c.parent \in RoleIDs \cup {Nil}
        /\ c.id \in UserIDs \cup {Nil} /\ c.name \in RoleIDs \cup {Nil}
    BY <1>2 DEF Call
  <2>2. g.pc \in UNION {DOMAIN Program[op] : op \in Ops}
    BY <1>2, <1>3, <1>5, StartTable
  <2>3. Frame(c) \in FrameRecord
    <3>1. 1 \in 1..(MaxDepth + 1)
      BY MaxDepthAssumption
    <3>2. (IF c.op = "AssignRole" THEN {c.name} ELSE c.roles) \subseteq RoleIDs
      BY <1>2, <2>1 DEF Call, RoleOps
    <3>3. After(c, "start") \in UNION {DOMAIN Program[op] : op \in Ops}
      BY <1>5, <2>2
    <3> QED
      BY <1>2, <2>1, <3>1, <3>2, <3>3 DEF Frame, FrameRecord, User, Role
  <2> QED
    BY <1>4, <1>6, <2>3, FrameAssumption
<1>8. Still
  BY <1>1 DEF Still, vars, memo
<1>9. ASSUME settled' = settled PROVE SoFar(h)'
  <2>1. Untouched'
    BY <1>1, <1>8, <1>9 DEF SoFar, Untouched, Still
  <2>2. c.op = "CreateUser" => CreateUserSoFar(h)'
    <3> SUFFICES ASSUME c.op = "CreateUser" PROVE CreateUserSoFar(h)'
      OBVIOUS
    <3>1. c.roles \subseteq RoleIDs /\ settled'.roles = roles
      BY <1>1, <1>2, <2>1 DEF Call, Untouched, vars
    <3>2. c.roles \subseteq {r \in RoleIDs : settled'.roles[r] # Nil} \cup LateRoles
      BY <1>1, <3>1 DEF RoleExists
    <3> QED
      BY <1>2, <1>5, <1>6, <2>1, <3>2, StartTable DEF CreateUserSoFar
  <2>3. c.op = "DeleteUser" => DeleteUserSoFar(h)'
    BY <1>2, <1>5, <1>6, <2>1, StartTable DEF DeleteUserSoFar
  <2>4. c.op \in UserEdits => EditUserSoFar(h)'
    BY <1>2, <1>5, <1>6, <2>1, StartTable DEF EditUserSoFar, UserEdits, UserWritten
  <2>5. c.op \in RoleEdits => EditRoleSoFar(h)'
    <3> SUFFICES ASSUME c.op \in RoleEdits PROVE EditRoleSoFar(h)'
      OBVIOUS
    <3>1. /\ h.pc \in {"getRole", "getParent", "createRole", "updateRole"}
          /\ h.pc \in {"createRole", "updateRole"} => c.parent = Nil
          /\ c.op \in {"GrantPermission", "RevokePermission", "SetParent"} => h.pc = "getRole"
      BY <1>2, <1>5, <1>6, StartTable DEF RoleEdits
    <3>2. RoleRead(h)'
      BY <1>5, <1>6, <3>1 DEF RoleRead
    <3>3. ParentWalked(h)'
      BY <1>5, <1>6, <3>1 DEF ParentWalked, Atomic!ValidateInheritance
    <3> QED
      BY <2>1, <3>1, <3>2, <3>3 DEF EditRoleSoFar
  <2>6. c.op = "DeleteRole" => DeleteRoleSoFar(h)'
    BY <1>2, <1>5, <1>6, <2>1, StartTable DEF DeleteRoleSoFar, DetachSteps, AfterDetach
  <2>7. c.op = "Check" => CheckSoFar(h)'
    BY <1>2, <1>5, <1>6, <2>1, StartTable DEF CheckSoFar
  <2>8. c.op = "HasRole" => HasRoleSoFar(h)'
    BY <1>2, <1>5, <1>6, <2>1, StartTable DEF HasRoleSoFar
  <2> QED
    BY <1>5, <1>6, <1>7, <2>2, <2>3, <2>4, <2>5, <2>6, <2>7, <2>8 DEF SoFar
<1> QED
  BY <1>7, <1>8, <1>9

\* A step of a call: it returns with all of its atomic action done or none of
\* it, or it goes on with what it has done so far.
LEMMA SoFarStep ==
    ASSUME NEW t \in Threads, Known(t), Step(t), ~Flaky, SoFar(frame[t]), NEW h, h = frame'[t]
    PROVE  /\ h = Nil => Settles
           /\ h # Nil /\ settled' = settled => SoFar(h)'
<1>1. PICK f : f = frame[t]
  OBVIOUS
<1>2. f # Nil /\ f.call \in Call /\ (h # Nil => h.call = f.call)
  BY <1>1, Stepping
<1>3. f.call.op \in Ops
  BY <1>2 DEF Call
<1>4. f.call.op \in {"CreateUser", "DeleteUser", "DeleteRole", "Check", "HasRole"} \cup UserEdits \cup RoleEdits
  BY <1>3, OpNames DEF UserEdits, RoleEdits
<1>5. CASE f.call.op = "CreateUser"
  <2>1. CreateUserSoFar(f)
    BY <1>1, <1>2, <1>5 DEF SoFar
  <2> QED
    BY <1>1, <1>2, <1>5, <2>1, CreateUserStepped DEF SoFar, UserEdits, RoleEdits
<1>6. CASE f.call.op = "DeleteUser"
  <2>1. DeleteUserSoFar(f)
    BY <1>1, <1>2, <1>6 DEF SoFar
  <2> QED
    BY <1>1, <1>2, <1>6, <2>1, DeleteUserStepped DEF SoFar, UserEdits, RoleEdits
<1>7. CASE f.call.op \in UserEdits
  <2>1. EditUserSoFar(f)
    BY <1>1, <1>2, <1>7 DEF SoFar
  <2> QED
    BY <1>1, <1>2, <1>7, <2>1, EditUserStepped DEF SoFar, UserEdits, RoleEdits
<1>8. CASE f.call.op \in RoleEdits
  <2>1. EditRoleSoFar(f)
    BY <1>1, <1>2, <1>8 DEF SoFar
  <2> QED
    BY <1>1, <1>2, <1>8, <2>1, EditRoleStepped DEF SoFar, UserEdits, RoleEdits
<1>9. CASE f.call.op = "DeleteRole"
  <2>1. DeleteRoleSoFar(f)
    BY <1>1, <1>2, <1>9 DEF SoFar
  <2> QED
    BY <1>1, <1>2, <1>9, <2>1, DeleteRoleStepped DEF SoFar, UserEdits, RoleEdits
<1>10. CASE f.call.op = "Check"
  <2>1. CheckSoFar(f)
    BY <1>1, <1>2, <1>10 DEF SoFar
  <2> QED
    BY <1>1, <1>2, <1>10, <2>1, CheckStepped DEF SoFar, UserEdits, RoleEdits
<1>11. CASE f.call.op = "HasRole"
  <2>1. HasRoleSoFar(f)
    BY <1>1, <1>2, <1>11 DEF SoFar
  <2> QED
    BY <1>1, <1>2, <1>11, <2>1, HasRoleStepped DEF SoFar, UserEdits, RoleEdits
<1> QED
  BY <1>4, <1>5, <1>6, <1>7, <1>8, <1>9, <1>10, <1>11

\* What is settled is typed as the shared state it was.
LEMMA SettledTyped ==
    ASSUME settled = Shared, TypeOK
    PROVE  Atomic!TypeOK
<1>1. /\ settled.users = users /\ settled.roles = roles /\ settled.cache = cache
      /\ settled.directRoles = directRoles /\ settled.roleHolders = roleHolders
  BY DEF Shared
<1> QED
  BY <1>1 DEF TypeOK, StoreTypeOK, UserExists, RoleExists, ValidPermissions, Valid, User, Role, Star, Empty,
              Atomic!TypeOK, Atomic!StoreTypeOK, Atomic!UserExists, Atomic!RoleExists,
              Atomic!ValidPermissions, Atomic!Valid, Atomic!User, Atomic!Role, Atomic!Star, Atomic!Empty

LEMMA SettledTypedNext ==
    ASSUME settled' = Shared', TypeOK'
    PROVE  Atomic!TypeOK'
  BY SettledNow
     DEF TypeOK, StoreTypeOK, UserExists, RoleExists, ValidPermissions, Valid, User, Role, Star, Empty,
         Atomic!TypeOK, Atomic!StoreTypeOK, Atomic!UserExists, Atomic!RoleExists,
         Atomic!ValidPermissions, Atomic!Valid, Atomic!User, Atomic!Role, Atomic!Star, Atomic!Empty

LEMMA SettledTypeStays ==
    ASSUME settled' = settled, restarts' = restarts
    PROVE  Atomic!TypeOK' <=> Atomic!TypeOK
  BY DEF Atomic!TypeOK, Atomic!StoreTypeOK, Atomic!UserExists, Atomic!RoleExists

\* Where nothing moves all that was done stays done.
LEMMA SoFarStays ==
    ASSUME NEW f, SoFar(f), settled' = settled, users' = users, roles' = roles, cache' = cache,
           directRoles' = directRoles, roleHolders' = roleHolders
    PROVE  SoFar(f)'
<1>1. Untouched => Untouched'
  BY SettledStays DEF Untouched
<1>2. CreateUserSoFar(f) => CreateUserSoFar(f)'
  BY <1>1, SettledStays DEF CreateUserSoFar
<1>3. DeleteUserSoFar(f) => DeleteUserSoFar(f)'
  BY <1>1, SettledStays DEF DeleteUserSoFar
<1>4. EditUserSoFar(f) => EditUserSoFar(f)'
  BY <1>1, SettledStays DEF EditUserSoFar, UserRead
<1>5. EditRoleSoFar(f) => EditRoleSoFar(f)'
  BY <1>1, SettledStays DEF EditRoleSoFar, RoleRead, ParentWalked, WalkSoFar
<1>6. DeleteRoleSoFar(f) => DeleteRoleSoFar(f)'
  <2>1. Found(f) => Found(f)'
    BY SettledStays DEF Found
  <2>2. DetachSoFar(f) => DetachSoFar(f)'
    BY SettledStays, FoundStays DEF DetachSoFar
  <2>3. ChildrenSoFar(f) => ChildrenSoFar(f)'
    BY SettledStays, FoundStays DEF ChildrenSoFar
  <2>4. EvictedSoFar(f) => EvictedSoFar(f)'
    BY SettledStays, FoundStays DEF EvictedSoFar
  <2> QED
    BY <1>1, <2>1, <2>2, <2>3, <2>4, SettledStays, FoundStays DEF DeleteRoleSoFar
<1>7. CheckSoFar(f) => CheckSoFar(f)'
  <2>1. \A r : ParentOf(r)' = ParentOf(r)
    BY DEF ParentOf, RoleExists
  <2>2. \A rs : ResolveRoles(rs)' = ResolveRoles(rs)
    BY <2>1 DEF ResolveRoles, ParentClosed
  <2>3. \A rs : Granted(rs)' = Granted(rs)
    BY DEF Granted, RoleExists
  <2>4. settled'.cache = settled.cache /\ \A id : UserExists(id)' <=> UserExists(id)
    BY SettledStays DEF UserExists
  <2> QED
    BY <1>1, <2>1, <2>2, <2>3, <2>4 DEF CheckSoFar
<1>8. HasRoleSoFar(f) => HasRoleSoFar(f)'
  BY <1>1, SettledStays DEF HasRoleSoFar, UserExists
<1> QED
  BY <1>1, <1>2, <1>3, <1>4, <1>5, <1>6, <1>7, <1>8 DEF SoFar

\* One goroutine alone, over a store that does not fail, from an empty store:
\* what an observer sees between its calls is what the atomic actions of
\* Enforcer do.  Each method, with its
\* store calls, its locks, its loops and its early returns, is one action of
\* Enforcer or changes nothing, so what is proved of Enforcer holds of package
\* authz call by call.
THEOREM AloneImplementsEnforcer ==
    ASSUME NEW w, Threads = {w}, ~Flaky,
           Users0 = [id \in UserIDs |-> Nil], Roles0 = [r \in RoleIDs |-> Nil]
    PROVE  SSpec => ImplementsEnforcer
<1> DEFINE Found0 == TypeOK /\ FramesOK /\ Copies(w) /\ SoundBut(frame[w])
           Inv == Atomic!TypeOK /\ Visits(frame[w]) /\ SoFar(frame[w])
<1>1. SInit => Atomic!Init
  BY DEF SInit, CInit, Shared, UserExists, Atomic!Init, Atomic!StoreInit
<1>2. SInit /\ Found0 => Inv
  <2> SUFFICES ASSUME SInit, Found0 PROVE Inv
    OBVIOUS
  <2>1. frame[w] = Nil /\ settled = Shared
    BY DEF SInit, CInit
  <2>2. SoFar(frame[w])
    BY <2>1 DEF SoFar, Untouched, Shared
  <2> QED
    BY <2>1, <2>2, SettledTyped DEF Visits
<1>3. Inv /\ Found0 /\ Found0' /\ [SNext]_<<cvars, settled>> => Inv' /\ [Atomic!Next]_(Atomic!vars)
  <2> SUFFICES ASSUME Inv, Found0, Found0', [SNext]_<<cvars, settled>>
               PROVE  Inv' /\ [Atomic!Next]_(Atomic!vars)
    OBVIOUS
  <2>1. Known(w)
    BY DEF Known
  <2>2. PICK h : h = frame'[w]
    OBVIOUS
  <2>3. ASSUME settled' = settled, restarts' = restarts
        PROVE  Atomic!TypeOK' /\ [Atomic!Next]_(Atomic!vars)
    BY <2>3, SettledTypeStays DEF Atomic!vars
  <2>4. CASE UNCHANGED <<cvars, settled>>
    <3>1. /\ settled' = settled /\ restarts' = restarts /\ frame' = frame /\ users' = users
          /\ roles' = roles /\ cache' = cache /\ directRoles' = directRoles /\ roleHolders' = roleHolders
      BY <2>4 DEF cvars, vars
    <3>2. Visits(frame[w])'
      BY <3>1, Unmoved
    <3>3. SoFar(frame[w])'
      <4>1. SoFar(h)'
        BY <2>2, <3>1, SoFarStays
      <4> QED
        BY <2>2, <4>1
    <3> QED
      BY <2>3, <3>1, <3>2, <3>3
  <2>5. CASE SNext
    <3>1. (Start(w) \/ Step(w)) /\ settled' = IF h = Nil THEN Shared' ELSE settled
      BY <2>2, <2>5 DEF SNext, CNext, Idle
    <3>2. Visits(frame[w])'
      BY <3>1, VisitsStart, VisitsStep
    <3>3. restarts' = restarts
      BY <3>1, NoRestart
    <3>4. CASE h # Nil
      <4>1. settled' = settled
        BY <3>1, <3>4
      <4>2. SoFar(h)'
        <5>1. CASE Start(w)
          BY <2>2, <4>1, <5>1, SoFarStart
        <5>2. CASE Step(w)
          BY <2>1, <2>2, <3>4, <4>1, <5>2, SoFarStep
        <5> QED
          BY <3>1, <5>1, <5>2
      <4>3. SoFar(frame[w])'
        BY <2>2, <4>2
      <4> QED
        BY <2>3, <3>2, <3>3, <4>1, <4>3
    <3>5. CASE h = Nil
      <4>1. settled' = Shared'
        BY <3>1, <3>5
      <4>2. Atomic!TypeOK'
        BY <4>1, SettledTypedNext
      <4>3. SoFar(frame[w])'
        BY <2>2, <3>5, <4>1, SettledNow DEF SoFar, Untouched
      <4>4. Step(w)
        BY <2>2, <3>1, <3>5, SoFarStart
      <4>5. Settles
        BY <2>1, <2>2, <3>5, <4>4, SoFarStep
      <4>6. [Atomic!Next]_(Atomic!vars)
        BY <4>1, <4>5 DEF Settles
      <4> QED
        BY <3>2, <4>2, <4>3, <4>6
    <3> QED
      BY <3>4, <3>5
  <2> QED
    BY <2>4, <2>5
<1>4. SSpec => []Found0
  <2>1. SInit => CInit
    BY DEF SInit
  <2>2. [SNext]_<<cvars, settled>> => [CNext]_cvars
    BY DEF SNext
  <2>3. OnlyWriter(w)
    BY DEF OnlyWriter
  <2>4. CSafety => []Found0
    BY <2>3, CopiesInvariant
  <2> QED
    BY <2>1, <2>2, <2>4, PTL DEF SSpec, CSafety
<1> QED
  BY <1>1, <1>2, <1>3, <1>4, PTL DEF SSpec, ImplementsEnforcer, Atomic!Spec
=============================================================================
