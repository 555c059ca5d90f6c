------------------------- MODULE ConcurrentEnforcer -------------------------
(***************************************************************************)
(* The Enforcer called by several goroutines.  A method is the sequence of *)
(* its store calls (each atomic under the store's mutex) and its critical  *)
(* sections under cacheMu; between two of them other goroutines run.  What *)
(* a call has read so far is in its frame.                                 *)
(***************************************************************************)
EXTENDS Enforcer

CONSTANTS
    Threads,   \* the goroutines
    Menu,      \* Menu[t] is the set of calls that goroutine t makes
    Users0,    \* the users and roles created before the goroutines start
    Roles0,
    Flaky      \* a Store of the application may fail with an error of its own

VARIABLE frame \* frame[t] is the call that t is in, or Nil

cvars == <<vars, frame>>

\* The steps of each method: which one follows which.  A step named in Loops
\* repeats, by itself or at the end of the loop's body, before the next one.
Program ==
    [CreateUser             |-> [start |-> "createUser", createUser |-> "grantHolder",
                                 grantHolder |-> "setDirectRoles", setDirectRoles |-> "return"],
     DeleteUser             |-> [start |-> "evict", evict |-> "deleteUser",
                                 deleteUser |-> "return"],
     AssignRole             |-> [start |-> "getRole", getRole |-> "getUser",
                                 getUser |-> "updateUser", updateUser |-> "grantHolder",
                                 grantHolder |-> "setDirectRoles",
                                 setDirectRoles |-> "invalidateUser", invalidateUser |-> "return"],
     RevokeRole             |-> [start |-> "getUser", getUser |-> "getRole",
                                 getRole |-> "updateUser", updateUser |-> "revokeHolder",
                                 revokeHolder |-> "setDirectRoles",
                                 setDirectRoles |-> "invalidateUser", invalidateUser |-> "return"],
     GrantDirectPermission  |-> [start |-> "getUser", getUser |-> "updateUser",
                                 updateUser |-> "invalidateUser", invalidateUser |-> "return"],
     RevokeDirectPermission |-> [start |-> "getUser", getUser |-> "updateUser",
                                 updateUser |-> "invalidateUser", invalidateUser |-> "return"],
     CreateRole             |-> [start |-> "getParent", getParent |-> "walk", walk |-> "createRole",
                                 createRole |-> "return"],
     UpdateRole             |-> [start |-> "getParent", getParent |-> "walk", walk |-> "updateRole",
                                 updateRole |-> "invalidateRoleHolders",
                                 invalidateRoleHolders |-> "return"],
     GrantPermission        |-> [start |-> "getRole", getRole |-> "updateRole",
                                 updateRole |-> "invalidateRoleHolders",
                                 invalidateRoleHolders |-> "return"],
     RevokePermission       |-> [start |-> "getRole", getRole |-> "updateRole",
                                 updateRole |-> "invalidateRoleHolders",
                                 invalidateRoleHolders |-> "return"],
     SetParent              |-> [start |-> "getRole", getRole |-> "findParent",
                                 findParent |-> "getParent", getParent |-> "walk",
                                 walk |-> "updateRole", updateRole |-> "invalidateRoleHolders",
                                 invalidateRoleHolders |-> "return"],
     DeleteRole             |-> [start |-> "getRole", getRole |-> "readHolders",
                                 readHolders |-> "detachUser", updateUser |-> "revokeHolder",
                                 revokeHolder |-> "setDirectRoles", setDirectRoles |-> "detachUser",
                                 detachUser |-> "listRoles", listRoles |-> "detachChild",
                                 invalidateRoleHolders |-> "detachChild",
                                 detachChild |-> "dropHolders", dropHolders |-> "invalidateHolder",
                                 invalidateHolder |-> "deleteRole", deleteRole |-> "return"],
     Check                  |-> [start |-> "readCache", readCache |-> "getUser",
                                 getUser |-> "resolve", resolve |-> "collect",
                                 collect |-> "publish", publish |-> "return"],
     HasRole                |-> [start |-> "readDirectRoles", readDirectRoles |-> "getUser",
                                 getUser |-> "publishDirectRoles",
                                 publishDirectRoles |-> "return"]]

Ops     == DOMAIN Program
Readers == {"Check", "HasRole"}
Loops   == {"grantHolder", "detachUser", "detachChild", "invalidateHolder", "resolve", "collect"}

\* The steps that call the store; the others are critical sections of cacheMu.
StoreSteps ==
    {"createUser", "deleteUser", "getUser", "updateUser", "getRole", "findParent",
     "getParent", "walk", "createRole", "updateRole", "detachUser", "listRoles", "detachChild", "deleteRole",
     "resolve", "collect"}

UserOps == {"CreateUser", "DeleteUser", "AssignRole", "RevokeRole", "GrantDirectPermission",
            "RevokeDirectPermission"} \cup Readers
RoleOps == {"AssignRole", "RevokeRole", "CreateRole", "UpdateRole", "GrantPermission",
            "RevokePermission", "SetParent", "DeleteRole"}

\* The calls, with the arguments that their methods have.
Call ==
    {c \in [op : Ops, id : UserIDs \cup {Nil}, name : RoleIDs \cup {Nil}, roles : SUBSET RoleIDs,
            perms : SUBSET Permissions, parent : RoleIDs \cup {Nil}] :
        /\ c.op \in UserOps => c.id \in UserIDs
        /\ c.op \in RoleOps => c.name \in RoleIDs
        /\ c.op \in {"GrantDirectPermission", "RevokeDirectPermission", "GrantPermission",
                    "RevokePermission"} => \E p \in Permissions : c.perms = {p}}

\* A role that ListRoles found, as it is to be written back.
Child == [name : RoleIDs, role : Role]

\* The frames of the goroutines, and the steps they may be at.
FrameRecord ==
    [call : Call, pc : UNION {DOMAIN Program[op] : op \in Ops}, id : UserIDs \cup {Nil},
     name : RoleIDs \cup {Nil}, user : User, role : Role,
     todo : SUBSET (UserIDs \cup RoleIDs \cup Child),
     seen : SUBSET (UserIDs \cup RoleIDs), perms : SUBSET Permissions,
     at : RoleIDs \cup {Nil}, depth : 1..(MaxDepth + 1)]

ASSUME MenuAssumption  == Menu \in [Threads -> SUBSET Call]
ASSUME StoreAssumption ==
    /\ Users0 \in [UserIDs -> User \cup {Nil}]
    /\ Roles0 \in [RoleIDs -> Role \cup {Nil}]
    /\ \A id \in UserIDs : Users0[id] # Nil => \A p \in Users0[id].direct : Valid(p)
    /\ \A r \in RoleIDs : Roles0[r] # Nil => \A p \in Roles0[r].permissions : Valid(p)
ASSUME FrameAssumption == Nil \notin FrameRecord
ASSUME FlakyAssumption == Flaky \in BOOLEAN

-----------------------------------------------------------------------------
(* Frames.                                                                 *)

\* The step of the call c after step.  Without a parent validateInheritance
\* returns at once.
After(c, step) ==
    LET next == Program[c.op][step]
    IN  IF c.parent = Nil /\ next \in {"findParent", "getParent"}
        THEN IF c.op = "CreateRole" THEN "createRole" ELSE "updateRole"
        ELSE next

\* The frame of a call that starts.
Frame(c) ==
    [call  |-> c,
     pc    |-> After(c, "start"),
     id    |-> c.id,       \* the user at hand
     name  |-> c.name,     \* the role at hand
     user  |-> [roles |-> c.roles, direct |-> {}],
     role  |-> [permissions |-> c.perms, parent |-> c.parent],
     todo  |-> IF c.op = "AssignRole" THEN {c.name} ELSE c.roles,
     seen  |-> {},         \* the roles resolved, or the holders of the role
     perms |-> {},         \* the permissions collected
     at    |-> c.parent,   \* the ancestor validateInheritance looks at
     depth |-> 1]

At(t, step) == frame[t] # Nil /\ frame[t].pc = step
Done(f)     == [f EXCEPT !.pc = After(f.call, f.pc)]

\* t goes on with f, and returns when no step is left.
Proceed(t, f) == frame' = [frame EXCEPT ![t] = IF f.pc = "return" THEN Nil ELSE f]

\* t returns: an error, or nothing left to do.
Return(t) == frame' = [frame EXCEPT ![t] = Nil]

\* t calls a method.  Arguments rejected before any shared state is touched
\* (an invalid permission, a role as its own parent) change nothing.  The
\* application creates a role before it names it in CreateUser, those in
\* LateRoles excepted; CreateUser does not look.
Start(t) ==
    /\ frame[t] = Nil
    /\ \E c \in Menu[t] :
          /\ \A p \in c.perms : Valid(p)
          /\ c.parent # Nil => c.parent # c.name
          /\ c.op = "CreateUser" => \A r \in c.roles : RoleExists(r) \/ r \in LateRoles
          /\ Proceed(t, Frame(c))
    /\ UNCHANGED vars

\* A loop ends; the next one, if there is one, runs over what was seen.
LoopDone(t) ==
    /\ frame[t] # Nil
    /\ frame[t].pc \in Loops
    /\ frame[t].todo = {}
    /\ Proceed(t, [Done(frame[t]) EXCEPT !.todo = frame[t].seen])
    /\ UNCHANGED vars

\* The store of the application returns an error and does nothing.
StoreFails(t) ==
    /\ Flaky
    /\ frame[t] # Nil
    /\ frame[t].pc \in StoreSteps
    /\ frame[t].pc \in Loops => frame[t].todo # {}
    /\ Return(t)
    /\ UNCHANGED vars

-----------------------------------------------------------------------------
(* Reads: the copy that is edited and written back later.                  *)

\* The user, or the role, already is what the call wants it to be.
UserNeedsNothing(c) ==
    \/ c.op = "AssignRole" /\ c.name \in users[c.id].roles
    \/ c.op = "GrantDirectPermission" /\ c.perms \subseteq users[c.id].direct

RoleNeedsNothing(c) ==
    \/ c.op = "GrantPermission" /\ c.perms \subseteq roles[c.name].permissions
    \/ c.op = "SetParent" /\ c.parent = roles[c.name].parent

\* An edit of the copy that starts from an empty list of roles.
EditedUserMutant(c, u) ==
    CASE c.op = "AssignRole"             -> [u EXCEPT !.roles = {c.name}]
      [] c.op = "RevokeRole"             -> [u EXCEPT !.roles = @ \ {c.name}]
      [] c.op = "GrantDirectPermission"  -> [u EXCEPT !.direct = @ \cup c.perms]
      [] c.op = "RevokeDirectPermission" -> [u EXCEPT !.direct = @ \ c.perms]
      [] OTHER -> u

EditedUser(c, u) ==
    CASE c.op = "AssignRole"             -> [u EXCEPT !.roles = @ \cup {c.name}]
      [] c.op = "RevokeRole"             -> [u EXCEPT !.roles = @ \ {c.name}]
      [] c.op = "GrantDirectPermission"  -> [u EXCEPT !.direct = @ \cup c.perms]
      [] c.op = "RevokeDirectPermission" -> [u EXCEPT !.direct = @ \ c.perms]
      [] OTHER -> u

EditedRole(c, r) ==
    CASE c.op = "GrantPermission"  -> [r EXCEPT !.permissions = @ \cup c.perms]
      [] c.op = "RevokePermission" -> [r EXCEPT !.permissions = @ \ c.perms]
      [] c.op = "SetParent"        -> [r EXCEPT !.parent = c.parent]

GetUser(t) ==
    /\ At(t, "getUser")
    /\ LET f == frame[t]
           u == users[f.id]
           g == [Done(f) EXCEPT !.user = EditedUser(f.call, u)]
       IN  IF ~UserExists(f.id) \/ UserNeedsNothing(f.call)
           THEN Return(t)
           ELSE Proceed(t, IF f.call.op = "Check"
                           THEN [g EXCEPT !.todo = u.roles, !.seen = u.roles]
                           ELSE g)
    /\ UNCHANGED vars

GetRole(t) ==
    /\ At(t, "getRole")
    /\ LET f == frame[t]
       IN  IF ~RoleExists(f.name) \/ RoleNeedsNothing(f.call)
           THEN Return(t)
           ELSE Proceed(t, IF f.call.op \in {"AssignRole", "RevokeRole", "DeleteRole"}
                           THEN Done(f)
                           ELSE [Done(f) EXCEPT !.role = EditedRole(f.call, roles[f.name])])
    /\ UNCHANGED vars

GetParent(t) ==
    /\ At(t, "findParent") \/ At(t, "getParent")
    /\ IF RoleExists(frame[t].call.parent) THEN Proceed(t, Done(frame[t])) ELSE Return(t)
    /\ UNCHANGED vars

\* A walk that stops at the new parent.
WalkSkippedMutant(t) ==
    /\ At(t, "walk")
    /\ Proceed(t, Done(frame[t]))
    /\ UNCHANGED vars

\* A walk without the cap on its depth.
WalkNoCapMutant(t) ==
    /\ At(t, "walk")
    /\ LET f == frame[t]
       IN  IF f.at = f.call.name
           THEN Return(t)
           ELSE Proceed(t, IF ParentOf(f.at) = Nil
                           THEN Done(f)
                           ELSE [f EXCEPT !.at = ParentOf(f.at), !.depth = @ + 1])
    /\ UNCHANGED vars

\* One turn of the loop of validateInheritance.
Walk(t) ==
    /\ At(t, "walk")
    /\ LET f == frame[t]
       IN  IF f.at = f.call.name \/ f.depth > MaxDepth
           THEN Return(t)
           ELSE Proceed(t, IF ParentOf(f.at) = Nil
                           THEN Done(f)
                           ELSE [f EXCEPT !.at = ParentOf(f.at), !.depth = @ + 1])
    /\ UNCHANGED vars

-----------------------------------------------------------------------------
(* Writes to the store.                                                    *)

CreateUserStep(t) ==
    /\ At(t, "createUser")
    /\ LET f == frame[t]
       IN  IF UserExists(f.id)
           THEN Return(t) /\ UNCHANGED users
           ELSE StoreCreateUser(f.id, f.user) /\ Proceed(t, Done(f))
    /\ UNCHANGED <<roles, memo, restarts>>

UpdateUserStep(t) ==
    /\ At(t, "updateUser")
    /\ LET f == frame[t]
       IN  IF UserExists(f.id)
           THEN StoreUpdateUser(f.id, f.user) /\ Proceed(t, Done(f))
           ELSE Return(t) /\ UNCHANGED users
    /\ UNCHANGED <<roles, memo, restarts>>

DeleteUserStep(t) ==
    /\ At(t, "deleteUser")
    /\ IF UserExists(frame[t].id) THEN StoreDeleteUser(frame[t].id) ELSE UNCHANGED users
    /\ Return(t)
    /\ UNCHANGED <<roles, memo, restarts>>

CreateRoleStep(t) ==
    /\ At(t, "createRole")
    /\ IF RoleExists(frame[t].name)
       THEN UNCHANGED roles
       ELSE StoreCreateRole(frame[t].name, frame[t].role)
    /\ Return(t)
    /\ UNCHANGED <<users, memo, restarts>>

UpdateRoleStep(t) ==
    /\ At(t, "updateRole")
    /\ LET f == frame[t]
       IN  IF RoleExists(f.name)
           THEN StoreUpdateRole(f.name, f.role) /\ Proceed(t, Done(f))
           ELSE Return(t) /\ UNCHANGED roles
    /\ UNCHANGED <<users, memo, restarts>>

DeleteRoleStep(t) ==
    /\ At(t, "deleteRole")
    /\ IF RoleExists(frame[t].call.name)
       THEN StoreDeleteRole(frame[t].call.name)
       ELSE UNCHANGED roles
    /\ Return(t)
    /\ UNCHANGED <<users, memo, restarts>>

-----------------------------------------------------------------------------
(* The loops of DeleteRole.                                                *)

ReadHolders(t) ==
    /\ At(t, "readHolders")
    /\ LET holders == roleHolders[frame[t].name]
       IN  Proceed(t, [Done(frame[t]) EXCEPT !.todo = holders, !.seen = holders])
    /\ UNCHANGED vars

\* GetUser of a holder, and what the loop body does next.
DetachUser(t) ==
    /\ At(t, "detachUser")
    /\ LET f == frame[t]
       IN  \E id \in f.todo :
              IF ~UserExists(id)
              THEN Return(t)
              ELSE LET kept == [users[id] EXCEPT !.roles = @ \ {f.call.name}]
                   IN  Proceed(t, [f EXCEPT !.todo = @ \ {id}, !.id = id, !.user = kept,
                                            !.pc = IF kept # users[id]
                                                   THEN "updateUser" ELSE "revokeHolder"])
    /\ UNCHANGED vars

\* ListRoles: copies of the children, without their parent.
ListRoles(t) ==
    /\ At(t, "listRoles")
    /\ LET f == frame[t]
       IN  Proceed(t, [Done(f) EXCEPT !.todo =
              {[name |-> c, role |-> [roles[c] EXCEPT !.parent = Nil]] : c \in ChildrenOf(f.call.name)}])
    /\ UNCHANGED vars

\* UpdateRole with the copy that ListRoles made.
DetachChild(t) ==
    /\ At(t, "detachChild")
    /\ LET f == frame[t]
       IN  \E child \in f.todo :
              IF RoleExists(child.name)
              THEN /\ StoreUpdateRole(child.name, child.role)
                   /\ Proceed(t, [f EXCEPT !.todo = @ \ {child}, !.name = child.name,
                                           !.pc = "invalidateRoleHolders"])
              ELSE Return(t) /\ UNCHANGED roles
    /\ UNCHANGED <<users, memo, restarts>>

DropHolders(t) ==
    /\ At(t, "dropHolders")
    /\ roleHolders' = [roleHolders EXCEPT ![frame[t].call.name] = {}]
    /\ Proceed(t, Done(frame[t]))
    /\ UNCHANGED <<users, roles, cache, directRoles, restarts>>

InvalidateHolder(t) ==
    /\ At(t, "invalidateHolder")
    /\ \E id \in frame[t].todo :
          /\ cache' = Evict({id})
          /\ Proceed(t, [frame[t] EXCEPT !.todo = @ \ {id}])
    /\ UNCHANGED <<users, roles, directRoles, roleHolders, restarts>>

-----------------------------------------------------------------------------
(* The critical sections of cacheMu.                                       *)

\* DeleteUser, first half.
EvictUser(t) ==
    /\ At(t, "evict")
    /\ LET id == frame[t].id
       IN  /\ cache' = Evict({id})
           /\ directRoles' = SetDirectRoles(id, {})
           /\ roleHolders' = [r \in RoleIDs |-> roleHolders[r] \ {id}]
    /\ Proceed(t, Done(frame[t]))
    /\ UNCHANGED <<users, roles, restarts>>

GrantHolderStep(t) ==
    /\ At(t, "grantHolder")
    /\ \E name \in frame[t].todo :
          /\ roleHolders' = GrantHolder(frame[t].id, {name})
          /\ Proceed(t, [frame[t] EXCEPT !.todo = @ \ {name}])
    /\ UNCHANGED <<users, roles, cache, directRoles, restarts>>

RevokeHolderStep(t) ==
    /\ At(t, "revokeHolder")
    /\ roleHolders' = RevokeHolder(frame[t].id, frame[t].call.name)
    /\ Proceed(t, Done(frame[t]))
    /\ UNCHANGED <<users, roles, cache, directRoles, restarts>>

SetDirectRolesStep(t) ==
    /\ At(t, "setDirectRoles")
    /\ directRoles' = SetDirectRoles(frame[t].id, frame[t].user.roles)
    /\ Proceed(t, Done(frame[t]))
    /\ UNCHANGED <<users, roles, cache, roleHolders, restarts>>

InvalidateUserStep(t) ==
    /\ At(t, "invalidateUser")
    /\ cache' = Evict({frame[t].id})
    /\ Proceed(t, Done(frame[t]))
    /\ UNCHANGED <<users, roles, directRoles, roleHolders, restarts>>

InvalidateRoleHoldersStep(t) ==
    /\ At(t, "invalidateRoleHolders")
    /\ cache' = InvalidateRoleHolders(frame[t].name)
    /\ Proceed(t, Done(frame[t]))
    /\ UNCHANGED <<users, roles, directRoles, roleHolders, restarts>>

-----------------------------------------------------------------------------
(* Check and HasRole on a miss; on a hit they only read.                   *)

ReadCache(t) ==
    /\ At(t, "readCache")
    /\ IF cache[frame[t].id] # Nil THEN Return(t) ELSE Proceed(t, Done(frame[t]))
    /\ UNCHANGED vars

\* A worklist without the seen set.
AncestorsToVisitMutant(f, r) == {ParentOf(r)} \ {Nil}

AncestorsToVisit(f, r) == {ParentOf(r)} \ ({Nil} \cup f.seen)

\* One turn of the loop of resolveRoles.
Resolve(t) ==
    /\ At(t, "resolve")
    /\ LET f == frame[t]
       IN  \E r \in f.todo :
              Proceed(t, [f EXCEPT !.todo = (@ \ {r}) \cup AncestorsToVisit(f, r),
                                   !.seen = @ \cup AncestorsToVisit(f, r)])
    /\ UNCHANGED vars

\* One turn of the loop of computeAndCache; a missing role is skipped.
Collect(t) ==
    /\ At(t, "collect")
    /\ LET f == frame[t]
       IN  \E r \in f.todo :
              Proceed(t, [f EXCEPT !.todo = @ \ {r},
                                   !.perms = @ \cup (IF RoleExists(r) THEN roles[r].permissions ELSE {})])
    /\ UNCHANGED vars

\* A publication that does not look whether an entry appeared meanwhile.
MemoizeDirectRolesMutant(f) == [directRoles EXCEPT ![f.id] = f.user.roles]

MemoizeDirectRoles(f) == [directRoles EXCEPT ![f.id] = IF @ = Nil THEN f.user.roles ELSE @]

Publish(t) ==
    /\ At(t, "publish")
    /\ LET f == frame[t]
       IN  /\ cache' = [cache EXCEPT ![f.id] = IF @ = Nil THEN f.perms \cup f.user.direct ELSE @]
           /\ directRoles' = MemoizeDirectRoles(f)
    /\ Return(t)
    /\ UNCHANGED <<users, roles, roleHolders, restarts>>

ReadDirectRoles(t) ==
    /\ At(t, "readDirectRoles")
    /\ IF directRoles[frame[t].id] # Nil THEN Return(t) ELSE Proceed(t, Done(frame[t]))
    /\ UNCHANGED vars

PublishDirectRoles(t) ==
    /\ At(t, "publishDirectRoles")
    /\ directRoles' = MemoizeDirectRoles(frame[t])
    /\ Return(t)
    /\ UNCHANGED <<users, roles, cache, roleHolders, restarts>>

-----------------------------------------------------------------------------
\* One Enforcer that created Users0 and Roles0, and no call under way.
CInit ==
    /\ users = Users0
    /\ roles = Roles0
    /\ cache = [id \in UserIDs |-> Nil]
    /\ directRoles = [id \in UserIDs |-> IF UserExists(id) THEN DirectEntry(users[id].roles) ELSE Nil]
    /\ roleHolders = [r \in RoleIDs |-> {id \in UserIDs : UserExists(id) /\ r \in users[id].roles}]
    /\ restarts = 0
    /\ frame = [t \in Threads |-> Nil]

Step(t) ==
    \/ LoopDone(t) \/ StoreFails(t)
    \/ GetUser(t) \/ GetRole(t) \/ GetParent(t) \/ Walk(t)
    \/ CreateUserStep(t) \/ UpdateUserStep(t) \/ DeleteUserStep(t)
    \/ CreateRoleStep(t) \/ UpdateRoleStep(t) \/ DeleteRoleStep(t)
    \/ ReadHolders(t) \/ DetachUser(t) \/ ListRoles(t) \/ DetachChild(t)
    \/ DropHolders(t) \/ InvalidateHolder(t)
    \/ EvictUser(t) \/ GrantHolderStep(t) \/ RevokeHolderStep(t) \/ SetDirectRolesStep(t)
    \/ InvalidateUserStep(t) \/ InvalidateRoleHoldersStep(t)
    \/ ReadCache(t) \/ Resolve(t) \/ Collect(t) \/ Publish(t)
    \/ ReadDirectRoles(t) \/ PublishDirectRoles(t)

CNext == \E t \in Threads : Start(t) \/ Step(t)

\* What the goroutines may do.
CSafety == CInit /\ [][CNext]_cvars

\* A goroutine inside a call keeps running: no step waits for another call,
\* and Go's mutexes hand the lock over to a waiting goroutine.
CSpec == CSafety /\ \A t \in Threads : WF_cvars(Step(t))

-----------------------------------------------------------------------------
Idle    == \A t \in Threads : frame[t] = Nil
Writing == \E t \in Threads : frame[t] # Nil /\ frame[t].call.op \notin Readers

\* The shared state and the copies in the frames are well typed, and no walk
\* of validateInheritance goes deeper than the cap, cycles included.
CTypeOK ==
    /\ TypeOK
    /\ \A t \in Threads : frame[t] # Nil =>
          /\ frame[t] \in FrameRecord
          /\ frame[t].call \in Menu[t]
          /\ frame[t].pc \in DOMAIN Program[frame[t].call.op] \ {"start"}

\* Between two writing calls, whatever readers are doing, the reverse index is
\* exact and no user holds a deleted role.
IndexExactBetweenWrites == ~Writing => HoldersSound /\ HoldersComplete /\ CascadeDetaches

\* Also when store calls fail, the reverse index never names a user that does
\* not hold the role: DeleteRole never stops at a user that is long gone.
IndexSoundBetweenWrites == ~Writing => HoldersSound

\* Between two writing calls what HasRole answers for a user with roles is what
\* the store says: a reader that read the store before the write does not put
\* its old answer over the new one.
DirectRolesExactBetweenWrites ==
    ~Writing => \A id \in UserIDs :
        UserExists(id) /\ users[id].roles # {} /\ directRoles[id] # Nil
            => directRoles[id] = users[id].roles

SymDiff(A, B) == (A \ B) \cup (B \ A)

\* A store write changes the one role or permission of the user that its call
\* is about: it does not undo another call's write by writing back an old copy.
NoLostUpdate ==
    [][\A id \in UserIDs : UserExists(id) /\ UserExists(id)' =>
          Cardinality(SymDiff(users[id].roles, users'[id].roles))
          + Cardinality(SymDiff(users[id].direct, users'[id].direct)) <= 1]_cvars

\* Every call returns, also when the roles it walks are re-parented into a
\* cycle under it.
CallsReturn == \A t \in Threads : frame[t] # Nil ~> frame[t] = Nil

\* With no call under way the memoized sets of a user without inherited roles
\* are what the store says: "Mutations invalidate the affected entries ... so
\* the next check recomputes lazily", and the Enforcer "is safe for concurrent
\* use" (authz/authz.go).
CacheExactWhenIdle == Idle => FlatCacheExact

\* With no call under way HasRole answers what the store says.
HasRoleExactWhenIdle == Idle => HasRoleExact

\* With no call under way nothing is memoized for a user that does not exist.
NoGhostsWhenIdle == Idle => NoGhostEntries
=============================================================================
