--------------------------- MODULE OneWriterProofs ---------------------------
(***************************************************************************)
(* Proofs about ConcurrentEnforcer when one goroutine writes: any number   *)
(* of others check at the same time, and interleave with every store call  *)
(* and every critical section of the writer.                               *)
(***************************************************************************)
EXTENDS ConcurrentEnforcerProofs, OverlappedReads

\* Goroutines other than w only check.
OnlyWriter(w) == \A t \in Threads \ {w} : \A c \in Menu[t] : c.op \in Readers

-----------------------------------------------------------------------------
(* What a step of a call leaves alone.                                     *)

\* The frame after a step: the next step of the method, or of a loop in it.
LEMMA Moved ==
    ASSUME FramesOK, NEW t \in Threads
    PROVE  /\ Return(t) => frame'[t] = Nil
           /\ \A g : Proceed(t, g) => frame'[t] = IF g.pc = "return" THEN Nil ELSE g
           /\ \A q \in Threads \ {t} : Start(t) \/ Step(t) => frame'[q] = frame[q]
<1>1. DOMAIN frame = Threads
  BY DEF FramesOK
<1>2. Return(t) => frame'[t] = Nil /\ \A q \in Threads \ {t} : frame'[q] = frame[q]
  BY <1>1 DEF Return
<1>3. \A g : Proceed(t, g) => /\ frame'[t] = IF g.pc = "return" THEN Nil ELSE g
                              /\ \A q \in Threads \ {t} : frame'[q] = frame[q]
  BY <1>1 DEF Proceed
<1>4. Start(t) \/ Step(t) => Return(t) \/ \E g : Proceed(t, g)
  BY DEF Start, Step, LoopDone, StoreFails, GetUser, GetRole, GetParent, Walk, CreateUserStep,
         UpdateUserStep, DeleteUserStep, CreateRoleStep, UpdateRoleStep, DeleteRoleStep,
         ReadHolders, DetachUser, ListRoles, DetachChild, DropHolders, InvalidateHolder,
         EvictUser, GrantHolderStep, RevokeHolderStep, SetDirectRolesStep, InvalidateUserStep,
         InvalidateRoleHoldersStep, ReadCache, Resolve, Collect, Publish, ReadDirectRoles,
         PublishDirectRoles
<1> QED
  BY <1>2, <1>3, <1>4

\* The steps that replace parts of their frame.
RetargetSteps == {"detachUser"}
RecopySteps   == {"getUser", "detachUser"}
RelistSteps   == {"getUser", "readHolders", "listRoles"} \cup Loops

\* How a frame h follows a frame f in the same call.
Follows(f, h) ==
    /\ h.call = f.call
    /\ \/ h.pc = After(f.call, f.pc)
       \/ h.pc = f.pc /\ f.pc \in {"walk", "grantHolder", "invalidateHolder", "resolve", "collect"}
       \/ f.pc = "detachUser" /\ h.pc \in {"updateUser", "revokeHolder"}
       \/ f.pc = "detachChild" /\ h.pc = "invalidateRoleHolders"
    /\ f.pc \notin RetargetSteps => h.id = f.id
    /\ f.pc \notin RecopySteps => h.user = f.user
    /\ f.pc \notin RelistSteps => h.todo = f.todo
    /\ f.pc \notin {"getRole"} => h.role = f.role
    /\ f.pc \notin {"walk"} => h.at = f.at /\ h.depth = f.depth
    /\ f.pc \notin {"detachChild"} => h.name = f.name
    /\ f.pc \notin {"getUser", "readHolders", "resolve"} => h.seen = f.seen
    /\ f.pc \notin {"collect"} => h.perms = f.perms

LEMMA NextFrame ==
    ASSUME FramesOK, NEW t \in Threads, Step(t), frame'[t] # Nil
    PROVE  frame[t] # Nil /\ Follows(frame[t], frame'[t])
<1> DEFINE f == frame[t]
           h == frame'[t]
           d == Done(f)
<1>1. f # Nil
  BY DEF Step, At, LoopDone, StoreFails, GetUser, GetRole, GetParent, Walk, CreateUserStep,
         UpdateUserStep, DeleteUserStep, CreateRoleStep, UpdateRoleStep, DeleteRoleStep,
         ReadHolders, DetachUser, ListRoles, DetachChild, DropHolders, InvalidateHolder,
         EvictUser, GrantHolderStep, RevokeHolderStep, SetDirectRolesStep, InvalidateUserStep,
         InvalidateRoleHoldersStep, ReadCache, Resolve, Collect, Publish, ReadDirectRoles,
         PublishDirectRoles
<1>2. f \in FrameRecord
  BY <1>1, InCall DEF FrameOK, FrameBasic
<1>3. /\ d \in [DOMAIN f -> {d[x] : x \in DOMAIN f}] /\ DOMAIN d = DOMAIN f
      /\ d.pc = After(f.call, f.pc)
      /\ d.call = f.call /\ d.id = f.id /\ d.name = f.name /\ d.user = f.user
      /\ d.role = f.role /\ d.todo = f.todo /\ d.seen = f.seen /\ d.perms = f.perms
      /\ d.at = f.at /\ d.depth = f.depth
  BY <1>2 DEF Done, FrameRecord
<1>4. DOMAIN f = {"call", "pc", "id", "name", "user", "role", "todo", "seen", "perms", "at", "depth"}
  BY <1>2 DEF FrameRecord
<1>5. \A g : Proceed(t, g) => h = g
  BY Moved
<1> USE DEF Follows, RetargetSteps, RecopySteps, RelistSteps, Loops
<1>6. CASE Proceed(t, d)
  <2>1. h = d
    BY <1>5, <1>6
  <2> QED
    BY <1>1, <1>3, <2>1
<1> HIDE DEF d
<1>7. CASE LoopDone(t)
  <2>1. h = [d EXCEPT !.todo = f.seen] /\ f.pc \in Loops
    BY <1>5, <1>7 DEF LoopDone, d
  <2> QED
    BY <1>1, <1>3, <1>4, <2>1
<1>8. CASE GetUser(t)
  <2>1. f.pc = "getUser"
    BY <1>8 DEF GetUser, At
  <2>2. PICK u : u = EditedUser(f.call, users[f.id])
    OBVIOUS
  <2> DEFINE g == [d EXCEPT !.user = u]
  <2>3. ~Return(t)
    BY Moved
  <2>4. Proceed(t, IF f.call.op = "Check"
                   THEN [g EXCEPT !.todo = users[f.id].roles, !.seen = users[f.id].roles] ELSE g)
    BY <1>8, <2>2, <2>3 DEF GetUser, d
  <2>5. DOMAIN g = DOMAIN f /\ g.pc = d.pc /\ g.call = f.call /\ g.id = f.id /\ g.name = f.name
        /\ g.role = f.role /\ g.at = f.at /\ g.depth = f.depth /\ g.perms = f.perms
    BY <1>3, <1>4
  <2> HIDE DEF g
  <2>6. PICK v : h = g \/ h = [g EXCEPT !.todo = v, !.seen = v]
    BY <1>5, <2>4
  <2>7. /\ h.pc = d.pc /\ h.call = f.call /\ h.id = f.id /\ h.name = f.name /\ h.role = f.role
        /\ h.at = f.at /\ h.depth = f.depth /\ h.perms = f.perms
    BY <1>4, <2>5, <2>6
  <2> QED
    BY <1>1, <1>3, <2>1, <2>7
<1>9. CASE GetRole(t)
  <2>1. f.pc = "getRole"
    BY <1>9 DEF GetRole, At
  <2>2. PICK r : h = d \/ h = [d EXCEPT !.role = r]
    <3>1. ~Return(t)
      BY Moved
    <3> QED
      BY <1>5, <1>9, <3>1 DEF GetRole, d
  <2> QED
    BY <1>1, <1>3, <1>4, <2>1, <2>2
<1>10. CASE Walk(t)
  <2>1. f.pc = "walk"
    BY <1>10 DEF Walk, At
  <2>2. PICK a, k : h = d \/ h = [f EXCEPT !.at = a, !.depth = k]
    <3>1. ~Return(t)
      BY Moved
    <3> QED
      BY <1>5, <1>10, <3>1 DEF Walk, d
  <2> QED
    BY <1>1, <1>3, <1>4, <2>1, <2>2
<1>11. CASE ReadHolders(t) \/ ListRoles(t)
  <2>1. f.pc = IF ReadHolders(t) THEN "readHolders" ELSE "listRoles"
    BY <1>11 DEF ReadHolders, ListRoles, At
  <2>2. PICK v : h = IF f.pc = "readHolders" THEN [d EXCEPT !.todo = v, !.seen = v]
                                             ELSE [d EXCEPT !.todo = v]
    BY <1>5, <1>11, <2>1 DEF ReadHolders, ListRoles, d
  <2> QED
    BY <1>1, <1>3, <1>4, <2>1, <2>2
<1>12. CASE DetachUser(t)
  <2>1. f.pc = "detachUser"
    BY <1>12 DEF DetachUser, At
  <2>2. ~Return(t)
    BY Moved
  <2>3. PICK id \in f.todo :
           LET kept == [users[id] EXCEPT !.roles = @ \ {f.call.name}]
           IN  Proceed(t, [f EXCEPT !.todo = @ \ {id}, !.id = id, !.user = kept,
                                    !.pc = IF kept # users[id] THEN "updateUser" ELSE "revokeHolder"])
    BY <1>12, <2>2 DEF DetachUser
  <2>4. PICK v, u, p : /\ h = [f EXCEPT !.todo = v, !.id = id, !.user = u, !.pc = p]
                       /\ p \in {"updateUser", "revokeHolder"}
    BY <1>5, <2>3
  <2> QED
    BY <1>1, <1>4, <2>1, <2>4
<1>13. CASE DetachChild(t)
  <2>1. f.pc = "detachChild"
    BY <1>13 DEF DetachChild, At
  <2>2. PICK v, n : h = [f EXCEPT !.todo = v, !.name = n, !.pc = "invalidateRoleHolders"]
    <3>1. ~Return(t)
      BY Moved
    <3> QED
      BY <1>5, <1>13, <3>1 DEF DetachChild
  <2> QED
    BY <1>1, <1>4, <2>1, <2>2
<1>14. CASE GrantHolderStep(t) \/ InvalidateHolder(t)
  <2>1. f.pc \in {"grantHolder", "invalidateHolder"}
    BY <1>14 DEF GrantHolderStep, InvalidateHolder, At
  <2>2. PICK v : h = [f EXCEPT !.todo = v]
    BY <1>5, <1>14 DEF GrantHolderStep, InvalidateHolder
  <2> QED
    BY <1>1, <1>4, <2>1, <2>2
<1>15. CASE Resolve(t) \/ Collect(t)
  <2>1. f.pc \in {"resolve", "collect"}
    BY <1>15 DEF Resolve, Collect, At
  <2>2. PICK v, x : h = IF f.pc = "resolve" THEN [f EXCEPT !.todo = v, !.seen = x]
                                            ELSE [f EXCEPT !.todo = v, !.perms = x]
    BY <1>5, <1>15 DEF Resolve, Collect, At
  <2> QED
    BY <1>1, <1>4, <2>1, <2>2
<1>16. CASE \/ StoreFails(t) \/ DeleteUserStep(t) \/ CreateRoleStep(t) \/ DeleteRoleStep(t)
            \/ Publish(t) \/ PublishDirectRoles(t)
  BY <1>16, Moved
     DEF StoreFails, DeleteUserStep, CreateRoleStep, DeleteRoleStep, Publish, PublishDirectRoles
<1>17. CASE \/ GetParent(t) \/ CreateUserStep(t) \/ UpdateUserStep(t) \/ UpdateRoleStep(t)
            \/ DropHolders(t) \/ EvictUser(t) \/ RevokeHolderStep(t) \/ SetDirectRolesStep(t)
            \/ InvalidateUserStep(t) \/ InvalidateRoleHoldersStep(t)
            \/ ReadCache(t) \/ ReadDirectRoles(t)
  <2>1. Return(t) \/ Proceed(t, d)
    BY <1>17 DEF GetParent, CreateUserStep, UpdateUserStep, UpdateRoleStep,
                 DropHolders, EvictUser, RevokeHolderStep, SetDirectRolesStep, InvalidateUserStep,
                 InvalidateRoleHoldersStep, ReadCache, ReadDirectRoles, d
  <2> QED
    BY <1>6, <2>1, Moved
<1> QED
  BY <1>7, <1>8, <1>9, <1>10, <1>11, <1>12, <1>13, <1>14, <1>15, <1>16, <1>17 DEF Step

\* The shared state a step of a call may write.
LEMMA Effects ==
    ASSUME NEW t \in Threads, Step(t)
    PROVE  /\ frame[t] # Nil
           /\ frame[t].pc \notin {"createUser", "updateUser", "deleteUser"} => users' = users
           /\ frame[t].pc \notin {"createRole", "updateRole", "deleteRole", "detachChild"} =>
                roles' = roles
           /\ frame[t].pc \notin {"dropHolders", "evict", "grantHolder", "revokeHolder"} =>
                roleHolders' = roleHolders
           /\ frame[t].pc \notin {"evict", "setDirectRoles", "publish", "publishDirectRoles"} =>
                directRoles' = directRoles
           /\ frame[t].pc \notin {"invalidateHolder", "evict", "invalidateUser",
                                  "invalidateRoleHolders", "publish"} => cache' = cache
  BY DEF Step, At, LoopDone, StoreFails, GetUser, GetRole, GetParent, Walk, CreateUserStep,
         UpdateUserStep, DeleteUserStep, CreateRoleStep, UpdateRoleStep, DeleteRoleStep,
         ReadHolders, DetachUser, ListRoles, DetachChild, DropHolders, InvalidateHolder,
         EvictUser, GrantHolderStep, RevokeHolderStep, SetDirectRolesStep, InvalidateUserStep,
         InvalidateRoleHoldersStep, ReadCache, Resolve, Collect, Publish, ReadDirectRoles,
         PublishDirectRoles, vars, memo

\* The action that runs at a step.
LEMMA ActionAt ==
    ASSUME NEW t \in Threads, Step(t)
    PROVE  LET p == frame[t].pc
           IN  /\ p = "createUser" => CreateUserStep(t) \/ StoreFails(t)
               /\ p = "updateUser" => UpdateUserStep(t) \/ StoreFails(t)
               /\ p = "deleteUser" => DeleteUserStep(t) \/ StoreFails(t)
               /\ p = "createRole" => CreateRoleStep(t) \/ StoreFails(t)
               /\ p = "updateRole" => UpdateRoleStep(t) \/ StoreFails(t)
               /\ p = "deleteRole" => DeleteRoleStep(t) \/ StoreFails(t)
               /\ p = "getUser" => GetUser(t) \/ StoreFails(t)
               /\ p = "getRole" => GetRole(t) \/ StoreFails(t)
               /\ p = "walk" => Walk(t) \/ StoreFails(t)
               /\ p \in {"findParent", "getParent"} => GetParent(t) \/ StoreFails(t)
               /\ p = "listRoles" => ListRoles(t) \/ StoreFails(t)
               /\ p = "detachUser" => DetachUser(t) \/ LoopDone(t) \/ StoreFails(t)
               /\ p = "detachChild" => DetachChild(t) \/ LoopDone(t) \/ StoreFails(t)
               /\ p = "grantHolder" => GrantHolderStep(t) \/ LoopDone(t)
               /\ p = "invalidateHolder" => InvalidateHolder(t) \/ LoopDone(t)
               /\ p = "readHolders" => ReadHolders(t)
               /\ p = "dropHolders" => DropHolders(t)
               /\ p = "evict" => EvictUser(t)
               /\ p = "revokeHolder" => RevokeHolderStep(t)
               /\ p = "setDirectRoles" => SetDirectRolesStep(t)
               /\ p = "publish" => Publish(t)
               /\ p = "publishDirectRoles" => PublishDirectRoles(t)
  BY DEF Step, At, LoopDone, StoreFails, GetUser, GetRole, GetParent, Walk, CreateUserStep,
         UpdateUserStep, DeleteUserStep, CreateRoleStep, UpdateRoleStep, DeleteRoleStep,
         ReadHolders, DetachUser, ListRoles, DetachChild, DropHolders, InvalidateHolder,
         EvictUser, GrantHolderStep, RevokeHolderStep, SetDirectRolesStep, InvalidateUserStep,
         InvalidateRoleHoldersStep, ReadCache, Resolve, Collect, Publish, ReadDirectRoles,
         PublishDirectRoles, Loops, StoreSteps

-----------------------------------------------------------------------------
(* The copies that the writer works on, and the reverse index.             *)

\* What the call c makes of the user u.
Rewritten(c, u) ==
    IF c.op = "DeleteRole" THEN [u EXCEPT !.roles = @ \ {c.name}] ELSE EditedUser(c, u)

\* The copy of the user in the frame f is up to date when it is written back,
\* and is what the store holds until the index has followed.
UserCopy(f) ==
    /\ f.pc = "createUser" => f.todo = f.user.roles
    /\ f.call.op = "AssignRole" /\ f.pc \in {"getRole", "getUser", "updateUser"} =>
          f.todo = {f.call.name}
    /\ f.pc = "updateUser" \/ (f.pc = "getRole" /\ f.call.op = "RevokeRole") =>
          UserExists(f.id) /\ f.user = Rewritten(f.call, users[f.id])
    /\ f.pc \in {"grantHolder", "revokeHolder", "setDirectRoles"} => users[f.id] = f.user
    /\ f.pc = "grantHolder" => f.todo \subseteq f.user.roles
    /\ f.pc = "revokeHolder" => f.call.name \notin f.user.roles
    /\ f.pc = "deleteUser" => \A r \in RoleIDs : f.id \notin roleHolders[r]

\* The index names a user that no longer holds the role only until
\* revokeHolder, the next step, takes it out.
SoundBut(f) ==
    \A r \in RoleIDs : \A id \in roleHolders[r] :
        \/ id \in HoldersOf(r)
        \/ f # Nil /\ f.pc = "revokeHolder" /\ id = f.id /\ r = f.call.name

\* The index misses a holder only while grantHolder is under way for it, or
\* between the two halves of DeleteUser.
CompleteBut(f) ==
    \A r \in RoleIDs : \A id \in HoldersOf(r) :
        \/ id \in roleHolders[r]
        \/ f # Nil /\ f.pc = "grantHolder" /\ id = f.id /\ r \in f.todo
        \/ f # Nil /\ f.pc = "deleteUser" /\ id = f.id

\* The holders that DeleteRole has not detached yet are those its loop still
\* has to visit, and none is left when the loop is over.
DetachedBut(f) ==
    f.call.op = "DeleteRole" =>
        /\ f.pc \in {"detachUser", "revokeHolder", "setDirectRoles"} =>
              HoldersOf(f.call.name) \subseteq f.todo
        /\ f.pc = "updateUser" => HoldersOf(f.call.name) \subseteq f.todo \cup {f.id}
        /\ f.pc \notin {"getRole", "readHolders", "detachUser", "updateUser", "revokeHolder",
                       "setDirectRoles"} => HoldersOf(f.call.name) = {}

\* The role AssignRole found, and the roles CreateUser names, still exist.
AssignsExisting(f) ==
    /\ f.call.op = "AssignRole" /\ f.pc \in {"getUser", "updateUser"} => RoleExists(f.call.name)
    /\ f.call.op = "CreateUser" /\ f.pc = "createUser" => \A r \in f.user.roles : RoleExists(r)

\* directRoles is what the store says, but for the user the writer is at.
DirectRolesBut(f) ==
    \A id \in UserIDs : UserExists(id) /\ users[id].roles # {} =>
        \/ directRoles[id] = users[id].roles
        \/ /\ f # Nil /\ id = f.id
           /\ f.pc \in {"grantHolder", "revokeHolder", "setDirectRoles", "deleteUser"}

-----------------------------------------------------------------------------
(* The copies are up to date and the index is sound.                       *)

\* The steps at which a call holds a copy of a user, or is about to have one.
CopySteps == {"createUser", "getRole", "getUser", "updateUser", "grantHolder", "revokeHolder",
              "setDirectRoles", "deleteUser"}

\* The steps that lead to none of these.
QuietSteps ==
    {"invalidateUser", "findParent", "getParent", "walk", "createRole", "updateRole",
     "invalidateRoleHolders", "readHolders", "listRoles", "detachChild",
     "invalidateHolder", "deleteRole", "readCache", "resolve", "collect", "publish",
     "readDirectRoles", "publishDirectRoles", "dropHolders", "setDirectRoles"}

LEMMA QuietNext ==
    ASSUME NEW c \in Call, NEW s \in DOMAIN Program[c.op] \ {"start"}, s \in QuietSteps
    PROVE  \/ After(c, s) \notin CopySteps
           \/ After(c, s) = "getUser" /\ c.op \in Readers
<1>1. CASE s = "invalidateUser"
  BY <1>1, StepTable DEF CopySteps, Readers
<1>2. CASE s = "findParent"
  BY <1>2, StepTable DEF CopySteps, Readers
<1>3. CASE s = "getParent"
  BY <1>3, StepTable DEF CopySteps, Readers
<1>4. CASE s = "walk"
  BY <1>4, StepTable DEF CopySteps, Readers
<1>5. CASE s = "createRole"
  BY <1>5, StepTable DEF CopySteps, Readers
<1>6. CASE s = "updateRole"
  BY <1>6, StepTable DEF CopySteps, Readers
<1>7. CASE s = "invalidateRoleHolders"
  BY <1>7, StepTable DEF CopySteps, Readers
<1>8. CASE s = "readHolders"
  BY <1>8, StepTable DEF CopySteps, Readers
<1>9. CASE s = "listRoles"
  BY <1>9, StepTable DEF CopySteps, Readers
<1>10. CASE s = "detachChild"
  BY <1>10, StepTable DEF CopySteps, Readers
<1>11. CASE s = "invalidateHolder"
  BY <1>11, StepTable DEF CopySteps, Readers
<1>12. CASE s = "deleteRole"
  BY <1>12, StepTable DEF CopySteps, Readers
<1>13. CASE s = "readCache"
  BY <1>13, StepTable DEF CopySteps, Readers
<1>14. CASE s = "resolve"
  BY <1>14, StepTable DEF CopySteps, Readers
<1>15. CASE s = "collect"
  BY <1>15, StepTable DEF CopySteps, Readers
<1>16. CASE s = "publish"
  BY <1>16, StepTable DEF CopySteps, Readers
<1>17. CASE s = "readDirectRoles"
  BY <1>17, StepTable DEF CopySteps, Readers
<1>18. CASE s = "publishDirectRoles"
  BY <1>18, StepTable DEF CopySteps, Readers
<1>19. CASE s = "dropHolders"
  BY <1>19, StepTable DEF CopySteps, Readers
<1>20. CASE s = "setDirectRoles"
  BY <1>20, StepTable DEF CopySteps, Readers
<1> QED
  BY <1>1, <1>2, <1>3, <1>4, <1>5, <1>6, <1>7, <1>8, <1>9, <1>10,
     <1>11, <1>12, <1>13, <1>14, <1>15, <1>16, <1>17, <1>18, <1>19, <1>20 DEF QuietSteps

Copies(t) == frame[t] # Nil => UserCopy(frame[t])

\* What every step of a call starts from.
LEMMA CallFacts ==
    ASSUME FramesOK, NEW t \in Threads, frame[t] # Nil, NEW f, f = frame[t]
    PROVE  /\ f.call \in Call /\ f.pc \in DOMAIN Program[f.call.op] \ {"start"}
           /\ f \in FrameRecord /\ f.user \in User /\ FrameNames(f) /\ FrameLoops(f)
           /\ f.call.op \in UserOps => f.id \in UserIDs
           /\ f.call.op \in RoleOps => f.call.name \in RoleIDs
<1>1. FrameOK(t, f) /\ f.call \in Call
  BY InCall
<1>2. f.call.op \in UserOps => f.call.id \in UserIDs
  BY InCall
<1>3. f.call.op \in RoleOps => f.call.name \in RoleIDs
  BY InCall
<1>4. f \in FrameRecord /\ f.pc \in DOMAIN Program[f.call.op] \ {"start"} /\ FrameNames(f) /\ FrameLoops(f)
  BY <1>1 DEF FrameOK, FrameBasic
<1>5. f.user \in User
  BY <1>4 DEF FrameRecord
<1> QED
  BY <1>1, <1>2, <1>3, <1>4, <1>5 DEF FrameNames

LEMMA RewrittenRoles ==
    ASSUME NEW c \in Call, NEW u \in User
    PROVE  /\ c.op = "AssignRole" =>
                Rewritten(c, u).roles = u.roles \cup {c.name} /\ Rewritten(c, u).direct = u.direct
           /\ c.op \in {"RevokeRole", "DeleteRole"} =>
                Rewritten(c, u).roles = u.roles \ {c.name} /\ Rewritten(c, u).direct = u.direct
           /\ c.op = "GrantDirectPermission" =>
                Rewritten(c, u).roles = u.roles /\ Rewritten(c, u).direct = u.direct \cup c.perms
           /\ c.op = "RevokeDirectPermission" =>
                Rewritten(c, u).roles = u.roles /\ Rewritten(c, u).direct = u.direct \ c.perms
  BY DEF Rewritten, EditedUser, User

LEMMA CopiesStart ==
    ASSUME TypeOK, FramesOK, NEW t \in Threads, Start(t), SoundBut(frame[t])
    PROVE  Copies(t)' /\ SoundBut(frame[t])'
<1>1. PICK c \in Menu[t] : Proceed(t, Frame(c)) /\ UNCHANGED vars /\ frame[t] = Nil
  BY DEF Start
<1>2. c \in Call
  BY <1>1, MenuAssumption
<1>3. Frame(c).pc = After(c, "start") /\ Frame(c).call = c
      /\ Frame(c).user.roles = c.roles
      /\ Frame(c).todo = IF c.op = "AssignRole" THEN {c.name} ELSE c.roles
  BY DEF Frame
<1>4. c.op \in Ops
  BY <1>2 DEF Call
<1>5. PICK h : h = frame'[t]
  OBVIOUS
<1>6. h = Frame(c)
  <2>1. Frame(c).pc # "return"
    BY <1>2, <1>3, <1>4, StartTable, OpNames
  <2> QED
    BY <1>1, <1>5, <2>1, Moved
<1>7. /\ h.pc = "createUser" => c.op = "CreateUser"
      /\ h.pc = "getRole" => c.op # "RevokeRole"
      /\ h.pc \notin {"updateUser", "grantHolder", "revokeHolder", "setDirectRoles", "deleteUser"}
  BY <1>2, <1>3, <1>4, <1>6, StartTable, OpNames
<1>8. users' = users /\ roleHolders' = roleHolders
  BY <1>1 DEF vars
<1> HIDE DEF Frame
<1>9. Copies(t)'
  BY <1>3, <1>5, <1>6, <1>7 DEF Copies, UserCopy
<1>10. SoundBut(frame[t])'
  BY <1>1, <1>8 DEF SoundBut, HoldersOf, UserExists
<1> QED
  BY <1>9, <1>10

\* A step that leaves users and index alone, and leads to no copy of a user.
LEMMA CopiesQuiet ==
    ASSUME FramesOK, NEW t \in Threads, Step(t), SoundBut(frame[t]), frame[t].pc \in QuietSteps
    PROVE  Copies(t)' /\ SoundBut(frame[t])'
<1>1. PICK f : f = frame[t]
  OBVIOUS
<1>2. PICK h : h = frame'[t]
  OBVIOUS
<1>3. f # Nil
  BY <1>1, Effects
<1>4. f.call \in Call /\ f.pc \in DOMAIN Program[f.call.op] \ {"start"}
  BY <1>1, <1>3, CallFacts
<1>5. h = Nil \/ Follows(f, h)
  BY <1>1, <1>2, NextFrame
<1>6. h = Nil \/ h.pc \notin CopySteps \/ (h.pc = "getUser" /\ h.call.op \in Readers)
  <2>1. \/ After(f.call, f.pc) \notin CopySteps
        \/ After(f.call, f.pc) = "getUser" /\ f.call.op \in Readers
    BY <1>1, <1>4, QuietNext
  <2>2. f.pc # "detachUser" /\ f.pc \notin CopySteps \ {"setDirectRoles"}
    BY <1>1 DEF QuietSteps, CopySteps
  <2> QED
    BY <1>5, <2>1, <2>2 DEF Follows, CopySteps
<1>7. users' = users /\ \A r \in RoleIDs : roleHolders'[r] \subseteq roleHolders[r]
  <2>1. CASE f.pc = "dropHolders"
    <3>1. DropHolders(t)
      BY <1>1, <2>1, ActionAt
    <3> QED
      BY <3>1 DEF DropHolders
  <2>2. CASE f.pc # "dropHolders"
    BY <1>1, <2>2, Effects DEF QuietSteps
  <2> QED
    BY <2>1, <2>2
<1>8. Copies(t)'
  BY <1>2, <1>6 DEF Copies, UserCopy, CopySteps, Readers
<1>9. f.pc # "revokeHolder"
  BY <1>1 DEF QuietSteps
<1>10. SoundBut(frame[t])'
  BY <1>1, <1>7, <1>9 DEF SoundBut, HoldersOf, UserExists
<1> QED
  BY <1>8, <1>10

\* The steps around the copy of a user.
LEMMA CopiesStep ==
    ASSUME TypeOK, FramesOK, NEW t \in Threads, Step(t), Copies(t), SoundBut(frame[t])
    PROVE  Copies(t)' /\ SoundBut(frame[t])'
<1>1. PICK f : f = frame[t]
  OBVIOUS
<1>2. PICK h : h = frame'[t]
  OBVIOUS
<1>3. f # Nil /\ UserCopy(f)
  BY <1>1, Effects DEF Copies
<1>4. /\ f.call \in Call /\ f.pc \in DOMAIN Program[f.call.op] \ {"start"}
      /\ f \in FrameRecord /\ f.user \in User /\ FrameNames(f) /\ FrameLoops(f)
      /\ f.call.op \in UserOps => f.id \in UserIDs
      /\ f.call.op \in RoleOps => f.call.name \in RoleIDs
  BY <1>1, <1>3, CallFacts
<1>5. h = Nil \/ Follows(f, h)
  BY <1>1, <1>2, NextFrame
<1>6. ASSUME StoreFails(t) PROVE Copies(t)' /\ SoundBut(frame[t])'
  <2>1. h = Nil /\ f.pc \in StoreSteps /\ UNCHANGED vars
    BY <1>1, <1>2, <1>6, Moved DEF StoreFails
  <2>2. f.pc # "revokeHolder"
    BY <2>1 DEF StoreSteps
  <2> QED
    BY <1>1, <1>2, <2>1, <2>2 DEF Copies, SoundBut, HoldersOf, UserExists, vars
<1>7. ASSUME UNCHANGED <<users, roleHolders>>, f.pc # "revokeHolder"
      PROVE  SoundBut(frame[t])'
  BY <1>1, <1>7 DEF SoundBut, HoldersOf, UserExists
<1>8. ASSUME h = Nil PROVE Copies(t)'
  BY <1>2, <1>8 DEF Copies
<1>10. CASE f.pc = "createUser"
  <2>1. f.call.op = "CreateUser" /\ After(f.call, f.pc) = "grantHolder"
    BY <1>4, <1>10, StepTable
  <2>2. f.id \in UserIDs
    BY <1>4, <2>1 DEF UserOps
  <2>3. CASE CreateUserStep(t) /\ ~UserExists(f.id)
    <3>1. users' = [users EXCEPT ![f.id] = f.user] /\ roleHolders' = roleHolders
      BY <1>1, <2>3 DEF CreateUserStep, StoreCreateUser, memo
    <3>2. \A r \in RoleIDs : f.id \notin roleHolders[r]
      BY <1>1, <1>10, <2>3 DEF SoundBut, HoldersOf
    <3>3. \A id \in UserIDs \ {f.id} : users'[id] = users[id]
      BY <3>1
    <3>4. SoundBut(frame[t])'
      BY <1>1, <1>10, <3>1, <3>2, <3>3 DEF SoundBut, HoldersOf, UserExists, TypeOK
    <3>5. users'[f.id] = f.user
      BY <2>2, <3>1 DEF TypeOK, StoreTypeOK
    <3>6. h = Nil \/ (h.pc = "grantHolder" /\ h.id = f.id /\ h.user = f.user /\ h.todo = f.todo)
      BY <1>5, <1>10, <2>1 DEF Follows, RetargetSteps, RecopySteps, RelistSteps, Loops
    <3>7. Copies(t)'
      BY <1>2, <1>3, <1>10, <3>5, <3>6 DEF Copies, UserCopy
    <3> QED
      BY <3>4, <3>7
  <2>4. CASE CreateUserStep(t) /\ UserExists(f.id)
    <3>1. h = Nil /\ UNCHANGED <<users, roleHolders>>
      BY <1>1, <1>2, <2>4, Moved DEF CreateUserStep, memo
    <3> QED
      BY <1>7, <1>8, <1>10, <3>1
  <2> QED
    BY <1>1, <1>6, <1>10, <2>3, <2>4, ActionAt
<1>11. CASE f.pc = "updateUser"
  <2>1. CASE UpdateUserStep(t)
    <3>1. UserExists(f.id) /\ f.user = Rewritten(f.call, users[f.id])
      BY <1>3, <1>11 DEF UserCopy
    <3>2. users' = [users EXCEPT ![f.id] = f.user] /\ roleHolders' = roleHolders
      BY <1>1, <2>1, <3>1 DEF UpdateUserStep, StoreUpdateUser, memo
    <3>3. f.id \in UserIDs
      BY <1>4, <1>11 DEF FrameNames
    <3>4. users'[f.id] = f.user /\ \A id \in UserIDs \ {f.id} : users'[id] = users[id]
      BY <3>2, <3>3 DEF TypeOK, StoreTypeOK
    <3>5. users[f.id] \in User
      BY <3>1, <3>3 DEF TypeOK, StoreTypeOK, UserExists
    <3>6. /\ f.call.op = "AssignRole" => f.user.roles = users[f.id].roles \cup {f.call.name}
          /\ f.call.op \in {"RevokeRole", "DeleteRole"} =>
               f.user.roles = users[f.id].roles \ {f.call.name}
          /\ f.call.op \in {"GrantDirectPermission", "RevokeDirectPermission"} =>
               f.user.roles = users[f.id].roles
      BY <1>4, <3>1, <3>5, RewrittenRoles
    <3>7. /\ \/ f.call.op = "AssignRole" /\ After(f.call, f.pc) = "grantHolder"
             \/ f.call.op \in {"RevokeRole", "DeleteRole"} /\ After(f.call, f.pc) = "revokeHolder"
             \/ /\ f.call.op \in {"GrantDirectPermission", "RevokeDirectPermission"}
                /\ After(f.call, f.pc) = "invalidateUser"
      BY <1>4, <1>11, StepTable
    <3>8. h # Nil
      <4>1. Proceed(t, Done(f))
        BY <1>1, <2>1, <3>1 DEF UpdateUserStep
      <4>2. Done(f) \in FrameRecord
        <5>1. After(f.call, f.pc) # "return" /\ FrameOK(t, f)
          BY <1>1, <1>3, <3>7, InCall
        <5> QED
          BY <5>1, DoneBasic DEF FrameBasic
      <4>3. Done(f).pc # "return"
        <5>1. After(f.call, f.pc) # "return" /\ FrameOK(t, f)
          BY <1>1, <1>3, <3>7, InCall
        <5> QED
          BY <5>1, DoneBasic
      <4>4. h = Done(f)
        BY <1>2, <4>1, <4>3, Moved
      <4> QED
        BY <4>2, <4>4, FrameAssumption
    <3>9. /\ h.pc = After(f.call, f.pc) /\ h.id = f.id /\ h.user = f.user /\ h.todo = f.todo
          /\ h.call = f.call
      BY <1>5, <1>11, <3>8 DEF Follows, RetargetSteps, RecopySteps, RelistSteps, Loops
    <3>10. f.call.op = "AssignRole" => f.todo = {f.call.name}
      BY <1>3, <1>11 DEF UserCopy
    <3>11. Copies(t)'
      <4>1. h.pc = "grantHolder" => h.todo \subseteq h.user.roles
        BY <3>6, <3>7, <3>9, <3>10
      <4>2. h.pc = "revokeHolder" => h.call.name \notin h.user.roles
        BY <3>6, <3>7, <3>9
      <4>3. users'[h.id] = h.user /\ h.pc \in {"grantHolder", "revokeHolder", "invalidateUser"}
        BY <3>4, <3>7, <3>9
      <4> QED
        BY <1>2, <4>1, <4>2, <4>3 DEF Copies, UserCopy
    <3>12. ASSUME NEW r \in RoleIDs, NEW id \in roleHolders[r]
           PROVE  \/ UserExists(id)' /\ r \in users'[id].roles
                  \/ h # Nil /\ h.pc = "revokeHolder" /\ id = h.id /\ r = h.call.name
      <4>1. id \in UserIDs /\ UserExists(id) /\ r \in users[id].roles
        BY <1>1, <1>11 DEF SoundBut, HoldersOf
      <4>2. CASE id # f.id
        BY <3>4, <4>1, <4>2 DEF UserExists
      <4>3. CASE id = f.id
        <5>1. UserExists(id)'
          BY <1>4, <3>4, <4>3, NilAssumption DEF UserExists
        <5>2. r \in f.user.roles \/ (h.pc = "revokeHolder" /\ r = f.call.name)
          BY <3>6, <3>7, <3>9, <4>1, <4>3
        <5> QED
          BY <3>4, <3>8, <3>9, <4>3, <5>1, <5>2
      <4> QED
        BY <4>2, <4>3
    <3>13. roleHolders \in [RoleIDs -> SUBSET UserIDs]
      BY DEF TypeOK
    <3>14. SoundBut(frame[t])'
      BY <1>2, <3>2, <3>12, <3>13 DEF SoundBut, HoldersOf
    <3> QED
      BY <3>11, <3>14
  <2> QED
    BY <1>1, <1>6, <1>11, <2>1, ActionAt
<1>12. CASE f.pc = "deleteUser"
  <2>1. CASE DeleteUserStep(t)
    <3>1. h = Nil /\ roleHolders' = roleHolders
      BY <1>1, <1>2, <2>1, Moved DEF DeleteUserStep, memo
    <3>2. \A id \in UserIDs \ {f.id} : users'[id] = users[id]
      BY <1>1, <2>1 DEF DeleteUserStep, StoreDeleteUser, TypeOK, StoreTypeOK
    <3>3. \A r \in RoleIDs : f.id \notin roleHolders[r]
      BY <1>3, <1>12 DEF UserCopy
    <3> QED
      BY <1>1, <1>8, <1>12, <3>1, <3>2, <3>3 DEF SoundBut, HoldersOf, UserExists
  <2> QED
    BY <1>1, <1>6, <1>12, <2>1, ActionAt
<1>13. CASE f.pc = "getUser"
  <2>1. CASE GetUser(t)
    <3>1. UNCHANGED <<users, roleHolders>>
      BY <2>1 DEF GetUser, vars
    <3>2. SoundBut(frame[t])'
      BY <1>7, <1>13, <3>1
    <3>3. CASE Return(t)
      BY <1>2, <1>8, <3>2, <3>3, Moved
    <3>4. CASE UserExists(f.id) /\ ~Return(t) /\ h # Nil
      <4>1. PICK u : u = EditedUser(f.call, users[f.id])
        OBVIOUS
      <4>2. CASE f.call.op = "Check" \/ f.call.op = "HasRole"
        <5>1. h.pc \in {"resolve", "publishDirectRoles"}
          <6>1. After(f.call, f.pc) \in {"resolve", "publishDirectRoles"}
            BY <1>4, <1>13, <4>2, StepTable
          <6> QED
            BY <1>5, <1>13, <3>4, <6>1 DEF Follows
        <5> QED
          BY <1>2, <3>2, <5>1 DEF Copies, UserCopy
      <4>3. CASE f.call.op \notin {"Check", "HasRole"}
        <5>1. Proceed(t, [Done(f) EXCEPT !.user = u])
          BY <1>1, <2>1, <3>4, <4>1, <4>3 DEF GetUser
        <5>2. /\ f.call.op \in {"AssignRole", "RevokeRole", "GrantDirectPermission", "RevokeDirectPermission"}
              /\ After(f.call, f.pc) \in {"updateUser", "getRole"}
              /\ After(f.call, f.pc) = "getRole" => f.call.op = "RevokeRole"
          BY <1>4, <1>13, <4>3, StepTable
        <5>3. Done(f).todo = f.todo /\ Done(f).pc = After(f.call, f.pc) /\ Done(f).id = f.id
              /\ Done(f).call = f.call /\ DOMAIN Done(f) = DOMAIN f
          BY <1>4 DEF Done, FrameRecord
        <5>4. DOMAIN f = {"call", "pc", "id", "name", "user", "role", "todo", "seen", "perms", "at", "depth"}
          BY <1>4 DEF FrameRecord
        <5>5. h = [Done(f) EXCEPT !.user = u]
          BY <1>2, <3>4, <5>1, Moved
        <5>6. h.user = u /\ h.todo = f.todo /\ h.pc = After(f.call, f.pc) /\ h.id = f.id /\ h.call = f.call
          BY <5>3, <5>4, <5>5
        <5>7. u = Rewritten(f.call, users[f.id])
          BY <4>1, <5>2 DEF Rewritten
        <5>8. f.call.op = "AssignRole" => f.todo = {f.call.name}
          BY <1>3, <1>13 DEF UserCopy
        <5>9. UserExists(h.id)' /\ h.user = Rewritten(h.call, users'[h.id])
          BY <3>1, <3>4, <5>6, <5>7 DEF UserExists
        <5>10. h.pc \in {"updateUser", "getRole"} /\ (h.pc = "getRole" => h.call.op = "RevokeRole")
          BY <5>2, <5>6
        <5>11. h.call.op = "AssignRole" => h.todo = {h.call.name}
          BY <5>6, <5>8
        <5> HIDE DEF Rewritten
        <5>12. Copies(t)'
          BY <1>2, <5>9, <5>10, <5>11 DEF Copies, UserCopy
        <5> QED
          BY <3>2, <5>12
      <4> QED
        BY <4>2, <4>3
    <3> QED
      BY <1>1, <1>8, <2>1, <3>2, <3>3, <3>4 DEF GetUser
  <2> QED
    BY <1>1, <1>6, <1>13, <2>1, ActionAt
<1>14. CASE f.pc = "getRole"
  <2>1. CASE GetRole(t) /\ h # Nil
    <3>1. UNCHANGED <<users, roleHolders>>
      BY <2>1 DEF GetRole, vars
    <3>2. SoundBut(frame[t])'
      BY <1>7, <1>14, <3>1
    <3>3. /\ h.call = f.call /\ h.id = f.id /\ h.user = f.user /\ h.todo = f.todo
          /\ h.pc = After(f.call, f.pc)
      BY <1>5, <1>14, <2>1 DEF Follows, RetargetSteps, RecopySteps, RelistSteps, Loops
    <3>4. \/ f.call.op = "AssignRole" /\ h.pc = "getUser"
          \/ f.call.op = "RevokeRole" /\ h.pc = "updateUser"
          \/ h.pc \in {"updateRole", "findParent", "readHolders"}
      BY <1>4, <1>14, <3>3, StepTable
    <3>5. Copies(t)'
      BY <1>2, <1>3, <1>14, <3>1, <3>3, <3>4 DEF Copies, UserCopy, UserExists
    <3> QED
      BY <3>2, <3>5
  <2>2. CASE GetRole(t) /\ h = Nil
    BY <1>7, <1>8, <1>14, <2>2 DEF GetRole, vars
  <2> QED
    BY <1>1, <1>6, <1>14, <2>1, <2>2, ActionAt
<1>15. CASE f.pc = "grantHolder"
  <2>1. After(f.call, f.pc) = "setDirectRoles" /\ f.call.op \in {"CreateUser", "AssignRole"}
    BY <1>4, <1>15, StepTable
  <2>2. f.id \in UserIDs
    BY <1>4, <2>1 DEF UserOps
  <2>3. users' = users
    BY <1>1, <1>15, Effects
  <2>4. CASE LoopDone(t)
    <3>1. roleHolders' = roleHolders
      BY <2>4 DEF LoopDone, vars
    <3>2. h = Nil \/ (h.id = f.id /\ h.user = f.user /\ h.pc = "setDirectRoles")
      <4>1. Proceed(t, [Done(f) EXCEPT !.todo = f.seen])
        BY <1>1, <2>4 DEF LoopDone
      <4>2. /\ DOMAIN Done(f) = {"call", "pc", "id", "name", "user", "role", "todo", "seen", "perms", "at", "depth"}
            /\ Done(f).pc = "setDirectRoles" /\ Done(f).id = f.id /\ Done(f).user = f.user
        BY <1>4, <2>1 DEF Done, FrameRecord
      <4> QED
        BY <1>2, <4>1, <4>2, Moved
    <3>3. Copies(t)'
      BY <1>2, <1>3, <1>15, <2>3, <3>2 DEF Copies, UserCopy
    <3> QED
      BY <1>7, <1>15, <2>3, <3>1, <3>3
  <2>5. CASE GrantHolderStep(t)
    <3>1. PICK name \in f.todo :
             roleHolders' = GrantHolder(f.id, {name}) /\ Proceed(t, [f EXCEPT !.todo = @ \ {name}])
      BY <1>1, <2>5 DEF GrantHolderStep
    <3>2. h = [f EXCEPT !.todo = f.todo \ {name}]
      <4>1. [f EXCEPT !.todo = @ \ {name}].pc = "grantHolder"
        BY <1>4, <1>15 DEF FrameRecord
      <4> QED
        BY <1>2, <3>1, <4>1, Moved
    <3>3. h.pc = "grantHolder" /\ h.id = f.id /\ h.user = f.user /\ h.todo \subseteq f.todo /\ h.call = f.call
      BY <1>4, <1>15, <3>2 DEF FrameRecord
    <3>4. users[f.id] = f.user /\ f.todo \subseteq f.user.roles
      BY <1>3, <1>15 DEF UserCopy
    <3>5. Copies(t)'
      BY <1>2, <2>1, <2>3, <3>3, <3>4 DEF Copies, UserCopy
    <3>6. f.id \in HoldersOf(name)
      BY <1>4, <2>2, <3>4, NilAssumption DEF HoldersOf, UserExists
    <3>7. \A r \in RoleIDs : roleHolders'[r] = roleHolders[r] \cup (IF r = name THEN {f.id} ELSE {})
      BY <3>1 DEF GrantHolder
    <3>8. \A r \in RoleIDs : roleHolders[r] \subseteq HoldersOf(r)
      BY <1>1, <1>15 DEF SoundBut
    <3>9. \A r \in RoleIDs : roleHolders'[r] \subseteq HoldersOf(r)
      BY <3>6, <3>7, <3>8
    <3>10. SoundBut(frame[t])'
      BY <2>3, <3>9 DEF SoundBut, HoldersOf, UserExists
    <3> QED
      BY <3>5, <3>10
  <2> QED
    BY <1>1, <1>15, <2>4, <2>5, ActionAt
<1>16. CASE f.pc = "revokeHolder"
  <2>1. After(f.call, f.pc) = "setDirectRoles" /\ f.call.op \in {"RevokeRole", "DeleteRole"}
    BY <1>4, <1>16, StepTable
  <2>2. users' = users /\ RevokeHolderStep(t)
    BY <1>1, <1>16, Effects, ActionAt
  <2>3. roleHolders' = [roleHolders EXCEPT ![f.call.name] = @ \ {f.id}] /\ f.call.name \in RoleIDs
    BY <1>1, <1>4, <2>1, <2>2 DEF RevokeHolderStep, RevokeHolder, RoleOps
  <2>4. \A r \in RoleIDs : roleHolders'[r] = IF r = f.call.name THEN roleHolders[r] \ {f.id} ELSE roleHolders[r]
    BY <2>3 DEF TypeOK
  <2>5. ASSUME NEW r \in RoleIDs, NEW id \in roleHolders'[r]
        PROVE  id \in HoldersOf(r)
    <3>1. id \in roleHolders[r] /\ ~(id = f.id /\ r = f.call.name)
      BY <2>4
    <3> QED
      BY <1>1, <3>1 DEF SoundBut
  <2>6. SoundBut(frame[t])'
    BY <2>2, <2>5 DEF SoundBut, HoldersOf, UserExists
  <2>7. h = Nil \/ (h.pc = "setDirectRoles" /\ h.id = f.id /\ h.user = f.user)
    BY <1>5, <1>16, <2>1 DEF Follows, RetargetSteps, RecopySteps
  <2>8. Copies(t)'
    BY <1>2, <1>3, <1>16, <2>2, <2>7 DEF Copies, UserCopy
  <2> QED
    BY <2>6, <2>8
<1>17. CASE f.pc = "evict"
  <2>1. After(f.call, f.pc) = "deleteUser" /\ users' = users /\ EvictUser(t)
    BY <1>1, <1>4, <1>17, StepTable, Effects, ActionAt
  <2>2. \A r \in RoleIDs : roleHolders'[r] = roleHolders[r] \ {f.id}
    BY <1>1, <2>1 DEF EvictUser
  <2>3. SoundBut(frame[t])'
    BY <1>1, <1>17, <2>1, <2>2 DEF SoundBut, HoldersOf, UserExists
  <2>4. h = Nil \/ (h.pc = "deleteUser" /\ h.id = f.id)
    BY <1>5, <1>17, <2>1 DEF Follows, RetargetSteps
  <2>5. Copies(t)'
    BY <1>2, <2>2, <2>4 DEF Copies, UserCopy
  <2> QED
    BY <2>3, <2>5
<1>18. CASE f.pc = "detachUser"
  <2>1. f.call.op = "DeleteRole" /\ After(f.call, f.pc) = "listRoles"
    BY <1>4, <1>18, StepTable
  <2>2. UNCHANGED <<users, roleHolders>>
    BY <1>1, <1>18, Effects
  <2>3. SoundBut(frame[t])'
    BY <1>7, <1>18, <2>2
  <2>4. CASE LoopDone(t) /\ h # Nil
    <3>1. h.pc = "listRoles"
      <4>1. Proceed(t, [Done(f) EXCEPT !.todo = f.seen])
        BY <1>1, <2>4 DEF LoopDone
      <4>2. /\ DOMAIN Done(f) = {"call", "pc", "id", "name", "user", "role", "todo", "seen", "perms", "at", "depth"}
            /\ Done(f).pc = "listRoles"
        BY <1>4, <2>1 DEF Done, FrameRecord
      <4> QED
        BY <1>2, <2>4, <4>1, <4>2, Moved
    <3> QED
      BY <1>2, <2>3, <3>1 DEF Copies, UserCopy
  <2>5. CASE DetachUser(t) /\ h # Nil
    <3>1. ~Return(t)
      BY <1>2, <2>5, Moved
    <3>2. PICK id \in f.todo :
             LET kept == [users[id] EXCEPT !.roles = @ \ {f.call.name}]
             IN  /\ UserExists(id)
                 /\ Proceed(t, [f EXCEPT !.todo = @ \ {id}, !.id = id, !.user = kept,
                                    !.pc = IF kept # users[id] THEN "updateUser" ELSE "revokeHolder"])
      BY <1>1, <2>5, <3>1 DEF DetachUser
    <3>3. PICK kept : kept = [users[id] EXCEPT !.roles = @ \ {f.call.name}]
      OBVIOUS
    <3>4. PICK p : p = IF kept # users[id] THEN "updateUser" ELSE "revokeHolder"
      OBVIOUS
    <3>5. h = [f EXCEPT !.todo = @ \ {id}, !.id = id, !.user = kept, !.pc = p]
      BY <1>2, <2>5, <3>2, <3>3, <3>4, Moved
    <3>6. h.id = id /\ h.user = kept /\ h.pc = p /\ h.call = f.call
      BY <1>4, <3>5 DEF FrameRecord
    <3>7. kept = Rewritten(f.call, users[id])
      BY <2>1, <3>3 DEF Rewritten
    <3>8. id \in UserIDs
      BY <1>4, <1>18, <2>1 DEF FrameLoops
    <3>9. f.call.name \notin kept.roles
      BY <3>2, <3>3, <3>8 DEF TypeOK, StoreTypeOK, User, UserExists
    <3>10. UserExists(h.id)' /\ h.user = Rewritten(h.call, users'[h.id])
      BY <2>2, <3>2, <3>6, <3>7 DEF UserExists
    <3>11. /\ h.pc \in {"updateUser", "revokeHolder"} /\ h.call.op # "AssignRole"
           /\ h.pc = "revokeHolder" => users'[h.id] = h.user /\ h.call.name \notin h.user.roles
      BY <2>1, <2>2, <3>4, <3>6, <3>9
    <3> HIDE DEF Rewritten
    <3>12. Copies(t)'
      BY <1>2, <3>10, <3>11 DEF Copies, UserCopy
    <3> QED
      BY <2>3, <3>12
  <2> QED
    BY <1>1, <1>6, <1>8, <1>18, <2>3, <2>4, <2>5, ActionAt
<1>19. CASE f.pc \in QuietSteps
  BY <1>1, <1>19, CopiesQuiet
<1> QED
  <2>1. \/ f.pc \in {"createUser", "updateUser", "deleteUser", "getUser", "getRole", "grantHolder",
                    "revokeHolder", "evict", "detachUser"}
        \/ f.pc \in QuietSteps
    BY <1>4, OpNames DEF Program, Call, QuietSteps
  <2> QED
    BY <1>10, <1>11, <1>12, <1>13, <1>14, <1>15, <1>16, <1>17, <1>18, <1>19, <2>1

-----------------------------------------------------------------------------
(* One goroutine writes.                                                   *)

\* A goroutine that only checks writes nothing but memoized entries, and those
\* only where there is none.
LEMMA ReaderStep ==
    ASSUME FramesOK, NEW w \in Threads, OnlyWriter(w), NEW t \in Threads \ {w}, Start(t) \/ Step(t)
    PROVE  /\ users' = users /\ roles' = roles /\ roleHolders' = roleHolders
           /\ frame'[w] = frame[w]
           /\ directRoles' = directRoles \/ directRoles' = MemoizeDirectRoles(frame[t])
<1>1. frame'[w] = frame[w]
  BY Moved
<1>2. CASE Start(t)
  BY <1>1, <1>2 DEF Start, vars
<1>3. CASE Step(t)
  <2>1. PICK f : f = frame[t]
    OBVIOUS
  <2>2. f # Nil
    BY <1>3, <2>1, Effects
  <2>3. f.call \in Call /\ f.pc \in DOMAIN Program[f.call.op] \ {"start"}
    BY <2>1, <2>2, CallFacts
  <2>4. f.call.op \in Readers
    BY <2>1, <2>2, InCall DEF OnlyWriter, FrameOK, FrameBasic
  <2>5. f.pc \in {"readCache", "getUser", "resolve", "collect", "publish", "readDirectRoles",
                  "publishDirectRoles"}
    BY <2>3, <2>4 DEF Readers, Program
  <2>6. users' = users /\ roles' = roles /\ roleHolders' = roleHolders
    BY <1>3, <2>1, <2>5, Effects
  <2>7. directRoles' = directRoles \/ directRoles' = MemoizeDirectRoles(f)
    <3>1. CASE f.pc = "publish"
      <4>1. Publish(t)
        BY <1>3, <2>1, <3>1, ActionAt
      <4> QED
        BY <2>1, <4>1 DEF Publish
    <3>2. CASE f.pc = "publishDirectRoles"
      <4>1. PublishDirectRoles(t)
        BY <1>3, <2>1, <3>2, ActionAt
      <4> QED
        BY <2>1, <4>1 DEF PublishDirectRoles
    <3> QED
      BY <1>3, <2>1, <2>5, <3>1, <3>2, Effects
  <2> QED
    BY <1>1, <2>1, <2>6, <2>7
<1> QED
  BY <1>2, <1>3

LEMMA CopiesInvariant ==
    ASSUME NEW w \in Threads, OnlyWriter(w)
    PROVE  CSafety => [](TypeOK /\ FramesOK /\ Copies(w) /\ SoundBut(frame[w]))
<1> DEFINE Inv == TypeOK /\ FramesOK /\ Copies(w) /\ SoundBut(frame[w])
<1>1. CInit => Copies(w) /\ SoundBut(frame[w])
  BY DEF CInit, Copies, SoundBut, HoldersOf, UserExists
<1>2. Inv /\ (TypeOK /\ FramesOK)' /\ [CNext]_cvars => Inv'
  <2> SUFFICES ASSUME Inv, (TypeOK /\ FramesOK)', [CNext]_cvars PROVE (Copies(w) /\ SoundBut(frame[w]))'
    OBVIOUS
  <2>1. ASSUME UNCHANGED <<users, roleHolders>>, frame'[w] = frame[w]
        PROVE  (Copies(w) /\ SoundBut(frame[w]))'
    BY <2>1 DEF Copies, UserCopy, SoundBut, HoldersOf, UserExists
  <2>2. CASE Start(w) \/ Step(w)
    BY <2>2, CopiesStart, CopiesStep
  <2>3. ASSUME NEW t \in Threads \ {w}, Start(t) \/ Step(t) PROVE (Copies(w) /\ SoundBut(frame[w]))'
    BY <2>1, <2>3, ReaderStep
  <2>4. CASE UNCHANGED cvars
    BY <2>1, <2>4 DEF cvars, vars
  <2> QED
    BY <2>2, <2>3, <2>4 DEF CNext
<1> QED
  BY <1>1, <1>2, TypesInvariant, PTL DEF CSafety

\* When the writer is not in a writing call its frame is at none of the steps
\* that the invariants except.
LEMMA NotWriting ==
    ASSUME FramesOK, NEW w \in Threads, ~Writing, frame[w] # Nil
    PROVE  frame[w].pc \notin {"grantHolder", "revokeHolder", "setDirectRoles", "deleteUser"}
<1>1. PICK f : f = frame[w]
  OBVIOUS
<1>2. f.call \in Call /\ f.pc \in DOMAIN Program[f.call.op] \ {"start"} /\ f.call.op \in Readers
  BY <1>1, CallFacts DEF Writing
<1> QED
  BY <1>1, <1>2 DEF Readers, Program

\* Whatever one goroutine writes while any number of others check, and whether
\* or not store calls fail: between two writing calls the reverse index names
\* only users that exist and hold the role (grantHolder, revokeHolder and the
\* eviction of DeleteUser come in an order that never leaves a name behind).
THEOREM OneWriterIndexSound ==
    ASSUME NEW w \in Threads, OnlyWriter(w)
    PROVE  CSpec => []IndexSoundBetweenWrites
<1>1. TypeOK /\ FramesOK /\ Copies(w) /\ SoundBut(frame[w]) => IndexSoundBetweenWrites
  BY NotWriting DEF IndexSoundBetweenWrites, HoldersSound, SoundBut
<1> QED
  BY <1>1, CopiesInvariant, PTL DEF CSpec

-----------------------------------------------------------------------------
(* With a store that does not fail the index is complete.                  *)

Indexed(t) == CompleteBut(frame[t]) /\ (frame[t] # Nil => DetachedBut(frame[t]))

\* A step that goes on leaves a frame behind.
LEMMA GoesOn ==
    ASSUME FramesOK, NEW t \in Threads, NEW f, f = frame[t], f # Nil,
           After(f.call, f.pc) # "return", Proceed(t, Done(f))
    PROVE  /\ frame'[t] # Nil /\ frame'[t].pc = After(f.call, f.pc) /\ frame'[t].call = f.call
           /\ frame'[t].id = f.id /\ frame'[t].user = f.user /\ frame'[t].todo = f.todo
<1>1. FrameOK(t, f)
  BY InCall
<1>2. /\ Done(f) \in FrameRecord /\ Done(f).pc = After(f.call, f.pc) /\ Done(f).call = f.call
      /\ Done(f).id = f.id /\ Done(f).user = f.user /\ Done(f).todo = f.todo
  BY <1>1, DoneBasic DEF FrameBasic
<1>3. frame'[t] = Done(f)
  BY <1>2, Moved
<1> QED
  BY <1>2, <1>3, FrameAssumption

\* A turn of DeleteRole's loop over the holders.
LEMMA DetachTurn ==
    ASSUME TypeOK, FramesOK, NEW t \in Threads, DetachUser(t), NEW f, f = frame[t],
           NEW h, h = frame'[t], h # Nil
    PROVE  \E id \in f.todo \cap UserIDs :
              /\ UserExists(id) /\ h.id = id /\ h.todo = f.todo \ {id} /\ h.call = f.call
              /\ h.user.roles = users[id].roles \ {f.call.name} /\ h.user.direct = users[id].direct
              /\ \/ h.pc = "updateUser"
                 \/ h.pc = "revokeHolder" /\ h.user = users[id] /\ f.call.name \notin users[id].roles
<1>1. f # Nil /\ f.pc = "detachUser" /\ ~Return(t)
  BY Moved DEF DetachUser, At
<1>2. f.call \in Call /\ f.pc \in DOMAIN Program[f.call.op] \ {"start"} /\ f \in FrameRecord /\ FrameLoops(f)
  BY <1>1, CallFacts
<1>3. f.call.op = "DeleteRole"
  BY <1>1, <1>2, StepTable
<1>4. PICK id \in f.todo :
         LET kept == [users[id] EXCEPT !.roles = @ \ {f.call.name}]
         IN  /\ UserExists(id)
             /\ Proceed(t, [f EXCEPT !.todo = @ \ {id}, !.id = id, !.user = kept,
                                !.pc = IF kept # users[id] THEN "updateUser" ELSE "revokeHolder"])
  BY <1>1 DEF DetachUser
<1>5. PICK kept : kept = [users[id] EXCEPT !.roles = @ \ {f.call.name}]
  OBVIOUS
<1>6. PICK p : p = IF kept # users[id] THEN "updateUser" ELSE "revokeHolder"
  OBVIOUS
<1>7. h = [f EXCEPT !.todo = @ \ {id}, !.id = id, !.user = kept, !.pc = p]
  BY <1>4, <1>5, <1>6, Moved
<1>8. h.id = id /\ h.pc = p /\ h.call = f.call /\ h.todo = f.todo \ {id} /\ h.user = kept
  BY <1>2, <1>7 DEF FrameRecord
<1>9. id \in UserIDs
  BY <1>1, <1>2, <1>3 DEF FrameLoops
<1>10. kept.roles = users[id].roles \ {f.call.name} /\ kept.direct = users[id].direct
  BY <1>4, <1>5, <1>9 DEF TypeOK, StoreTypeOK, User, UserExists
<1>11. \/ h.pc = "updateUser"
       \/ h.pc = "revokeHolder" /\ h.user = users[id] /\ f.call.name \notin users[id].roles
  BY <1>6, <1>8, <1>10
<1>12. h.user.roles = users[id].roles \ {f.call.name} /\ h.user.direct = users[id].direct
  BY <1>8, <1>10
<1> QED
  BY <1>4, <1>8, <1>9, <1>11, <1>12

\* The loop of a step that is over.
LEMMA LoopOver ==
    ASSUME FramesOK, NEW t \in Threads, LoopDone(t), NEW f, f = frame[t],
           NEW h, h = frame'[t], h # Nil
    PROVE  /\ f # Nil /\ f.pc \in Loops /\ f.todo = {} /\ UNCHANGED vars
           /\ h.pc = After(f.call, f.pc) /\ h.call = f.call /\ h.id = f.id /\ h.user = f.user
           /\ h.todo = f.seen
<1>1. f # Nil /\ f.pc \in Loops /\ f.todo = {} /\ UNCHANGED vars
      /\ Proceed(t, [Done(f) EXCEPT !.todo = f.seen])
  BY DEF LoopDone
<1>2. f \in FrameRecord
  BY <1>1, CallFacts
<1>3. /\ DOMAIN Done(f) = {"call", "pc", "id", "name", "user", "role", "todo", "seen", "perms", "at", "depth"}
      /\ Done(f).pc = After(f.call, f.pc) /\ Done(f).call = f.call /\ Done(f).id = f.id
      /\ Done(f).user = f.user
  BY <1>2 DEF Done, FrameRecord
<1>4. h = [Done(f) EXCEPT !.todo = f.seen]
  BY <1>1, Moved
<1> QED
  BY <1>1, <1>3, <1>4

\* A turn of grantHolder's loop.
LEMMA GrantTurn ==
    ASSUME FramesOK, NEW t \in Threads, GrantHolderStep(t), NEW f, f = frame[t],
           NEW h, h = frame'[t]
    PROVE  \E name \in f.todo :
              /\ h # Nil /\ h.pc = "grantHolder" /\ h.id = f.id /\ h.user = f.user /\ h.call = f.call
              /\ h.todo = f.todo \ {name}
              /\ \A r \in RoleIDs : roleHolders'[r] = roleHolders[r] \cup (IF r = name THEN {f.id} ELSE {})
<1>1. f # Nil /\ f.pc = "grantHolder"
  BY DEF GrantHolderStep, At
<1>2. f \in FrameRecord
  BY <1>1, CallFacts
<1>3. PICK name \in f.todo :
         roleHolders' = GrantHolder(f.id, {name}) /\ Proceed(t, [f EXCEPT !.todo = @ \ {name}])
  BY DEF GrantHolderStep
<1>4. PICK g : g = [f EXCEPT !.todo = f.todo \ {name}]
  OBVIOUS
<1>5. /\ g \in FrameRecord /\ g.pc = "grantHolder" /\ g.id = f.id /\ g.user = f.user
      /\ g.call = f.call /\ g.todo = f.todo \ {name}
  BY <1>1, <1>2, <1>4 DEF FrameRecord
<1>6. h = g
  BY <1>3, <1>4, <1>5, Moved
<1>7. \A r \in RoleIDs : roleHolders'[r] = roleHolders[r] \cup (IF r = name THEN {f.id} ELSE {})
  BY <1>3 DEF GrantHolder
<1> QED
  BY <1>5, <1>6, <1>7, FrameAssumption

\* The steps of DeleteRole after its loop over the holders.
AfterDetach == {"listRoles", "detachChild", "invalidateRoleHolders", "dropHolders",
                "invalidateHolder", "deleteRole"}

LEMMA AfterDetachNext ==
    ASSUME NEW c \in Call, c.op = "DeleteRole", NEW s \in AfterDetach,
           s \in DOMAIN Program[c.op] \ {"start"}
    PROVE  After(c, s) \in AfterDetach \cup {"return"}
<1>1. CASE s = "listRoles"
  BY <1>1, StepTable DEF AfterDetach
<1>2. CASE s = "detachChild"
  BY <1>2, StepTable DEF AfterDetach
<1>3. CASE s = "invalidateRoleHolders"
  BY <1>3, StepTable DEF AfterDetach
<1>4. CASE s = "dropHolders"
  BY <1>4, StepTable DEF AfterDetach
<1>5. CASE s = "invalidateHolder"
  BY <1>5, StepTable DEF AfterDetach
<1>6. CASE s = "deleteRole"
  BY <1>6, StepTable DEF AfterDetach
<1> QED
  BY <1>1, <1>2, <1>3, <1>4, <1>5, <1>6 DEF AfterDetach

LEMMA IndexedStart ==
    ASSUME FramesOK, NEW t \in Threads, Start(t), Indexed(t)
    PROVE  Indexed(t)'
<1>1. PICK c \in Menu[t] : Proceed(t, Frame(c)) /\ UNCHANGED vars /\ frame[t] = Nil
  BY DEF Start
<1>2. c \in Call
  BY <1>1, MenuAssumption
<1>3. Frame(c).pc = After(c, "start") /\ Frame(c).call = c
  BY DEF Frame
<1>4. c.op = "DeleteRole" => After(c, "start") = "getRole"
  BY <1>2, StartTable
<1>5. PICK h : h = frame'[t]
  OBVIOUS
<1>6. h = Nil \/ (h.call = c /\ (c.op = "DeleteRole" => h.pc = "getRole"))
  BY <1>1, <1>3, <1>4, <1>5, Moved
<1>7. users' = users /\ roleHolders' = roleHolders
  BY <1>1 DEF vars
<1>8. CompleteBut(frame[t])'
  BY <1>1, <1>7 DEF Indexed, CompleteBut, HoldersOf, UserExists
<1>9. h # Nil => DetachedBut(h)'
  BY <1>6 DEF DetachedBut
<1> QED
  BY <1>5, <1>8, <1>9 DEF Indexed

\* A step that leaves users and index alone, outside the detaching loop.
LEMMA IndexedQuiet ==
    ASSUME FramesOK, NEW t \in Threads, Step(t), Indexed(t),
           UNCHANGED <<users, roleHolders>>,
           frame[t].pc \notin {"grantHolder", "deleteUser", "readHolders", "detachUser", "updateUser",
                               "revokeHolder", "setDirectRoles"}
    PROVE  Indexed(t)'
<1>1. PICK f : f = frame[t]
  OBVIOUS
<1>2. PICK h : h = frame'[t]
  OBVIOUS
<1>3. f # Nil /\ CompleteBut(f) /\ DetachedBut(f)
  BY <1>1, Effects DEF Indexed
<1>4. f.call \in Call /\ f.pc \in DOMAIN Program[f.call.op] \ {"start"}
  BY <1>1, <1>3, CallFacts
<1>5. h = Nil \/ Follows(f, h)
  BY <1>1, <1>2, NextFrame
<1>6. CompleteBut(frame[t])'
  BY <1>1, <1>3 DEF CompleteBut, HoldersOf, UserExists
<1>7. ASSUME h # Nil, f.call.op = "DeleteRole" PROVE DetachedBut(h)'
  <2>1. f.pc \in AfterDetach \cup {"getRole"}
    BY <1>1, <1>4, <1>7 DEF AfterDetach, Program
  <2>2. CASE f.pc = "getRole"
    <3>1. After(f.call, f.pc) = "readHolders"
      BY <1>4, <1>7, <2>2, StepTable
    <3>2. h.pc = "readHolders"
      BY <1>5, <1>7, <2>2, <3>1 DEF Follows
    <3> QED
      BY <3>2 DEF DetachedBut
  <2>3. CASE f.pc \in AfterDetach
    <3>1. h.pc \in AfterDetach \cup {"return"}
      <4>1. After(f.call, f.pc) \in AfterDetach \cup {"return"}
        BY <1>4, <1>7, <2>3, AfterDetachNext
      <4> QED
        BY <1>5, <1>7, <2>3, <4>1 DEF Follows, AfterDetach
    <3>2. HoldersOf(f.call.name) = {}
      BY <1>3, <1>7, <2>3 DEF DetachedBut, AfterDetach
    <3>3. HoldersOf(f.call.name)' = {} /\ h.call = f.call
      BY <1>5, <1>7, <3>2 DEF HoldersOf, UserExists, Follows
    <3>4. HoldersOf(h.call.name)' = {}
      BY <3>3 DEF HoldersOf, UserExists
    <3> QED
      BY <3>1, <3>4 DEF DetachedBut, AfterDetach
  <2> QED
    BY <2>1, <2>2, <2>3
<1>8. ASSUME h # Nil, f.call.op # "DeleteRole" PROVE DetachedBut(h)'
  BY <1>5, <1>8 DEF DetachedBut, Follows
<1> QED
  BY <1>2, <1>6, <1>7, <1>8 DEF Indexed

LEMMA IndexedStep ==
    ASSUME TypeOK, FramesOK, NEW t \in Threads, Step(t), Copies(t), Indexed(t), ~Flaky
    PROVE  Indexed(t)'
<1>1. PICK f : f = frame[t]
  OBVIOUS
<1>2. PICK h : h = frame'[t]
  OBVIOUS
<1>3. f # Nil /\ UserCopy(f) /\ CompleteBut(f) /\ DetachedBut(f)
  BY <1>1, Effects DEF Copies, Indexed
<1>4. /\ f.call \in Call /\ f.pc \in DOMAIN Program[f.call.op] \ {"start"}
      /\ f \in FrameRecord /\ f.user \in User /\ FrameNames(f) /\ FrameLoops(f)
      /\ f.call.op \in UserOps => f.id \in UserIDs
      /\ f.call.op \in RoleOps => f.call.name \in RoleIDs
  BY <1>1, <1>3, CallFacts
<1>5. h = Nil \/ Follows(f, h)
  BY <1>1, <1>2, NextFrame
<1>6. ~StoreFails(t)
  BY DEF StoreFails
<1>7. ASSUME CompleteBut(h)', h # Nil => DetachedBut(h)' PROVE Indexed(t)'
  BY <1>2, <1>7 DEF Indexed
<1>8. ASSUME f.call.op # "DeleteRole", h # Nil PROVE DetachedBut(h)'
  BY <1>5, <1>8 DEF DetachedBut, Follows
<1>10. CASE f.pc = "createUser"
  <2>1. f.call.op = "CreateUser" /\ After(f.call, f.pc) = "grantHolder"
    BY <1>4, <1>10, StepTable
  <2>2. CreateUserStep(t) /\ f.id \in UserIDs
    BY <1>1, <1>4, <1>6, <1>10, <2>1, ActionAt DEF UserOps
  <2>3. CASE UserExists(f.id)
    <3>1. h = Nil /\ UNCHANGED <<users, roleHolders>>
      BY <1>1, <1>2, <2>2, <2>3, Moved DEF CreateUserStep, memo
    <3>2. CompleteBut(h)'
      BY <1>3, <1>10, <3>1 DEF CompleteBut, HoldersOf, UserExists
    <3> QED
      BY <1>7, <3>1, <3>2
  <2>4. CASE ~UserExists(f.id)
    <3>1. users' = [users EXCEPT ![f.id] = f.user] /\ roleHolders' = roleHolders /\ Proceed(t, Done(f))
      BY <1>1, <2>2, <2>4 DEF CreateUserStep, StoreCreateUser, memo
    <3>2. users'[f.id] = f.user /\ \A id \in UserIDs \ {f.id} : users'[id] = users[id]
      BY <2>2, <3>1 DEF TypeOK, StoreTypeOK
    <3>3. h # Nil /\ h.pc = "grantHolder" /\ h.id = f.id /\ h.todo = f.user.roles
      BY <1>1, <1>2, <1>3, <1>10, <2>1, <3>1, GoesOn DEF UserCopy
    <3>4. CompleteBut(h)'
      BY <1>3, <1>10, <3>1, <3>2, <3>3 DEF CompleteBut, HoldersOf, UserExists
    <3> QED
      BY <1>7, <1>8, <2>1, <3>4
  <2> QED
    BY <2>3, <2>4
<1>11. CASE f.pc = "updateUser"
  <2>1. UserExists(f.id) /\ f.user = Rewritten(f.call, users[f.id])
    BY <1>3, <1>11 DEF UserCopy
  <2>2. UpdateUserStep(t) /\ f.id \in UserIDs
    BY <1>1, <1>4, <1>6, <1>11, ActionAt DEF FrameNames
  <2>3. users' = [users EXCEPT ![f.id] = f.user] /\ roleHolders' = roleHolders /\ Proceed(t, Done(f))
    BY <1>1, <2>1, <2>2 DEF UpdateUserStep, StoreUpdateUser, memo
  <2>4. users'[f.id] = f.user /\ \A id \in UserIDs \ {f.id} : users'[id] = users[id]
    BY <2>2, <2>3 DEF TypeOK, StoreTypeOK
  <2>5. users[f.id] \in User
    BY <2>1, <2>2 DEF TypeOK, StoreTypeOK, UserExists
  <2>6. /\ f.call.op = "AssignRole" => f.user.roles = users[f.id].roles \cup {f.call.name}
        /\ f.call.op \in {"RevokeRole", "DeleteRole"} =>
             f.user.roles = users[f.id].roles \ {f.call.name}
        /\ f.call.op \in {"GrantDirectPermission", "RevokeDirectPermission"} =>
             f.user.roles = users[f.id].roles
    BY <1>4, <2>1, <2>5, RewrittenRoles
  <2>7. \/ f.call.op = "AssignRole" /\ After(f.call, f.pc) = "grantHolder"
        \/ f.call.op \in {"RevokeRole", "DeleteRole"} /\ After(f.call, f.pc) = "revokeHolder"
        \/ /\ f.call.op \in {"GrantDirectPermission", "RevokeDirectPermission"}
           /\ After(f.call, f.pc) = "invalidateUser"
    BY <1>4, <1>11, StepTable
  <2>8. /\ h # Nil /\ h.pc = After(f.call, f.pc) /\ h.call = f.call /\ h.id = f.id
        /\ h.todo = f.todo
    BY <1>1, <1>2, <1>3, <2>3, <2>7, GoesOn
  <2>9. f.call.op = "AssignRole" => h.todo = {f.call.name}
    BY <1>3, <1>11, <2>8 DEF UserCopy
  <2>10. ASSUME NEW r \in RoleIDs, NEW id \in HoldersOf(r)'
         PROVE  id \in HoldersOf(r) \/ (h.pc = "grantHolder" /\ id = h.id /\ r \in h.todo)
    <3>1. CASE id # f.id
      BY <2>4, <2>10, <3>1 DEF HoldersOf, UserExists
    <3>2. CASE id = f.id
      <4>1. r \in f.user.roles
        BY <2>4, <2>10, <3>2 DEF HoldersOf
      <4>2. r \in users[f.id].roles \/ (h.pc = "grantHolder" /\ r \in h.todo)
        BY <2>6, <2>7, <2>8, <2>9, <4>1
      <4> QED
        BY <2>1, <2>2, <2>8, <3>2, <4>2 DEF HoldersOf
    <3> QED
      BY <3>1, <3>2
  <2>11. \A r \in RoleIDs : HoldersOf(r) \subseteq roleHolders[r]
    BY <1>3, <1>11 DEF CompleteBut
  <2>12. CompleteBut(h)'
    BY <2>3, <2>8, <2>10, <2>11 DEF CompleteBut
  <2>13. ASSUME f.call.op = "DeleteRole" PROVE DetachedBut(h)'
    <3>1. h.pc = "revokeHolder" /\ f.call.name \in RoleIDs
      BY <1>4, <2>7, <2>8, <2>13 DEF RoleOps
    <3>2. HoldersOf(f.call.name) \subseteq f.todo \cup {f.id}
      BY <1>3, <1>11, <2>13 DEF DetachedBut
    <3>3. f.id \notin HoldersOf(f.call.name)'
      BY <2>4, <2>6, <2>13 DEF HoldersOf
    <3>4. HoldersOf(f.call.name)' \subseteq f.todo
      BY <2>10, <3>1, <3>2, <3>3
    <3>5. HoldersOf(h.call.name)' = HoldersOf(f.call.name)'
      BY <2>8 DEF HoldersOf, UserExists
    <3>6. HoldersOf(h.call.name)' \subseteq h.todo
      BY <2>8, <3>4, <3>5
    <3> QED
      BY <3>1, <3>6 DEF DetachedBut
  <2> QED
    BY <1>7, <1>8, <2>12, <2>13
<1>12. CASE f.pc = "deleteUser"
  <2>1. DeleteUserStep(t) /\ f.call.op = "DeleteUser"
    BY <1>1, <1>4, <1>6, <1>12, ActionAt, StepTable
  <2>2. h = Nil /\ roleHolders' = roleHolders
    BY <1>1, <1>2, <2>1, Moved DEF DeleteUserStep, memo
  <2>3. \A id \in UserIDs \ {f.id} : users'[id] = users[id]
    BY <1>1, <2>1 DEF DeleteUserStep, StoreDeleteUser, TypeOK, StoreTypeOK
  <2>4. f.id \in UserIDs
    BY <1>4, <2>1 DEF UserOps
  <2>5. users'[f.id] = Nil
    BY <1>1, <2>1, <2>4 DEF DeleteUserStep, StoreDeleteUser, TypeOK, StoreTypeOK, UserExists
  <2>6. CompleteBut(h)'
    BY <1>3, <1>12, <2>2, <2>3, <2>5 DEF CompleteBut, HoldersOf, UserExists
  <2> QED
    BY <1>7, <2>2, <2>6
<1>13. CASE f.pc = "evict"
  <2>1. /\ After(f.call, f.pc) = "deleteUser" /\ f.call.op = "DeleteUser" /\ users' = users
        /\ EvictUser(t)
    BY <1>1, <1>4, <1>13, StepTable, Effects, ActionAt
  <2>2. Proceed(t, Done(f)) /\ \A r \in RoleIDs : roleHolders'[r] = roleHolders[r] \ {f.id}
    BY <1>1, <2>1 DEF EvictUser
  <2>3. h # Nil /\ h.pc = "deleteUser" /\ h.id = f.id
    BY <1>1, <1>2, <1>3, <2>1, <2>2, GoesOn
  <2>4. CompleteBut(h)'
    BY <1>3, <1>13, <2>1, <2>2, <2>3 DEF CompleteBut, HoldersOf, UserExists
  <2> QED
    BY <1>7, <1>8, <2>1, <2>4
<1>14. CASE f.pc = "grantHolder"
  <2>1. f.call.op \in {"CreateUser", "AssignRole"}
    BY <1>4, <1>14, StepTable
  <2>2. users' = users
    BY <1>1, <1>14, Effects
  <2>3. CASE GrantHolderStep(t)
    <3>1. PICK name \in f.todo :
             /\ h # Nil /\ h.pc = "grantHolder" /\ h.id = f.id /\ h.call = f.call
             /\ h.todo = f.todo \ {name}
             /\ \A r \in RoleIDs : roleHolders'[r] = roleHolders[r] \cup (IF r = name THEN {f.id} ELSE {})
      BY <1>1, <1>2, <2>3, GrantTurn
    <3>2. CompleteBut(h)'
      BY <1>3, <1>14, <2>2, <3>1 DEF CompleteBut, HoldersOf, UserExists
    <3> QED
      BY <1>7, <1>8, <2>1, <3>2
  <2>4. CASE LoopDone(t)
    <3>1. f.todo = {} /\ roleHolders' = roleHolders
      BY <1>1, <2>4 DEF LoopDone, vars
    <3>2. CompleteBut(h)'
      BY <1>3, <1>14, <2>2, <3>1 DEF CompleteBut, HoldersOf, UserExists
    <3> QED
      BY <1>7, <1>8, <2>1, <3>2
  <2> QED
    BY <1>1, <1>14, <2>3, <2>4, ActionAt
<1>15. CASE f.pc = "revokeHolder"
  <2>1. After(f.call, f.pc) = "setDirectRoles" /\ f.call.op \in {"RevokeRole", "DeleteRole"}
    BY <1>4, <1>15, StepTable
  <2>2. users' = users /\ RevokeHolderStep(t) /\ f.call.name \in RoleIDs
    BY <1>1, <1>4, <1>15, <2>1, Effects, ActionAt DEF RoleOps
  <2>3. \A r \in RoleIDs : roleHolders'[r] = IF r = f.call.name THEN roleHolders[r] \ {f.id} ELSE roleHolders[r]
    BY <1>1, <2>2 DEF RevokeHolderStep, RevokeHolder, TypeOK
  <2>4. f.id \notin HoldersOf(f.call.name)
    BY <1>3, <1>15 DEF UserCopy, HoldersOf
  <2>5. \A r \in RoleIDs : HoldersOf(r) \subseteq roleHolders[r]
    BY <1>3, <1>15 DEF CompleteBut
  <2>6. ASSUME NEW r \in RoleIDs, NEW id \in HoldersOf(r) PROVE id \in roleHolders'[r]
    BY <2>3, <2>4, <2>5
  <2>7. CompleteBut(h)'
    BY <2>2, <2>6 DEF CompleteBut, HoldersOf, UserExists
  <2>8. ASSUME f.call.op = "DeleteRole", h # Nil PROVE DetachedBut(h)'
    <3>1. h.pc = "setDirectRoles" /\ h.call = f.call /\ h.todo = f.todo
      BY <1>5, <1>15, <2>1, <2>8 DEF Follows, RelistSteps, Loops
    <3>2. HoldersOf(f.call.name) \subseteq f.todo
      BY <1>3, <1>15, <2>8 DEF DetachedBut
    <3>3. HoldersOf(h.call.name)' \subseteq h.todo
      BY <2>2, <3>1, <3>2 DEF HoldersOf, UserExists
    <3> QED
      BY <3>1, <3>3 DEF DetachedBut
  <2> QED
    BY <1>7, <1>8, <2>7, <2>8
<1>16. CASE f.pc = "setDirectRoles"
  <2>1. UNCHANGED <<users, roleHolders>>
    BY <1>1, <1>16, Effects
  <2>2. CompleteBut(h)'
    BY <1>3, <1>16, <2>1 DEF CompleteBut, HoldersOf, UserExists
  <2>3. ASSUME f.call.op = "DeleteRole", h # Nil PROVE DetachedBut(h)'
    <3>1. After(f.call, f.pc) = "detachUser"
      BY <1>4, <1>16, <2>3, StepTable
    <3>2. h.pc = "detachUser" /\ h.call = f.call /\ h.todo = f.todo
      BY <1>5, <1>16, <2>3, <3>1 DEF Follows, RelistSteps, Loops
    <3>3. HoldersOf(f.call.name) \subseteq f.todo
      BY <1>3, <1>16, <2>3 DEF DetachedBut
    <3>4. HoldersOf(h.call.name)' \subseteq h.todo
      BY <2>1, <3>2, <3>3 DEF HoldersOf, UserExists
    <3> QED
      BY <3>2, <3>4 DEF DetachedBut
  <2> QED
    BY <1>7, <1>8, <2>2, <2>3
<1>17. CASE f.pc = "detachUser"
  <2>1. f.call.op = "DeleteRole" /\ After(f.call, f.pc) = "listRoles"
    BY <1>4, <1>17, StepTable
  <2>2. UNCHANGED <<users, roleHolders>>
    BY <1>1, <1>17, Effects
  <2>3. CompleteBut(h)'
    BY <1>3, <1>17, <2>2 DEF CompleteBut, HoldersOf, UserExists
  <2>4. HoldersOf(f.call.name) \subseteq f.todo
    BY <1>3, <1>17, <2>1 DEF DetachedBut
  <2>5. ASSUME LoopDone(t), h # Nil PROVE DetachedBut(h)'
    <3>1. h.pc = "listRoles" /\ h.call = f.call /\ f.todo = {}
      BY <1>1, <1>2, <2>1, <2>5, LoopOver
    <3>2. HoldersOf(h.call.name)' = {}
      BY <2>2, <2>4, <3>1 DEF HoldersOf, UserExists
    <3> QED
      BY <3>1, <3>2 DEF DetachedBut
  <2>6. ASSUME DetachUser(t), h # Nil PROVE DetachedBut(h)'
    <3>1. PICK id \in f.todo \cap UserIDs :
             /\ UserExists(id) /\ h.id = id /\ h.todo = f.todo \ {id} /\ h.call = f.call
             /\ \/ h.pc = "updateUser"
                \/ h.pc = "revokeHolder" /\ f.call.name \notin users[id].roles
      BY <1>1, <1>2, <2>6, DetachTurn
    <3>2. HoldersOf(h.call.name)' = HoldersOf(f.call.name)
      BY <2>2, <3>1 DEF HoldersOf, UserExists
    <3>3. CASE h.pc = "updateUser"
      BY <2>4, <3>1, <3>2, <3>3 DEF DetachedBut
    <3>4. CASE h.pc = "revokeHolder" /\ f.call.name \notin users[id].roles
      <4>1. id \notin HoldersOf(f.call.name)
        BY <3>4 DEF HoldersOf
      <4>2. HoldersOf(h.call.name)' \subseteq h.todo
        BY <2>4, <3>1, <3>2, <4>1
      <4> QED
        BY <3>4, <4>2 DEF DetachedBut
    <3> QED
      BY <3>1, <3>3, <3>4
  <2> QED
    BY <1>1, <1>6, <1>7, <1>17, <2>3, <2>5, <2>6, ActionAt
<1>18. CASE f.pc = "readHolders"
  <2>1. /\ f.call.op = "DeleteRole" /\ After(f.call, f.pc) = "detachUser" /\ ReadHolders(t)
        /\ UNCHANGED <<users, roleHolders>>
    BY <1>1, <1>4, <1>18, StepTable, ActionAt, Effects
  <2>2. f.name = f.call.name /\ f.call.name \in RoleIDs
    BY <1>4, <1>18, <2>1 DEF FrameNames, RoleOps
  <2>3. PICK holders : holders = roleHolders[f.name]
    OBVIOUS
  <2>4. Proceed(t, [Done(f) EXCEPT !.todo = holders, !.seen = holders])
    BY <1>1, <2>1, <2>3 DEF ReadHolders
  <2>5. /\ DOMAIN Done(f) = {"call", "pc", "id", "name", "user", "role", "todo", "seen", "perms", "at", "depth"}
        /\ Done(f).pc = "detachUser" /\ Done(f).call = f.call
    BY <1>4, <2>1 DEF Done, FrameRecord
  <2>6. h = [Done(f) EXCEPT !.todo = holders, !.seen = holders]
    BY <1>2, <2>4, <2>5, Moved
  <2>7. h.pc = "detachUser" /\ h.call = f.call /\ h.todo = holders
    BY <2>5, <2>6
  <2>8. HoldersOf(f.call.name) \subseteq holders
    BY <1>3, <1>18, <2>2, <2>3 DEF CompleteBut
  <2>9. HoldersOf(h.call.name)' \subseteq h.todo
    BY <2>1, <2>7, <2>8 DEF HoldersOf, UserExists
  <2>10. CompleteBut(h)'
    BY <1>3, <1>18, <2>1 DEF CompleteBut, HoldersOf, UserExists
  <2> QED
    BY <1>7, <2>7, <2>9, <2>10 DEF DetachedBut
<1>19. CASE f.pc = "dropHolders"
  <2>0. f.call.op = "DeleteRole" /\ After(f.call, f.pc) = "invalidateHolder"
    BY <1>4, <1>19, StepTable
  <2>1. /\ f.call.op = "DeleteRole" /\ After(f.call, f.pc) = "invalidateHolder" /\ DropHolders(t)
        /\ users' = users
    BY <1>1, <1>19, <2>0, ActionAt, Effects
  <2>2. HoldersOf(f.call.name) = {}
    BY <1>3, <1>19, <2>1 DEF DetachedBut
  <2>3. \A r \in RoleIDs : roleHolders'[r] = IF r = f.call.name THEN {} ELSE roleHolders[r]
    BY <1>1, <2>1 DEF DropHolders, TypeOK
  <2>4. CompleteBut(h)'
    <3>1. ASSUME NEW r \in RoleIDs, NEW id \in HoldersOf(r) PROVE id \in roleHolders'[r]
      <4>1. r # f.call.name
        BY <2>2, <3>1
      <4>2. id \in roleHolders[r]
        BY <1>3, <1>19, <3>1 DEF CompleteBut
      <4> QED
        BY <2>3, <4>1, <4>2
    <3> QED
      BY <2>1, <3>1 DEF CompleteBut, HoldersOf, UserExists
  <2>5. ASSUME h # Nil PROVE DetachedBut(h)'
    <3>1. h.pc = "invalidateHolder" /\ h.call = f.call
      BY <1>5, <1>19, <2>1, <2>5 DEF Follows
    <3>2. HoldersOf(h.call.name)' = {}
      BY <2>1, <2>2, <3>1 DEF HoldersOf, UserExists
    <3> QED
      BY <3>1, <3>2 DEF DetachedBut
  <2> QED
    BY <1>7, <2>4, <2>5
<1>20. CASE f.pc \notin {"createUser", "updateUser", "deleteUser", "evict", "grantHolder",
                        "revokeHolder", "setDirectRoles", "detachUser", "readHolders", "dropHolders"}
  <2>1. UNCHANGED <<users, roleHolders>>
    BY <1>1, <1>20, Effects
  <2> QED
    BY <1>1, <1>20, <2>1, IndexedQuiet
<1> QED
  BY <1>10, <1>11, <1>12, <1>13, <1>14, <1>15, <1>16, <1>17, <1>18, <1>19, <1>20

-----------------------------------------------------------------------------
(* No user holds a role that is gone.                                      *)

Assigned(t) == CascadeDetaches /\ (frame[t] # Nil => AssignsExisting(frame[t]))

\* Only the last step of DeleteRole makes a role go.
LEMMA RolesStay ==
    ASSUME TypeOK, FramesOK, NEW t \in Threads, Step(t), NEW r \in RoleIDs, RoleExists(r)
    PROVE  RoleExists(r)' \/ (frame[t].pc = "deleteRole" /\ r = frame[t].call.name)
<1>1. PICK f : f = frame[t]
  OBVIOUS
<1>2. f # Nil
  BY <1>1, Effects
<1>3. f \in FrameRecord /\ f.role \in Role /\ f.call \in Call /\ f.pc \in DOMAIN Program[f.call.op] \ {"start"}
      /\ FrameLoops(f)
  BY <1>1, <1>2, CallFacts DEF FrameRecord
<1>4. CASE f.pc \in {"createRole", "updateRole"}
  BY <1>1, <1>3, <1>4, ActionAt, NilAssumption
     DEF CreateRoleStep, UpdateRoleStep, StoreCreateRole, StoreUpdateRole, StoreFails, vars, RoleExists,
         TypeOK, StoreTypeOK
<1>5. CASE f.pc = "deleteRole"
  BY <1>1, <1>5, ActionAt
     DEF DeleteRoleStep, StoreDeleteRole, StoreFails, vars, RoleExists, TypeOK, StoreTypeOK
<1>6. CASE f.pc = "detachChild"
  <2>1. f.call.op = "DeleteRole"
    BY <1>3, <1>6, StepTable
  <2>2. f.todo \subseteq DetachedChild
    BY <1>3, <1>6, <2>1 DEF FrameLoops
  <2>3. CASE roles' = roles
    BY <2>3 DEF RoleExists
  <2>4. CASE DetachChild(t) /\ roles' # roles
    <3>1. PICK child \in f.todo : roles' = [roles EXCEPT ![child.name] = child.role]
      BY <1>1, <2>4 DEF DetachChild, StoreUpdateRole
    <3>2. child.role \in Role
      BY <2>2, <3>1 DEF DetachedChild, Child
    <3> QED
      BY <3>1, <3>2, NilAssumption DEF RoleExists, TypeOK, StoreTypeOK
  <2> QED
    BY <1>1, <1>6, <2>3, <2>4, ActionAt DEF LoopDone, StoreFails, vars
<1>7. CASE f.pc \notin {"createRole", "updateRole", "deleteRole", "detachChild"}
  BY <1>1, <1>7, Effects DEF RoleExists
<1> QED
  BY <1>1, <1>4, <1>5, <1>6, <1>7

LEMMA AssignedStart ==
    ASSUME FramesOK, NEW t \in Threads, LateRoles = {}, Start(t), Assigned(t)
    PROVE  Assigned(t)'
<1>1. PICK c \in Menu[t] :
         /\ c.op = "CreateUser" => \A r \in c.roles : RoleExists(r)
         /\ Proceed(t, Frame(c)) /\ UNCHANGED vars
  BY DEF Start
<1>2. c \in Call
  BY <1>1, MenuAssumption
<1>3. Frame(c).pc = After(c, "start") /\ Frame(c).call = c /\ Frame(c).user.roles = c.roles
  BY DEF Frame
<1>4. c.op = "AssignRole" => After(c, "start") = "getRole"
  BY <1>2, StartTable
<1>5. PICK h : h = frame'[t]
  OBVIOUS
<1>6. h = Nil \/ (/\ h.call = c /\ (c.op = "AssignRole" => h.pc = "getRole")
                  /\ h.user.roles = c.roles)
  BY <1>1, <1>3, <1>4, <1>5, Moved
<1>7. h # Nil => AssignsExisting(h)'
  BY <1>1, <1>6 DEF AssignsExisting, RoleExists, vars
<1>8. CascadeDetaches'
  BY <1>1 DEF Assigned, CascadeDetaches, vars, UserExists, RoleExists
<1> QED
  BY <1>5, <1>7, <1>8 DEF Assigned

LEMMA AssignedStep ==
    ASSUME TypeOK, FramesOK, NEW t \in Threads, Step(t), Copies(t), Indexed(t), Assigned(t)
    PROVE  Assigned(t)'
<1>1. PICK f : f = frame[t]
  OBVIOUS
<1>2. PICK h : h = frame'[t]
  OBVIOUS
<1>3. f # Nil /\ UserCopy(f) /\ DetachedBut(f) /\ AssignsExisting(f) /\ CascadeDetaches
  BY <1>1, Effects DEF Copies, Indexed, Assigned
<1>4. /\ f.call \in Call /\ f.pc \in DOMAIN Program[f.call.op] \ {"start"}
      /\ f \in FrameRecord /\ f.user \in User /\ FrameNames(f)
      /\ f.call.op \in UserOps => f.id \in UserIDs
      /\ f.call.op \in RoleOps => f.call.name \in RoleIDs
  BY <1>1, <1>3, CallFacts
<1>5. h = Nil \/ Follows(f, h)
  BY <1>1, <1>2, NextFrame
<1>6. ASSUME h # Nil PROVE AssignsExisting(h)'
  <2>1. f.call.op = "CreateUser" => h.pc # "createUser"
    <3>1. f.call.op = "CreateUser" => f.pc \in {"createUser", "grantHolder", "setDirectRoles"}
      BY <1>4 DEF Program
    <3>2. f.call.op = "CreateUser" => After(f.call, f.pc) # "createUser"
      BY <1>4, <3>1, StepTable
    <3> QED
      BY <1>5, <1>6, <3>1, <3>2 DEF Follows
  <2>2. ASSUME f.call.op = "AssignRole", h.pc \in {"getUser", "updateUser"}
        PROVE  RoleExists(f.call.name)'
    <3>1. f.pc \in {"getRole", "getUser"}
      <4>1. f.pc \in {"getRole", "getUser", "updateUser", "grantHolder", "setDirectRoles", "invalidateUser"}
        BY <1>4, <2>2 DEF Program
      <4>2. f.pc \notin {"getRole", "getUser"} => After(f.call, f.pc) \notin {"getUser", "updateUser"}
        BY <1>4, <2>2, <4>1, StepTable
      <4> QED
        BY <1>5, <1>6, <2>2, <4>1, <4>2 DEF Follows
    <3>2. CASE f.pc = "getRole"
      <4>1. GetRole(t)
        BY <1>1, <1>2, <1>6, <3>2, ActionAt, Moved DEF StoreFails
      <4>2. RoleExists(f.name) /\ roles' = roles
        BY <1>1, <1>2, <1>6, <4>1, Moved DEF GetRole, vars
      <4>3. f.name = f.call.name
        BY <1>4, <3>2 DEF FrameNames
      <4> QED
        BY <4>2, <4>3 DEF RoleExists
    <3>3. CASE f.pc = "getUser"
      BY <1>1, <1>3, <2>2, <3>3, Effects DEF AssignsExisting, RoleExists
    <3> QED
      BY <3>1, <3>2, <3>3
  <2>3. h.call = f.call
    BY <1>5, <1>6 DEF Follows
  <2> QED
    BY <2>1, <2>2, <2>3 DEF AssignsExisting, RoleExists
<1>7. \A id \in UserIDs : UserExists(id)' => users'[id] \in User
  <2>1. TypeOK'
    BY StepTypes
  <2> QED
    BY <2>1 DEF TypeOK, StoreTypeOK, UserExists
<1>8. ASSUME NEW id \in UserIDs, UserExists(id)', NEW r \in users'[id].roles
      PROVE  RoleExists(r) /\ (f.pc = "deleteRole" => r # f.call.name)
  <2>1. CASE users' = users
    <3>1. UserExists(id) /\ r \in users[id].roles
      BY <1>8, <2>1 DEF UserExists
    <3>2. r \in RoleIDs
      BY <3>1 DEF TypeOK, StoreTypeOK, User, UserExists
    <3>3. RoleExists(r)
      BY <1>3, <3>1 DEF CascadeDetaches
    <3>4. f.pc = "deleteRole" => f.call.op = "DeleteRole"
      BY <1>4, StepTable
    <3>5. f.pc = "deleteRole" => HoldersOf(f.call.name) = {}
      BY <1>3, <3>4 DEF DetachedBut
    <3> QED
      BY <3>1, <3>3, <3>5 DEF HoldersOf
  <2>2. CASE users' # users
    <3>1. f.pc \in {"createUser", "updateUser", "deleteUser"}
      BY <1>1, <2>2, Effects
    <3>2. CASE f.pc = "createUser"
      <4>1. f.call.op = "CreateUser"
        BY <1>4, <3>2, StepTable
      <4>2. (\A q \in f.user.roles : RoleExists(q)) /\ f.id \in UserIDs
        BY <1>3, <1>4, <3>2, <4>1 DEF AssignsExisting, UserOps
      <4>3. users' = [users EXCEPT ![f.id] = f.user]
        BY <1>1, <2>2, <3>2, ActionAt DEF CreateUserStep, StoreCreateUser, StoreFails, vars
      <4>4. CASE id = f.id
        <5>1. users'[id] = f.user
          BY <4>2, <4>3, <4>4 DEF TypeOK, StoreTypeOK
        <5> QED
          BY <1>8, <3>2, <4>2, <5>1
      <4>5. CASE id # f.id
        <5>1. users'[id] = users[id]
          BY <4>3, <4>5 DEF TypeOK, StoreTypeOK
        <5> QED
          BY <1>3, <1>8, <3>2, <5>1 DEF CascadeDetaches, UserExists
      <4> QED
        BY <4>4, <4>5
    <3>3. CASE f.pc = "updateUser"
      <4>1. UserExists(f.id) /\ f.user = Rewritten(f.call, users[f.id]) /\ f.id \in UserIDs
        BY <1>3, <1>4, <3>3 DEF UserCopy, FrameNames
      <4>2. users' = [users EXCEPT ![f.id] = f.user]
        BY <1>1, <2>2, <3>3, ActionAt DEF UpdateUserStep, StoreUpdateUser, StoreFails, vars
      <4>3. users[f.id] \in User
        BY <4>1 DEF TypeOK, StoreTypeOK, UserExists
      <4>4. \/ f.call.op = "AssignRole" /\ f.user.roles = users[f.id].roles \cup {f.call.name}
            \/ f.user.roles \subseteq users[f.id].roles
        <5>1. \/ f.call.op = "AssignRole"
              \/ f.call.op \in {"RevokeRole", "DeleteRole"}
              \/ f.call.op \in {"GrantDirectPermission", "RevokeDirectPermission"}
          BY <1>4, <3>3, StepTable
        <5> QED
          BY <1>4, <4>1, <4>3, <5>1, RewrittenRoles
      <4>5. f.call.op = "AssignRole" => RoleExists(f.call.name)
        BY <1>3, <3>3 DEF AssignsExisting
      <4>6. CASE id = f.id
        <5>1. r \in f.user.roles
          BY <1>8, <4>1, <4>2, <4>6 DEF TypeOK, StoreTypeOK
        <5>2. \A q \in users[f.id].roles : RoleExists(q)
          BY <1>3, <4>1 DEF CascadeDetaches
        <5> QED
          BY <3>3, <4>4, <4>5, <5>1, <5>2
      <4>7. CASE id # f.id
        <5>1. users'[id] = users[id]
          BY <4>2, <4>7 DEF TypeOK, StoreTypeOK
        <5> QED
          BY <1>3, <1>8, <3>3, <5>1 DEF CascadeDetaches, UserExists
      <4> QED
        BY <4>6, <4>7
    <3>4. CASE f.pc = "deleteUser"
      <4>1. users' = [users EXCEPT ![f.id] = Nil]
        BY <1>1, <2>2, <3>4, ActionAt DEF DeleteUserStep, StoreDeleteUser, StoreFails, vars
      <4>2. users'[id] = users[id]
        BY <1>8, <4>1 DEF TypeOK, StoreTypeOK, UserExists
      <4> QED
        BY <1>3, <1>8, <3>4, <4>2 DEF CascadeDetaches, UserExists
    <3> QED
      BY <3>1, <3>2, <3>3, <3>4
  <2> QED
    BY <2>1, <2>2
<1>9. ASSUME NEW id \in UserIDs, UserExists(id)', NEW r \in users'[id].roles
      PROVE  RoleExists(r)'
  <2>1. r \in RoleIDs
    BY <1>7, <1>9 DEF User
  <2>2. RoleExists(r) /\ (f.pc = "deleteRole" => r # f.call.name)
    BY <1>8, <1>9
  <2> QED
    BY <1>1, <2>1, <2>2, RolesStay
<1>10. CascadeDetaches'
  BY <1>9 DEF CascadeDetaches
<1> QED
  BY <1>2, <1>6, <1>10 DEF Assigned

\* The store the goroutines start from names no role that does not exist.
StartsDetached ==
    \A id \in UserIDs : Users0[id] # Nil => \A r \in Users0[id].roles : Roles0[r] # Nil

LEMMA IndexInvariant ==
    ASSUME NEW w \in Threads, OnlyWriter(w), ~Flaky
    PROVE  CSafety => [](TypeOK /\ FramesOK /\ Copies(w) /\ Indexed(w))
<1> DEFINE Base == TypeOK /\ FramesOK /\ Copies(w) /\ SoundBut(frame[w])
<1>1. CInit => Indexed(w)
  BY DEF CInit, Indexed, CompleteBut, HoldersOf, UserExists
<1>2. Base /\ Indexed(w) /\ [CNext]_cvars => Indexed(w)'
  <2> SUFFICES ASSUME Base, Indexed(w), [CNext]_cvars PROVE Indexed(w)'
    OBVIOUS
  <2>1. ASSUME UNCHANGED <<users, roleHolders>>, frame'[w] = frame[w]
        PROVE  Indexed(w)'
    BY <2>1 DEF Indexed, CompleteBut, DetachedBut, HoldersOf, UserExists
  <2>2. CASE Start(w)
    BY <2>2, IndexedStart
  <2>3. CASE Step(w)
    BY <2>3, IndexedStep
  <2>4. ASSUME NEW t \in Threads \ {w}, Start(t) \/ Step(t) PROVE Indexed(w)'
    BY <2>1, <2>4, ReaderStep
  <2>5. CASE UNCHANGED cvars
    BY <2>1, <2>5 DEF cvars, vars
  <2> QED
    BY <2>2, <2>3, <2>4, <2>5 DEF CNext
<1>3. CSafety => []Base
  BY CopiesInvariant
<1> QED
  BY <1>1, <1>2, <1>3, PTL DEF CSafety

LEMMA CascadeInvariant ==
    ASSUME NEW w \in Threads, OnlyWriter(w), ~Flaky, LateRoles = {}, StartsDetached
    PROVE  CSafety => []Assigned(w)
<1> DEFINE Base == TypeOK /\ FramesOK /\ Copies(w) /\ Indexed(w)
<1>1. CInit => Assigned(w)
  BY DEF CInit, Assigned, CascadeDetaches, StartsDetached, UserExists, RoleExists
<1>2. Base /\ Assigned(w) /\ [CNext]_cvars => Assigned(w)'
  <2> SUFFICES ASSUME Base, Assigned(w), [CNext]_cvars PROVE Assigned(w)'
    OBVIOUS
  <2>1. ASSUME UNCHANGED <<users, roles>>, frame'[w] = frame[w]
        PROVE  Assigned(w)'
    BY <2>1 DEF Assigned, AssignsExisting, CascadeDetaches, UserExists, RoleExists
  <2>2. CASE Start(w)
    BY <2>2, AssignedStart
  <2>3. CASE Step(w)
    BY <2>3, AssignedStep
  <2>4. ASSUME NEW t \in Threads \ {w}, Start(t) \/ Step(t) PROVE Assigned(w)'
    BY <2>1, <2>4, ReaderStep
  <2>5. CASE UNCHANGED cvars
    BY <2>1, <2>5 DEF cvars, vars
  <2> QED
    BY <2>2, <2>3, <2>4, <2>5 DEF CNext
<1>3. CSafety => []Base
  BY IndexInvariant
<1> QED
  BY <1>1, <1>2, <1>3, PTL DEF CSafety

\* With one goroutine that writes, a store that does not fail, roles created
\* before CreateUser names them (LateRoles = {}) and no missing role named by the
\* users that exist at the start: between two writing calls the reverse index is
\* exact, whatever checks are under way, and DeleteRole detached its role from
\* every user although it visits them one by one, by the index it read first.
THEOREM OneWriterIndexExact ==
    ASSUME NEW w \in Threads, OnlyWriter(w), ~Flaky, LateRoles = {}, StartsDetached
    PROVE  CSpec => []IndexExactBetweenWrites
<1>1. TypeOK /\ FramesOK /\ Copies(w) /\ SoundBut(frame[w]) /\ Indexed(w) /\ Assigned(w) =>
        IndexExactBetweenWrites
  <2> SUFFICES ASSUME FramesOK, SoundBut(frame[w]), CompleteBut(frame[w]), CascadeDetaches, ~Writing
               PROVE  HoldersSound /\ HoldersComplete /\ CascadeDetaches
    BY DEF IndexExactBetweenWrites, Indexed, Assigned
  <2>1. HoldersSound
    BY NotWriting DEF HoldersSound, SoundBut
  <2>2. HoldersComplete
    BY NotWriting DEF HoldersComplete, CompleteBut
  <2> QED
    BY <2>1, <2>2
<1>2. CSafety => [](TypeOK /\ FramesOK /\ Copies(w) /\ SoundBut(frame[w]))
  BY CopiesInvariant
<1>3. CSafety => [](TypeOK /\ FramesOK /\ Copies(w) /\ Indexed(w))
  BY IndexInvariant
<1>4. CSafety => []Assigned(w)
  BY CascadeInvariant
<1> QED
  BY <1>1, <1>2, <1>3, <1>4, PTL DEF CSpec

-----------------------------------------------------------------------------
(* directRoles.                                                            *)

\* Publishing what was read keeps every entry there is.
LEMMA MemoizeKeeps ==
    ASSUME TypeOK, NEW f, directRoles' = MemoizeDirectRoles(f), NEW id \in UserIDs,
           directRoles[id] # Nil
    PROVE  directRoles'[id] = directRoles[id]
  BY DEF MemoizeDirectRoles, TypeOK

\* The exception of DirectRolesBut.
InWindow(f, id) ==
    f # Nil /\ id = f.id /\ f.pc \in {"grantHolder", "revokeHolder", "setDirectRoles", "deleteUser"}

LEMMA DirectRolesStep ==
    ASSUME TypeOK, FramesOK, NEW t \in Threads, Step(t), Copies(t), DirectRolesBut(frame[t]), ~Flaky
    PROVE  DirectRolesBut(frame[t])'
<1>1. PICK f : f = frame[t]
  OBVIOUS
<1>2. PICK h : h = frame'[t]
  OBVIOUS
<1>3. f # Nil /\ UserCopy(f)
  BY <1>1, Effects DEF Copies
<1>4. /\ f.call \in Call /\ f.pc \in DOMAIN Program[f.call.op] \ {"start"}
      /\ f \in FrameRecord /\ f.user \in User /\ FrameNames(f)
      /\ f.call.op \in UserOps => f.id \in UserIDs
  BY <1>1, <1>3, CallFacts
<1>5. ~StoreFails(t)
  BY DEF StoreFails
<1> DEFINE Exact(id) == UserExists(id) /\ users[id].roles # {} => directRoles[id] = users[id].roles
<1>6. \A id \in UserIDs : Exact(id) \/ InWindow(f, id)
  BY <1>1 DEF DirectRolesBut, InWindow
<1>7. ASSUME \A id \in UserIDs : Exact(id)' \/ InWindow(h, id)
      PROVE  DirectRolesBut(frame[t])'
  BY <1>2, <1>7 DEF DirectRolesBut, InWindow
<1>8. ASSUME NEW id \in UserIDs, directRoles' = directRoles, Exact(id),
             \/ users'[id] = users[id]
             \/ users'[id].roles = users[id].roles /\ UserExists(id)
      PROVE  Exact(id)'
  BY <1>8 DEF UserExists
<1> HIDE DEF Exact
<1>10. CASE f.pc = "createUser"
  <2>1. f.call.op = "CreateUser" /\ After(f.call, f.pc) = "grantHolder"
    BY <1>4, <1>10, StepTable
  <2>2. CreateUserStep(t) /\ directRoles' = directRoles
    BY <1>1, <1>5, <1>10, ActionAt, Effects
  <2>3. \A id \in UserIDs : Exact(id)
    BY <1>6, <1>10 DEF InWindow
  <2>4. CASE UserExists(f.id)
    <3>1. users' = users
      BY <1>1, <2>2, <2>4 DEF CreateUserStep
    <3> QED
      BY <1>7, <1>8, <2>2, <2>3, <3>1
  <2>5. CASE ~UserExists(f.id)
    <3>1. users' = [users EXCEPT ![f.id] = f.user] /\ Proceed(t, Done(f))
      BY <1>1, <2>2, <2>5 DEF CreateUserStep, StoreCreateUser
    <3>2. \A id \in UserIDs \ {f.id} : users'[id] = users[id]
      BY <3>1 DEF TypeOK, StoreTypeOK
    <3>3. h # Nil /\ h.pc = "grantHolder" /\ h.id = f.id
      BY <1>1, <1>2, <1>3, <2>1, <3>1, GoesOn
    <3>4. InWindow(h, f.id)
      BY <3>3 DEF InWindow
    <3> QED
      BY <1>7, <1>8, <2>2, <2>3, <3>2, <3>4
  <2> QED
    BY <2>4, <2>5
<1>11. CASE f.pc = "updateUser"
  <2>1. UserExists(f.id) /\ f.user = Rewritten(f.call, users[f.id])
    BY <1>3, <1>11 DEF UserCopy
  <2>2. UpdateUserStep(t) /\ f.id \in UserIDs /\ directRoles' = directRoles
    BY <1>1, <1>4, <1>5, <1>11, ActionAt, Effects DEF FrameNames
  <2>3. users' = [users EXCEPT ![f.id] = f.user] /\ Proceed(t, Done(f))
    BY <1>1, <2>1, <2>2 DEF UpdateUserStep, StoreUpdateUser
  <2>4. users'[f.id] = f.user /\ \A id \in UserIDs \ {f.id} : users'[id] = users[id]
    BY <2>2, <2>3 DEF TypeOK, StoreTypeOK
  <2>5. users[f.id] \in User
    BY <2>1, <2>2 DEF TypeOK, StoreTypeOK, UserExists
  <2>6. \/ After(f.call, f.pc) \in {"grantHolder", "revokeHolder"}
        \/ /\ f.call.op \in {"GrantDirectPermission", "RevokeDirectPermission"}
           /\ After(f.call, f.pc) = "invalidateUser"
    BY <1>4, <1>11, StepTable
  <2>7. h # Nil /\ h.pc = After(f.call, f.pc) /\ h.id = f.id
    BY <1>1, <1>2, <1>3, <2>3, <2>6, GoesOn
  <2>8. \A id \in UserIDs : Exact(id)
    BY <1>6, <1>11 DEF InWindow
  <2>9. f.call.op \in {"GrantDirectPermission", "RevokeDirectPermission"} =>
          users'[f.id].roles = users[f.id].roles
    BY <1>4, <2>1, <2>4, <2>5, RewrittenRoles
  <2>10. InWindow(h, f.id) \/ users'[f.id].roles = users[f.id].roles
    BY <2>6, <2>7, <2>9 DEF InWindow
  <2>11. ASSUME NEW id \in UserIDs PROVE Exact(id)' \/ InWindow(h, id)
    BY <1>8, <2>1, <2>2, <2>4, <2>8, <2>10
  <2> QED
    BY <1>7, <2>11
<1>12. CASE f.pc = "deleteUser"
  <2>1. DeleteUserStep(t) /\ f.call.op = "DeleteUser" /\ directRoles' = directRoles
    <3>1. f.call.op = "DeleteUser"
      BY <1>4, <1>12, StepTable
    <3> QED
      BY <1>1, <1>5, <1>12, <3>1, ActionAt, Effects
  <2>2. f.id \in UserIDs
    BY <1>4, <2>1 DEF UserOps
  <2>3. users'[f.id] = Nil /\ \A id \in UserIDs \ {f.id} : users'[id] = users[id]
    BY <1>1, <2>1, <2>2 DEF DeleteUserStep, StoreDeleteUser, TypeOK, StoreTypeOK, UserExists
  <2>4. Exact(f.id)'
    BY <2>3 DEF Exact, UserExists
  <2>5. \A id \in UserIDs \ {f.id} : Exact(id)
    BY <1>6 DEF InWindow
  <2> QED
    BY <1>7, <1>8, <2>1, <2>3, <2>4, <2>5
<1>13. CASE f.pc = "evict"
  <2>1. After(f.call, f.pc) = "deleteUser"
    BY <1>4, <1>13, StepTable
  <2>2. EvictUser(t) /\ users' = users
    BY <1>1, <1>13, ActionAt, Effects
  <2>3. Proceed(t, Done(f)) /\ \A id \in UserIDs \ {f.id} : directRoles'[id] = directRoles[id]
    BY <1>1, <2>2 DEF EvictUser, SetDirectRoles, TypeOK
  <2>4. h # Nil /\ h.pc = "deleteUser" /\ h.id = f.id
    BY <1>1, <1>2, <1>3, <2>1, <2>3, GoesOn
  <2>5. InWindow(h, f.id)
    BY <2>4 DEF InWindow
  <2>6. \A id \in UserIDs : Exact(id)
    BY <1>6, <1>13 DEF InWindow
  <2>7. \A id \in UserIDs \ {f.id} : Exact(id)'
    BY <2>2, <2>3, <2>6 DEF Exact, UserExists
  <2> QED
    BY <1>7, <2>5, <2>7
<1>14. CASE f.pc = "grantHolder"
  <2>1. After(f.call, f.pc) = "setDirectRoles"
    BY <1>4, <1>14, StepTable
  <2>2. users' = users /\ directRoles' = directRoles
    BY <1>1, <1>14, Effects
  <2>3. h # Nil /\ h.id = f.id /\ h.pc \in {"grantHolder", "setDirectRoles"}
    <3>1. CASE GrantHolderStep(t)
      BY <1>1, <1>2, <3>1, GrantTurn
    <3>2. CASE LoopDone(t)
      <4>1. Proceed(t, [Done(f) EXCEPT !.todo = f.seen])
        BY <1>1, <3>2 DEF LoopDone
      <4>2. PICK g : g = [Done(f) EXCEPT !.todo = f.seen]
        OBVIOUS
      <4>3. FrameBasic(t, Done(f)) /\ Done(f).pc = "setDirectRoles" /\ Done(f).id = f.id
        <5>1. FrameOK(t, f)
          BY <1>1, <1>3, InCall
        <5> QED
          BY <2>1, <5>1, DoneBasic
      <4>4. g \in FrameRecord /\ g.pc = "setDirectRoles" /\ g.id = f.id
        BY <1>4, <4>2, <4>3 DEF FrameBasic, FrameRecord
      <4>5. h = g
        BY <1>2, <4>1, <4>2, <4>4, Moved
      <4> QED
        BY <4>4, <4>5, FrameAssumption
    <3> QED
      BY <1>1, <1>14, <3>1, <3>2, ActionAt
  <2>4. \A id \in UserIDs : InWindow(f, id) => InWindow(h, id)
    BY <2>3 DEF InWindow
  <2> QED
    BY <1>6, <1>7, <1>8, <2>2, <2>4
<1>15. CASE f.pc = "revokeHolder"
  <2>1. After(f.call, f.pc) = "setDirectRoles"
    BY <1>4, <1>15, StepTable
  <2>2. users' = users /\ directRoles' = directRoles /\ RevokeHolderStep(t)
    BY <1>1, <1>15, Effects, ActionAt
  <2>3. h # Nil /\ h.id = f.id /\ h.pc = "setDirectRoles"
    BY <1>1, <1>2, <1>3, <2>1, <2>2, GoesOn DEF RevokeHolderStep
  <2>4. \A id \in UserIDs : InWindow(f, id) => InWindow(h, id)
    BY <2>3 DEF InWindow
  <2> QED
    BY <1>6, <1>7, <1>8, <2>2, <2>4
<1>16. CASE f.pc = "setDirectRoles"
  <2>1. users' = users /\ SetDirectRolesStep(t)
    BY <1>1, <1>16, Effects, ActionAt
  <2>2. directRoles' = [directRoles EXCEPT ![f.id] = DirectEntry(f.user.roles)] /\ users[f.id] = f.user
    BY <1>1, <1>3, <1>16, <2>1 DEF SetDirectRolesStep, SetDirectRoles, UserCopy
  <2>3. \A id \in UserIDs : directRoles'[id] = IF id = f.id THEN DirectEntry(users[id].roles) ELSE directRoles[id]
    BY <2>2 DEF TypeOK
  <2>4. ASSUME NEW id \in UserIDs PROVE Exact(id)'
    <3>1. CASE id = f.id
      BY <2>1, <2>3, <3>1 DEF Exact, DirectEntry, UserExists
    <3>2. CASE id # f.id
      <4>1. Exact(id) /\ directRoles'[id] = directRoles[id]
        BY <1>6, <2>3, <3>2 DEF InWindow
      <4> QED
        BY <2>1, <4>1 DEF Exact, UserExists
    <3> QED
      BY <3>1, <3>2
  <2> QED
    BY <1>7, <2>4
<1>17. CASE f.pc \in {"publish", "publishDirectRoles"}
  <2>1. users' = users /\ directRoles' = MemoizeDirectRoles(f)
    <3>1. CASE f.pc = "publish"
      <4>1. Publish(t)
        BY <1>1, <3>1, ActionAt
      <4> QED
        BY <1>1, <4>1 DEF Publish
    <3>2. CASE f.pc = "publishDirectRoles"
      <4>1. PublishDirectRoles(t)
        BY <1>1, <3>2, ActionAt
      <4> QED
        BY <1>1, <4>1 DEF PublishDirectRoles
    <3> QED
      BY <1>17, <3>1, <3>2
  <2>2. ASSUME NEW id \in UserIDs PROVE Exact(id)'
    <3>1. Exact(id)
      BY <1>6, <1>17 DEF InWindow
    <3>2. UserExists(id) => users[id].roles # Nil
      BY NilAssumption DEF TypeOK, StoreTypeOK, User, UserExists
    <3>3. UserExists(id) /\ users[id].roles # {} => directRoles'[id] = directRoles[id]
      BY <2>1, <3>1, <3>2, MemoizeKeeps DEF Exact
    <3> QED
      BY <2>1, <3>1, <3>3 DEF Exact, UserExists
  <2> QED
    BY <1>7, <2>2
<1>18. CASE f.pc \notin {"createUser", "updateUser", "deleteUser", "evict", "grantHolder",
                        "revokeHolder", "setDirectRoles", "publish", "publishDirectRoles"}
  <2>1. users' = users /\ directRoles' = directRoles
    BY <1>1, <1>18, Effects
  <2>2. \A id \in UserIDs : Exact(id)
    BY <1>6, <1>18 DEF InWindow
  <2> QED
    BY <1>7, <1>8, <2>1, <2>2
<1> QED
  BY <1>10, <1>11, <1>12, <1>13, <1>14, <1>15, <1>16, <1>17, <1>18

\* With one goroutine that writes and a store that does not fail: between two
\* writing calls the entry of directRoles, if there is one, of a user who has
\* roles is what the store says.  A check that read the user before the write
\* finds the writer's entry when it publishes, and keeps it (computeAndCache,
\* directRolesOf).  A user whose last role was revoked is excepted: the writer
\* then deletes the entry, and such a check may publish the old roles
\* (StaleHasRole.cfg).
THEOREM OneWriterDirectRoles ==
    ASSUME NEW w \in Threads, OnlyWriter(w), ~Flaky
    PROVE  CSpec => []DirectRolesExactBetweenWrites
<1> DEFINE Base == TypeOK /\ FramesOK /\ Copies(w) /\ SoundBut(frame[w])
           Inv == DirectRolesBut(frame[w])
<1>1. CInit => Inv
  BY DEF CInit, DirectRolesBut, DirectEntry, UserExists
<1>2. Base /\ Inv /\ [CNext]_cvars => Inv'
  <2> SUFFICES ASSUME Base, Inv, [CNext]_cvars PROVE Inv'
    OBVIOUS
  <2>1. ASSUME users' = users, directRoles' = directRoles,
               frame'[w] = frame[w] \/ frame[w] = Nil
        PROVE  Inv'
    BY <2>1 DEF DirectRolesBut, UserExists
  <2>2. CASE Start(w)
    BY <2>1, <2>2 DEF Start, vars
  <2>3. CASE Step(w)
    BY <2>3, DirectRolesStep
  <2>4. ASSUME NEW t \in Threads \ {w}, Start(t) \/ Step(t) PROVE Inv'
    <3>1. /\ users' = users /\ frame'[w] = frame[w]
          /\ directRoles' = directRoles \/ directRoles' = MemoizeDirectRoles(frame[t])
      BY <2>4, ReaderStep
    <3>2. CASE directRoles' = MemoizeDirectRoles(frame[t])
      <4>1. ASSUME NEW id \in UserIDs, UserExists(id), directRoles[id] = users[id].roles
            PROVE  directRoles'[id] = directRoles[id]
        <5>1. directRoles[id] # Nil
          BY <4>1, NilAssumption DEF TypeOK, StoreTypeOK, User, UserExists
        <5> QED
          BY <3>2, <5>1, MemoizeKeeps
      <4> QED
        BY <3>1, <4>1 DEF DirectRolesBut, UserExists
    <3> QED
      BY <2>1, <3>1, <3>2
  <2>5. CASE UNCHANGED cvars
    BY <2>1, <2>5 DEF cvars, vars
  <2> QED
    BY <2>2, <2>3, <2>4, <2>5 DEF CNext
<1>3. Base /\ Inv => DirectRolesExactBetweenWrites
  BY NotWriting DEF DirectRolesExactBetweenWrites, DirectRolesBut
<1>4. CSafety => []Base
  BY CopiesInvariant
<1> QED
  BY <1>1, <1>2, <1>3, <1>4, PTL DEF CSpec, CSafety

-----------------------------------------------------------------------------
(* Inheritance.                                                            *)

\* Following Parent from the new parent ends and does not meet the role.
ParentChecked(f) ==
    f.call.parent # Nil =>
        /\ RoleExists(f.call.parent)
        /\ \E A \in SUBSET (RoleIDs \ {f.call.name}) : f.call.parent \in A /\ ParentClosed(A)

\* What the writer knows about the roles it is about to write: the walk of
\* validateInheritance has left a chain A from the new parent up to at, and the
\* children that DeleteRole still has to detach are on its list.
RoleCopy(f) ==
    /\ f.call.op \in {"GrantPermission", "RevokePermission"} /\ f.pc = "updateRole" =>
          RoleExists(f.name) /\ f.role.parent = roles[f.name].parent
    /\ f.call.op \in Parenting /\ f.pc # "getRole" => f.role.parent = f.call.parent
    /\ f.pc = "walk" =>
          /\ RoleExists(f.call.parent)
          /\ \E A \in SUBSET (RoleIDs \ {f.call.name}) :
                /\ f.call.parent \in A \cup {f.at}
                /\ \A r \in A : ParentOf(r) # Nil => ParentOf(r) \in A \cup {f.at}
    /\ f.call.op \in Parenting /\ f.pc \in {"createRole", "updateRole"} => ParentChecked(f)
    /\ f.call.op = "DeleteRole" =>
          /\ f.pc \in {"detachChild", "invalidateRoleHolders"} =>
                \A r \in ChildrenOf(f.call.name) : \E c \in f.todo : c.name = r
          /\ f.pc \in {"dropHolders", "invalidateHolder", "deleteRole"} =>
                ChildrenOf(f.call.name) = {}

\* How a step changes the parents: CreateRole, UpdateRole and SetParent give the
\* role its checked parent, DeleteRole takes parents away.
LEMMA ParentsStep ==
    ASSUME TypeOK, FramesOK, NEW t \in Threads, Step(t), NEW f, f = frame[t], RoleCopy(f), roles' # roles
    PROVE  \/ /\ f.pc \in {"createRole", "updateRole"} /\ f.call.op \in Parenting
              /\ f.call.name \in RoleIDs /\ f.call.parent \in RoleIDs \cup {Nil}
              /\ ParentChecked(f) /\ ParentOf(f.call.name)' = f.call.parent
              /\ RoleExists(f.call.name)'
              /\ \A r \in RoleIDs \ {f.call.name} : roles'[r] = roles[r]
           \/ /\ f.pc = "updateRole" /\ f.call.op \in {"GrantPermission", "RevokePermission"}
              /\ \A r \in RoleIDs : ParentOf(r)' = ParentOf(r) /\ (RoleExists(r) <=> RoleExists(r)')
           \/ /\ f.pc = "detachChild" /\ f.call.op = "DeleteRole"
              /\ \E c \in f.todo :
                    /\ c.name \in RoleIDs /\ RoleExists(c.name) /\ RoleExists(c.name)'
                    /\ ParentOf(c.name)' = Nil
                    /\ \A r \in RoleIDs \ {c.name} : roles'[r] = roles[r]
                    /\ frame'[t] # Nil => frame'[t].todo = f.todo \ {c}
                                          /\ frame'[t].pc = "invalidateRoleHolders"
           \/ /\ f.pc = "deleteRole" /\ f.call.op = "DeleteRole" /\ f.call.name \in RoleIDs
              /\ roles'[f.call.name] = Nil
              /\ \A r \in RoleIDs \ {f.call.name} : roles'[r] = roles[r]
<1>1. f # Nil /\ f.pc \in {"createRole", "updateRole", "deleteRole", "detachChild"}
  BY Effects
<1>2. /\ f.call \in Call /\ f.pc \in DOMAIN Program[f.call.op] \ {"start"}
      /\ f \in FrameRecord /\ FrameNames(f) /\ FrameLoops(f)
      /\ f.call.op \in RoleOps => f.call.name \in RoleIDs
  BY <1>1, CallFacts
<1>3. f.role \in Role /\ f.call.parent \in RoleIDs \cup {Nil}
  BY <1>2 DEF FrameRecord, Call
<1>4. ~StoreFails(t) /\ ~LoopDone(t)
  BY DEF StoreFails, LoopDone, vars
<1>5. CASE f.pc = "createRole"
  <2>1. f.call.op = "CreateRole"
    BY <1>2, <1>5, StepTable
  <2>2. f.name = f.call.name /\ f.call.name \in RoleIDs
    BY <1>2, <2>1 DEF FrameNames, RoleOps
  <2>3. roles' = [roles EXCEPT ![f.name] = f.role]
    BY <1>4, <1>5, ActionAt DEF CreateRoleStep, StoreCreateRole
  <2>4. f.role.parent = f.call.parent /\ ParentChecked(f)
    BY <1>5, <2>1 DEF RoleCopy, Parenting
  <2>5. roles'[f.call.name] = f.role /\ \A r \in RoleIDs \ {f.call.name} : roles'[r] = roles[r]
    BY <2>2, <2>3 DEF TypeOK, StoreTypeOK
  <2>6. RoleExists(f.call.name)' /\ ParentOf(f.call.name)' = f.call.parent
    BY <1>3, <2>4, <2>5, NilAssumption DEF RoleExists, ParentOf
  <2> QED
    BY <1>3, <1>5, <2>1, <2>2, <2>4, <2>5, <2>6 DEF Parenting
<1>6. CASE f.pc = "updateRole"
  <2>1. f.call.op \in {"UpdateRole", "GrantPermission", "RevokePermission", "SetParent"}
    BY <1>2, <1>6, StepTable
  <2>2. f.name = f.call.name /\ f.call.name \in RoleIDs
    BY <1>2, <2>1 DEF FrameNames, RoleOps
  <2>3. roles' = [roles EXCEPT ![f.name] = f.role]
    BY <1>4, <1>6, ActionAt DEF UpdateRoleStep, StoreUpdateRole
  <2>4. roles'[f.call.name] = f.role /\ \A r \in RoleIDs \ {f.call.name} : roles'[r] = roles[r]
    BY <2>2, <2>3 DEF TypeOK, StoreTypeOK
  <2>5. RoleExists(f.call.name)' /\ ParentOf(f.call.name)' = f.role.parent
    BY <1>3, <2>4, NilAssumption DEF RoleExists, ParentOf
  <2>6. CASE f.call.op \in Parenting
    <3>1. f.role.parent = f.call.parent /\ ParentChecked(f)
      BY <1>6, <2>6 DEF RoleCopy
    <3> QED
      BY <1>3, <1>6, <2>2, <2>4, <2>5, <2>6, <3>1
  <2>7. CASE f.call.op \in {"GrantPermission", "RevokePermission"}
    <3>1. RoleExists(f.call.name) /\ f.role.parent = roles[f.call.name].parent
      BY <1>6, <2>2, <2>7 DEF RoleCopy
    <3>2. ASSUME NEW r \in RoleIDs PROVE ParentOf(r)' = ParentOf(r) /\ (RoleExists(r) <=> RoleExists(r)')
      <4>1. CASE r = f.call.name
        BY <2>5, <3>1, <4>1 DEF ParentOf
      <4>2. CASE r # f.call.name
        BY <2>4, <4>2 DEF ParentOf, RoleExists
      <4> QED
        BY <4>1, <4>2
    <3> QED
      BY <1>6, <2>7, <3>2
  <2> QED
    BY <2>1, <2>6, <2>7 DEF Parenting
<1>7. CASE f.pc = "detachChild"
  <2>1. f.call.op = "DeleteRole"
    BY <1>2, <1>7, StepTable
  <2>2. f.todo \subseteq DetachedChild
    BY <1>2, <1>7, <2>1 DEF FrameLoops
  <2>3. DetachChild(t)
    BY <1>4, <1>7, ActionAt
  <2>4. PICK c \in f.todo :
           /\ RoleExists(c.name) /\ roles' = [roles EXCEPT ![c.name] = c.role]
           /\ Proceed(t, [f EXCEPT !.todo = @ \ {c}, !.name = c.name, !.pc = "invalidateRoleHolders"])
    BY <2>3 DEF DetachChild, StoreUpdateRole
  <2>5. c.name \in RoleIDs /\ c.role \in Role /\ c.role.parent = Nil
    BY <2>2, <2>4 DEF DetachedChild, Child
  <2>6. roles'[c.name] = c.role /\ \A r \in RoleIDs \ {c.name} : roles'[r] = roles[r]
    BY <2>4, <2>5 DEF TypeOK, StoreTypeOK
  <2>7. RoleExists(c.name)' /\ ParentOf(c.name)' = Nil
    BY <2>5, <2>6, NilAssumption DEF RoleExists, ParentOf
  <2>8. PICK g : g = [f EXCEPT !.todo = @ \ {c}, !.name = c.name, !.pc = "invalidateRoleHolders"]
    OBVIOUS
  <2>9. g.todo = f.todo \ {c} /\ g.pc = "invalidateRoleHolders"
    BY <1>2, <2>8 DEF FrameRecord
  <2>10. frame'[t] = g
    BY <2>4, <2>8, <2>9, Moved
  <2> QED
    BY <1>7, <2>1, <2>4, <2>5, <2>6, <2>7, <2>9, <2>10
<1>8. CASE f.pc = "deleteRole"
  <2>1. f.call.op = "DeleteRole"
    BY <1>2, <1>8, StepTable
  <2>2. f.call.name \in RoleIDs
    BY <1>2, <2>1 DEF RoleOps
  <2>3. roles' = [roles EXCEPT ![f.call.name] = Nil]
    BY <1>4, <1>8, ActionAt DEF DeleteRoleStep, StoreDeleteRole
  <2> QED
    BY <1>8, <2>1, <2>2, <2>3 DEF TypeOK, StoreTypeOK
<1> QED
  BY <1>1, <1>5, <1>6, <1>7, <1>8

LEMMA InheritanceStep ==
    ASSUME TypeOK, FramesOK, NEW t \in Threads, Step(t), RoleCopy(frame[t]), Acyclic, NoDanglingParent
    PROVE  Acyclic' /\ NoDanglingParent'
<1>1. PICK f : f = frame[t]
  OBVIOUS
<1>2. ASSUME \A r \in RoleIDs : ParentOf(r)' = ParentOf(r) /\ (RoleExists(r) <=> RoleExists(r)')
      PROVE  Acyclic' /\ NoDanglingParent'
  <2>1. Acyclic'
    BY <1>2 DEF Acyclic
  <2>2. ASSUME NEW r \in RoleIDs, ParentOf(r)' # Nil PROVE RoleExists(ParentOf(r))'
    <3>1. ParentOf(r) \in RoleIDs /\ RoleExists(ParentOf(r))
      BY <1>2, <2>2, ParentType DEF NoDanglingParent
    <3>2. PICK p \in RoleIDs : p = ParentOf(r) /\ p = ParentOf(r)'
      BY <1>2, <3>1
    <3>3. RoleExists(p)'
      BY <1>2, <3>1, <3>2
    <3> QED
      BY <3>2, <3>3 DEF RoleExists
  <2> QED
    BY <2>1, <2>2 DEF NoDanglingParent
<1>3. CASE roles' = roles
  BY <1>2, <1>3 DEF ParentOf, RoleExists
<1>4. ASSUME NEW name \in RoleIDs, NEW parent \in RoleIDs \cup {Nil},
             parent # Nil => /\ RoleExists(parent)
                             /\ \E A \in SUBSET (RoleIDs \ {name}) : parent \in A /\ ParentClosed(A),
             ParentOf(name)' = parent,
             \A r \in RoleIDs \ {name} : roles'[r] = roles[r],
             RoleExists(name)' \/ ChildrenOf(name) = {}
      PROVE  Acyclic' /\ NoDanglingParent'
  <2>1. \A r \in RoleIDs \ {name} : ParentOf(r)' = ParentOf(r)
    BY <1>4 DEF ParentOf, RoleExists
  <2>2. Acyclic'
    BY <1>4, <2>1, ReparentClosed
  <2>3. ASSUME NEW r \in RoleIDs, ParentOf(r)' # Nil PROVE RoleExists(ParentOf(r))'
    <3>1. PICK p : p = ParentOf(r)'
      OBVIOUS
    <3>2. CASE r = name
      <4>1. p = parent /\ p # Nil /\ p # name /\ RoleExists(p) /\ p \in RoleIDs
        BY <1>4, <2>3, <3>1, <3>2
      <4>2. RoleExists(p)'
        BY <1>4, <4>1 DEF RoleExists
      <4> QED
        BY <3>1, <4>2 DEF RoleExists
    <3>3. CASE r # name
      <4>1. p = ParentOf(r) /\ p # Nil
        BY <2>1, <2>3, <3>1, <3>3
      <4>2. p \in RoleIDs /\ RoleExists(p)
        BY <4>1, ParentType DEF NoDanglingParent
      <4>3. p = name => RoleExists(name)'
        BY <1>4, <4>1 DEF ChildrenOf
      <4>4. RoleExists(p)'
        BY <1>4, <4>2, <4>3 DEF RoleExists
      <4> QED
        BY <3>1, <4>4 DEF RoleExists
    <3> QED
      BY <3>2, <3>3
  <2> QED
    BY <2>2, <2>3 DEF NoDanglingParent
<1>5. CASE roles' # roles
  <2>1. CASE /\ f.call.name \in RoleIDs /\ f.call.parent \in RoleIDs \cup {Nil}
             /\ ParentChecked(f) /\ ParentOf(f.call.name)' = f.call.parent
             /\ RoleExists(f.call.name)'
             /\ \A r \in RoleIDs \ {f.call.name} : roles'[r] = roles[r]
    BY <1>4, <2>1 DEF ParentChecked
  <2>2. CASE \A r \in RoleIDs : ParentOf(r)' = ParentOf(r) /\ (RoleExists(r) <=> RoleExists(r)')
    BY <1>2, <2>2
  <2>3. CASE \E c \in f.todo :
                /\ c.name \in RoleIDs /\ RoleExists(c.name)' /\ ParentOf(c.name)' = Nil
                /\ \A r \in RoleIDs \ {c.name} : roles'[r] = roles[r]
    BY <1>4, <2>3
  <2>4. CASE /\ f.pc = "deleteRole" /\ f.call.op = "DeleteRole" /\ f.call.name \in RoleIDs
             /\ roles'[f.call.name] = Nil
             /\ \A r \in RoleIDs \ {f.call.name} : roles'[r] = roles[r]
    <3>1. ChildrenOf(f.call.name) = {}
      BY <1>1, <2>4 DEF RoleCopy
    <3>2. ParentOf(f.call.name)' = Nil
      BY <2>4 DEF ParentOf, RoleExists
    <3> QED
      BY <1>4, <2>4, <3>1, <3>2
  <2> QED
    BY <1>1, <1>5, <2>1, <2>2, <2>3, <2>4, ParentsStep
<1> QED
  BY <1>3, <1>5

LEMMA RoleCopyStart ==
    ASSUME FramesOK, NEW t \in Threads, Start(t)
    PROVE  frame'[t] # Nil => RoleCopy(frame[t])'
<1>1. PICK c \in Menu[t] : Proceed(t, Frame(c))
  BY DEF Start
<1>2. c \in Call
  BY <1>1, MenuAssumption
<1>3. Frame(c).pc = After(c, "start") /\ Frame(c).call = c /\ Frame(c).role.parent = c.parent
  BY DEF Frame
<1>4. c.op \in Ops
  BY <1>2 DEF Call
<1>5. PICK h : h = frame'[t]
  OBVIOUS
<1>6. h # Nil => h.pc = After(c, "start") /\ h.call = c /\ h.role.parent = c.parent
  BY <1>1, <1>3, <1>5, Moved
<1>7. /\ After(c, "start") # "walk"
      /\ c.op \in {"GrantPermission", "RevokePermission", "DeleteRole"} => After(c, "start") = "getRole"
      /\ After(c, "start") \in {"createRole", "updateRole"} => c.parent = Nil
  BY <1>2, <1>4, StartTable, OpNames
<1>8. h # Nil => RoleCopy(h)'
  BY <1>6, <1>7 DEF RoleCopy, ParentChecked, Parenting
<1> QED
  BY <1>5, <1>8

\* The steps of the calls that write a parent.
LEMMA ParentingStep ==
    ASSUME TypeOK, FramesOK, NEW t \in Threads, Step(t), NEW f, f = frame[t], RoleCopy(f),
           NEW h, h = frame'[t], h # Nil, f.call.op \in Parenting
    PROVE  RoleCopy(h)'
<1>1. f # Nil /\ Follows(f, h)
  BY NextFrame
<1>2. /\ f.call \in Call /\ f.pc \in DOMAIN Program[f.call.op] \ {"start"}
      /\ f \in FrameRecord /\ FrameNames(f)
      /\ f.call.op \in RoleOps => f.call.name \in RoleIDs
  BY <1>1, CallFacts
<1>3. h.call = f.call
  BY <1>1 DEF Follows
<1>4. f.pc \in {"getRole", "findParent", "getParent", "walk", "createRole", "updateRole",
               "invalidateRoleHolders"}
  BY <1>2 DEF Parenting, Program
<1>5. ~StoreFails(t)
  BY Moved DEF StoreFails
<1>6. h.role.parent = h.call.parent
  <2>1. CASE f.pc = "getRole"
    <3>1. f.call.op = "SetParent"
      BY <1>2, <2>1, StepTable DEF Parenting
    <3>2. GetRole(t) /\ ~Return(t)
      BY <1>5, <2>1, ActionAt, Moved
    <3>3. PICK r : r = EditedRole(f.call, roles[f.name])
      OBVIOUS
    <3>4. Proceed(t, [Done(f) EXCEPT !.role = r]) /\ RoleExists(f.name)
      BY <3>1, <3>2, <3>3 DEF GetRole
    <3>5. h = [Done(f) EXCEPT !.role = r]
      BY <3>4, Moved
    <3>6. "role" \in DOMAIN Done(f)
      BY <1>2 DEF Done, FrameRecord
    <3>7. h.role = r
      BY <3>5, <3>6
    <3>8. f.name \in RoleIDs
      BY <1>2, <3>1 DEF FrameNames, RoleOps
    <3>9. r.parent = f.call.parent
      BY <3>1, <3>3, <3>4, <3>8 DEF EditedRole, TypeOK, StoreTypeOK, Role, RoleExists
    <3> QED
      BY <1>3, <3>7, <3>9
  <2>2. CASE f.pc # "getRole"
    BY <1>1, <2>2 DEF RoleCopy, Follows
  <2> QED
    BY <2>1, <2>2
<1>7. ASSUME h.pc \notin {"walk", "createRole", "updateRole"} PROVE RoleCopy(h)'
  BY <1>3, <1>6, <1>7 DEF RoleCopy, Parenting
<1>8. CASE f.pc \in {"createRole", "updateRole", "invalidateRoleHolders"}
  <2>1. After(f.call, f.pc) \in {"return", "invalidateRoleHolders"}
    BY <1>2, <1>8, StepTable DEF Parenting
  <2>2. h.pc \in {"return", "invalidateRoleHolders"}
    BY <1>1, <1>8, <2>1 DEF Follows
  <2> QED
    BY <1>7, <2>2
<1>9. CASE f.pc \in {"getRole", "findParent"}
  <2>1. \/ After(f.call, f.pc) \in {"findParent", "getParent"}
        \/ After(f.call, f.pc) = "updateRole" /\ f.call.parent = Nil
    BY <1>2, <1>9, StepTable DEF Parenting
  <2>2. h.pc = After(f.call, f.pc)
    BY <1>1, <1>9 DEF Follows
  <2>3. CASE f.call.parent = Nil /\ h.pc = "updateRole"
    BY <1>3, <1>6, <2>3 DEF RoleCopy, Parenting, ParentChecked
  <2> QED
    BY <1>7, <2>1, <2>2, <2>3
<1>10. CASE f.pc = "getParent"
  <2>1. h.pc = "walk" /\ h.at = f.at
    <3>1. After(f.call, f.pc) = "walk"
      BY <1>2, <1>10, StepTable
    <3> QED
      BY <1>1, <1>10, <3>1 DEF Follows
  <2>2. GetParent(t) /\ ~Return(t)
    BY <1>5, <1>10, ActionAt, Moved
  <2>3. RoleExists(f.call.parent) /\ roles' = roles
    BY <2>2 DEF GetParent, vars
  <2>4. f.at = f.call.parent
    BY <1>2, <1>10 DEF FrameNames
  <2>5. RoleExists(h.call.parent)'
    BY <1>3, <2>3 DEF RoleExists
  <2>6. \E A \in SUBSET (RoleIDs \ {h.call.name}) :
           /\ h.call.parent \in A \cup {h.at}
           /\ \A r \in A : ParentOf(r)' # Nil => ParentOf(r)' \in A \cup {h.at}
    <3>1. {} \in SUBSET (RoleIDs \ {h.call.name}) /\ h.call.parent \in {} \cup {h.at}
      BY <1>3, <2>1, <2>4
    <3> QED
      BY <3>1
  <2> QED
    BY <1>3, <1>6, <2>1, <2>5, <2>6 DEF RoleCopy, Parenting
<1>11. CASE f.pc = "walk"
  <2>1. After(f.call, f.pc) \in {"createRole", "updateRole"}
    BY <1>2, <1>11, StepTable
  <2>2. Walk(t) /\ ~Return(t) /\ roles' = roles
    BY <1>5, <1>11, ActionAt, Moved DEF Walk, vars
  <2>3. f.at # f.call.name /\ f.at \in RoleIDs
    BY <1>2, <1>11, <2>2 DEF Walk, FrameNames
  <2>4. RoleExists(f.call.parent)
    BY <1>11 DEF RoleCopy
  <2>5. PICK A \in SUBSET (RoleIDs \ {f.call.name}) :
           /\ f.call.parent \in A \cup {f.at}
           /\ \A r \in A : ParentOf(r) # Nil => ParentOf(r) \in A \cup {f.at}
    BY <1>11 DEF RoleCopy
  <2>6. PICK B : B = A \cup {f.at}
    OBVIOUS
  <2>7. B \in SUBSET (RoleIDs \ {f.call.name}) /\ f.call.parent \in B
    BY <2>3, <2>5, <2>6
  <2>8. CASE ParentOf(f.at) = Nil
    <3>1. Proceed(t, Done(f))
      BY <2>2, <2>8 DEF Walk
    <3>2. Done(f).pc = After(f.call, f.pc)
      BY <1>2 DEF Done, FrameRecord
    <3>3. h.pc \in {"createRole", "updateRole"}
      BY <2>1, <3>1, <3>2, Moved
    <3>4. ParentClosed(B)
      BY <2>5, <2>6, <2>8 DEF ParentClosed
    <3>5. ParentClosed(B)' /\ RoleExists(h.call.parent)'
      BY <1>3, <2>2, <2>4, <3>4 DEF ParentClosed, ParentOf, RoleExists
    <3>6. ParentChecked(h)'
      BY <1>3, <2>7, <3>5 DEF ParentChecked
    <3> QED
      BY <1>3, <1>6, <3>3, <3>6 DEF RoleCopy, Parenting
  <2>9. CASE ParentOf(f.at) # Nil
    <3>1. PICK p : p = ParentOf(f.at)
      OBVIOUS
    <3>2. PICK g : g = [f EXCEPT !.at = p, !.depth = @ + 1]
      OBVIOUS
    <3>3. Proceed(t, g)
      BY <2>2, <2>9, <3>1, <3>2 DEF Walk
    <3>4. g.pc = "walk" /\ g.at = p
      BY <1>2, <1>11, <3>2 DEF FrameRecord
    <3>5. h.pc = "walk" /\ h.at = p
      BY <3>3, <3>4, Moved
    <3>6. \A r \in B : ParentOf(r) # Nil => ParentOf(r) \in B \cup {p}
      BY <2>5, <2>6, <3>1
    <3>7. \A r \in B : ParentOf(r)' # Nil => ParentOf(r)' \in B \cup {h.at}
      BY <2>2, <3>5, <3>6 DEF ParentOf, RoleExists
    <3>8. RoleExists(h.call.parent)'
      BY <1>3, <2>2, <2>4 DEF RoleExists
    <3>9. \E C \in SUBSET (RoleIDs \ {h.call.name}) :
             /\ h.call.parent \in C \cup {h.at}
             /\ \A r \in C : ParentOf(r)' # Nil => ParentOf(r)' \in C \cup {h.at}
      BY <1>3, <2>7, <3>7
    <3> QED
      BY <1>3, <1>6, <3>5, <3>8, <3>9 DEF RoleCopy, Parenting
  <2> QED
    BY <2>8, <2>9
<1> QED
  BY <1>4, <1>8, <1>9, <1>10, <1>11

\* The steps of DeleteRole.
LEMMA DeletingStep ==
    ASSUME TypeOK, FramesOK, NEW t \in Threads, Step(t), NEW f, f = frame[t], RoleCopy(f),
           NEW h, h = frame'[t], h # Nil, f.call.op = "DeleteRole"
    PROVE  RoleCopy(h)'
<1>1. f # Nil /\ Follows(f, h)
  BY NextFrame
<1>2. /\ f.call \in Call /\ f.pc \in DOMAIN Program[f.call.op] \ {"start"}
      /\ f \in FrameRecord /\ FrameNames(f) /\ FrameLoops(f)
      /\ f.call.op \in RoleOps => f.call.name \in RoleIDs
  BY <1>1, CallFacts
<1>3. h.call = f.call /\ f.call.name \in RoleIDs
  BY <1>1, <1>2 DEF Follows, RoleOps
<1>4. f.pc \in {"getRole", "readHolders", "detachUser", "updateUser", "revokeHolder", "setDirectRoles",
               "listRoles", "detachChild", "invalidateRoleHolders", "dropHolders", "invalidateHolder",
               "deleteRole"}
  BY <1>2 DEF Program
<1>5. ~StoreFails(t)
  BY Moved DEF StoreFails
<1>6. ASSUME h.pc \in {"readHolders", "detachUser", "updateUser", "revokeHolder", "setDirectRoles",
                       "listRoles", "return"}
      PROVE  RoleCopy(h)'
  BY <1>3, <1>6 DEF RoleCopy, Parenting
<1>7. ASSUME h.pc \in {"dropHolders", "invalidateHolder", "deleteRole"}, roles' = roles,
             ChildrenOf(f.call.name) = {}
      PROVE  RoleCopy(h)'
  <2>1. ChildrenOf(h.call.name)' = {}
    BY <1>3, <1>7 DEF ChildrenOf, ParentOf, RoleExists
  <2> QED
    BY <1>3, <1>7, <2>1 DEF RoleCopy, Parenting
<1>8. ASSUME h.pc \in {"detachChild", "invalidateRoleHolders"},
             \A r \in ChildrenOf(f.call.name)' : \E c \in h.todo : c.name = r
      PROVE  RoleCopy(h)'
  <2>1. \A r \in ChildrenOf(h.call.name)' : \E c \in h.todo : c.name = r
    BY <1>3, <1>8 DEF ChildrenOf, ParentOf, RoleExists
  <2> QED
    BY <1>3, <1>8, <2>1 DEF RoleCopy, Parenting
<1>10. CASE f.pc \in {"getRole", "readHolders", "detachUser", "updateUser", "revokeHolder", "setDirectRoles"}
  <2>1. After(f.call, f.pc) \in {"readHolders", "detachUser", "revokeHolder", "setDirectRoles", "listRoles"}
    BY <1>2, <1>10, StepTable
  <2>2. h.pc \in {"readHolders", "detachUser", "updateUser", "revokeHolder", "setDirectRoles", "listRoles"}
    BY <1>1, <1>10, <2>1 DEF Follows
  <2> QED
    BY <1>6, <2>2
<1>11. CASE f.pc = "listRoles"
  <2>1. After(f.call, f.pc) = "detachChild"
    BY <1>2, <1>11, StepTable
  <2>2. ListRoles(t) /\ roles' = roles
    BY <1>5, <1>11, ActionAt, Effects
  <2>3. PICK v : v = {[name |-> c, role |-> [roles[c] EXCEPT !.parent = Nil]] : c \in ChildrenOf(f.call.name)}
    OBVIOUS
  <2>4. Proceed(t, [Done(f) EXCEPT !.todo = v])
    BY <2>2, <2>3 DEF ListRoles
  <2>5. h = [Done(f) EXCEPT !.todo = v]
    BY <2>4, Moved
  <2>6. "todo" \in DOMAIN Done(f)
    BY <1>2 DEF Done, FrameRecord
  <2>7. h.todo = v
    BY <2>5, <2>6
  <2>8. \A r \in ChildrenOf(f.call.name) : \E c \in v : c.name = r
    <3> SUFFICES ASSUME NEW r \in ChildrenOf(f.call.name)
                 PROVE  \E c \in v : c.name = r
      OBVIOUS
    <3>1. [name |-> r, role |-> [roles[r] EXCEPT !.parent = Nil]] \in v
      BY <2>3
    <3> QED
      BY <3>1
  <2>9. h.pc = "detachChild"
    BY <1>1, <1>11, <2>1 DEF Follows
  <2>10. \A r \in ChildrenOf(f.call.name)' : \E c \in h.todo : c.name = r
    BY <2>2, <2>7, <2>8 DEF ChildrenOf, ParentOf, RoleExists
  <2> QED
    BY <1>8, <2>9, <2>10
<1>12. CASE f.pc = "invalidateRoleHolders"
  <2>1. After(f.call, f.pc) = "detachChild"
    BY <1>2, <1>12, StepTable
  <2>2. roles' = roles
    BY <1>12, Effects
  <2>3. h.pc = "detachChild" /\ h.todo = f.todo
    BY <1>1, <1>12, <2>1 DEF Follows, RelistSteps, Loops
  <2>4. \A r \in ChildrenOf(f.call.name) : \E c \in f.todo : c.name = r
    BY <1>12 DEF RoleCopy
  <2>5. \A r \in ChildrenOf(f.call.name)' : \E c \in h.todo : c.name = r
    BY <2>2, <2>3, <2>4 DEF ChildrenOf, ParentOf, RoleExists
  <2> QED
    BY <1>8, <2>3, <2>5
<1>13. CASE f.pc = "detachChild"
  <2>1. After(f.call, f.pc) = "dropHolders"
    BY <1>2, <1>13, StepTable
  <2>2. \A r \in ChildrenOf(f.call.name) : \E c \in f.todo : c.name = r
    BY <1>13 DEF RoleCopy
  <2>3. CASE LoopDone(t)
    <3>1. h.pc = "dropHolders" /\ f.todo = {} /\ UNCHANGED vars
      BY <2>1, <2>3, LoopOver
    <3>2. ChildrenOf(f.call.name) = {} /\ roles' = roles
      BY <2>2, <3>1 DEF vars
    <3> QED
      BY <1>7, <3>1, <3>2
  <2>4. CASE DetachChild(t) /\ roles' = roles
    <3>1. PICK child \in f.todo :
             /\ RoleExists(child.name) /\ roles' = [roles EXCEPT ![child.name] = child.role]
             /\ Proceed(t, [f EXCEPT !.todo = @ \ {child}, !.name = child.name,
                                     !.pc = "invalidateRoleHolders"])
      <4>1. ~Return(t)
        BY Moved
      <4> QED
        BY <2>4, <4>1 DEF DetachChild, StoreUpdateRole
    <3>2. child.name \in RoleIDs /\ child.role.parent = Nil
      BY <1>2, <1>13, <3>1 DEF FrameLoops, DetachedChild, Child
    <3>3. roles[child.name] = child.role
      BY <2>4, <3>1, <3>2 DEF TypeOK, StoreTypeOK
    <3>4. child.name \notin ChildrenOf(f.call.name)
      BY <1>3, <3>1, <3>2, <3>3, NilAssumption DEF ChildrenOf, ParentOf
    <3>5. PICK g : g = [f EXCEPT !.todo = @ \ {child}, !.name = child.name, !.pc = "invalidateRoleHolders"]
      OBVIOUS
    <3>6. g.todo = f.todo \ {child} /\ g.pc = "invalidateRoleHolders"
      BY <1>2, <3>5 DEF FrameRecord
    <3>7. h = g
      BY <3>1, <3>5, <3>6, Moved
    <3>8. \A r \in ChildrenOf(f.call.name) : \E c \in h.todo : c.name = r
      BY <2>2, <3>4, <3>6, <3>7
    <3>9. \A r \in ChildrenOf(f.call.name)' : \E c \in h.todo : c.name = r
      BY <2>4, <3>8 DEF ChildrenOf, ParentOf, RoleExists
    <3> QED
      BY <1>8, <3>6, <3>7, <3>9
  <2>5. CASE roles' # roles
    <3>1. PICK child \in f.todo :
             /\ child.name \in RoleIDs /\ ParentOf(child.name)' = Nil
             /\ \A r \in RoleIDs \ {child.name} : roles'[r] = roles[r]
             /\ h.todo = f.todo \ {child} /\ h.pc = "invalidateRoleHolders"
      BY <1>13, <2>5, ParentsStep
    <3>2. ASSUME NEW r \in ChildrenOf(f.call.name)' PROVE r \in ChildrenOf(f.call.name) /\ r # child.name
      <4>1. r \in RoleIDs /\ ParentOf(r)' = f.call.name
        BY <3>2 DEF ChildrenOf
      <4>2. r # child.name
        BY <1>3, <3>1, <4>1, NilAssumption
      <4>3. ParentOf(r) = f.call.name
        BY <3>1, <4>1, <4>2 DEF ParentOf, RoleExists
      <4> QED
        BY <4>1, <4>2, <4>3 DEF ChildrenOf
    <3>3. \A r \in ChildrenOf(f.call.name)' : \E c \in h.todo : c.name = r
      BY <2>2, <3>1, <3>2
    <3> QED
      BY <1>8, <3>1, <3>3
  <2> QED
    BY <1>5, <1>13, <2>3, <2>4, <2>5, ActionAt
<1>14. CASE f.pc \in {"dropHolders", "invalidateHolder"}
  <2>1. After(f.call, f.pc) \in {"invalidateHolder", "deleteRole"}
    BY <1>2, <1>14, StepTable
  <2>2. h.pc \in {"invalidateHolder", "deleteRole"}
    BY <1>1, <1>14, <2>1 DEF Follows
  <2>3. roles' = roles
    BY <1>14, Effects
  <2>4. ChildrenOf(f.call.name) = {}
    BY <1>14 DEF RoleCopy
  <2> QED
    BY <1>7, <2>2, <2>3, <2>4
<1>15. CASE f.pc = "deleteRole"
  BY <1>5, <1>15, ActionAt, Moved DEF DeleteRoleStep
<1> QED
  BY <1>4, <1>10, <1>11, <1>12, <1>13, <1>14, <1>15

LEMMA RoleCopyStep ==
    ASSUME TypeOK, FramesOK, NEW t \in Threads, Step(t), RoleCopy(frame[t])
    PROVE  frame'[t] # Nil => RoleCopy(frame[t])'
<1>1. PICK f : f = frame[t]
  OBVIOUS
<1>2. PICK h : h = frame'[t]
  OBVIOUS
<1> SUFFICES ASSUME h # Nil PROVE RoleCopy(h)'
  BY <1>2
<1>3. f # Nil /\ Follows(f, h)
  BY <1>1, <1>2, NextFrame
<1>4. /\ f.call \in Call /\ f.pc \in DOMAIN Program[f.call.op] \ {"start"}
      /\ f \in FrameRecord /\ FrameNames(f)
      /\ f.call.op \in RoleOps => f.call.name \in RoleIDs
  BY <1>1, <1>3, CallFacts
<1>5. h.call = f.call
  BY <1>3 DEF Follows
<1>6. CASE f.call.op \in Parenting
  BY <1>1, <1>2, <1>6, ParentingStep
<1>7. CASE f.call.op = "DeleteRole"
  BY <1>1, <1>2, <1>7, DeletingStep
<1>8. CASE f.call.op \in {"GrantPermission", "RevokePermission"}
  <2>1. f.pc \in {"getRole", "updateRole", "invalidateRoleHolders"}
    BY <1>4, <1>8 DEF Program
  <2>2. CASE f.pc = "getRole"
    <3>1. After(f.call, f.pc) = "updateRole"
      BY <1>4, <1>8, <2>2, StepTable
    <3>2. GetRole(t) /\ ~Return(t) /\ roles' = roles
      BY <1>1, <1>2, <2>2, ActionAt, Moved, Effects DEF StoreFails
    <3>3. PICK r : r = EditedRole(f.call, roles[f.name])
      OBVIOUS
    <3>4. Proceed(t, [Done(f) EXCEPT !.role = r]) /\ RoleExists(f.name)
      BY <1>1, <1>8, <3>2, <3>3 DEF GetRole
    <3>5. h = [Done(f) EXCEPT !.role = r]
      BY <1>2, <3>4, Moved
    <3>6. "role" \in DOMAIN Done(f)
      BY <1>4 DEF Done, FrameRecord
    <3>7. h.role = r
      BY <3>5, <3>6
    <3>8. f.name \in RoleIDs /\ h.name = f.name /\ h.pc = "updateRole"
      BY <1>3, <1>4, <1>8, <2>2, <3>1 DEF FrameNames, RoleOps, Follows
    <3>9. r.parent = roles[f.name].parent
      <4>1. roles[f.name] \in Role
        BY <3>4, <3>8 DEF TypeOK, StoreTypeOK, RoleExists
      <4> QED
        BY <1>8, <3>3, <4>1 DEF EditedRole, Role
    <3>10. RoleExists(h.name)' /\ h.role.parent = roles'[h.name].parent
      BY <3>2, <3>4, <3>7, <3>8, <3>9 DEF RoleExists
    <3> QED
      BY <1>5, <1>8, <3>8, <3>10 DEF RoleCopy, Parenting
  <2>3. CASE f.pc \in {"updateRole", "invalidateRoleHolders"}
    <3>1. After(f.call, f.pc) \in {"invalidateRoleHolders", "return"}
      BY <1>4, <1>8, <2>3, StepTable
    <3>2. h.pc \in {"invalidateRoleHolders", "return"}
      BY <1>3, <2>3, <3>1 DEF Follows
    <3> QED
      BY <1>5, <1>8, <3>2 DEF RoleCopy, Parenting
  <2> QED
    BY <2>1, <2>2, <2>3
<1>9. CASE f.call.op \notin Parenting \cup {"DeleteRole", "GrantPermission", "RevokePermission"}
  <2>1. f.pc # "walk" /\ After(f.call, f.pc) # "walk"
    <3>1. h.pc # "walk"
      <4>1. FramesOK'
        BY FramesStep
      <4>2. FrameOK(t, h)
        BY <1>2, <4>1 DEF FramesOK
      <4>3. h.call \in Call /\ h.pc \in DOMAIN Program[h.call.op] \ {"start"}
        BY <4>2 DEF FrameOK, FrameBasic, FrameRecord
      <4> QED
        BY <1>5, <1>9, <4>3, StepTable DEF Parenting
    <3> QED
      BY <1>4, <1>9, StepTable DEF Parenting
  <2>2. h.pc # "walk"
    BY <1>3, <2>1 DEF Follows
  <2> QED
    BY <1>5, <1>9, <2>2 DEF RoleCopy
<1> QED
  BY <1>6, <1>7, <1>8, <1>9

\* With one goroutine that writes, over roles that start without a cycle and
\* without a dangling parent: both stay so in every state, in the middle of
\* calls too and when store calls fail.  The walk of validateInheritance takes
\* several store calls before the write that relies on it; no check in between
\* can disturb what it has seen, and DeleteRole has detached every child before
\* the role goes.
THEOREM OneWriterInheritance ==
    ASSUME NEW w \in Threads, OnlyWriter(w)
    PROVE  CSpec /\ Acyclic /\ NoDanglingParent => [](Acyclic /\ NoDanglingParent)
<1> DEFINE Base == TypeOK /\ FramesOK
           Inv == Acyclic /\ NoDanglingParent /\ (frame[w] # Nil => RoleCopy(frame[w]))
<1>1. CInit /\ Acyclic /\ NoDanglingParent => Inv
  BY DEF CInit
<1>2. Base /\ Inv /\ [CNext]_cvars => Inv'
  <2> SUFFICES ASSUME Base, Inv, [CNext]_cvars PROVE Inv'
    OBVIOUS
  <2>1. ASSUME roles' = roles PROVE Acyclic' /\ NoDanglingParent'
    BY <2>1 DEF Acyclic, NoDanglingParent, ParentOf, RoleExists
  <2>2. ASSUME roles' = roles, frame'[w] = frame[w] PROVE frame'[w] # Nil => RoleCopy(frame[w])'
    BY <2>2 DEF RoleCopy, ParentChecked, ParentClosed, ChildrenOf, ParentOf, RoleExists
  <2>3. CASE Start(w)
    <3>1. roles' = roles
      BY <2>3 DEF Start, vars
    <3> QED
      BY <2>1, <2>3, <3>1, RoleCopyStart
  <2>4. CASE Step(w)
    <3>1. RoleCopy(frame[w])
      BY <2>4, Effects
    <3> QED
      BY <2>4, <3>1, RoleCopyStep, InheritanceStep
  <2>5. ASSUME NEW t \in Threads \ {w}, Start(t) \/ Step(t) PROVE Inv'
    BY <2>1, <2>2, <2>5, ReaderStep
  <2>6. CASE UNCHANGED cvars
    BY <2>1, <2>2, <2>6 DEF cvars, vars
  <2> QED
    BY <2>3, <2>4, <2>5, <2>6 DEF CNext
<1>3. CSafety => []Base
  BY TypesInvariant
<1> QED
  BY <1>1, <1>2, <1>3, PTL DEF CSpec, CSafety

-----------------------------------------------------------------------------
(* directRoles over a store that fails, without overlapping calls.         *)

\* The steps at which a check holds a copy of the user.
ReadSteps == {"resolve", "collect", "publish", "publishDirectRoles"}

\* The copy a check works on is the user in the store.
ReadCopy(f) == f # Nil /\ f.pc \in ReadSteps => UserExists(f.id) /\ f.user = users[f.id]

\* The entry of the user id follows the store within the next steps of f.
EntryWindow(f, id) ==
    f # Nil /\ id = f.id /\ f.pc \in {"grantHolder", "revokeHolder", "setDirectRoles"}

\* An entry is what the store says, but for the user the writer is at.
EntriesBut(f) ==
    \A id \in UserIDs : UserExists(id) /\ directRoles[id] # Nil =>
        directRoles[id] = users[id].roles \/ EntryWindow(f, id)

\* How a call gets to a step in which it holds a copy.
LEMMA ReadFrom ==
    ASSUME NEW c \in Call, NEW s \in DOMAIN Program[c.op] \ {"start"}, After(c, s) \in ReadSteps
    PROVE  (s = "getUser" /\ c.op \in Readers) \/ s \in {"resolve", "collect"}
<1>1. PICK p : p = After(c, s)
  OBVIOUS
<1>2. p \in ReadSteps /\ p \in DOMAIN Program[c.op] \ {"start"}
  BY <1>1, StepTable DEF ReadSteps
<1>3. c.op \in Readers
  BY <1>2, StepTable DEF ReadSteps, Readers
<1>4. s \in {"readCache", "getUser", "resolve", "collect", "publish", "readDirectRoles",
             "publishDirectRoles"}
  BY <1>3 DEF Readers, Program
<1>5. CASE s \in {"readCache", "readDirectRoles"}
  BY <1>1, <1>2, <1>5, StepTable DEF ReadSteps
<1>6. CASE s \in {"publish", "publishDirectRoles"}
  BY <1>1, <1>2, <1>6, StepTable DEF ReadSteps
<1> QED
  BY <1>3, <1>4, <1>5, <1>6

LEMMA ReadCopyStep ==
    ASSUME TypeOK, FramesOK, NEW t \in Threads, Step(t), ReadCopy(frame[t])
    PROVE  ReadCopy(frame[t])'
<1>1. PICK f : f = frame[t]
  OBVIOUS
<1>2. PICK h : h = frame'[t]
  OBVIOUS
<1>3. f # Nil
  BY <1>1, Effects
<1>4. f.call \in Call /\ f.pc \in DOMAIN Program[f.call.op] \ {"start"} /\ f \in FrameRecord
  BY <1>1, <1>3, CallFacts
<1> SUFFICES ASSUME h # Nil, h.pc \in ReadSteps
             PROVE  UserExists(h.id)' /\ h.user = users'[h.id]
  BY <1>2 DEF ReadCopy
<1>5. Follows(f, h)
  BY <1>1, <1>2, NextFrame
<1>6. (f.pc = "getUser" /\ f.call.op \in Readers) \/ f.pc \in {"resolve", "collect"}
  BY <1>4, <1>5, ReadFrom DEF Follows, ReadSteps
<1>7. users' = users
  BY <1>1, <1>6, Effects
<1>8. CASE f.pc = "getUser"
  <2>1. GetUser(t)
    <3>1. GetUser(t) \/ StoreFails(t)
      BY <1>1, <1>8, ActionAt
    <3>2. ~StoreFails(t)
      BY <1>2, Moved DEF StoreFails
    <3> QED
      BY <3>1, <3>2
  <2>2. PICK u : u = users[f.id]
    OBVIOUS
  <2>3. EditedUser(f.call, u) = u
    BY <1>6, <1>8 DEF EditedUser, Readers
  <2>4. ~Return(t)
    BY <1>2, Moved
  <2>5. /\ UserExists(f.id)
        /\ \/ Proceed(t, [[Done(f) EXCEPT !.user = u] EXCEPT !.todo = u.roles, !.seen = u.roles])
           \/ Proceed(t, [Done(f) EXCEPT !.user = u])
    BY <1>1, <2>1, <2>2, <2>3, <2>4 DEF GetUser
  <2>6. \/ h = [[Done(f) EXCEPT !.user = u] EXCEPT !.todo = u.roles, !.seen = u.roles]
        \/ h = [Done(f) EXCEPT !.user = u]
    BY <1>2, <2>5, Moved
  <2>7. "user" \in DOMAIN Done(f)
    BY <1>4 DEF Done, FrameRecord
  <2>8. h.user = u
    BY <2>6, <2>7
  <2>9. h.id = f.id
    BY <1>5, <1>8 DEF Follows, RetargetSteps
  <2> QED
    BY <1>7, <2>2, <2>5, <2>8, <2>9 DEF UserExists
<1>9. CASE f.pc \in {"resolve", "collect"}
  <2>1. h.id = f.id /\ h.user = f.user
    BY <1>5, <1>9 DEF Follows, RetargetSteps, RecopySteps
  <2>2. UserExists(f.id) /\ f.user = users[f.id]
    BY <1>1, <1>3, <1>9 DEF ReadCopy, ReadSteps
  <2> QED
    BY <1>7, <2>1, <2>2 DEF UserExists
<1> QED
  BY <1>6, <1>8, <1>9

\* What a step does to the entry of one user and to its roles in the store.
EntryCleared(id) == directRoles'[id] = Nil
EntryBehind(t, id) ==
    /\ EntryWindow(frame[t], id)' /\ directRoles'[id] = directRoles[id]
    /\ UserExists(id) => UserExists(id)'
EntryKeptToo(t, id) ==
    /\ ~EntryWindow(frame[t], id) /\ directRoles'[id] = directRoles[id]
    /\ \/ users'[id] = users[id]
       \/ UserExists(id) /\ UserExists(id)' /\ users'[id].roles = users[id].roles
EntryWritten(id) == UserExists(id)' /\ directRoles'[id] = users'[id].roles
EntryPublished(t, id) ==
    /\ frame[t].pc \in {"publish", "publishDirectRoles"} /\ id = frame[t].id /\ users' = users
    /\ directRoles[id] = Nil /\ directRoles'[id] = frame[t].user.roles
UserCreated(t, id) ==
    /\ EntryWindow(frame[t], id)' /\ directRoles'[id] = directRoles[id]
    /\ ~UserExists(id) /\ UserExists(id)'
UserDeleted(t, id) ==
    /\ frame[t].pc = "deleteUser" /\ id = frame[t].id
    /\ directRoles'[id] = directRoles[id] /\ ~UserExists(id)'

LEMMA RolesEntryStep ==
    ASSUME TypeOK, FramesOK, NEW t \in Threads, Step(t), Copies(t), NEW id \in UserIDs
    PROVE  \/ EntryCleared(id) \/ EntryBehind(t, id) \/ EntryKeptToo(t, id) \/ EntryWritten(id)
           \/ EntryPublished(t, id) \/ UserCreated(t, id) \/ UserDeleted(t, id)
<1>1. PICK f : f = frame[t]
  OBVIOUS
<1>2. PICK h : h = frame'[t]
  OBVIOUS
<1>3. f # Nil /\ UserCopy(f)
  BY <1>1, Effects DEF Copies
<1>4. /\ f.call \in Call /\ f.pc \in DOMAIN Program[f.call.op] \ {"start"}
      /\ f \in FrameRecord /\ f.user \in User /\ FrameNames(f)
      /\ f.call.op \in UserOps => f.id \in UserIDs
  BY <1>1, <1>3, CallFacts
<1>5. ASSUME StoreFails(t) PROVE users' = users /\ directRoles' = directRoles /\ f.pc \in StoreSteps
  BY <1>1, <1>5 DEF StoreFails, vars, memo
<1>6. ASSUME directRoles'[id] = directRoles[id], users'[id] = users[id], ~EntryWindow(f, id)
      PROVE  EntryKeptToo(t, id)
  BY <1>1, <1>6 DEF EntryKeptToo
<1>7. ASSUME directRoles' = directRoles, users' = users, EntryWindow(f, id) => EntryWindow(h, id)
      PROVE  EntryBehind(t, id) \/ EntryKeptToo(t, id)
  BY <1>1, <1>2, <1>7 DEF EntryBehind, EntryKeptToo, EntryWindow, UserExists
<1>10. CASE f.pc = "createUser"
  <2>1. f.call.op = "CreateUser" /\ After(f.call, f.pc) = "grantHolder"
    BY <1>4, <1>10, StepTable
  <2>2. (CreateUserStep(t) \/ StoreFails(t)) /\ directRoles' = directRoles /\ ~EntryWindow(f, id)
    BY <1>1, <1>10, ActionAt, Effects DEF EntryWindow
  <2>4. CASE users' = users
    BY <1>6, <2>2, <2>4
  <2>5. CASE users' # users
    <3>1. /\ users' = [users EXCEPT ![f.id] = f.user] /\ Proceed(t, Done(f)) /\ ~UserExists(f.id)
      BY <1>1, <1>5, <2>2, <2>5 DEF CreateUserStep, StoreCreateUser
    <3>2. CASE id # f.id
      <4>1. users'[id] = users[id]
        BY <3>1, <3>2 DEF TypeOK, StoreTypeOK
      <4> QED
        BY <1>6, <2>2, <4>1
    <3>3. CASE id = f.id
      <4>1. EntryWindow(h, id)
        BY <1>1, <1>2, <1>3, <2>1, <3>1, <3>3, GoesOn DEF EntryWindow
      <4>2. users'[id] = f.user
        BY <3>1, <3>3 DEF TypeOK, StoreTypeOK
      <4> QED
        BY <1>2, <1>4, <2>2, <3>1, <3>3, <4>1, <4>2, NilAssumption DEF UserCreated, EntryWindow, UserExists
    <3> QED
      BY <3>2, <3>3
  <2> QED
    BY <2>4, <2>5
<1>11. CASE f.pc = "updateUser"
  <2>1. UserExists(f.id) /\ f.user = Rewritten(f.call, users[f.id])
    BY <1>3, <1>11 DEF UserCopy
  <2>2. /\ UpdateUserStep(t) \/ StoreFails(t)
        /\ f.id \in UserIDs /\ directRoles' = directRoles /\ ~EntryWindow(f, id)
    BY <1>1, <1>4, <1>11, ActionAt, Effects DEF FrameNames, EntryWindow
  <2>4. CASE StoreFails(t)
    BY <1>6, <1>5, <2>2, <2>4
  <2>5. CASE UpdateUserStep(t)
    <3>1. users' = [users EXCEPT ![f.id] = f.user] /\ Proceed(t, Done(f))
      BY <1>1, <2>1, <2>5 DEF UpdateUserStep, StoreUpdateUser
    <3>2. users'[f.id] = f.user /\ (id # f.id => users'[id] = users[id])
      BY <2>2, <3>1 DEF TypeOK, StoreTypeOK
    <3>3. users[f.id] \in User
      BY <2>1, <2>2 DEF TypeOK, StoreTypeOK, UserExists
    <3>4. \/ After(f.call, f.pc) \in {"grantHolder", "revokeHolder"}
          \/ /\ f.call.op \in {"GrantDirectPermission", "RevokeDirectPermission"}
             /\ After(f.call, f.pc) = "invalidateUser"
      BY <1>4, <1>11, StepTable
    <3>5. h # Nil /\ h.pc = After(f.call, f.pc) /\ h.id = f.id
      BY <1>1, <1>2, <1>3, <3>1, <3>4, GoesOn
    <3>6. f.call.op \in {"GrantDirectPermission", "RevokeDirectPermission"} =>
            users'[f.id].roles = users[f.id].roles
      BY <1>4, <2>1, <3>2, <3>3, RewrittenRoles
    <3>7. EntryWindow(h, f.id) \/ users'[f.id].roles = users[f.id].roles
      BY <3>4, <3>5, <3>6 DEF EntryWindow
    <3>8. UserExists(f.id)'
      BY <1>4, <3>2, NilAssumption DEF UserExists
    <3>9. CASE id = f.id
      BY <1>1, <1>2, <2>1, <2>2, <3>7, <3>8, <3>9 DEF EntryBehind, EntryKeptToo, EntryWindow
    <3>10. CASE id # f.id
      BY <1>6, <2>2, <3>2, <3>10
    <3> QED
      BY <3>9, <3>10
  <2> QED
    BY <2>2, <2>4, <2>5
<1>12. CASE f.pc = "deleteUser"
  <2>1. (DeleteUserStep(t) \/ StoreFails(t)) /\ directRoles' = directRoles /\ ~EntryWindow(f, id)
    BY <1>1, <1>12, ActionAt, Effects DEF EntryWindow
  <2>2. users'[id] = users[id] \/ (id = f.id /\ users'[id] = Nil)
    BY <1>1, <1>5, <2>1 DEF DeleteUserStep, StoreDeleteUser, TypeOK, StoreTypeOK
  <2> QED
    BY <1>1, <1>6, <1>12, <2>1, <2>2 DEF UserDeleted, UserExists
<1>13. CASE f.pc = "evict"
  <2>1. EvictUser(t) /\ users' = users /\ ~EntryWindow(f, id)
    BY <1>1, <1>13, ActionAt, Effects DEF EntryWindow
  <2>2. directRoles'[id] \in {directRoles[id], Nil}
    BY <1>1, <2>1 DEF EvictUser, SetDirectRoles, DirectEntry, TypeOK
  <2> QED
    BY <1>6, <2>1, <2>2 DEF EntryCleared
<1>14. CASE f.pc = "grantHolder"
  <2>1. After(f.call, f.pc) = "setDirectRoles"
    BY <1>4, <1>14, StepTable
  <2>2. users' = users /\ directRoles' = directRoles
    BY <1>1, <1>14, Effects
  <2>3. h # Nil /\ h.id = f.id /\ h.pc \in {"grantHolder", "setDirectRoles"}
    <3>1. h # Nil
      <4>1. CASE GrantHolderStep(t)
        BY <1>1, <1>2, <4>1, GrantTurn
      <4>2. CASE LoopDone(t)
        <5>1. Proceed(t, [Done(f) EXCEPT !.todo = f.seen])
          BY <1>1, <4>2 DEF LoopDone
        <5>2. PICK g : g = [Done(f) EXCEPT !.todo = f.seen]
          OBVIOUS
        <5>3. FrameBasic(t, Done(f)) /\ Done(f).pc = "setDirectRoles"
          <6>1. FrameOK(t, f)
            BY <1>1, <1>3, InCall
          <6> QED
            BY <2>1, <6>1, DoneBasic
        <5>4. g \in FrameRecord /\ g.pc = "setDirectRoles"
          BY <1>4, <5>2, <5>3 DEF FrameBasic, FrameRecord
        <5>5. h = g
          BY <1>2, <5>1, <5>2, <5>4, Moved
        <5> QED
          BY <5>4, <5>5, FrameAssumption
      <4> QED
        BY <1>1, <1>14, <4>1, <4>2, ActionAt
    <3>2. Follows(f, h)
      BY <1>1, <1>2, <3>1, NextFrame
    <3> QED
      BY <1>14, <2>1, <3>1, <3>2 DEF Follows, RetargetSteps
  <2> QED
    BY <1>7, <2>2, <2>3 DEF EntryWindow
<1>15. CASE f.pc = "revokeHolder"
  <2>1. After(f.call, f.pc) = "setDirectRoles"
    BY <1>4, <1>15, StepTable
  <2>2. users' = users /\ directRoles' = directRoles /\ RevokeHolderStep(t)
    BY <1>1, <1>15, Effects, ActionAt
  <2>3. h # Nil /\ h.id = f.id /\ h.pc = "setDirectRoles"
    BY <1>1, <1>2, <1>3, <2>1, <2>2, GoesOn DEF RevokeHolderStep
  <2> QED
    BY <1>7, <2>2, <2>3 DEF EntryWindow
<1>16. CASE f.pc = "setDirectRoles"
  <2>1. users' = users /\ SetDirectRolesStep(t)
    BY <1>1, <1>16, Effects, ActionAt
  <2>2. directRoles' = [directRoles EXCEPT ![f.id] = DirectEntry(f.user.roles)] /\ users[f.id] = f.user
    BY <1>1, <1>3, <1>16, <2>1 DEF SetDirectRolesStep, SetDirectRoles, UserCopy
  <2>3. directRoles'[id] = IF id = f.id THEN DirectEntry(users[id].roles) ELSE directRoles[id]
    BY <2>2 DEF TypeOK
  <2>4. CASE id = f.id
    BY <1>4, <2>1, <2>2, <2>3, <2>4, NilAssumption DEF EntryCleared, EntryWritten, DirectEntry, UserExists
  <2>5. CASE id # f.id
    BY <1>6, <2>1, <2>3, <2>5 DEF EntryWindow
  <2> QED
    BY <2>4, <2>5
<1>17. CASE f.pc \in {"publish", "publishDirectRoles"}
  <2>1. users' = users /\ directRoles' = MemoizeDirectRoles(f)
    <3>1. CASE f.pc = "publish"
      <4>1. Publish(t)
        BY <1>1, <3>1, ActionAt
      <4> QED
        BY <1>1, <4>1 DEF Publish
    <3>2. CASE f.pc = "publishDirectRoles"
      <4>1. PublishDirectRoles(t)
        BY <1>1, <3>2, ActionAt
      <4> QED
        BY <1>1, <4>1 DEF PublishDirectRoles
    <3> QED
      BY <1>17, <3>1, <3>2
  <2>2. \/ directRoles'[id] = directRoles[id]
        \/ id = f.id /\ directRoles[id] = Nil /\ directRoles'[id] = f.user.roles
    BY <2>1 DEF MemoizeDirectRoles, TypeOK
  <2> QED
    BY <1>1, <1>6, <1>17, <2>1, <2>2 DEF EntryPublished, EntryWindow
<1>18. CASE f.pc \notin {"createUser", "updateUser", "deleteUser", "evict", "grantHolder",
                        "revokeHolder", "setDirectRoles", "publish", "publishDirectRoles"}
  <2>1. users' = users /\ directRoles' = directRoles
    BY <1>1, <1>18, Effects
  <2> QED
    BY <1>6, <1>18, <2>1 DEF EntryWindow
<1> QED
  BY <1>10, <1>11, <1>12, <1>13, <1>14, <1>15, <1>16, <1>17, <1>18

LEMMA EntriesStep ==
    ASSUME TypeOK, FramesOK, NEW t \in Threads, Step(t), Copies(t), EntriesBut(frame[t]),
           ReadCopy(frame[t])
    PROVE  EntriesBut(frame[t])'
<1> SUFFICES ASSUME NEW id \in UserIDs, UserExists(id)', directRoles'[id] # Nil
             PROVE  directRoles'[id] = users'[id].roles \/ EntryWindow(frame[t], id)'
  BY DEF EntriesBut, EntryWindow
<1>1. frame[t] # Nil
  BY Effects
<1>2. UserExists(id) /\ directRoles[id] # Nil =>
        directRoles[id] = users[id].roles \/ EntryWindow(frame[t], id)
  BY DEF EntriesBut
<1>3. CASE EntryKeptToo(t, id)
  BY <1>2, <1>3 DEF EntryKeptToo, UserExists
<1>4. CASE EntryPublished(t, id)
  BY <1>1, <1>4 DEF EntryPublished, ReadCopy, ReadSteps
<1>5. CASE \/ EntryCleared(id) \/ EntryBehind(t, id) \/ EntryWritten(id)
           \/ UserCreated(t, id) \/ UserDeleted(t, id)
  BY <1>5 DEF EntryCleared, EntryBehind, EntryWritten, UserCreated, UserDeleted
<1> QED
  BY <1>3, <1>4, <1>5, RolesEntryStep

\* One goroutine alone, over a store any of whose methods may fail: whatever a
\* call that stopped half way left behind, the entries of directRoles are what
\* the store says.  (With readers this needs a store that does not fail: a
\* DeleteUser that fails leaves a user with roles and no entry, and a reader
\* that read the user long before may fill it.)
THEOREM AloneDirectRoles ==
    ASSUME NEW w, Threads = {w}
    PROVE  CSpec => []DirectRolesExactBetweenWrites
<1> DEFINE Base == TypeOK /\ FramesOK /\ Copies(w) /\ SoundBut(frame[w])
           Inv == EntriesBut(frame[w]) /\ ReadCopy(frame[w])
<1>1. CInit => Inv
  BY DEF CInit, EntriesBut, ReadCopy, DirectEntry, UserExists
<1>2. Base /\ Inv /\ [CNext]_cvars => Inv'
  <2> SUFFICES ASSUME Base, Inv, [CNext]_cvars PROVE Inv'
    OBVIOUS
  <2>1. CASE Start(w)
    <3>1. PICK c \in Menu[w] : Proceed(w, Frame(c)) /\ UNCHANGED vars /\ frame[w] = Nil
      BY <2>1 DEF Start
    <3>2. c \in Call /\ c.op \in Ops
      BY <3>1, MenuAssumption DEF Call
    <3>3. Frame(c).pc = After(c, "start") /\ Frame(c).pc # "return" /\ Frame(c).pc \notin ReadSteps
      BY <3>2, StartTable, OpNames DEF Frame, ReadSteps
    <3>4. frame'[w] = Frame(c)
      BY <3>1, <3>3, Moved
    <3>5. users' = users /\ directRoles' = directRoles
      BY <3>1 DEF vars, memo
    <3>6. ReadCopy(frame[w])'
      BY <3>3, <3>4 DEF ReadCopy
    <3>7. EntriesBut(frame[w])'
      BY <3>1, <3>5 DEF EntriesBut, EntryWindow, UserExists
    <3> QED
      BY <3>6, <3>7
  <2>2. CASE Step(w)
    BY <2>2, EntriesStep, ReadCopyStep
  <2>3. CASE UNCHANGED cvars
    BY <2>3 DEF cvars, vars, memo, EntriesBut, EntryWindow, ReadCopy, UserExists
  <2> QED
    BY <2>1, <2>2, <2>3 DEF CNext
<1>3. Base /\ Inv => DirectRolesExactBetweenWrites
  BY NotWriting DEF DirectRolesExactBetweenWrites, EntriesBut, EntryWindow
<1>4. CSafety => []Base
  BY CopiesInvariant DEF OnlyWriter
<1> QED
  BY <1>1, <1>2, <1>3, <1>4, PTL DEF CSpec, CSafety

-----------------------------------------------------------------------------
(* The memoized sets while one goroutine writes.                           *)

\* The steps between the write to a user and the eviction of its entry.
UserWindow == {"grantHolder", "revokeHolder", "setDirectRoles", "invalidateUser"}

\* The steps of DeleteRole between the first user it detached and the eviction
\* of the users it detached.
DeleteWindow == {"detachUser", "updateUser", "revokeHolder", "setDirectRoles", "listRoles",
                 "detachChild", "invalidateRoleHolders", "dropHolders"}

\* The call in the frame f changed the user id, or a role it holds, and has yet
\* to evict its entry.
Window(f, id) ==
    /\ f # Nil
    /\ \/ f.call.op # "CreateUser" /\ f.call.op # "DeleteRole" /\ f.pc \in UserWindow /\ id = f.id
       \/ f.pc = "invalidateRoleHolders" /\ id \in HoldersOf(f.name)
       \/ f.call.op = "DeleteRole" /\ f.pc \in DeleteWindow /\ id \in f.seen
       \/ f.pc = "invalidateHolder" /\ id \in f.todo

\* The users and children that DeleteRole still has to visit exist, and the
\* users it will evict at the end are those the index named at the start.
Visits(f) ==
    f # Nil /\ f.call.op = "DeleteRole" =>
        /\ f.pc \in {"detachUser", "updateUser", "revokeHolder", "setDirectRoles"} =>
              f.todo \subseteq f.seen /\ \A id \in f.todo : UserExists(id)
        /\ f.pc \in {"updateUser", "revokeHolder", "setDirectRoles"} => f.id \in f.seen
        /\ f.pc \in {"detachChild", "invalidateRoleHolders"} =>
              \A child \in f.todo : RoleExists(child.name)
        /\ f.pc = "dropHolders" => f.todo = f.seen

\* What the roles rs grant, inheritance left aside.
Granted(rs) == UNION {roles[r].permissions : r \in {q \in rs : RoleExists(q)}}

\* The copies in the frame of a check are what the store says, and what it has
\* collected for a user without inherited roles is what those roles grant.
FreshRead(f) ==
    /\ ReadCopy(f)
    /\ f # Nil /\ f.call.op = "Check" =>
          /\ f.pc \in {"readCache", "getUser", "resolve"} => f.perms = {}
          /\ f.pc \in ReadSteps /\ Flat(f.id) =>
                /\ f.pc = "resolve" => f.seen = f.user.roles /\ f.todo \subseteq f.seen
                /\ f.pc = "collect" => /\ f.todo \subseteq f.user.roles
                                       /\ f.perms \cup Granted(f.todo) = Granted(f.user.roles)
                /\ f.pc = "publish" => f.perms = Granted(f.user.roles)
\* Only the last step of DeleteUser makes a user go.
LEMMA UsersStay ==
    ASSUME TypeOK, FramesOK, NEW t \in Threads, Step(t), NEW id \in UserIDs, UserExists(id)
    PROVE  UserExists(id)' \/ (frame[t].pc = "deleteUser" /\ id = frame[t].id)
<1>1. PICK f : f = frame[t]
  OBVIOUS
<1>2. f # Nil
  BY <1>1, Effects
<1>3. f.user \in User
  BY <1>1, <1>2, CallFacts
<1>4. CASE f.pc \in {"createUser", "updateUser"}
  BY <1>1, <1>3, <1>4, ActionAt, NilAssumption
     DEF CreateUserStep, UpdateUserStep, StoreCreateUser, StoreUpdateUser, StoreFails, vars, UserExists,
         TypeOK, StoreTypeOK
<1>5. CASE f.pc = "deleteUser"
  BY <1>1, <1>5, ActionAt
     DEF DeleteUserStep, StoreDeleteUser, StoreFails, vars, UserExists, TypeOK, StoreTypeOK
<1>6. CASE f.pc \notin {"createUser", "updateUser", "deleteUser"}
  BY <1>1, <1>6, Effects DEF UserExists
<1> QED
  BY <1>1, <1>4, <1>5, <1>6, ActionAt

\* A turn of DeleteRole's loop over the children.
LEMMA ChildTurn ==
    ASSUME FramesOK, NEW t \in Threads, DetachChild(t), NEW f, f = frame[t],
           NEW h, h = frame'[t], \A child \in f.todo : RoleExists(child.name)
    PROVE  \E child \in f.todo \cap DetachedChild :
              /\ roles' = [roles EXCEPT ![child.name] = child.role]
              /\ h # Nil /\ h.pc = "invalidateRoleHolders" /\ h.name = child.name
              /\ h.todo = f.todo \ {child} /\ h.call = f.call /\ h.seen = f.seen
<1>1. f # Nil /\ f.pc = "detachChild"
  BY DEF DetachChild, At
<1>2. /\ f.call \in Call /\ f.pc \in DOMAIN Program[f.call.op] \ {"start"} /\ f \in FrameRecord
      /\ FrameLoops(f)
  BY <1>1, CallFacts
<1>3. f.call.op = "DeleteRole"
  BY <1>1, <1>2, StepTable
<1>4. PICK child \in f.todo :
         /\ StoreUpdateRole(child.name, child.role)
         /\ Proceed(t, [f EXCEPT !.todo = @ \ {child}, !.name = child.name, !.pc = "invalidateRoleHolders"])
  BY <1>1 DEF DetachChild
<1>5. child \in DetachedChild
  BY <1>1, <1>2, <1>3 DEF FrameLoops
<1>6. PICK g : g = [f EXCEPT !.todo = @ \ {child}, !.name = child.name, !.pc = "invalidateRoleHolders"]
  OBVIOUS
<1>7. /\ g.pc = "invalidateRoleHolders" /\ g.name = child.name
      /\ g.todo = f.todo \ {child} /\ g.call = f.call /\ g.seen = f.seen
  BY <1>2, <1>6 DEF FrameRecord
<1>8. g \in FrameRecord
  <2>1. "invalidateRoleHolders" \in UNION {DOMAIN Program[op] : op \in Ops}
    BY <1>2, <1>3, PcType DEF Program
  <2>2. child.name \in RoleIDs
    BY <1>5 DEF DetachedChild, Child
  <2> QED
    BY <1>2, <1>6, <2>1, <2>2 DEF FrameRecord
<1>9. h = g
  BY <1>4, <1>6, <1>7, Moved
<1>10. roles' = [roles EXCEPT ![child.name] = child.role]
  BY <1>4 DEF StoreUpdateRole
<1> QED
  BY <1>5, <1>7, <1>8, <1>9, <1>10, FrameAssumption

LEMMA VisitsStep ==
    ASSUME TypeOK, FramesOK, NEW t \in Threads, Step(t), SoundBut(frame[t]), Visits(frame[t])
    PROVE  Visits(frame[t])'
<1>1. PICK f : f = frame[t]
  OBVIOUS
<1>2. PICK h : h = frame'[t]
  OBVIOUS
<1> SUFFICES ASSUME h # Nil, h.call.op = "DeleteRole" PROVE Visits(h)'
  BY <1>2 DEF Visits
<1>3. f # Nil /\ Follows(f, h)
  BY <1>1, <1>2, NextFrame
<1>4. f.call.op = "DeleteRole" /\ h.call = f.call
  BY <1>3 DEF Follows
<1>5. /\ f.call \in Call /\ f.pc \in DOMAIN Program[f.call.op] \ {"start"}
      /\ f \in FrameRecord /\ f.user \in User /\ FrameNames(f) /\ FrameLoops(f)
      /\ f.call.name \in RoleIDs
  BY <1>1, <1>3, <1>4, CallFacts DEF RoleOps
<1>6. ~StoreFails(t)
  BY <1>2, Moved DEF StoreFails
<1>7. \A id \in UserIDs : UserExists(id) => UserExists(id)'
  <2>1. f.pc # "deleteUser"
    BY <1>4, <1>5, StepTable
  <2> QED
    BY <1>1, <2>1, UsersStay
<1>8. ASSUME h.pc \notin {"detachUser", "updateUser", "revokeHolder", "setDirectRoles", "detachChild",
                          "invalidateRoleHolders", "dropHolders"}
      PROVE  Visits(h)'
  BY <1>8 DEF Visits
<1>9. ASSUME h.pc \in {"detachUser", "updateUser", "revokeHolder", "setDirectRoles"},
             h.todo \subseteq h.seen /\ \A id \in h.todo : UserExists(id)',
             h.pc # "detachUser" => h.id \in h.seen
      PROVE  Visits(h)'
  BY <1>9 DEF Visits
<1>10. CASE f.pc = "getRole"
  BY <1>3, <1>4, <1>5, <1>8, <1>10, StepTable DEF Follows
<1>11. CASE f.pc = "readHolders"
  <2>1. ReadHolders(t) /\ users' = users
    BY <1>1, <1>11, ActionAt, Effects
  <2>2. PICK holders : holders = roleHolders[f.name]
    OBVIOUS
  <2>3. h = [Done(f) EXCEPT !.todo = holders, !.seen = holders]
    BY <1>1, <1>2, <2>1, <2>2, Moved DEF ReadHolders
  <2>4. h.todo = holders /\ h.seen = holders
    BY <1>5, <2>3 DEF Done, FrameRecord
  <2>5. h.pc = "detachUser"
    BY <1>3, <1>4, <1>5, <1>11, StepTable DEF Follows
  <2>6. f.name \in RoleIDs
    BY <1>4, <1>5 DEF FrameNames, RoleOps
  <2>7. holders \subseteq HoldersOf(f.name)
    BY <1>1, <1>11, <2>2, <2>6 DEF SoundBut
  <2>8. \A id \in holders : UserExists(id)'
    BY <1>7, <2>7 DEF HoldersOf
  <2> QED
    BY <1>9, <2>4, <2>5, <2>8
<1>12. CASE f.pc = "detachUser"
  <2>1. f.todo \subseteq f.seen /\ (\A id \in f.todo : UserExists(id)) /\ h.seen = f.seen
    BY <1>1, <1>3, <1>4, <1>12 DEF Visits, Follows
  <2>2. CASE DetachUser(t)
    <3>1. PICK id \in f.todo \cap UserIDs :
             /\ h.id = id /\ h.todo = f.todo \ {id} /\ h.pc \in {"updateUser", "revokeHolder"}
      BY <1>1, <1>2, <2>2, DetachTurn
    <3>2. f.todo \subseteq UserIDs
      BY <1>4, <1>5, <1>12 DEF FrameLoops
    <3>3. \A x \in h.todo : UserExists(x)'
      BY <1>7, <2>1, <3>1, <3>2
    <3> QED
      BY <1>9, <2>1, <3>1, <3>3
  <2>3. CASE LoopDone(t)
    <3>1. h.pc = "listRoles"
      BY <1>1, <1>2, <1>4, <1>5, <1>12, <2>3, LoopOver, StepTable
    <3> QED
      BY <1>8, <3>1
  <2> QED
    BY <1>1, <1>6, <1>12, <2>2, <2>3, ActionAt
<1>13. CASE f.pc \in {"updateUser", "revokeHolder", "setDirectRoles"}
  <2>1. /\ f.todo \subseteq f.seen /\ (\A id \in f.todo : UserExists(id)) /\ f.id \in f.seen
        /\ f.todo \subseteq UserIDs
    BY <1>1, <1>3, <1>4, <1>5, <1>13 DEF Visits, FrameLoops
  <2>2. h.todo = f.todo /\ h.seen = f.seen /\ h.id = f.id
    BY <1>3, <1>13 DEF Follows, RelistSteps, RetargetSteps, Loops
  <2>3. h.pc \in {"revokeHolder", "setDirectRoles", "detachUser"}
    <3>1. h.pc = After(f.call, f.pc)
      BY <1>3, <1>13 DEF Follows
    <3>2. CASE f.pc = "updateUser"
      BY <1>4, <1>5, <3>1, <3>2, StepTable
    <3>3. CASE f.pc = "revokeHolder"
      BY <1>4, <1>5, <3>1, <3>3, StepTable
    <3>4. CASE f.pc = "setDirectRoles"
      BY <1>4, <1>5, <3>1, <3>4, StepTable
    <3> QED
      BY <1>13, <3>2, <3>3, <3>4
  <2>4. \A id \in h.todo : UserExists(id)'
    BY <1>7, <2>1, <2>2
  <2> QED
    BY <1>9, <2>1, <2>2, <2>3, <2>4
<1>14. CASE f.pc = "listRoles"
  <2>1. ListRoles(t) /\ roles' = roles
    BY <1>1, <1>6, <1>14, ActionAt, Effects
  <2>2. PICK found : found = {[name |-> c, role |-> [roles[c] EXCEPT !.parent = Nil]] : c \in ChildrenOf(f.call.name)}
    OBVIOUS
  <2>3. h = [Done(f) EXCEPT !.todo = found]
    BY <1>1, <1>2, <2>1, <2>2, Moved DEF ListRoles
  <2>4. h.todo = found
    BY <1>5, <2>3 DEF Done, FrameRecord
  <2>5. h.pc = "detachChild"
    BY <1>3, <1>4, <1>5, <1>14, StepTable DEF Follows
  <2>6. \A c \in ChildrenOf(f.call.name) : RoleExists(c)
    BY <1>5, NilAssumption DEF ChildrenOf, ParentOf
  <2>7. \A child \in h.todo : RoleExists(child.name)'
    BY <2>1, <2>2, <2>4, <2>6 DEF RoleExists
  <2> QED
    BY <2>5, <2>7 DEF Visits
<1>15. CASE f.pc = "detachChild"
  <2>1. f.todo \subseteq DetachedChild /\ \A child \in f.todo : RoleExists(child.name)
    BY <1>1, <1>3, <1>4, <1>5, <1>15 DEF Visits, FrameLoops
  <2>2. CASE DetachChild(t)
    <3>1. h.pc = "invalidateRoleHolders" /\ h.todo \subseteq f.todo
      BY <1>1, <1>2, <2>1, <2>2, ChildTurn
    <3>2. \A child \in h.todo : child.name \in RoleIDs /\ RoleExists(child.name)
      BY <2>1, <3>1 DEF DetachedChild, Child
    <3>3. \A child \in h.todo : RoleExists(child.name)'
      BY <1>1, <1>15, <3>2, RolesStay
    <3> QED
      BY <3>1, <3>3 DEF Visits
  <2>3. CASE LoopDone(t)
    <3>1. h.pc = "dropHolders" /\ h.todo = f.seen
      BY <1>1, <1>2, <1>4, <1>5, <1>15, <2>3, LoopOver, StepTable
    <3>2. h.seen = f.seen
      BY <1>3, <1>15 DEF Follows
    <3> QED
      BY <3>1, <3>2 DEF Visits
  <2> QED
    BY <1>1, <1>6, <1>15, <2>2, <2>3, ActionAt
<1>16. CASE f.pc = "invalidateRoleHolders"
  <2>1. \A child \in f.todo : RoleExists(child.name)
    BY <1>1, <1>3, <1>4, <1>16 DEF Visits
  <2>2. h.todo = f.todo /\ roles' = roles
    BY <1>1, <1>3, <1>16, Effects DEF Follows, RelistSteps, Loops
  <2>3. h.pc = "detachChild"
    BY <1>3, <1>4, <1>5, <1>16, StepTable DEF Follows
  <2>4. \A child \in h.todo : RoleExists(child.name)'
    BY <2>1, <2>2 DEF RoleExists
  <2> QED
    BY <2>3, <2>4 DEF Visits
<1>17. CASE f.pc = "dropHolders"
  <2>1. h.pc = "invalidateHolder"
    BY <1>3, <1>4, <1>5, <1>17, StepTable DEF Follows
  <2> QED
    BY <1>8, <2>1
<1>18. CASE f.pc = "invalidateHolder"
  <2>1. h.pc \in {"invalidateHolder", "deleteRole"}
    <3>1. After(f.call, f.pc) = "deleteRole"
      BY <1>4, <1>5, <1>18, StepTable
    <3> QED
      BY <1>3, <1>18, <3>1 DEF Follows
  <2> QED
    BY <1>8, <2>1
<1>19. CASE f.pc = "deleteRole"
  <2>1. h.pc = "return"
    BY <1>3, <1>4, <1>5, <1>19, StepTable DEF Follows
  <2> QED
    BY <1>8, <2>1
<1>20. f.pc \in {"getRole", "readHolders", "detachUser", "updateUser", "revokeHolder", "setDirectRoles",
                 "listRoles", "detachChild", "invalidateRoleHolders", "dropHolders", "invalidateHolder",
                 "deleteRole"}
  BY <1>4, <1>5 DEF Program
<1> QED
  BY <1>10, <1>11, <1>12, <1>13, <1>14, <1>15, <1>16, <1>17, <1>18, <1>19, <1>20

\* The remaining critical sections.
LEMMA CriticalAt ==
    ASSUME NEW t \in Threads, Step(t)
    PROVE  LET p == frame[t].pc
           IN  /\ p = "invalidateUser" => InvalidateUserStep(t)
               /\ p = "invalidateRoleHolders" => InvalidateRoleHoldersStep(t)
               /\ p = "resolve" => Resolve(t) \/ LoopDone(t) \/ StoreFails(t)
               /\ p = "collect" => Collect(t) \/ LoopDone(t) \/ StoreFails(t)
               /\ p = "readCache" => ReadCache(t)
               /\ p = "readDirectRoles" => ReadDirectRoles(t)
  BY DEF Step, At, LoopDone, StoreFails, GetUser, GetRole, GetParent, Walk, CreateUserStep,
         UpdateUserStep, DeleteUserStep, CreateRoleStep, UpdateRoleStep, DeleteRoleStep,
         ReadHolders, DetachUser, ListRoles, DetachChild, DropHolders, InvalidateHolder,
         EvictUser, GrantHolderStep, RevokeHolderStep, SetDirectRolesStep, InvalidateUserStep,
         InvalidateRoleHoldersStep, ReadCache, Resolve, Collect, Publish, ReadDirectRoles,
         PublishDirectRoles, Loops, StoreSteps

\* The steps at which a writing call is committed to go on.
CommittedSteps == UserWindow \cup DeleteWindow \cup {"readHolders", "invalidateHolder"}

\* Over a store that does not fail a call does not return from these steps
\* before its program ends.
LEMMA KeepsGoing ==
    ASSUME TypeOK, FramesOK, NEW t \in Threads, Step(t), ~Flaky, Copies(t), Visits(frame[t]),
           frame[t].pc \in CommittedSteps, After(frame[t].call, frame[t].pc) # "return"
    PROVE  frame'[t] # Nil
<1>1. PICK f : f = frame[t]
  OBVIOUS
<1>2. PICK h : h = frame'[t]
  OBVIOUS
<1> SUFFICES h # Nil
  BY <1>2
<1>3. f # Nil /\ ~StoreFails(t) /\ UserCopy(f)
  BY <1>1, Effects DEF StoreFails, Copies
<1>4. /\ f.call \in Call /\ f.pc \in DOMAIN Program[f.call.op] \ {"start"}
      /\ f \in FrameRecord /\ f.user \in User /\ FrameNames(f) /\ FrameLoops(f)
  BY <1>1, <1>3, CallFacts
<1>5. FrameOK(t, f)
  BY <1>1, <1>3, InCall
<1>6. ASSUME Proceed(t, Done(f)) PROVE h # Nil
  BY <1>1, <1>2, <1>3, <1>6, GoesOn
<1>7. ASSUME NEW v \in SUBSET (UserIDs \cup RoleIDs \cup Child), NEW x \in SUBSET (UserIDs \cup RoleIDs),
             \/ Proceed(t, [Done(f) EXCEPT !.todo = v])
             \/ Proceed(t, [Done(f) EXCEPT !.todo = v, !.seen = x])
      PROVE  h # Nil
  <2>1. Done(f) \in FrameRecord /\ Done(f).pc # "return"
    BY <1>1, <1>5, DoneBasic DEF FrameBasic
  <2>2. PICK g : /\ Proceed(t, g)
                 /\ \/ g = [Done(f) EXCEPT !.todo = v] \/ g = [Done(f) EXCEPT !.todo = v, !.seen = x]
    BY <1>7
  <2>3. g \in FrameRecord /\ g.pc # "return"
    BY <2>1, <2>2 DEF FrameRecord
  <2>4. h = g
    BY <1>2, <2>2, <2>3, Moved
  <2> QED
    BY <2>3, <2>4, FrameAssumption
<1>8. CASE LoopDone(t)
  <2>1. Proceed(t, [Done(f) EXCEPT !.todo = f.seen])
    BY <1>1, <1>8 DEF LoopDone
  <2>2. f.seen \subseteq UserIDs \cup RoleIDs
    BY <1>4 DEF FrameRecord
  <2> QED
    BY <1>7, <2>1, <2>2
<1>9. CASE GrantHolderStep(t)
  BY <1>1, <1>2, <1>9, GrantTurn
<1>10. CASE f.pc = "detachUser" /\ DetachUser(t)
  <2>1. f.call.op = "DeleteRole"
    BY <1>4, <1>10, StepTable
  <2>2. \A x \in f.todo : UserExists(x) /\ x \in UserIDs
    BY <1>1, <1>3, <1>4, <1>10, <2>1 DEF Visits, FrameLoops
  <2>3. PICK x \in f.todo :
           LET kept == [users[x] EXCEPT !.roles = @ \ {f.call.name}]
           IN  Proceed(t, [f EXCEPT !.todo = @ \ {x}, !.id = x, !.user = kept,
                              !.pc = IF kept # users[x] THEN "updateUser" ELSE "revokeHolder"])
    BY <1>1, <1>10, <2>2 DEF DetachUser
  <2>4. PICK kept : kept = [users[x] EXCEPT !.roles = @ \ {f.call.name}]
    OBVIOUS
  <2>5. PICK p : p = IF kept # users[x] THEN "updateUser" ELSE "revokeHolder"
    OBVIOUS
  <2>6. PICK g : g = [f EXCEPT !.todo = @ \ {x}, !.id = x, !.user = kept, !.pc = p]
    OBVIOUS
  <2>7. g.pc = p
    BY <1>4, <2>6 DEF FrameRecord
  <2>8. h = g
    <3>1. Proceed(t, g)
      BY <2>3, <2>4, <2>5, <2>6, Zenon
    <3>2. g.pc # "return"
      BY <2>5, <2>7
    <3> QED
      BY <1>2, <3>1, <3>2, Moved
  <2>9. kept \in User
    <3>1. users[x] \in User
      BY <2>2 DEF TypeOK, StoreTypeOK, UserExists
    <3> QED
      BY <2>4, <3>1 DEF User
  <2>10. p \in UNION {DOMAIN Program[op] : op \in Ops}
    <3>1. p \in DOMAIN Program[f.call.op] \ {"start"}
      BY <2>1, <2>5 DEF Program
    <3> QED
      BY <1>4, <3>1, PcType
  <2>11. g \in FrameRecord
    BY <1>4, <2>2, <2>6, <2>9, <2>10 DEF FrameRecord
  <2> QED
    BY <2>8, <2>11, FrameAssumption
<1>11. CASE f.pc = "detachChild" /\ DetachChild(t)
  <2>1. \A child \in f.todo : RoleExists(child.name)
    BY <1>1, <1>3, <1>4, <1>11, StepTable DEF Visits
  <2> QED
    BY <1>1, <1>2, <1>11, <2>1, ChildTurn
<1>12. CASE f.pc = "invalidateHolder" /\ InvalidateHolder(t)
  <2>1. PICK x \in f.todo : Proceed(t, [f EXCEPT !.todo = @ \ {x}])
    BY <1>1, <1>12 DEF InvalidateHolder
  <2>2. PICK g : g = [f EXCEPT !.todo = @ \ {x}]
    OBVIOUS
  <2>3. g \in FrameRecord /\ g.pc # "return"
    BY <1>4, <1>12, <2>2 DEF FrameRecord
  <2>4. Proceed(t, g)
    BY <2>1, <2>2, Zenon
  <2>5. h = g
    BY <1>2, <2>3, <2>4, Moved
  <2> QED
    BY <2>3, <2>5, FrameAssumption
<1>13. CASE f.pc = "readHolders"
  <2>1. ReadHolders(t)
    BY <1>1, <1>13, ActionAt
  <2>2. PICK v : v = roleHolders[f.name]
    OBVIOUS
  <2>3. Proceed(t, [Done(f) EXCEPT !.todo = v, !.seen = v])
    BY <1>1, <2>1, <2>2 DEF ReadHolders
  <2>4. f.name \in RoleIDs
    BY <1>4, <1>13, StepTable DEF FrameNames, RoleOps
  <2>5. v \subseteq UserIDs
    BY <2>2, <2>4 DEF TypeOK
  <2> QED
    BY <1>7, <2>3, <2>5
<1>14. CASE f.pc = "listRoles"
  <2>1. ListRoles(t)
    BY <1>1, <1>3, <1>14, ActionAt
  <2>2. PICK v : v = {[name |-> c, role |-> [roles[c] EXCEPT !.parent = Nil]] : c \in ChildrenOf(f.call.name)}
    OBVIOUS
  <2>3. Proceed(t, [Done(f) EXCEPT !.todo = v])
    BY <1>1, <2>1, <2>2 DEF ListRoles
  <2>4. f.call.name \in RoleIDs
    BY <1>1, <1>3, <1>4, <1>14, StepTable, CallFacts DEF RoleOps
  <2>5. \A c \in ChildrenOf(f.call.name) : c \in RoleIDs /\ roles[c] \in Role
    BY <2>4, NilAssumption DEF ChildrenOf, ParentOf, RoleExists, TypeOK, StoreTypeOK
  <2>6. \A c \in ChildrenOf(f.call.name) : [roles[c] EXCEPT !.parent = Nil] \in Role
    BY <2>5 DEF Role
  <2>7. v \subseteq Child
    BY <2>2, <2>5, <2>6 DEF Child
  <2> QED
    BY <1>7, <2>3, <2>7
<1>15. CASE f.pc = "updateUser"
  <2>1. UpdateUserStep(t) /\ UserExists(f.id)
    BY <1>1, <1>3, <1>15, ActionAt DEF UserCopy
  <2>2. Proceed(t, Done(f))
    BY <1>1, <2>1 DEF UpdateUserStep
  <2> QED
    BY <1>6, <2>2
<1>16. CASE f.pc \in {"revokeHolder", "setDirectRoles", "invalidateUser", "invalidateRoleHolders", "dropHolders"}
  <2>1. \/ RevokeHolderStep(t) \/ SetDirectRolesStep(t) \/ InvalidateUserStep(t)
        \/ InvalidateRoleHoldersStep(t) \/ DropHolders(t)
    <3>1. CASE f.pc \in {"invalidateUser", "invalidateRoleHolders"}
      BY <1>1, <3>1, CriticalAt
    <3> QED
      BY <1>1, <1>16, <3>1, ActionAt
  <2>2. Proceed(t, Done(f))
    BY <1>1, <2>1 DEF RevokeHolderStep, SetDirectRolesStep, InvalidateUserStep,
                      InvalidateRoleHoldersStep, DropHolders
  <2> QED
    BY <1>6, <2>2
<1>17. CASE f.pc \in {"grantHolder", "detachUser", "detachChild", "invalidateHolder"}
  BY <1>1, <1>2, <1>3, <1>8, <1>9, <1>10, <1>11, <1>12, <1>17, ActionAt
<1> QED
  BY <1>1, <1>2, <1>13, <1>14, <1>15, <1>16, <1>17 DEF CommittedSteps, UserWindow, DeleteWindow

\* A user whose entry is still to be evicted stays one, until it is evicted.
LEMMA WindowGoesOn ==
    ASSUME TypeOK, FramesOK, NEW t \in Threads, Step(t), ~Flaky, Copies(t), Visits(frame[t]),
           NEW id, Window(frame[t], id),
           frame[t].pc \notin {"invalidateUser", "invalidateHolder"},
           frame[t].pc = "invalidateRoleHolders" =>
              frame[t].call.op = "DeleteRole" /\ id \in frame[t].seen
    PROVE  Window(frame[t], id)'
<1>1. PICK f : f = frame[t]
  OBVIOUS
<1>2. PICK h : h = frame'[t]
  OBVIOUS
<1>3. f # Nil
  BY <1>1, Effects
<1>4. f.call \in Call /\ f.pc \in DOMAIN Program[f.call.op] \ {"start"}
  BY <1>1, <1>3, CallFacts
<1>5. h = Nil \/ Follows(f, h)
  BY <1>1, <1>2, NextFrame
<1>6. CASE f.call.op # "CreateUser" /\ f.call.op # "DeleteRole" /\ f.pc \in UserWindow /\ id = f.id
  <2>1. After(f.call, f.pc) \in UserWindow
    <3>1. CASE f.pc = "grantHolder"
      BY <1>4, <3>1, StepTable DEF UserWindow
    <3>2. CASE f.pc = "revokeHolder"
      BY <1>4, <3>2, StepTable DEF UserWindow
    <3>3. CASE f.pc = "setDirectRoles"
      BY <1>4, <1>6, <3>3, StepTable DEF UserWindow
    <3> QED
      BY <1>1, <1>6, <3>1, <3>2, <3>3 DEF UserWindow
  <2>2. h # Nil
    BY <1>1, <1>2, <1>6, <2>1, KeepsGoing DEF CommittedSteps, UserWindow
  <2>3. h.pc \in UserWindow /\ h.id = f.id /\ h.call = f.call
    BY <1>5, <1>6, <2>1, <2>2 DEF Follows, UserWindow, RetargetSteps
  <2> QED
    BY <1>2, <1>6, <2>2, <2>3 DEF Window
<1>7. CASE f.call.op = "DeleteRole" /\ f.pc \in DeleteWindow /\ id \in f.seen
  <2>1. After(f.call, f.pc) \in DeleteWindow \cup {"invalidateHolder"}
    <3>1. CASE f.pc = "detachUser"
      BY <1>4, <3>1, StepTable DEF DeleteWindow
    <3>2. CASE f.pc = "updateUser"
      BY <1>4, <1>7, <3>2, StepTable DEF DeleteWindow
    <3>3. CASE f.pc = "revokeHolder"
      BY <1>4, <3>3, StepTable DEF DeleteWindow
    <3>4. CASE f.pc = "setDirectRoles"
      BY <1>4, <1>7, <3>4, StepTable DEF DeleteWindow
    <3>5. CASE f.pc = "listRoles"
      BY <1>4, <3>5, StepTable DEF DeleteWindow
    <3>6. CASE f.pc = "detachChild"
      BY <1>4, <3>6, StepTable DEF DeleteWindow
    <3>7. CASE f.pc = "invalidateRoleHolders"
      BY <1>4, <1>7, <3>7, StepTable DEF DeleteWindow
    <3>8. CASE f.pc = "dropHolders"
      BY <1>4, <3>8, StepTable DEF DeleteWindow
    <3> QED
      BY <1>7, <3>1, <3>2, <3>3, <3>4, <3>5, <3>6, <3>7, <3>8 DEF DeleteWindow
  <2>2. h # Nil
    BY <1>1, <1>2, <1>7, <2>1, KeepsGoing DEF CommittedSteps, DeleteWindow
  <2>3. h.call = f.call /\ h.seen = f.seen
    BY <1>5, <1>7, <2>2 DEF Follows, DeleteWindow
  <2>4. CASE f.pc = "dropHolders"
    <3>1. h.pc = "invalidateHolder" /\ h.todo = f.todo
      BY <1>4, <1>5, <2>2, <2>4, StepTable DEF Follows, RelistSteps, Loops
    <3>2. f.todo = f.seen
      BY <1>1, <1>3, <1>7, <2>4 DEF Visits
    <3> QED
      BY <1>2, <1>7, <2>2, <3>1, <3>2 DEF Window
  <2>5. CASE f.pc # "dropHolders"
    <3>1. After(f.call, f.pc) # "invalidateHolder"
      <4>1. After(f.call, f.pc) = "invalidateHolder" => f.pc = "dropHolders"
        BY <1>4, <1>7 DEF Program, After
      <4> QED
        BY <2>5, <4>1
    <3>2. h.pc \in DeleteWindow
      BY <1>5, <1>7, <2>1, <2>2, <3>1 DEF Follows, DeleteWindow
    <3> QED
      BY <1>2, <1>7, <2>2, <2>3, <3>2 DEF Window
  <2> QED
    BY <2>4, <2>5
<1> QED
  BY <1>1, <1>3, <1>6, <1>7 DEF Window, DeleteWindow

\* What a step does to the memoized set of one user and to what it is made of.
SameSources(id) ==
    /\ cache'[id] = cache[id] /\ users'[id] = users[id]
    /\ UserExists(id) => \A r \in users[id].roles : roles'[r] = roles[r]
SetEvicted(id) == cache'[id] = Nil
SetBehind(t, id) ==
    /\ Window(frame[t], id)' /\ cache'[id] = cache[id]
    /\ UserExists(id) => UserExists(id)'
SetSpared(t, id) == ~Window(frame[t], id) /\ SameSources(id)
RoleCreated(t, id) ==
    /\ ~Window(frame[t], id) /\ cache' = cache /\ users' = users
    /\ \A r \in RoleIDs : RoleExists(r) => roles'[r] = roles[r]
SetUnused(id) == ~UserExists(id) /\ cache' = cache
SetOrphaned(t, id) == frame[t].pc = "deleteUser" /\ id = frame[t].id /\ cache' = cache
SetPublished(t, id) ==
    /\ frame[t].pc = "publish" /\ id = frame[t].id /\ users' = users /\ roles' = roles
    /\ cache[id] = Nil /\ cache'[id] = frame[t].perms \cup frame[t].user.direct

LEMMA CacheEntryStep ==
    ASSUME TypeOK, FramesOK, NEW t \in Threads, Step(t), ~Flaky, Copies(t), Indexed(t),
           Visits(frame[t]), NEW id \in UserIDs
    PROVE  \/ SetEvicted(id) \/ SetBehind(t, id) \/ SetSpared(t, id) \/ RoleCreated(t, id)
           \/ SetUnused(id) \/ SetOrphaned(t, id) \/ SetPublished(t, id)
<1>1. PICK f : f = frame[t]
  OBVIOUS
<1>2. PICK h : h = frame'[t]
  OBVIOUS
<1>3. f # Nil /\ ~StoreFails(t) /\ UserCopy(f) /\ CompleteBut(f) /\ DetachedBut(f) /\ Visits(f)
  BY <1>1, Effects DEF StoreFails, Copies, Indexed
<1>4. /\ f.call \in Call /\ f.pc \in DOMAIN Program[f.call.op] \ {"start"}
      /\ f \in FrameRecord /\ f.user \in User /\ FrameNames(f) /\ FrameLoops(f)
      /\ f.call.op \in UserOps => f.id \in UserIDs
      /\ f.call.op \in RoleOps => f.call.name \in RoleIDs /\ f.name \in RoleIDs
  BY <1>1, <1>3, CallFacts DEF FrameNames
<1>5. h = Nil \/ Follows(f, h)
  BY <1>1, <1>2, NextFrame
\* Outside the steps that evict, an entry in the window stays in it.
<1>6. ASSUME f.pc \notin {"invalidateUser", "invalidateHolder", "invalidateRoleHolders"},
             cache'[id] = cache[id], f.pc # "deleteUser", Window(f, id)
      PROVE  SetBehind(t, id)
  BY <1>1, <1>6, WindowGoesOn, UsersStay DEF SetBehind
<1>7. ASSUME ~Window(f, id), SameSources(id) PROVE SetSpared(t, id)
  BY <1>1, <1>7 DEF SetSpared
<1>8. UserExists(id) => users[id].roles \subseteq RoleIDs
  BY DEF TypeOK, StoreTypeOK, User, UserExists
\* A write to one role.
<1>9. ASSUME NEW name, users' = users, cache' = cache, \A r \in RoleIDs \ {name} : roles'[r] = roles[r],
             id \notin HoldersOf(name)
      PROVE  SameSources(id)
  <2>1. UserExists(id) => name \notin users[id].roles
    BY <1>9 DEF HoldersOf
  <2> QED
    BY <1>8, <1>9, <2>1 DEF SameSources
<1>10. CASE f.pc = "createUser"
  <2>1. CreateUserStep(t) /\ cache' = cache /\ roles' = roles
    BY <1>1, <1>3, <1>10, ActionAt, Effects
  <2>2. ~Window(f, id)
    <3>1. f.call.op = "CreateUser"
      BY <1>4, <1>10, StepTable
    <3> QED
      BY <1>10, <3>1 DEF Window
  <2>3. CASE ~UserExists(id)
    BY <2>1, <2>3 DEF SetUnused
  <2>4. CASE UserExists(id)
    <3>1. users'[id] = users[id]
      BY <1>1, <2>1, <2>4 DEF CreateUserStep, StoreCreateUser, TypeOK, StoreTypeOK
    <3> QED
      BY <1>7, <2>1, <2>2, <3>1 DEF SameSources
  <2> QED
    BY <2>3, <2>4
<1>11. CASE f.pc = "updateUser"
  <2>1. UpdateUserStep(t) /\ cache' = cache /\ roles' = roles
    BY <1>1, <1>3, <1>11, ActionAt, Effects
  <2>2. CASE Window(f, id)
    BY <1>6, <1>11, <2>1, <2>2
  <2>3. CASE ~Window(f, id) /\ id # f.id
    <3>1. users'[id] = users[id]
      BY <1>1, <2>1, <2>3 DEF UpdateUserStep, StoreUpdateUser, TypeOK, StoreTypeOK
    <3> QED
      BY <1>7, <2>1, <2>3, <3>1 DEF SameSources
  <2>4. CASE ~Window(f, id) /\ id = f.id
    <3>1. f.call.op # "DeleteRole"
      BY <1>3, <1>11, <2>4 DEF Visits, Window, DeleteWindow
    <3>2. After(f.call, f.pc) \in UserWindow /\ f.call.op # "CreateUser"
      BY <1>4, <1>11, <3>1, StepTable DEF UserWindow
    <3>3. h # Nil
      BY <1>1, <1>2, <1>11, <3>2, KeepsGoing DEF CommittedSteps, UserWindow, DeleteWindow
    <3>4. h.pc \in UserWindow /\ h.id = f.id /\ h.call = f.call
      BY <1>5, <1>11, <3>2, <3>3 DEF Follows, RetargetSteps
    <3>5. Window(h, id)'
      BY <2>4, <3>1, <3>2, <3>3, <3>4 DEF Window
    <3>6. UserExists(id) => UserExists(id)'
      BY <1>1, <1>11, UsersStay
    <3> QED
      BY <1>2, <2>1, <3>5, <3>6 DEF SetBehind
  <2> QED
    BY <2>2, <2>3, <2>4
<1>12. CASE f.pc = "deleteUser"
  <2>1. DeleteUserStep(t) /\ cache' = cache /\ roles' = roles
    BY <1>1, <1>3, <1>12, ActionAt, Effects
  <2>2. CASE id = f.id
    BY <1>1, <1>12, <2>1, <2>2 DEF SetOrphaned
  <2>3. CASE id # f.id
    <3>1. users'[id] = users[id]
      BY <1>1, <2>1, <2>3 DEF DeleteUserStep, StoreDeleteUser, TypeOK, StoreTypeOK
    <3>2. ~Window(f, id)
      BY <1>12 DEF Window, UserWindow, DeleteWindow
    <3> QED
      BY <1>7, <2>1, <3>1, <3>2 DEF SameSources
  <2> QED
    BY <2>2, <2>3
<1>13. CASE f.pc = "createRole"
  <2>1. CreateRoleStep(t) /\ cache' = cache /\ users' = users
    BY <1>1, <1>3, <1>13, ActionAt, Effects
  <2>2. \A r \in RoleIDs : RoleExists(r) => roles'[r] = roles[r]
    BY <1>1, <2>1 DEF CreateRoleStep, StoreCreateRole, TypeOK, StoreTypeOK
  <2>3. ~Window(f, id)
    BY <1>13 DEF Window, UserWindow, DeleteWindow
  <2> QED
    BY <1>1, <2>1, <2>2, <2>3 DEF RoleCreated
<1>14. CASE f.pc = "updateRole"
  <2>1. UpdateRoleStep(t) /\ cache' = cache /\ users' = users
    BY <1>1, <1>3, <1>14, ActionAt, Effects
  <2>2. ~Window(f, id)
    BY <1>14 DEF Window, UserWindow, DeleteWindow
  <2>3. CASE roles' = roles
    BY <1>7, <2>1, <2>2, <2>3 DEF SameSources
  <2>4. CASE roles' # roles
    <3>1. roles' = [roles EXCEPT ![f.name] = f.role] /\ Proceed(t, Done(f))
      BY <1>1, <2>1, <2>4 DEF UpdateRoleStep, StoreUpdateRole
    <3>2. \A r \in RoleIDs \ {f.name} : roles'[r] = roles[r]
      BY <3>1 DEF TypeOK, StoreTypeOK
    <3>3. After(f.call, f.pc) = "invalidateRoleHolders"
      BY <1>4, <1>14, StepTable
    <3>4. h # Nil /\ h.pc = "invalidateRoleHolders"
      BY <1>1, <1>2, <1>3, <3>1, <3>3, GoesOn
    <3>5. h.name = f.name
      BY <1>5, <1>14, <3>4 DEF Follows
    <3>6. HoldersOf(f.name)' = HoldersOf(f.name)
      BY <2>1 DEF HoldersOf, UserExists
    <3>7. CASE id \in HoldersOf(f.name)
      <4>1. Window(h, id)'
        BY <3>4, <3>5, <3>6, <3>7 DEF Window, HoldersOf, UserExists
      <4> QED
        BY <1>2, <2>1, <4>1 DEF SetBehind, UserExists
    <3>8. CASE id \notin HoldersOf(f.name)
      BY <1>7, <1>9, <2>1, <2>2, <3>2, <3>8
    <3> QED
      BY <3>7, <3>8
  <2> QED
    BY <2>3, <2>4
<1>15. CASE f.pc = "deleteRole"
  <2>0. f.call.op = "DeleteRole"
    BY <1>4, <1>15, StepTable
  <2>1. DeleteRoleStep(t) /\ cache' = cache /\ users' = users
    BY <1>1, <1>3, <1>15, ActionAt, Effects
  <2>2. ~Window(f, id)
    BY <1>15 DEF Window, UserWindow, DeleteWindow
  <2>3. HoldersOf(f.call.name) = {}
    BY <1>3, <1>15, <2>0 DEF DetachedBut
  <2>4. \A r \in RoleIDs \ {f.call.name} : roles'[r] = roles[r]
    BY <1>1, <2>1 DEF DeleteRoleStep, StoreDeleteRole, TypeOK, StoreTypeOK
  <2> QED
    BY <1>7, <1>9, <2>1, <2>2, <2>3, <2>4
<1>16. CASE f.pc = "detachChild"
  <2>1. cache' = cache /\ users' = users /\ f.call.op = "DeleteRole"
    BY <1>1, <1>4, <1>16, Effects, StepTable
  <2>2. CASE Window(f, id)
    BY <1>6, <1>16, <2>1, <2>2
  <2>3. CASE ~Window(f, id) /\ roles' = roles
    BY <1>7, <2>1, <2>3 DEF SameSources
  <2>4. CASE ~Window(f, id) /\ roles' # roles
    <3>1. DetachChild(t)
      BY <1>1, <1>3, <1>16, <2>4, ActionAt DEF LoopDone, vars
    <3>2. PICK child \in f.todo \cap DetachedChild :
             /\ roles' = [roles EXCEPT ![child.name] = child.role]
             /\ h # Nil /\ h.pc = "invalidateRoleHolders" /\ h.name = child.name
      BY <1>1, <1>2, <1>3, <1>16, <2>1, <3>1, ChildTurn DEF Visits
    <3>3. \A r \in RoleIDs \ {child.name} : roles'[r] = roles[r]
      BY <3>2 DEF TypeOK, StoreTypeOK
    <3>4. CASE id \in HoldersOf(child.name)
      <4>1. Window(h, id)'
        BY <2>1, <3>2, <3>4 DEF Window, HoldersOf, UserExists
      <4> QED
        BY <1>2, <2>1, <4>1 DEF SetBehind, UserExists
    <3>5. CASE id \notin HoldersOf(child.name)
      BY <1>7, <1>9, <2>1, <2>4, <3>3, <3>5
    <3> QED
      BY <3>4, <3>5
  <2> QED
    BY <2>2, <2>3, <2>4
<1>17. CASE f.pc = "evict"
  <2>1. EvictUser(t) /\ users' = users /\ roles' = roles
    BY <1>1, <1>17, ActionAt, Effects
  <2>2. cache'[id] \in {cache[id], Nil}
    BY <2>1 DEF EvictUser, Evict
  <2>3. ~Window(f, id)
    BY <1>17 DEF Window, UserWindow, DeleteWindow
  <2> QED
    BY <1>7, <2>1, <2>2, <2>3 DEF SetEvicted, SameSources
<1>18. CASE f.pc = "invalidateUser"
  <2>1. InvalidateUserStep(t) /\ users' = users /\ roles' = roles
    BY <1>1, <1>18, CriticalAt, Effects
  <2>2. cache'[id] = IF id = f.id THEN Nil ELSE cache[id]
    BY <1>1, <2>1 DEF InvalidateUserStep, Evict
  <2>3. Window(f, id) => id = f.id
    BY <1>18 DEF Window, DeleteWindow
  <2> QED
    BY <1>7, <2>1, <2>2, <2>3 DEF SetEvicted, SameSources
<1>19. CASE f.pc = "invalidateHolder"
  <2>1. users' = users /\ roles' = roles
    BY <1>1, <1>19, Effects
  <2>2. Window(f, id) => id \in f.todo
    BY <1>19 DEF Window, DeleteWindow, UserWindow
  <2>3. CASE LoopDone(t)
    <3>1. f.todo = {} /\ cache' = cache
      BY <1>1, <2>3 DEF LoopDone, vars
    <3> QED
      BY <1>7, <2>1, <2>2, <3>1 DEF SameSources
  <2>4. CASE InvalidateHolder(t)
    <3>1. PICK x \in f.todo : cache' = Evict({x}) /\ Proceed(t, [f EXCEPT !.todo = @ \ {x}])
      BY <1>1, <2>4 DEF InvalidateHolder
    <3>2. CASE id = x
      BY <3>1, <3>2 DEF Evict, SetEvicted
    <3>3. CASE id # x /\ id \notin f.todo
      BY <1>7, <2>1, <2>2, <3>1, <3>3 DEF Evict, SameSources
    <3>4. CASE id # x /\ id \in f.todo
      <4>1. PICK g : g = [f EXCEPT !.todo = @ \ {x}]
        OBVIOUS
      <4>2. g \in FrameRecord /\ g.pc = "invalidateHolder" /\ g.todo = f.todo \ {x}
        BY <1>4, <1>19, <4>1 DEF FrameRecord
      <4>3. Proceed(t, g)
        BY <3>1, <4>1, Zenon
      <4>4. h = g /\ h # Nil
        BY <1>2, <4>2, <4>3, Moved, FrameAssumption
      <4>5. Window(h, id)'
        BY <3>4, <4>2, <4>4 DEF Window
      <4> QED
        BY <1>2, <2>1, <3>1, <3>4, <4>5 DEF SetBehind, Evict, UserExists
    <3> QED
      BY <3>2, <3>3, <3>4
  <2> QED
    BY <1>1, <1>3, <1>19, <2>3, <2>4, ActionAt
<1>20. CASE f.pc = "invalidateRoleHolders"
  <2>1. InvalidateRoleHoldersStep(t) /\ users' = users /\ roles' = roles
    BY <1>1, <1>20, CriticalAt, Effects
  <2>2. cache'[id] = IF id \in roleHolders[f.name] THEN Nil ELSE cache[id]
    BY <1>1, <2>1 DEF InvalidateRoleHoldersStep, InvalidateRoleHolders, Evict
  <2>3. HoldersOf(f.name) \subseteq roleHolders[f.name]
    <3>1. f.name \in RoleIDs
      BY <1>4, <1>20, StepOps
    <3> QED
      BY <1>3, <1>20, <3>1 DEF CompleteBut
  <2>4. CASE id \in roleHolders[f.name]
    BY <2>2, <2>4 DEF SetEvicted
  <2>5. CASE id \notin roleHolders[f.name] /\ ~Window(f, id)
    BY <1>7, <2>1, <2>2, <2>5 DEF SameSources
  <2>6. CASE id \notin roleHolders[f.name] /\ Window(f, id)
    <3>1. f.call.op = "DeleteRole" /\ id \in f.seen
      BY <1>20, <2>3, <2>6 DEF Window, UserWindow
    <3>2. Window(frame[t], id)'
      BY <1>1, <1>20, <2>6, <3>1, WindowGoesOn
    <3> QED
      BY <2>1, <2>2, <2>6, <3>2 DEF SetBehind, UserExists
  <2> QED
    BY <2>4, <2>5, <2>6
<1>21. CASE f.pc = "publish"
  <2>1. Publish(t) /\ users' = users /\ roles' = roles
    BY <1>1, <1>21, ActionAt, Effects
  <2>2. cache' = [cache EXCEPT ![f.id] = IF @ = Nil THEN f.perms \cup f.user.direct ELSE @]
    BY <1>1, <2>1 DEF Publish
  <2>3. \/ cache'[id] = cache[id]
        \/ id = f.id /\ cache[id] = Nil /\ cache'[id] = f.perms \cup f.user.direct
    BY <2>2 DEF TypeOK
  <2>4. ~Window(f, id)
    BY <1>21 DEF Window, UserWindow, DeleteWindow
  <2> QED
    BY <1>1, <1>7, <1>21, <2>1, <2>3, <2>4 DEF SameSources, SetPublished
<1>22. CASE f.pc \notin {"createUser", "updateUser", "deleteUser", "createRole", "updateRole",
                        "deleteRole", "detachChild", "evict", "invalidateUser", "invalidateHolder",
                        "invalidateRoleHolders", "publish"}
  <2>1. users' = users /\ roles' = roles /\ cache' = cache
    BY <1>1, <1>22, Effects
  <2> QED
    BY <1>6, <1>7, <1>22, <2>1 DEF SameSources
<1> QED
  BY <1>10, <1>11, <1>12, <1>13, <1>14, <1>15, <1>16, <1>17, <1>18, <1>19, <1>20, <1>21, <1>22

\* Without inherited roles the effective permissions are the grants to the user
\* and to its roles.
LEMMA FlatEffective ==
    ASSUME NEW u \in User, \A r \in u.roles : ParentOf(r) = Nil
    PROVE  Effective(u) = Granted(u.roles) \cup u.direct
<1>1. ResolveRoles(u.roles) = u.roles
  BY ResolveHeld DEF User
<1> QED
  BY <1>1 DEF Effective, Granted

\* A check that no write overlaps reads one state of the store.
LEMMA FreshStep ==
    ASSUME TypeOK, FramesOK, NEW t \in Threads, Step(t), FreshRead(frame[t])
    PROVE  FreshRead(frame[t])'
<1>1. PICK f : f = frame[t]
  OBVIOUS
<1>2. PICK h : h = frame'[t]
  OBVIOUS
<1>3. f # Nil /\ ReadCopy(frame[t])'
  BY <1>1, Effects, ReadCopyStep DEF FreshRead
<1> SUFFICES ASSUME h # Nil, h.call.op = "Check"
             PROVE  /\ h.pc \in {"readCache", "getUser", "resolve"} => h.perms = {}
                    /\ h.pc \in ReadSteps /\ Flat(h.id)' =>
                          /\ h.pc = "resolve" => h.seen = h.user.roles /\ h.todo \subseteq h.seen
                          /\ h.pc = "collect" =>
                                /\ h.todo \subseteq h.user.roles
                                /\ h.perms \cup Granted(h.todo)' = Granted(h.user.roles)'
                          /\ h.pc = "publish" => h.perms = Granted(h.user.roles)'
  BY <1>2, <1>3 DEF FreshRead
<1>4. Follows(f, h)
  BY <1>1, <1>2, NextFrame
<1>5. h.call = f.call /\ f.call.op = "Check"
  BY <1>4 DEF Follows
<1>6. f.call \in Call /\ f.pc \in DOMAIN Program[f.call.op] \ {"start"} /\ f \in FrameRecord
      /\ f.user \in User /\ FrameLoops(f) /\ f.id \in UserIDs
  BY <1>1, <1>3, <1>5, CallFacts DEF UserOps, Readers
<1>7. f.pc \in {"readCache", "getUser", "resolve", "collect", "publish"}
  BY <1>5, <1>6 DEF Program
<1>8. users' = users /\ roles' = roles /\ ~Return(t) /\ ~StoreFails(t)
  BY <1>1, <1>2, <1>7, Effects, Moved DEF StoreFails
<1>9. \A rs : Granted(rs)' = Granted(rs)
  BY <1>8 DEF Granted, RoleExists
<1>10. \A x : Flat(x)' <=> Flat(x)
  BY <1>8 DEF Flat, ParentOf, RoleExists
<1>11. f.pc \in {"readCache", "getUser", "resolve"} => f.perms = {}
  BY <1>1, <1>3, <1>5 DEF FreshRead
<1>12. f.pc \in ReadSteps => f.user = users[f.id]
  BY <1>1, <1>3 DEF FreshRead, ReadCopy
<1> USE DEF ReadSteps
<1>13. CASE f.pc = "readCache"
  <2>1. h.pc = "getUser" /\ h.perms = {}
    BY <1>4, <1>5, <1>6, <1>11, <1>13 DEF Follows, Program, After
  <2> QED
    BY <2>1
<1>14. CASE f.pc = "getUser"
  <2>1. GetUser(t)
    BY <1>1, <1>8, <1>14, ActionAt
  <2>2. PICK u : u = users[f.id]
    OBVIOUS
  <2>3. EditedUser(f.call, u) = u
    BY <1>5 DEF EditedUser
  <2>4. Proceed(t, [[Done(f) EXCEPT !.user = u] EXCEPT !.todo = u.roles, !.seen = u.roles])
    BY <1>1, <1>5, <1>8, <2>1, <2>2, <2>3 DEF GetUser
  <2>5. h = [[Done(f) EXCEPT !.user = u] EXCEPT !.todo = u.roles, !.seen = u.roles]
    BY <1>2, <2>4, Moved
  <2>6. h.todo = u.roles /\ h.seen = u.roles /\ h.user = u
    BY <1>6, <2>5 DEF Done, FrameRecord
  <2>7. h.pc = "resolve" /\ h.perms = {}
    BY <1>4, <1>5, <1>6, <1>11, <1>14, StepTable DEF Follows
  <2> QED
    BY <2>6, <2>7
<1>15. CASE f.pc = "resolve"
  <2>1. h.user = f.user /\ h.id = f.id /\ h.perms = {}
    BY <1>4, <1>11, <1>15 DEF Follows, RetargetSteps, RecopySteps
  <2>2. CASE LoopDone(t)
    <3>1. h.pc = "collect" /\ h.todo = f.seen
      BY <1>1, <1>2, <1>5, <1>6, <1>15, <2>2, LoopOver, StepTable
    <3>2. Flat(f.id) => f.seen = f.user.roles
      BY <1>1, <1>3, <1>5, <1>15 DEF FreshRead
    <3> QED
      BY <1>10, <2>1, <3>1, <3>2
  <2>3. CASE Resolve(t)
    <3>1. PICK r \in f.todo :
             Proceed(t, [f EXCEPT !.todo = (@ \ {r}) \cup AncestorsToVisit(f, r),
                                  !.seen = @ \cup AncestorsToVisit(f, r)])
      BY <1>1, <2>3 DEF Resolve
    <3>2. PICK more : more = AncestorsToVisit(f, r)
      OBVIOUS
    <3>3. PICK g : g = [f EXCEPT !.todo = (@ \ {r}) \cup more, !.seen = @ \cup more]
      OBVIOUS
    <3>4. g.pc = "resolve" /\ g.todo = (f.todo \ {r}) \cup more /\ g.seen = f.seen \cup more
      BY <1>6, <1>15, <3>3 DEF FrameRecord
    <3>5. Proceed(t, g)
      BY <3>1, <3>2, <3>3, Zenon
    <3>6. h = g
      BY <1>2, <3>4, <3>5, Moved
    <3>7. ASSUME Flat(f.id) PROVE f.seen = f.user.roles /\ f.todo \subseteq f.seen /\ more = {}
      <4>1. f.seen = f.user.roles /\ f.todo \subseteq f.seen
        BY <1>1, <1>3, <1>5, <1>15, <3>7 DEF FreshRead
      <4>2. ParentOf(r) = Nil
        BY <1>12, <1>15, <3>7, <4>1 DEF Flat
      <4> QED
        BY <3>2, <4>1, <4>2 DEF AncestorsToVisit
    <3> QED
      BY <1>10, <2>1, <3>4, <3>6, <3>7
  <2> QED
    BY <1>1, <1>8, <1>15, <2>2, <2>3, CriticalAt
<1>16. CASE f.pc = "collect"
  <2>1. h.user = f.user /\ h.id = f.id
    BY <1>4, <1>16 DEF Follows, RetargetSteps, RecopySteps
  <2>2. Flat(f.id) => f.todo \subseteq f.user.roles /\ f.perms \cup Granted(f.todo) = Granted(f.user.roles)
    BY <1>1, <1>3, <1>5, <1>16 DEF FreshRead
  <2>3. CASE LoopDone(t)
    <3>1. h.pc = "publish" /\ f.todo = {}
      BY <1>1, <1>2, <1>5, <1>6, <1>16, <2>3, LoopOver, StepTable
    <3>2. Granted({}) = {}
      BY DEF Granted
    <3>3. h.perms = f.perms
      <4>1. Proceed(t, [Done(f) EXCEPT !.todo = f.seen])
        BY <1>1, <2>3 DEF LoopDone
      <4>2. h = [Done(f) EXCEPT !.todo = f.seen]
        BY <1>2, <1>8, <4>1, Moved
      <4> QED
        BY <1>6, <4>2 DEF Done, FrameRecord
    <3> QED
      BY <1>9, <1>10, <2>1, <2>2, <3>1, <3>2, <3>3
  <2>4. CASE Collect(t)
    <3>1. PICK r \in f.todo :
             Proceed(t, [f EXCEPT !.todo = @ \ {r},
                                  !.perms = @ \cup (IF RoleExists(r) THEN roles[r].permissions ELSE {})])
      BY <1>1, <2>4 DEF Collect
    <3>2. PICK some : some = IF RoleExists(r) THEN roles[r].permissions ELSE {}
      OBVIOUS
    <3>3. PICK g : g = [f EXCEPT !.todo = @ \ {r}, !.perms = @ \cup some]
      OBVIOUS
    <3>4. g.pc = "collect" /\ g.todo = f.todo \ {r} /\ g.perms = f.perms \cup some
      BY <1>6, <1>16, <3>3 DEF FrameRecord
    <3>5. Proceed(t, g)
      BY <3>1, <3>2, <3>3, Zenon
    <3>6. h = g
      BY <1>2, <3>4, <3>5, Moved
    <3>7. Granted(f.todo) = some \cup Granted(f.todo \ {r})
      BY <3>2 DEF Granted
    <3>8. g.perms \cup Granted(g.todo) = f.perms \cup Granted(f.todo)
      BY <3>4, <3>7
    <3> QED
      BY <1>9, <1>10, <2>1, <2>2, <3>4, <3>6, <3>8
  <2> QED
    BY <1>1, <1>8, <1>16, <2>3, <2>4, CriticalAt
<1>17. CASE f.pc = "publish"
  <2>1. h.pc = "return"
    BY <1>4, <1>5, <1>6, <1>17 DEF Follows, Program, After
  <2> QED
    BY <2>1
<1> QED
  BY <1>7, <1>13, <1>14, <1>15, <1>16, <1>17

\* A call that starts has read nothing.
LEMMA FreshStart ==
    ASSUME FramesOK, NEW t \in Threads, Start(t)
    PROVE  FreshRead(frame[t])'
<1>1. PICK c \in Menu[t] : Proceed(t, Frame(c))
  BY DEF Start
<1>2. c \in Call
  BY <1>1, MenuAssumption
<1>3. Frame(c).pc = After(c, "start") /\ Frame(c).call = c /\ Frame(c).perms = {}
  BY DEF Frame
<1>4. PICK h : h = frame'[t]
  OBVIOUS
<1>5. Frame(c).pc \notin ReadSteps
  <2>1. c.op \in Ops
    BY <1>2 DEF Call
  <2> QED
    BY <1>2, <1>3, <2>1, StartTable, OpNames DEF ReadSteps
<1>6. h = Nil \/ (h.pc \notin ReadSteps /\ h.perms = {})
  BY <1>1, <1>3, <1>4, <1>5, Moved
<1> QED
  BY <1>4, <1>6 DEF FreshRead, ReadCopy, ReadSteps

\* A check writes nothing but memoized entries, and those only where there is
\* none.
LEMMA ReadingStep ==
    ASSUME TypeOK, FramesOK, NEW t \in Threads, Step(t), frame[t].call.op \in Readers
    PROVE  /\ users' = users /\ roles' = roles /\ roleHolders' = roleHolders
           /\ \A id \in UserIDs : cache'[id] = cache[id] \/ SetPublished(t, id)
           /\ \A id \in UserIDs : directRoles'[id] = directRoles[id] \/ EntryPublished(t, id)
<1>1. PICK f : f = frame[t]
  OBVIOUS
<1>2. f # Nil
  BY <1>1, Effects
<1>3. f.call \in Call /\ f.pc \in DOMAIN Program[f.call.op] \ {"start"}
  BY <1>1, <1>2, CallFacts
<1>4. f.pc \in {"readCache", "getUser", "resolve", "collect", "publish", "readDirectRoles",
                "publishDirectRoles"}
  BY <1>1, <1>3 DEF Readers, Program
<1>5. users' = users /\ roles' = roles /\ roleHolders' = roleHolders
  BY <1>1, <1>4, Effects
<1>6. CASE f.pc = "publish"
  <2>1. Publish(t)
    BY <1>1, <1>6, ActionAt
  <2>2. /\ cache' = [cache EXCEPT ![f.id] = IF @ = Nil THEN f.perms \cup f.user.direct ELSE @]
        /\ directRoles' = [directRoles EXCEPT ![f.id] = IF @ = Nil THEN f.user.roles ELSE @]
    BY <1>1, <2>1 DEF Publish, MemoizeDirectRoles
  <2>3. \A id \in UserIDs : cache'[id] = cache[id] \/ SetPublished(t, id)
    BY <1>1, <1>5, <1>6, <2>2 DEF SetPublished, TypeOK
  <2>4. \A id \in UserIDs : directRoles'[id] = directRoles[id] \/ EntryPublished(t, id)
    BY <1>1, <1>5, <1>6, <2>2 DEF EntryPublished, TypeOK
  <2> QED
    BY <1>5, <2>3, <2>4
<1>7. CASE f.pc = "publishDirectRoles"
  <2>1. PublishDirectRoles(t) /\ cache' = cache
    BY <1>1, <1>7, ActionAt, Effects
  <2>2. directRoles' = [directRoles EXCEPT ![f.id] = IF @ = Nil THEN f.user.roles ELSE @]
    BY <1>1, <2>1 DEF PublishDirectRoles, MemoizeDirectRoles
  <2>3. \A id \in UserIDs : directRoles'[id] = directRoles[id] \/ EntryPublished(t, id)
    BY <1>1, <1>5, <1>7, <2>2 DEF EntryPublished, TypeOK
  <2> QED
    BY <1>5, <2>1, <2>3
<1>8. CASE f.pc \notin {"publish", "publishDirectRoles"}
  BY <1>1, <1>4, <1>5, <1>8, Effects
<1> QED
  BY <1>6, <1>7, <1>8

\* DeleteUser is between its two halves.
Deleting(f, id) == f # Nil /\ f.pc = "deleteUser" /\ id = f.id

LEMMA DeletingFrom ==
    ASSUME TypeOK, FramesOK, NEW t \in Threads, Start(t) \/ Step(t), NEW id \in UserIDs,
           Deleting(frame[t], id)'
    PROVE  cache'[id] = Nil /\ directRoles'[id] = Nil
<1>1. PICK h : h = frame'[t]
  OBVIOUS
<1>2. h # Nil /\ h.pc = "deleteUser" /\ id = h.id
  BY <1>1 DEF Deleting
<1>3. CASE Start(t)
  <2>1. PICK c \in Menu[t] : Proceed(t, Frame(c))
    BY <1>3 DEF Start
  <2>2. c \in Call /\ c.op \in Ops
    BY <2>1, MenuAssumption DEF Call
  <2>3. Frame(c).pc = After(c, "start")
    BY DEF Frame
  <2>4. h.pc = After(c, "start")
    BY <1>1, <1>2, <2>1, <2>3, Moved
  <2> QED
    BY <1>2, <2>2, <2>4, StartTable, OpNames
<1>4. CASE Step(t)
  <2>1. PICK f : f = frame[t]
    OBVIOUS
  <2>2. f # Nil /\ Follows(f, h)
    BY <1>1, <1>2, <1>4, <2>1, NextFrame
  <2>3. f.call \in Call /\ f.pc \in DOMAIN Program[f.call.op] \ {"start"} /\ f.call.op \in Ops
    BY <2>1, <2>2, CallFacts DEF Call
  <2>4. h.pc = After(f.call, f.pc)
    BY <1>2, <2>2 DEF Follows
  <2>5. f.pc = "evict"
    <3>1. f.call.op = "DeleteUser"
      <4>1. After(f.call, f.pc) \in DOMAIN Program[f.call.op] \ {"start"}
        BY <1>2, <2>3, <2>4, StepTable
      <4> QED
        BY <1>2, <2>3, <2>4, <4>1, StepTable
    <3> QED
      BY <1>2, <2>3, <2>4, <3>1 DEF Program, After
  <2>6. h.id = f.id
    BY <2>2, <2>5 DEF Follows, RetargetSteps
  <2>7. EvictUser(t)
    BY <1>4, <2>1, <2>5, ActionAt
  <2> QED
    BY <1>2, <2>1, <2>6, <2>7 DEF EvictUser, Evict, SetDirectRoles, DirectEntry, TypeOK
<1> QED
  BY <1>3, <1>4

\* The effective permissions of a user without inherited roles depend on the
\* user and its roles alone.
LEMMA SourcesKept ==
    ASSUME TypeOK, NEW id \in UserIDs, UserExists(id), SameSources(id)
    PROVE  /\ UserExists(id)'
           /\ Flat(id)' => Flat(id) /\ Effective(users[id])' = Effective(users[id])
<1>1. users[id] \in User /\ users'[id] = users[id] /\ \A r \in users[id].roles : roles'[r] = roles[r]
  BY DEF SameSources, TypeOK, StoreTypeOK, UserExists
<1>2. \A r \in users[id].roles : ParentOf(r)' = ParentOf(r) /\ (RoleExists(r)' <=> RoleExists(r))
  BY <1>1 DEF ParentOf, RoleExists
<1>3. UserExists(id)'
  BY <1>1 DEF UserExists
<1>4. ASSUME Flat(id)' PROVE Flat(id) /\ Effective(users[id])' = Effective(users[id])
  <2>1. Flat(id)
    BY <1>1, <1>2, <1>4 DEF Flat
  <2>2. ResolveRoles(users[id].roles) = users[id].roles
    BY <1>1, <2>1, ResolveHeld DEF Flat, User
  <2>3. (ResolveRoles(users[id].roles) = users[id].roles)'
    BY <1>1, <1>2, <2>1 DEF Flat, ResolveRoles, ParentClosed, User
  <2> QED
    BY <1>1, <1>2, <2>1, <2>2, <2>3 DEF Effective
<1> QED
  BY <1>3, <1>4


\* A memoized set that no overlapped check published is exact, or the writer
\* has yet to evict it.
SetRight(f, id) ==
    /\ UserExists(id) /\ ~Deleting(f, id)
    /\ Window(f, id) \/ (Flat(id) => cache[id] = Effective(users[id]))

EntryRight(f, id) ==
    /\ UserExists(id) /\ ~Deleting(f, id)
    /\ EntryWindow(f, id) \/ directRoles[id] = users[id].roles

\* A check that no write overlapped runs while nothing is written.
ReadsFresh ==
    /\ Writing => \A t \in Threads : Reading(t) => t \in overlapped
    /\ \A t \in Threads : Reading(t) /\ t \notin overlapped => FreshRead(frame[t])

\* A frame and what it refers to in the store stay as they are.
LEMMA Unmoved ==
    ASSUME NEW t \in Threads, frame'[t] = frame[t], users' = users, roles' = roles
    PROVE  /\ FreshRead(frame[t]) => FreshRead(frame[t])'
           /\ Visits(frame[t]) => Visits(frame[t])'
           /\ \A id : Window(frame[t], id)' <=> Window(frame[t], id)
           /\ \A id : EntryWindow(frame[t], id)' <=> EntryWindow(frame[t], id)
           /\ \A id : Deleting(frame[t], id)' <=> Deleting(frame[t], id)
<1>1. PICK f : f = frame[t] /\ f = frame'[t]
  OBVIOUS
<1>2. \A id : UserExists(id)' <=> UserExists(id)
  BY DEF UserExists
<1>3. \A r : RoleExists(r)' <=> RoleExists(r)
  BY DEF RoleExists
<1>4. \A r : ParentOf(r)' = ParentOf(r)
  BY <1>3 DEF ParentOf
<1>5. \A id : Flat(id)' <=> Flat(id)
  BY <1>4 DEF Flat
<1>6. \A rs : Granted(rs)' = Granted(rs)
  BY <1>3 DEF Granted
<1>7. \A name : HoldersOf(name)' = HoldersOf(name)
  BY <1>2 DEF HoldersOf
<1>8. FreshRead(f) => FreshRead(f)'
  BY <1>2, <1>5, <1>6 DEF FreshRead, ReadCopy
<1>9. Visits(f) => Visits(f)'
  BY <1>2, <1>3 DEF Visits
<1>10. \A id : Window(f, id)' <=> Window(f, id)
  BY <1>7 DEF Window
<1> QED
  BY <1>1, <1>8, <1>9, <1>10 DEF EntryWindow, Deleting

LEMMA SameEffective ==
    ASSUME users' = users, roles' = roles, NEW id
    PROVE  /\ Effective(users[id])' = Effective(users[id])
           /\ Flat(id)' <=> Flat(id)
           /\ UserExists(id)' <=> UserExists(id)
  BY DEF Effective, ResolveRoles, ParentClosed, ParentOf, RoleExists, UserExists, Flat

LEMMA ReadsFreshStep ==
    ASSUME TypeOK, FramesOK, NEW q \in Threads, Start(q) \/ Step(q), ReadsFresh,
           overlapped' = {t \in Threads : Reading(t)' /\ (t \in overlapped \/ Writing')}
    PROVE  ReadsFresh'
<1>1. Writing' => \A t \in Threads : Reading(t)' => t \in overlapped'
  OBVIOUS
<1>2. ASSUME NEW t \in Threads, Reading(t)', t \notin overlapped'
      PROVE  FreshRead(frame[t])'
  <2>1. t \notin overlapped
    BY <1>2
  <2>2. CASE t = q /\ Start(q)
    BY <2>2, FreshStart
  <2>3. CASE t = q /\ Step(q)
    <3>1. frame'[q] # Nil /\ frame'[q].call = frame[q].call /\ frame[q] # Nil
      BY <1>2, <2>3, NextFrame, Effects DEF Reading, Follows
    <3>2. FreshRead(frame[t])
      BY <1>2, <2>1, <2>3, <3>1 DEF ReadsFresh, Reading
    <3> QED
      BY <2>3, <3>2, FreshStep
  <2>4. CASE t # q
    <3>1. frame'[t] = frame[t]
      BY <2>4, Moved
    <3>2. FreshRead(frame[t]) /\ ~Writing
      BY <1>2, <2>1, <3>1 DEF ReadsFresh, Reading
    <3>3. users' = users /\ roles' = roles
      <4>1. CASE Start(q)
        BY <4>1 DEF Start, vars
      <4>2. CASE Step(q)
        <5>1. frame[q].call.op \in Readers
          BY <3>2, <4>2, Effects DEF Writing
        <5> QED
          BY <4>2, <5>1, ReadingStep
      <4> QED
        BY <4>1, <4>2
    <3> QED
      BY <3>1, <3>2, <3>3, Unmoved
  <2> QED
    BY <2>2, <2>3, <2>4
<1> QED
  BY <1>1, <1>2 DEF ReadsFresh

LEMMA VisitsStart ==
    ASSUME FramesOK, NEW t \in Threads, Start(t)
    PROVE  Visits(frame[t])'
<1>1. PICK c \in Menu[t] : Proceed(t, Frame(c))
  BY DEF Start
<1>2. c \in Call
  BY <1>1, MenuAssumption
<1>3. Frame(c).pc = After(c, "start") /\ Frame(c).call = c
  BY DEF Frame
<1>4. PICK h : h = frame'[t]
  OBVIOUS
<1>5. h = Nil \/ (h.pc = After(c, "start") /\ h.call = c)
  BY <1>1, <1>3, <1>4, Moved
<1>6. h # Nil /\ h.call.op = "DeleteRole" => h.pc = "getRole"
  BY <1>2, <1>5, StartTable
<1> QED
  BY <1>4, <1>6 DEF Visits

\* A goroutine other than the only writer.
LEMMA OtherStep ==
    ASSUME TypeOK, FramesOK, NEW w \in Threads, OnlyWriter(w), NEW q \in Threads \ {w},
           Start(q) \/ Step(q)
    PROVE  /\ frame'[w] = frame[w] /\ users' = users /\ roles' = roles
           /\ \A id \in UserIDs : cache'[id] = cache[id] \/ (Step(q) /\ SetPublished(q, id))
           /\ \A id \in UserIDs : directRoles'[id] = directRoles[id]
                                  \/ (Step(q) /\ EntryPublished(q, id))
<1>1. frame'[w] = frame[w]
  BY Moved
<1>2. CASE Start(q)
  BY <1>1, <1>2 DEF Start, vars, memo
<1>3. CASE Step(q)
  <2>1. frame[q] # Nil
    BY <1>3, Effects
  <2>2. frame[q].call \in Menu[q]
    BY <2>1 DEF FramesOK, FrameOK, FrameBasic
  <2>3. frame[q].call.op \in Readers
    BY <2>2 DEF OnlyWriter
  <2> QED
    BY <1>1, <1>3, <2>3, ReadingStep
<1> QED
  BY <1>2, <1>3

\* A goroutine about to publish ends its call, and is one of the late ones if a
\* write overlapped it; otherwise nobody writes.
LEMMA OnTime ==
    ASSUME TypeOK, FramesOK, NEW q \in Threads, Step(q), ReadsFresh,
           frame[q].pc \in {"publish", "publishDirectRoles"}
    PROVE  \/ frame[q].id \in LateAt({frame[q].pc})
           \/ ~Writing /\ FreshRead(frame[q])
<1>1. PICK f : f = frame[q]
  OBVIOUS
<1>2. f # Nil /\ f.call \in Call /\ f.pc \in DOMAIN Program[f.call.op] \ {"start"}
  BY <1>1, Effects, CallFacts
<1>3. f.call.op \in Readers
  <2>1. f.call.op \in Ops
    BY <1>2 DEF Call
  <2> QED
    BY <1>1, <1>2, <2>1, OpNames DEF Program, Readers
<1>4. Return(q)
  BY <1>1, ActionAt DEF Publish, PublishDirectRoles
<1>5. frame'[q] = Nil
  BY <1>4, Moved
<1>6. q \in overlapped => f.id \in LateAt({f.pc})
  <2>1. q \in overlapped => PublishedLate(q, f.pc) = {f.id}
    BY <1>1, <1>2, <1>5 DEF PublishedLate, At
  <2>2. PublishedLate(q, f.pc) \subseteq LateAt({f.pc})
    BY DEF LateAt
  <2> QED
    BY <2>1, <2>2
<1>7. q \notin overlapped => ~Writing /\ FreshRead(f)
  BY <1>1, <1>2, <1>3 DEF ReadsFresh, Reading
<1> QED
  BY <1>1, <1>6, <1>7

\* What the writer's frame cannot be while nobody writes.
LEMMA NotDeleting ==
    ASSUME FramesOK, NEW w \in Threads, NEW q \in Threads, Step(q), ~Writing, frame'[q] = Nil,
           NEW id
    PROVE  ~Deleting(frame[w], id)'
<1>1. CASE w = q
  BY <1>1 DEF Deleting
<1>2. CASE w # q
  <2>1. frame'[w] = frame[w]
    BY <1>2, Moved
  <2> QED
    BY <2>1, NotWriting DEF Deleting
<1> QED
  BY <1>1, <1>2

LEMMA SetRightStep ==
    ASSUME TypeOK, FramesOK, NEW w \in Threads, OnlyWriter(w), ~Flaky, Copies(w), Indexed(w),
           CascadeDetaches, Visits(frame[w]), ReadsFresh, NEW q \in Threads, Start(q) \/ Step(q),
           NEW id \in UserIDs, cache'[id] # Nil,
           cache'[id] = cache[id] => SetRight(frame[w], id),
           cache'[id] # cache[id] => id \notin LateAt({"publish"})
    PROVE  SetRight(frame[w], id)'
\* A check published the set.
<1>1. ASSUME Step(q), SetPublished(q, id) PROVE SetRight(frame[w], id)'
  <2>1. PICK f : f = frame[q]
    OBVIOUS
  <2>2. /\ f.pc = "publish" /\ id = f.id /\ users' = users /\ roles' = roles
        /\ cache'[id] = f.perms \cup f.user.direct /\ cache'[id] # cache[id]
    BY <1>1, <2>1 DEF SetPublished
  <2>3. ~Writing /\ FreshRead(f)
    BY <1>1, <2>1, <2>2, OnTime
  <2>4. f # Nil /\ f.call \in Call /\ f.pc \in DOMAIN Program[f.call.op] \ {"start"} /\ f.user \in User
    BY <1>1, <2>1, Effects, CallFacts
  <2>5. f.call.op = "Check"
    BY <2>2, <2>4, StepTable
  <2>6. UserExists(id) /\ f.user = users[id] /\ (Flat(id) => f.perms = Granted(f.user.roles))
    BY <2>2, <2>3, <2>4, <2>5 DEF FreshRead, ReadCopy, ReadSteps
  <2>7. Flat(id) => cache'[id] = Effective(users[id])
    BY <2>2, <2>4, <2>6, FlatEffective DEF Flat
  <2>8. ~Deleting(frame[w], id)'
    <3>1. Publish(q)
      BY <1>1, <2>1, <2>2, ActionAt
    <3>2. frame'[q] = Nil
      BY <3>1, Moved DEF Publish
    <3> QED
      BY <1>1, <2>3, <3>2, NotDeleting
  <2> QED
    BY <2>2, <2>6, <2>7, <2>8, SameEffective DEF SetRight
\* Somebody else's step.
<1>2. CASE q # w
  <2>1. /\ frame'[w] = frame[w] /\ users' = users /\ roles' = roles
        /\ cache'[id] = cache[id] \/ (Step(q) /\ SetPublished(q, id))
    BY <1>2, OtherStep
  <2>2. CASE cache'[id] = cache[id]
    BY <2>1, <2>2, Unmoved, SameEffective DEF SetRight
  <2> QED
    BY <1>1, <2>1, <2>2
<1>3. CASE q = w /\ Start(w)
  <2>1. users' = users /\ roles' = roles /\ cache' = cache /\ frame[w] = Nil
    BY <1>3 DEF Start, vars, memo
  <2>2. SetRight(frame[w], id) /\ ~Window(frame[w], id)
    BY <2>1 DEF Window
  <2>3. ~Deleting(frame[w], id)'
    BY <1>3, DeletingFrom
  <2> QED
    BY <2>1, <2>2, <2>3, SameEffective DEF SetRight
<1>4. CASE q = w /\ Step(w)
  <2>1. ~Deleting(frame[w], id)'
    BY <1>4, DeletingFrom
  <2>2. \/ SetEvicted(id) \/ SetBehind(w, id) \/ SetSpared(w, id) \/ RoleCreated(w, id)
        \/ SetUnused(id) \/ SetOrphaned(w, id) \/ SetPublished(w, id)
    BY <1>4, CacheEntryStep
  <2>3. ~SetEvicted(id)
    BY DEF SetEvicted
  <2>4. frame[w] # Nil
    BY <1>4, Effects
  <2>5. ~SetUnused(id) /\ ~SetOrphaned(w, id)
    BY <2>4 DEF SetUnused, SetOrphaned, SetRight, Deleting
  <2>6. CASE SetBehind(w, id)
    BY <2>1, <2>6 DEF SetBehind, SetRight
  <2>7. ASSUME ~Window(frame[w], id), SameSources(id) PROVE SetRight(frame[w], id)'
    <3>1. UserExists(id) /\ (Flat(id) => cache[id] = Effective(users[id])) /\ cache'[id] = cache[id]
      BY <2>7 DEF SetRight, SameSources
    <3>2. UserExists(id)' /\ (Flat(id)' => Flat(id) /\ Effective(users[id])' = Effective(users[id]))
      BY <2>7, <3>1, SourcesKept
    <3> QED
      BY <2>1, <3>1, <3>2 DEF SetRight
  <2>8. CASE SetSpared(w, id)
    BY <2>7, <2>8 DEF SetSpared
  <2>9. CASE RoleCreated(w, id)
    <3>1. \A r \in RoleIDs : UserExists(id) /\ r \in users[id].roles => RoleExists(r)
      BY DEF CascadeDetaches
    <3>2. UserExists(id) => users[id].roles \subseteq RoleIDs
      BY DEF TypeOK, StoreTypeOK, User, UserExists
    <3>3. SameSources(id)
      BY <2>9, <3>1, <3>2 DEF RoleCreated, SameSources
    <3> QED
      BY <2>7, <2>9, <3>3 DEF RoleCreated
  <2>10. CASE SetPublished(w, id)
    BY <1>1, <1>4, <2>10
  <2> QED
    BY <2>2, <2>3, <2>5, <2>6, <2>8, <2>9, <2>10
<1> QED
  BY <1>2, <1>3, <1>4

LEMMA EntryRightStep ==
    ASSUME TypeOK, FramesOK, NEW w \in Threads, OnlyWriter(w), Copies(w), ReadsFresh,
           NEW q \in Threads, Start(q) \/ Step(q), NEW id \in UserIDs, directRoles'[id] # Nil,
           directRoles'[id] = directRoles[id] => EntryRight(frame[w], id),
           directRoles'[id] # directRoles[id] => id \notin LateAt({"publish", "publishDirectRoles"})
    PROVE  EntryRight(frame[w], id)'
\* A check published the entry.
<1>1. ASSUME Step(q), EntryPublished(q, id) PROVE EntryRight(frame[w], id)'
  <2>1. PICK f : f = frame[q]
    OBVIOUS
  <2>2. /\ f.pc \in {"publish", "publishDirectRoles"} /\ id = f.id /\ users' = users
        /\ directRoles'[id] = f.user.roles /\ directRoles'[id] # directRoles[id]
    BY <1>1, <2>1 DEF EntryPublished
  <2>3. ~Writing /\ FreshRead(f)
    <3>1. LateAt({f.pc}) \subseteq LateAt({"publish", "publishDirectRoles"})
      BY <2>2 DEF LateAt
    <3> QED
      BY <1>1, <2>1, <2>2, <3>1, OnTime
  <2>4. f # Nil
    BY <1>1, <2>1, Effects
  <2>5. UserExists(id) /\ f.user = users[id]
    BY <2>2, <2>3, <2>4 DEF FreshRead, ReadCopy, ReadSteps
  <2>6. ~Deleting(frame[w], id)'
    <3>1. Publish(q) \/ PublishDirectRoles(q)
      BY <1>1, <2>1, <2>2, ActionAt
    <3>2. frame'[q] = Nil
      BY <3>1, Moved DEF Publish, PublishDirectRoles
    <3> QED
      BY <1>1, <2>3, <3>2, NotDeleting
  <2> QED
    BY <2>2, <2>5, <2>6 DEF EntryRight, UserExists
\* Somebody else's step.
<1>2. CASE q # w
  <2>1. /\ frame'[w] = frame[w] /\ users' = users /\ roles' = roles
        /\ directRoles'[id] = directRoles[id] \/ (Step(q) /\ EntryPublished(q, id))
    BY <1>2, OtherStep
  <2>2. CASE directRoles'[id] = directRoles[id]
    BY <2>1, <2>2, Unmoved DEF EntryRight, UserExists
  <2> QED
    BY <1>1, <2>1, <2>2
<1>3. CASE q = w /\ Start(w)
  <2>1. users' = users /\ directRoles' = directRoles /\ frame[w] = Nil
    BY <1>3 DEF Start, vars, memo
  <2>2. EntryRight(frame[w], id) /\ ~EntryWindow(frame[w], id)
    BY <2>1 DEF EntryWindow
  <2>3. ~Deleting(frame[w], id)'
    BY <1>3, DeletingFrom
  <2> QED
    BY <2>1, <2>2, <2>3 DEF EntryRight, UserExists
<1>4. CASE q = w /\ Step(w)
  <2>1. ~Deleting(frame[w], id)'
    BY <1>4, DeletingFrom
  <2>2. \/ EntryCleared(id) \/ EntryBehind(w, id) \/ EntryKeptToo(w, id) \/ EntryWritten(id)
        \/ EntryPublished(w, id) \/ UserCreated(w, id) \/ UserDeleted(w, id)
    BY <1>4, RolesEntryStep
  <2>3. frame[w] # Nil
    BY <1>4, Effects
  <2>4. ~EntryCleared(id) /\ ~UserCreated(w, id) /\ ~UserDeleted(w, id)
    BY <2>3 DEF EntryCleared, UserCreated, UserDeleted, EntryRight, Deleting
  <2>5. CASE EntryBehind(w, id)
    BY <2>1, <2>5 DEF EntryBehind, EntryRight
  <2>6. CASE EntryKeptToo(w, id)
    BY <2>1, <2>6 DEF EntryKeptToo, EntryRight, UserExists
  <2>7. CASE EntryWritten(id)
    BY <2>1, <2>7 DEF EntryWritten, EntryRight
  <2>8. CASE EntryPublished(w, id)
    BY <1>1, <1>4, <2>8
  <2> QED
    BY <2>2, <2>4, <2>5, <2>6, <2>7, <2>8
<1> QED
  BY <1>2, <1>3, <1>4

\* What is memoized is right, but for late entries.
SetsRight(w) ==
    \A id \in UserIDs : id \notin lateSets /\ cache[id] # Nil => SetRight(frame[w], id)

EntriesRight(w) ==
    \A id \in UserIDs : id \notin lateRoles /\ directRoles[id] # Nil => EntryRight(frame[w], id)

\* What is known between any two steps when only w writes.
LateEntriesBase(w) ==
    TypeOK /\ FramesOK /\ Copies(w) /\ Indexed(w) /\ SoundBut(frame[w]) /\ Assigned(w)

LateEntriesInv(w) ==
    LateEntriesBase(w) /\ Visits(frame[w]) /\ ReadsFresh /\ SetsRight(w) /\ EntriesRight(w)

LEMMA LateEntriesInvariant ==
    ASSUME NEW w \in Threads, OnlyWriter(w), ~Flaky, LateRoles = {}, StartsDetached
    PROVE  OSpec => []LateEntriesInv(w)
<1> DEFINE Base == LateEntriesBase(w)
           Inv == Visits(frame[w]) /\ ReadsFresh /\ SetsRight(w) /\ EntriesRight(w)
<1>1. OInit => Inv
  BY DEF OInit, CInit, Visits, ReadsFresh, SetsRight, EntriesRight, Writing, Reading, EntryRight, EntryWindow, Deleting,
         DirectEntry, UserExists
<1>2. Base /\ Inv /\ [ONext]_ovars => Inv'
  <2> SUFFICES ASSUME Base, Inv, [ONext]_ovars PROVE Inv'
    OBVIOUS
  <2> USE DEF LateEntriesBase
  <2>1. CASE UNCHANGED ovars
    <3>1. users' = users /\ roles' = roles /\ frame' = frame /\ cache' = cache
          /\ directRoles' = directRoles /\ lateSets' = lateSets /\ lateRoles' = lateRoles
          /\ overlapped' = overlapped
      BY <2>1 DEF ovars, cvars, vars, memo
    <3>2. Visits(frame[w])' /\ ReadsFresh'
      BY <3>1, Unmoved DEF ReadsFresh, Writing, Reading
    <3>3. SetsRight(w)'
      BY <3>1, Unmoved, SameEffective DEF SetsRight, SetRight
    <3>4. EntriesRight(w)'
      BY <3>1, Unmoved DEF EntriesRight, EntryRight, UserExists
    <3> QED
      BY <3>2, <3>3, <3>4
  <2>2. CASE ONext
    <3>1. PICK q \in Threads : Start(q) \/ Step(q)
      BY <2>2 DEF ONext, CNext
    <3>2. ReadsFresh'
      BY <2>2, <3>1, ReadsFreshStep DEF ONext, Track
    <3>3. Visits(frame[w])'
      <4>1. CASE q # w
        BY <3>1, <4>1, OtherStep, Unmoved
      <4>2. CASE q = w
        BY <3>1, <4>2, VisitsStart, VisitsStep
      <4> QED
        BY <4>1, <4>2
    <3>4. ASSUME NEW id \in UserIDs, id \notin lateSets', cache'[id] # Nil
          PROVE  SetRight(frame[w], id)'
      <4>1. cache'[id] = cache[id] => id \notin lateSets
        BY <2>2, <3>4 DEF ONext, Track
      <4>2. cache'[id] = cache[id] => SetRight(frame[w], id)
        BY <3>4, <4>1 DEF SetsRight
      <4>3. cache'[id] # cache[id] => id \notin LateAt({"publish"})
        BY <2>2, <3>4 DEF ONext, Track
      <4> QED
        BY <3>1, <3>4, <4>2, <4>3, SetRightStep DEF Assigned
    <3>5. ASSUME NEW id \in UserIDs, id \notin lateRoles', directRoles'[id] # Nil
          PROVE  EntryRight(frame[w], id)'
      <4>1. directRoles'[id] = directRoles[id] => id \notin lateRoles
        BY <2>2, <3>5 DEF ONext, Track
      <4>2. directRoles'[id] = directRoles[id] => EntryRight(frame[w], id)
        BY <3>5, <4>1 DEF EntriesRight
      <4>3. directRoles'[id] # directRoles[id] => id \notin LateAt({"publish", "publishDirectRoles"})
        BY <2>2, <3>5 DEF ONext, Track
      <4> QED
        BY <3>1, <3>5, <4>2, <4>3, EntryRightStep
    <3> QED
      BY <3>2, <3>3, <3>4, <3>5 DEF SetsRight, EntriesRight
  <2> QED
    BY <2>1, <2>2
<1>3. CSafety => []Base
  BY CopiesInvariant, IndexInvariant, CascadeInvariant, PTL DEF LateEntriesBase
<1>4. OInit => CInit
  BY DEF OInit
<1>5. [ONext]_ovars => [CNext]_cvars
  BY DEF ONext, ovars
<1>6. Base /\ Inv <=> LateEntriesInv(w)
  BY DEF LateEntriesInv
<1> QED
  BY <1>1, <1>2, <1>3, <1>4, <1>5, <1>6, PTL DEF OSpec, CSafety

\* What one goroutine that writes and any number that check may leave in the
\* cache, over a store that does not fail, when every role is created before
\* CreateUser names it (LateRoles = {}) and the users that exist at the start
\* name no missing role: between two writes a memoized set is exactly what the
\* store grants, and nothing is memoized for a deleted user, unless the check
\* that published the entry overlapped a write.
THEOREM OneWriterLateEntries ==
    ASSUME NEW w \in Threads, OnlyWriter(w), ~Flaky, LateRoles = {}, StartsDetached
    PROVE  OSpec => []OnlyOverlappedReadsStale
<1>1. LateEntriesInv(w) => OnlyOverlappedReadsStale
  <2> SUFFICES ASSUME LateEntriesInv(w), ~Writing PROVE OnlyOverlappedReadsStale
    BY DEF OnlyOverlappedReadsStale
  <2>1. \A id : ~Window(frame[w], id) /\ ~EntryWindow(frame[w], id)
    <3>1. frame[w] = Nil \/ frame[w].call.op \in Readers
      BY DEF Writing
    <3>2. frame[w] # Nil => frame[w].pc \in DOMAIN Program[frame[w].call.op] \ {"start"}
      BY CallFacts DEF LateEntriesInv, LateEntriesBase
    <3>3. frame[w] # Nil => frame[w].pc \in {"readCache", "getUser", "resolve", "collect", "publish",
                                            "readDirectRoles", "publishDirectRoles"}
      BY <3>1, <3>2 DEF Readers, Program
    <3> QED
      BY <3>1, <3>3 DEF Window, UserWindow, DeleteWindow, EntryWindow, Readers
  <2> QED
    BY <2>1 DEF OnlyOverlappedReadsStale, LateEntriesInv, SetsRight, EntriesRight, SetRight, EntryRight
<1> QED
  BY <1>1, LateEntriesInvariant, PTL
=============================================================================
