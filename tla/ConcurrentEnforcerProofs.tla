----------------------- MODULE ConcurrentEnforcerProofs -----------------------
(***************************************************************************)
(* Proofs about ConcurrentEnforcer: for any number of goroutines, and for  *)
(* one goroutine that writes among any number that read.                   *)
(***************************************************************************)
EXTENDS ConcurrentEnforcer, EnforcerProofs, FiniteSetTheorems

-----------------------------------------------------------------------------
(* The steps of the methods.                                               *)

LEMMA OpNames ==
    Ops = {"CreateUser", "DeleteUser", "AssignRole", "RevokeRole", "GrantDirectPermission",
           "RevokeDirectPermission", "CreateRole", "UpdateRole", "GrantPermission",
           "RevokePermission", "SetParent", "DeleteRole", "Check", "HasRole"}
  BY DEF Ops, Program

\* Which call a step belongs to, and which step comes after it.
LEMMA StepTable ==
    ASSUME NEW c \in Call, NEW s \in DOMAIN Program[c.op] \ {"start"}
    PROVE  /\ After(c, s) = "return" \/ After(c, s) \in DOMAIN Program[c.op] \ {"start"}
           /\ s = "createUser" => c.op = "CreateUser" /\ After(c, s) = "grantHolder"
           /\ s = "grantHolder" => c.op \in {"CreateUser", "AssignRole"} /\ After(c, s) = "setDirectRoles"
           /\ s = "setDirectRoles" =>
                \/ c.op = "CreateUser" /\ After(c, s) = "return"
                \/ c.op \in {"AssignRole", "RevokeRole"} /\ After(c, s) = "invalidateUser"
                \/ c.op = "DeleteRole" /\ After(c, s) = "detachUser"
           /\ s = "evict" => c.op = "DeleteUser" /\ After(c, s) = "deleteUser"
           /\ s = "deleteUser" => c.op = "DeleteUser" /\ After(c, s) = "return"
           /\ s = "getRole" =>
                \/ c.op = "AssignRole" /\ After(c, s) = "getUser"
                \/ c.op = "RevokeRole" /\ After(c, s) = "updateUser"
                \/ c.op \in {"GrantPermission", "RevokePermission"} /\ After(c, s) = "updateRole"
                \/ c.op = "SetParent" /\ After(c, s) = (IF c.parent = Nil THEN "updateRole" ELSE "findParent")
                \/ c.op = "DeleteRole" /\ After(c, s) = "readHolders"
           /\ s = "getUser" =>
                \/ c.op \in {"AssignRole", "GrantDirectPermission", "RevokeDirectPermission"} /\ After(c, s) = "updateUser"
                \/ c.op = "RevokeRole" /\ After(c, s) = "getRole"
                \/ c.op = "Check" /\ After(c, s) = "resolve"
                \/ c.op = "HasRole" /\ After(c, s) = "publishDirectRoles"
           /\ s = "updateUser" =>
                \/ c.op = "AssignRole" /\ After(c, s) = "grantHolder"
                \/ c.op \in {"RevokeRole", "DeleteRole"} /\ After(c, s) = "revokeHolder"
                \/ c.op \in {"GrantDirectPermission", "RevokeDirectPermission"} /\ After(c, s) = "invalidateUser"
           /\ s = "revokeHolder" => c.op \in {"RevokeRole", "DeleteRole"} /\ After(c, s) = "setDirectRoles"
           /\ s = "invalidateUser" => c.op \in {"AssignRole", "RevokeRole", "GrantDirectPermission", "RevokeDirectPermission"} /\ After(c, s) = "return"
           /\ s = "findParent" => c.op = "SetParent" /\ After(c, s) = (IF c.parent = Nil THEN "updateRole" ELSE "getParent")
           /\ s = "getParent" => c.op \in {"CreateRole", "UpdateRole", "SetParent"} /\ After(c, s) = "walk"
           /\ s = "walk" =>
                \/ c.op = "CreateRole" /\ After(c, s) = "createRole"
                \/ c.op \in {"UpdateRole", "SetParent"} /\ After(c, s) = "updateRole"
           /\ s = "createRole" => c.op = "CreateRole" /\ After(c, s) = "return"
           /\ s = "updateRole" => c.op \in {"UpdateRole", "GrantPermission", "RevokePermission", "SetParent"} /\ After(c, s) = "invalidateRoleHolders"
           /\ s = "invalidateRoleHolders" =>
                \/ c.op \in {"UpdateRole", "GrantPermission", "RevokePermission", "SetParent"} /\ After(c, s) = "return"
                \/ c.op = "DeleteRole" /\ After(c, s) = "detachChild"
           /\ s = "readHolders" => c.op = "DeleteRole" /\ After(c, s) = "detachUser"
           /\ s = "detachUser" => c.op = "DeleteRole" /\ After(c, s) = "listRoles"
           /\ s = "listRoles" => c.op = "DeleteRole" /\ After(c, s) = "detachChild"
           /\ s = "detachChild" => c.op = "DeleteRole" /\ After(c, s) = "dropHolders"
           /\ s = "dropHolders" => c.op = "DeleteRole" /\ After(c, s) = "invalidateHolder"
           /\ s = "invalidateHolder" => c.op = "DeleteRole" /\ After(c, s) = "deleteRole"
           /\ s = "deleteRole" => c.op = "DeleteRole" /\ After(c, s) = "return"
           /\ s = "readCache" => c.op = "Check" /\ After(c, s) = "getUser"
           /\ s = "resolve" => c.op = "Check" /\ After(c, s) = "collect"
           /\ s = "collect" => c.op = "Check" /\ After(c, s) = "publish"
           /\ s = "publish" => c.op = "Check" /\ After(c, s) = "return"
           /\ s = "readDirectRoles" => c.op = "HasRole" /\ After(c, s) = "getUser"
           /\ s = "publishDirectRoles" => c.op = "HasRole" /\ After(c, s) = "return"
<1> DEFINE Follows ==
             After(c, s) = "return" \/ After(c, s) \in DOMAIN Program[c.op] \ {"start"}
<1>1. c.op \in Ops
  BY DEF Call
<1>2. ASSUME s = "createUser"
      PROVE  /\ Follows
             /\ c.op = "CreateUser" /\ After(c, s) = "grantHolder"
  BY <1>1, <1>2, OpNames DEF Program, After
<1>3. ASSUME s = "grantHolder"
      PROVE  /\ Follows
             /\ c.op \in {"CreateUser", "AssignRole"} /\ After(c, s) = "setDirectRoles"
  BY <1>1, <1>3, OpNames DEF Program, After
<1>4. ASSUME s = "setDirectRoles"
      PROVE  /\ Follows
             /\ \/ c.op = "CreateUser" /\ After(c, s) = "return"
                \/ c.op \in {"AssignRole", "RevokeRole"} /\ After(c, s) = "invalidateUser"
                \/ c.op = "DeleteRole" /\ After(c, s) = "detachUser"
  BY <1>1, <1>4, OpNames DEF Program, After
<1>5. ASSUME s = "evict"
      PROVE  /\ Follows
             /\ c.op = "DeleteUser" /\ After(c, s) = "deleteUser"
  BY <1>1, <1>5, OpNames DEF Program, After
<1>6. ASSUME s = "deleteUser"
      PROVE  /\ Follows
             /\ c.op = "DeleteUser" /\ After(c, s) = "return"
  BY <1>1, <1>6, OpNames DEF Program, After
<1>7. ASSUME s = "getRole"
      PROVE  /\ Follows
             /\ \/ c.op = "AssignRole" /\ After(c, s) = "getUser"
                \/ c.op = "RevokeRole" /\ After(c, s) = "updateUser"
                \/ c.op \in {"GrantPermission", "RevokePermission"} /\ After(c, s) = "updateRole"
                \/ c.op = "SetParent" /\ After(c, s) = (IF c.parent = Nil THEN "updateRole" ELSE "findParent")
                \/ c.op = "DeleteRole" /\ After(c, s) = "readHolders"
  BY <1>1, <1>7, OpNames DEF Program, After
<1>8. ASSUME s = "getUser"
      PROVE  /\ Follows
             /\ \/ c.op \in {"AssignRole", "GrantDirectPermission", "RevokeDirectPermission"} /\ After(c, s) = "updateUser"
                \/ c.op = "RevokeRole" /\ After(c, s) = "getRole"
                \/ c.op = "Check" /\ After(c, s) = "resolve"
                \/ c.op = "HasRole" /\ After(c, s) = "publishDirectRoles"
  BY <1>1, <1>8, OpNames DEF Program, After
<1>9. ASSUME s = "updateUser"
      PROVE  /\ Follows
             /\ \/ c.op = "AssignRole" /\ After(c, s) = "grantHolder"
                \/ c.op \in {"RevokeRole", "DeleteRole"} /\ After(c, s) = "revokeHolder"
                \/ c.op \in {"GrantDirectPermission", "RevokeDirectPermission"} /\ After(c, s) = "invalidateUser"
  BY <1>1, <1>9, OpNames DEF Program, After
<1>10. ASSUME s = "revokeHolder"
      PROVE  /\ Follows
             /\ c.op \in {"RevokeRole", "DeleteRole"} /\ After(c, s) = "setDirectRoles"
  BY <1>1, <1>10, OpNames DEF Program, After
<1>11. ASSUME s = "invalidateUser"
      PROVE  /\ Follows
             /\ c.op \in {"AssignRole", "RevokeRole", "GrantDirectPermission", "RevokeDirectPermission"} /\ After(c, s) = "return"
  BY <1>1, <1>11, OpNames DEF Program, After
<1>12. ASSUME s = "findParent"
      PROVE  /\ Follows
             /\ c.op = "SetParent" /\ After(c, s) = (IF c.parent = Nil THEN "updateRole" ELSE "getParent")
  BY <1>1, <1>12, OpNames DEF Program, After
<1>13. ASSUME s = "getParent"
      PROVE  /\ Follows
             /\ c.op \in {"CreateRole", "UpdateRole", "SetParent"} /\ After(c, s) = "walk"
  BY <1>1, <1>13, OpNames DEF Program, After
<1>14. ASSUME s = "walk"
      PROVE  /\ Follows
             /\ \/ c.op = "CreateRole" /\ After(c, s) = "createRole"
                \/ c.op \in {"UpdateRole", "SetParent"} /\ After(c, s) = "updateRole"
  BY <1>1, <1>14, OpNames DEF Program, After
<1>15. ASSUME s = "createRole"
      PROVE  /\ Follows
             /\ c.op = "CreateRole" /\ After(c, s) = "return"
  BY <1>1, <1>15, OpNames DEF Program, After
<1>16. ASSUME s = "updateRole"
      PROVE  /\ Follows
             /\ c.op \in {"UpdateRole", "GrantPermission", "RevokePermission", "SetParent"} /\ After(c, s) = "invalidateRoleHolders"
  BY <1>1, <1>16, OpNames DEF Program, After
<1>17. ASSUME s = "invalidateRoleHolders"
      PROVE  /\ Follows
             /\ \/ c.op \in {"UpdateRole", "GrantPermission", "RevokePermission", "SetParent"} /\ After(c, s) = "return"
                \/ c.op = "DeleteRole" /\ After(c, s) = "detachChild"
  BY <1>1, <1>17, OpNames DEF Program, After
<1>18. ASSUME s = "readHolders"
      PROVE  /\ Follows
             /\ c.op = "DeleteRole" /\ After(c, s) = "detachUser"
  BY <1>1, <1>18, OpNames DEF Program, After
<1>19. ASSUME s = "detachUser"
      PROVE  /\ Follows
             /\ c.op = "DeleteRole" /\ After(c, s) = "listRoles"
  BY <1>1, <1>19, OpNames DEF Program, After
<1>20. ASSUME s = "listRoles"
      PROVE  /\ Follows
             /\ c.op = "DeleteRole" /\ After(c, s) = "detachChild"
  BY <1>1, <1>20, OpNames DEF Program, After
<1>21. ASSUME s = "detachChild"
      PROVE  /\ Follows
             /\ c.op = "DeleteRole" /\ After(c, s) = "dropHolders"
  BY <1>1, <1>21, OpNames DEF Program, After
<1>22. ASSUME s = "dropHolders"
      PROVE  /\ Follows
             /\ c.op = "DeleteRole" /\ After(c, s) = "invalidateHolder"
  BY <1>1, <1>22, OpNames DEF Program, After
<1>23. ASSUME s = "invalidateHolder"
      PROVE  /\ Follows
             /\ c.op = "DeleteRole" /\ After(c, s) = "deleteRole"
  BY <1>1, <1>23, OpNames DEF Program, After
<1>24. ASSUME s = "deleteRole"
      PROVE  /\ Follows
             /\ c.op = "DeleteRole" /\ After(c, s) = "return"
  BY <1>1, <1>24, OpNames DEF Program, After
<1>25. ASSUME s = "readCache"
      PROVE  /\ Follows
             /\ c.op = "Check" /\ After(c, s) = "getUser"
  BY <1>1, <1>25, OpNames DEF Program, After
<1>26. ASSUME s = "resolve"
      PROVE  /\ Follows
             /\ c.op = "Check" /\ After(c, s) = "collect"
  BY <1>1, <1>26, OpNames DEF Program, After
<1>27. ASSUME s = "collect"
      PROVE  /\ Follows
             /\ c.op = "Check" /\ After(c, s) = "publish"
  BY <1>1, <1>27, OpNames DEF Program, After
<1>28. ASSUME s = "publish"
      PROVE  /\ Follows
             /\ c.op = "Check" /\ After(c, s) = "return"
  BY <1>1, <1>28, OpNames DEF Program, After
<1>29. ASSUME s = "readDirectRoles"
      PROVE  /\ Follows
             /\ c.op = "HasRole" /\ After(c, s) = "getUser"
  BY <1>1, <1>29, OpNames DEF Program, After
<1>30. ASSUME s = "publishDirectRoles"
      PROVE  /\ Follows
             /\ c.op = "HasRole" /\ After(c, s) = "return"
  BY <1>1, <1>30, OpNames DEF Program, After
<1>31. s \in {"createUser", "grantHolder", "setDirectRoles", "evict", "deleteUser", "getRole",
             "getUser", "updateUser", "revokeHolder", "invalidateUser",
             "findParent", "getParent", "walk", "createRole", "updateRole",
             "invalidateRoleHolders", "readHolders", "detachUser", "listRoles",
             "detachChild", "dropHolders", "invalidateHolder", "deleteRole",
             "readCache", "resolve", "collect", "publish", "readDirectRoles",
             "publishDirectRoles"}
  BY <1>1, OpNames DEF Program
<1> HIDE DEF Follows
<1>32. Follows
  BY <1>2, <1>3, <1>4, <1>5, <1>6, <1>7, <1>8, <1>9, <1>10, <1>11, <1>12, <1>13, <1>14,
     <1>15, <1>16, <1>17, <1>18, <1>19, <1>20, <1>21, <1>22, <1>23, <1>24, <1>25,
     <1>26, <1>27, <1>28, <1>29, <1>30, <1>31
<1> QED
  BY <1>2, <1>3, <1>4, <1>5, <1>6, <1>7, <1>8, <1>9, <1>10, <1>11, <1>12, <1>13, <1>14,
     <1>15, <1>16, <1>17, <1>18, <1>19, <1>20, <1>21, <1>22, <1>23, <1>24, <1>25,
     <1>26, <1>27, <1>28, <1>29, <1>30, <1>32 DEF Follows

\* Where a call starts.
LEMMA StartTable ==
    ASSUME NEW c \in Call
    PROVE  LET s == After(c, "start")
           IN  /\ s \in DOMAIN Program[c.op] \ {"start"}
               /\ c.op = "CreateUser" => s = "createUser"
               /\ c.op = "DeleteUser" => s = "evict"
               /\ c.op \in {"AssignRole", "GrantPermission", "RevokePermission", "SetParent",
                           "DeleteRole"} => s = "getRole"
               /\ c.op \in {"RevokeRole", "GrantDirectPermission", "RevokeDirectPermission"} =>
                    s = "getUser"
               /\ c.op = "CreateRole" => s = IF c.parent = Nil THEN "createRole" ELSE "getParent"
               /\ c.op = "UpdateRole" => s = IF c.parent = Nil THEN "updateRole" ELSE "getParent"
               /\ c.op = "Check" => s = "readCache"
               /\ c.op = "HasRole" => s = "readDirectRoles"
<1>1. c.op \in Ops
  BY DEF Call
<1>2. CASE c.op = "CreateUser"
  BY <1>2 DEF Program, After
<1>3. CASE c.op = "DeleteUser"
  BY <1>3 DEF Program, After
<1>4. CASE c.op = "AssignRole"
  BY <1>4 DEF Program, After
<1>5. CASE c.op = "RevokeRole"
  BY <1>5 DEF Program, After
<1>6. CASE c.op = "GrantDirectPermission"
  BY <1>6 DEF Program, After
<1>7. CASE c.op = "RevokeDirectPermission"
  BY <1>7 DEF Program, After
<1>8. CASE c.op = "CreateRole"
  BY <1>8 DEF Program, After
<1>9. CASE c.op = "UpdateRole"
  BY <1>9 DEF Program, After
<1>10. CASE c.op = "GrantPermission"
  BY <1>10 DEF Program, After
<1>11. CASE c.op = "RevokePermission"
  BY <1>11 DEF Program, After
<1>12. CASE c.op = "SetParent"
  BY <1>12 DEF Program, After
<1>13. CASE c.op = "DeleteRole"
  BY <1>13 DEF Program, After
<1>14. CASE c.op = "Check"
  BY <1>14 DEF Program, After
<1>15. CASE c.op = "HasRole"
  BY <1>15 DEF Program, After
<1> QED
  BY <1>1, <1>2, <1>3, <1>4, <1>5, <1>6, <1>7, <1>8, <1>9, <1>10, <1>11, <1>12, <1>13, <1>14, <1>15, OpNames

-----------------------------------------------------------------------------
(* What a frame holds, whatever the other goroutines do.                   *)

\* The parts of a frame that every step needs.
FrameBasic(t, f) ==
    /\ f \in FrameRecord
    /\ f.call \in Menu[t]
    /\ f.pc \in DOMAIN Program[f.call.op] \ {"start"}
    /\ f.call.perms \subseteq ValidPermissions
    /\ f.user.direct \subseteq ValidPermissions
    /\ f.role.permissions \subseteq ValidPermissions
    /\ f.perms \subseteq ValidPermissions

\* The calls that give a role a parent.
Parenting == {"CreateRole", "UpdateRole", "SetParent"}

\* The user and the role at hand.
FrameNames(f) ==
    /\ f.call.op \in UserOps => f.id = f.call.id
    /\ f.pc \in {"updateUser", "revokeHolder", "setDirectRoles"} => f.id \in UserIDs
    /\ f.call.op \in RoleOps => f.name \in RoleIDs
    /\ f.call.op \in RoleOps \ {"DeleteRole"} => f.name = f.call.name
    /\ f.pc \in {"getRole", "readHolders"} => f.name = f.call.name
    /\ f.pc \in {"findParent", "getParent", "walk"} => f.call.parent # Nil /\ f.at \in RoleIDs
    /\ f.call.op \notin Parenting \/ f.pc \in {"getRole", "findParent", "getParent"} =>
          f.at = f.call.parent

\* A child that is written back is well formed and has no parent any more.
DetachedChild == {c \in Child : c.role.parent = Nil /\ c.role.permissions \subseteq ValidPermissions}

\* What the loops run over.
FrameLoops(f) ==
    /\ f.call.op \in {"CreateUser", "AssignRole"} => f.todo \subseteq RoleIDs /\ f.seen = {}
    /\ f.call.op = "Check" => f.seen \subseteq RoleIDs
    /\ f.pc \in {"resolve", "collect"} => f.todo \subseteq RoleIDs
    /\ f.call.op = "DeleteRole" =>
          /\ f.seen \subseteq UserIDs
          /\ f.pc \in {"detachUser", "updateUser", "revokeHolder", "setDirectRoles", "dropHolders",
                       "invalidateHolder"} => f.todo \subseteq UserIDs
          /\ f.pc \in {"detachChild", "invalidateRoleHolders"} => f.todo \subseteq DetachedChild

FrameOK(t, f) == FrameBasic(t, f) /\ FrameNames(f) /\ FrameLoops(f)

FramesOK ==
    /\ DOMAIN frame = Threads
    /\ \A t \in Threads : frame[t] # Nil => FrameOK(t, frame[t])

LEMMA MoveFrame ==
    ASSUME FramesOK, NEW t \in Threads, NEW g, g = Nil \/ FrameOK(t, g),
           frame' = [frame EXCEPT ![t] = g]
    PROVE  FramesOK'
  BY DEF FramesOK

LEMMA ReturnOK ==
    ASSUME FramesOK, NEW t \in Threads, Return(t)
    PROVE  FramesOK'
  BY MoveFrame DEF Return

LEMMA ProceedOK ==
    ASSUME FramesOK, NEW t \in Threads, NEW g, g.pc # "return" => FrameOK(t, g), Proceed(t, g)
    PROVE  FramesOK'
<1>1. CASE g.pc = "return"
  <2>1. frame' = [frame EXCEPT ![t] = Nil]
    BY <1>1 DEF Proceed
  <2> QED
    BY <2>1, MoveFrame
<1>2. CASE g.pc # "return"
  <2>1. frame' = [frame EXCEPT ![t] = g]
    BY <1>2 DEF Proceed
  <2> QED
    BY <1>2, <2>1, MoveFrame
<1> QED
  BY <1>1, <1>2

\* What is known of a goroutine inside a call.
LEMMA InCall ==
    ASSUME FramesOK, NEW t \in Threads, frame[t] # Nil
    PROVE  /\ FrameOK(t, frame[t])
           /\ frame[t].call \in Call
           /\ frame[t].call.op \in Ops
           /\ frame[t].call.op \in UserOps => frame[t].call.id \in UserIDs
           /\ frame[t].call.op \in RoleOps => frame[t].call.name \in RoleIDs
<1>1. FrameOK(t, frame[t])
  BY DEF FramesOK
<1>2. frame[t].call \in Call
  BY <1>1 DEF FrameOK, FrameBasic, FrameRecord
<1> QED
  BY <1>1, <1>2 DEF Call

\* Every step of a program has a name.
LEMMA PcType ==
    ASSUME NEW c \in Call, NEW s \in DOMAIN Program[c.op] \ {"start"}
    PROVE  s \in UNION {DOMAIN Program[op] : op \in Ops}
<1>1. c.op \in Ops
  BY DEF Call
<1> QED
  BY <1>1

\* A frame after a step that only goes on.
LEMMA DoneBasic ==
    ASSUME NEW t \in Threads, NEW f, FrameOK(t, f), After(f.call, f.pc) # "return"
    PROVE  LET g == Done(f)
           IN  /\ FrameBasic(t, g)
               /\ g.pc = After(f.call, f.pc)
               /\ g.call = f.call /\ g.id = f.id /\ g.name = f.name /\ g.user = f.user
               /\ g.role = f.role /\ g.todo = f.todo /\ g.seen = f.seen /\ g.perms = f.perms
               /\ g.at = f.at /\ g.depth = f.depth
<1> DEFINE p == After(f.call, f.pc)
           g == Done(f)
<1>1. f \in FrameRecord /\ f.call \in Call /\ f.pc \in DOMAIN Program[f.call.op] \ {"start"}
  BY DEF FrameOK, FrameBasic, FrameRecord
<1>2. p \in DOMAIN Program[f.call.op] \ {"start"}
  BY <1>1, StepTable
<1>3. p \in UNION {DOMAIN Program[op] : op \in Ops}
  BY <1>1, <1>2, PcType
<1>4. g = [f EXCEPT !.pc = p]
  BY DEF Done
<1> HIDE DEF p, g
<1>5. /\ g \in FrameRecord /\ g.pc = p
      /\ g.call = f.call /\ g.id = f.id /\ g.name = f.name /\ g.user = f.user
      /\ g.role = f.role /\ g.todo = f.todo /\ g.seen = f.seen /\ g.perms = f.perms
      /\ g.at = f.at /\ g.depth = f.depth
  BY <1>1, <1>3, <1>4 DEF FrameRecord
<1>6. FrameBasic(t, g)
  BY <1>2, <1>5 DEF FrameOK, FrameBasic
<1> QED
  BY <1>5, <1>6 DEF p, g

\* Steps after which the call goes on with the frame it has.
PlainSteps ==
    {"createUser", "updateUser", "evict", "getRole", "findParent", "getParent", "walk",
     "revokeHolder", "setDirectRoles", "invalidateUser", "updateRole",
     "invalidateRoleHolders", "dropHolders", "readCache", "readDirectRoles"}

LEMMA DoneOK ==
    ASSUME NEW t \in Threads, NEW f, FrameOK(t, f), f.pc \in PlainSteps,
           After(f.call, f.pc) # "return"
    PROVE  FrameOK(t, Done(f))
<1> DEFINE g == Done(f)
           p == After(f.call, f.pc)
<1>1. /\ FrameBasic(t, g) /\ g.pc = p
      /\ g.call = f.call /\ g.id = f.id /\ g.name = f.name /\ g.todo = f.todo /\ g.seen = f.seen
      /\ g.at = f.at
  BY DoneBasic
<1>2. f.call \in Call /\ f.pc \in DOMAIN Program[f.call.op] \ {"start"}
  BY DEF FrameOK, FrameBasic, FrameRecord
<1>3. /\ f.call.parent \in RoleIDs \cup {Nil}
      /\ f.call.op \in UserOps => f.call.id \in UserIDs
      /\ f.call.op \in RoleOps => f.call.name \in RoleIDs
  BY <1>2 DEF Call
<1> HIDE DEF g, p
<1> USE DEF FrameOK, FrameNames, FrameLoops, UserOps, RoleOps, Readers, Parenting
<1>4. CASE f.pc = "createUser"
  BY <1>1, <1>2, <1>3, <1>4, StepTable DEF p, g
<1>5. CASE f.pc = "updateUser"
  BY <1>1, <1>2, <1>3, <1>5, StepTable DEF p, g
<1>6. CASE f.pc = "evict"
  BY <1>1, <1>2, <1>3, <1>6, StepTable DEF p, g
<1>7. CASE f.pc = "getRole"
  BY <1>1, <1>2, <1>3, <1>7, StepTable DEF p, g
<1>8. CASE f.pc = "findParent"
  BY <1>1, <1>2, <1>3, <1>8, StepTable DEF p, g
<1>9. CASE f.pc = "getParent"
  BY <1>1, <1>2, <1>3, <1>9, StepTable DEF p, g
<1>10. CASE f.pc = "walk"
  BY <1>1, <1>2, <1>3, <1>10, StepTable DEF p, g
<1>11. CASE f.pc = "revokeHolder"
  BY <1>1, <1>2, <1>3, <1>11, StepTable DEF p, g
<1>12. CASE f.pc = "setDirectRoles"
  BY <1>1, <1>2, <1>3, <1>12, StepTable DEF p, g
<1>13. CASE f.pc = "invalidateUser"
  BY <1>1, <1>2, <1>3, <1>13, StepTable DEF p, g
<1>14. CASE f.pc = "updateRole"
  BY <1>1, <1>2, <1>3, <1>14, StepTable DEF p, g
<1>15. CASE f.pc = "invalidateRoleHolders"
  BY <1>1, <1>2, <1>3, <1>15, StepTable DEF p, g
<1>16. CASE f.pc = "dropHolders"
  BY <1>1, <1>2, <1>3, <1>16, StepTable DEF p, g
<1>17. CASE f.pc = "readCache"
  BY <1>1, <1>2, <1>3, <1>17, StepTable DEF p, g
<1>18. CASE f.pc = "readDirectRoles"
  BY <1>1, <1>2, <1>3, <1>18, StepTable DEF p, g
<1> QED
  BY <1>4, <1>5, <1>6, <1>7, <1>8, <1>9, <1>10, <1>11, <1>12, <1>13, <1>14, <1>15, <1>16,
     <1>17, <1>18 DEF PlainSteps

LEMMA PlainStepOK ==
    ASSUME FramesOK, NEW t \in Threads, frame[t] # Nil, frame[t].pc \in PlainSteps,
           Return(t) \/ Proceed(t, Done(frame[t]))
    PROVE  FramesOK'
<1>1. FrameOK(t, frame[t])
  BY InCall
<1>2. Done(frame[t]).pc = After(frame[t].call, frame[t].pc)
  BY <1>1 DEF Done, FrameOK, FrameBasic, FrameRecord
<1>3. Done(frame[t]).pc # "return" => FrameOK(t, Done(frame[t]))
  BY <1>1, <1>2, DoneOK
<1> QED
  BY <1>3, ReturnOK, ProceedOK

\* The frame of a call that starts.
LEMMA StartOK ==
    ASSUME FramesOK, NEW t \in Threads, Start(t)
    PROVE  FramesOK'
<1>1. PICK c \in Menu[t] :
         (\A p \in c.perms : Valid(p)) /\ Proceed(t, Frame(c))
  BY DEF Start
<1> DEFINE f == Frame(c)
<1>2. c \in Call
  BY <1>1, MenuAssumption
<1>3. /\ c.op \in Ops /\ c.id \in UserIDs \cup {Nil} /\ c.name \in RoleIDs \cup {Nil}
      /\ c.roles \in SUBSET RoleIDs /\ c.perms \in SUBSET Permissions
      /\ c.parent \in RoleIDs \cup {Nil}
      /\ c.op \in UserOps => c.id \in UserIDs
      /\ c.op \in RoleOps => c.name \in RoleIDs
  BY <1>2 DEF Call
<1>4. After(c, "start") \in DOMAIN Program[c.op] \ {"start"}
  BY <1>2, StartTable
<1>5. After(c, "start") \in UNION {DOMAIN Program[op] : op \in Ops}
  BY <1>2, <1>4, PcType
<1>6. /\ f.call = c /\ f.pc = After(c, "start") /\ f.id = c.id /\ f.name = c.name
      /\ f.user = [roles |-> c.roles, direct |-> {}]
      /\ f.role = [permissions |-> c.perms, parent |-> c.parent]
      /\ f.todo = (IF c.op = "AssignRole" THEN {c.name} ELSE c.roles)
      /\ f.seen = {} /\ f.perms = {} /\ f.at = c.parent /\ f.depth = 1
  BY DEF Frame
<1>7. f.user \in User /\ f.role \in Role /\ f.todo \in SUBSET RoleIDs
  BY <1>3, <1>6 DEF User, Role, RoleOps
<1>8. 1 \in 1..(MaxDepth + 1)
  BY MaxDepthAssumption
<1>9. f \in FrameRecord
  BY <1>2, <1>3, <1>5, <1>7, <1>8 DEF Frame, FrameRecord
<1> HIDE DEF f
<1>10. FrameBasic(t, f)
  BY <1>1, <1>3, <1>4, <1>6, <1>9 DEF FrameBasic, ValidPermissions
<1>11. FrameNames(f)
  BY <1>2, <1>3, <1>4, <1>6, StartTable, OpNames
     DEF FrameNames, UserOps, RoleOps, Readers, Parenting
<1>12. FrameLoops(f)
  BY <1>2, <1>3, <1>4, <1>6, <1>7, StartTable, OpNames DEF FrameLoops
<1> QED
  BY <1>1, <1>10, <1>11, <1>12, ProceedOK DEF f, FrameOK

\* A loop is over.
LEMMA LoopDoneOK ==
    ASSUME FramesOK, NEW t \in Threads, LoopDone(t)
    PROVE  FramesOK'
<1> DEFINE f == frame[t]
           d == Done(f)
           g == [d EXCEPT !.todo = f.seen]
<1>1. /\ FrameOK(t, f) /\ f.call \in Call /\ f.pc \in Loops /\ f.todo = {}
      /\ f.call.op \in UserOps => f.call.id \in UserIDs
  BY InCall DEF LoopDone
<1>2. f.pc \in DOMAIN Program[f.call.op] \ {"start"}
  BY <1>1 DEF FrameOK, FrameBasic
<1>3. After(f.call, f.pc) # "return"
  BY <1>1, <1>2, StepTable DEF Loops
<1>4. /\ FrameBasic(t, d) /\ d.pc = After(f.call, f.pc)
      /\ d.call = f.call /\ d.id = f.id /\ d.name = f.name /\ d.user = f.user
      /\ d.role = f.role /\ d.todo = f.todo /\ d.seen = f.seen /\ d.perms = f.perms
      /\ d.at = f.at
  BY <1>1, <1>3, DoneBasic
<1>5. f.seen \in SUBSET (UserIDs \cup RoleIDs)
  BY <1>1 DEF FrameOK, FrameBasic, FrameRecord
<1> HIDE DEF d
<1>6. /\ g \in FrameRecord /\ g.todo = f.seen
      /\ g.pc = d.pc /\ g.call = d.call /\ g.id = d.id /\ g.name = d.name /\ g.user = d.user
      /\ g.role = d.role /\ g.seen = d.seen /\ g.perms = d.perms /\ g.at = d.at
  BY <1>4, <1>5 DEF FrameBasic, FrameRecord
<1> HIDE DEF g
<1>7. FrameBasic(t, g)
  BY <1>4, <1>6 DEF FrameBasic
<1>8. FrameNames(g) /\ FrameLoops(g)
  <2> USE DEF FrameOK, FrameNames, FrameLoops, UserOps, RoleOps, Readers, Parenting
  <2>1. CASE f.pc = "grantHolder"
    BY <1>1, <1>2, <1>4, <1>6, <2>1, StepTable
  <2>2. CASE f.pc = "detachUser"
    BY <1>1, <1>2, <1>4, <1>6, <2>2, StepTable
  <2>3. CASE f.pc = "detachChild"
    BY <1>1, <1>2, <1>4, <1>6, <2>3, StepTable
  <2>4. CASE f.pc = "invalidateHolder"
    BY <1>1, <1>2, <1>4, <1>6, <2>4, StepTable
  <2>5. CASE f.pc = "resolve"
    BY <1>1, <1>2, <1>4, <1>6, <2>5, StepTable
  <2>6. CASE f.pc = "collect"
    BY <1>1, <1>2, <1>4, <1>6, <2>6, StepTable
  <2> QED
    BY <1>1, <2>1, <2>2, <2>3, <2>4, <2>5, <2>6 DEF Loops
<1>9. Proceed(t, g)
  BY DEF LoopDone, d, g
<1> QED
  BY <1>7, <1>8, <1>9, ProceedOK DEF FrameOK

\* A turn of a loop, or a copy made on the way: the frame at the same step.
LEMMA SameStepOK ==
    ASSUME FramesOK, NEW t \in Threads, frame[t] # Nil, NEW g, Proceed(t, g),
           g \in FrameRecord, g.pc = frame[t].pc, g.call = frame[t].call, g.id = frame[t].id,
           g.name = frame[t].name, g.user = frame[t].user, g.role = frame[t].role,
           g.perms \subseteq ValidPermissions, g.at = frame[t].at,
           FrameLoops(g)
    PROVE  FramesOK'
<1>1. FrameOK(t, frame[t])
  BY InCall
<1>2. FrameBasic(t, g) /\ FrameNames(g)
  BY <1>1 DEF FrameOK, FrameBasic, FrameNames
<1> QED
  BY <1>2, ProceedOK DEF FrameOK

LEMMA GrantHolderOK ==
    ASSUME FramesOK, NEW t \in Threads, GrantHolderStep(t) \/ InvalidateHolder(t)
    PROVE  FramesOK'
<1>1. PICK x \in frame[t].todo : Proceed(t, [frame[t] EXCEPT !.todo = @ \ {x}])
  BY DEF GrantHolderStep, InvalidateHolder
<1>2. frame[t] # Nil
  BY DEF GrantHolderStep, InvalidateHolder, At
<1> DEFINE f == frame[t]
           g == [f EXCEPT !.todo = f.todo \ {x}]
<1>3. FrameOK(t, f)
  BY <1>2, InCall
<1>4. /\ g \in FrameRecord /\ g.pc = f.pc /\ g.call = f.call /\ g.id = f.id
      /\ g.name = f.name /\ g.user = f.user /\ g.role = f.role /\ g.perms = f.perms
      /\ g.at = f.at /\ g.seen = f.seen /\ g.todo \subseteq f.todo
  BY <1>3 DEF FrameOK, FrameBasic, FrameRecord
<1>5. Proceed(t, g)
  BY <1>1
<1> HIDE DEF g
<1>6. FrameLoops(g)
  BY <1>3, <1>4 DEF FrameOK, FrameLoops
<1> QED
  BY <1>2, <1>3, <1>4, <1>5, <1>6, SameStepOK DEF FrameOK, FrameBasic

LEMMA ParentType ==
    ASSUME TypeOK, NEW r \in RoleIDs
    PROVE  ParentOf(r) \in RoleIDs \cup {Nil}
  BY DEF TypeOK, StoreTypeOK, ParentOf, RoleExists, Role

LEMMA ResolveOK ==
    ASSUME TypeOK, FramesOK, NEW t \in Threads, Resolve(t)
    PROVE  FramesOK'
<1> DEFINE f == frame[t]
<1>1. FrameOK(t, f) /\ f.call \in Call /\ f.pc = "resolve" /\ f # Nil
  BY InCall DEF Resolve, At
<1>2. PICK r \in f.todo :
         Proceed(t, [f EXCEPT !.todo = (@ \ {r}) \cup AncestorsToVisit(f, r),
                              !.seen = @ \cup AncestorsToVisit(f, r)])
  BY DEF Resolve
<1>3. f.call.op = "Check" /\ f.todo \subseteq RoleIDs /\ f.seen \subseteq RoleIDs
  BY <1>1, StepTable DEF FrameOK, FrameBasic, FrameLoops
<1>4. PICK new : new = AncestorsToVisit(f, r)
  OBVIOUS
<1>5. new \subseteq RoleIDs
  BY <1>3, <1>4, ParentType DEF AncestorsToVisit
<1>6. PICK todo, seen : todo = (f.todo \ {r}) \cup new /\ seen = f.seen \cup new
  OBVIOUS
<1>7. todo \in SUBSET RoleIDs /\ seen \in SUBSET RoleIDs
  BY <1>3, <1>5, <1>6
<1> DEFINE g == [f EXCEPT !.todo = todo, !.seen = seen]
<1>8. Proceed(t, g)
  BY <1>2, <1>4, <1>6
<1>9. /\ g \in FrameRecord /\ g.pc = f.pc /\ g.call = f.call /\ g.id = f.id
      /\ g.name = f.name /\ g.user = f.user /\ g.role = f.role /\ g.perms = f.perms
      /\ g.at = f.at /\ g.seen = seen /\ g.todo = todo
  BY <1>1, <1>7 DEF FrameOK, FrameBasic, FrameRecord
<1> HIDE DEF g
<1>10. FrameLoops(g)
  BY <1>1, <1>3, <1>7, <1>9 DEF FrameLoops
<1> QED
  BY <1>1, <1>8, <1>9, <1>10, SameStepOK DEF FrameOK, FrameBasic

LEMMA CollectOK ==
    ASSUME TypeOK, FramesOK, NEW t \in Threads, Collect(t)
    PROVE  FramesOK'
<1> DEFINE f == frame[t]
<1>1. FrameOK(t, f) /\ f.call \in Call /\ f.pc = "collect" /\ f # Nil
  BY InCall DEF Collect, At
<1>2. PICK r \in f.todo :
         Proceed(t, [f EXCEPT !.todo = @ \ {r},
                              !.perms = @ \cup (IF RoleExists(r) THEN roles[r].permissions ELSE {})])
  BY DEF Collect
<1>3. f.call.op = "Check" /\ f.todo \subseteq RoleIDs /\ f.seen \subseteq RoleIDs
  BY <1>1, StepTable DEF FrameOK, FrameBasic, FrameLoops
<1>4. PICK todo, perms : todo = f.todo \ {r}
             /\ perms = f.perms \cup (IF RoleExists(r) THEN roles[r].permissions ELSE {})
  OBVIOUS
<1>5. todo \in SUBSET RoleIDs /\ perms \in SUBSET ValidPermissions /\ perms \in SUBSET Permissions
  BY <1>1, <1>3, <1>4 DEF TypeOK, FrameOK, FrameBasic, ValidPermissions
<1> DEFINE g == [f EXCEPT !.todo = todo, !.perms = perms]
<1>8. Proceed(t, g)
  BY <1>2, <1>4
<1>9. /\ g \in FrameRecord /\ g.pc = f.pc /\ g.call = f.call /\ g.id = f.id
      /\ g.name = f.name /\ g.user = f.user /\ g.role = f.role /\ g.perms = perms
      /\ g.at = f.at /\ g.seen = f.seen /\ g.todo = todo
  BY <1>1, <1>5 DEF FrameOK, FrameBasic, FrameRecord
<1> HIDE DEF g
<1>10. FrameLoops(g)
  BY <1>1, <1>3, <1>5, <1>9 DEF FrameLoops
<1> QED
  BY <1>1, <1>5, <1>8, <1>9, <1>10, SameStepOK

\* A copy of a user, edited for the call.
LEMMA EditedUserType ==
    ASSUME NEW c \in Call, c.perms \subseteq ValidPermissions, c.op \in UserOps,
           NEW u \in User, u.direct \subseteq ValidPermissions
    PROVE  EditedUser(c, u) \in User /\ EditedUser(c, u).direct \subseteq ValidPermissions
<1>1. c.perms \in SUBSET Permissions /\ (c.op \in RoleOps => c.name \in RoleIDs)
  BY DEF Call
<1>2. CASE c.op = "AssignRole"
  BY <1>1, <1>2 DEF EditedUser, User, RoleOps
<1>3. CASE c.op = "RevokeRole"
  BY <1>1, <1>3 DEF EditedUser, User
<1>4. CASE c.op = "GrantDirectPermission"
  BY <1>1, <1>4 DEF EditedUser, User
<1>5. CASE c.op = "RevokeDirectPermission"
  BY <1>1, <1>5 DEF EditedUser, User
<1>6. CASE c.op \notin {"AssignRole", "RevokeRole", "GrantDirectPermission", "RevokeDirectPermission"}
  BY <1>6 DEF EditedUser
<1> QED
  BY <1>2, <1>3, <1>4, <1>5, <1>6

LEMMA EditedRoleType ==
    ASSUME NEW c \in Call, c.perms \subseteq ValidPermissions,
           c.op \in {"GrantPermission", "RevokePermission", "SetParent"},
           NEW r \in Role, r.permissions \subseteq ValidPermissions
    PROVE  EditedRole(c, r) \in Role /\ EditedRole(c, r).permissions \subseteq ValidPermissions
<1>1. c.perms \in SUBSET Permissions /\ c.parent \in RoleIDs \cup {Nil}
  BY DEF Call
<1>2. CASE c.op = "GrantPermission"
  BY <1>1, <1>2 DEF EditedRole, Role
<1>3. CASE c.op = "RevokePermission"
  BY <1>1, <1>3 DEF EditedRole, Role
<1>4. CASE c.op = "SetParent"
  BY <1>1, <1>4 DEF EditedRole, Role
<1> QED
  BY <1>2, <1>3, <1>4

LEMMA GetUserOK ==
    ASSUME TypeOK, FramesOK, NEW t \in Threads, GetUser(t)
    PROVE  FramesOK'
<1> DEFINE f == frame[t]
           d == Done(f)
<1>1. /\ FrameOK(t, f) /\ f.call \in Call /\ f.pc = "getUser" /\ f # Nil
      /\ f.call.op \in UserOps => f.call.id \in UserIDs
      /\ f.call.op \in RoleOps => f.call.name \in RoleIDs
  BY InCall DEF GetUser, At
<1>2. f.pc \in DOMAIN Program[f.call.op] \ {"start"}
  BY <1>1 DEF FrameOK, FrameBasic
<1>3. /\ f.call.op \in {"AssignRole", "RevokeRole", "GrantDirectPermission",
                       "RevokeDirectPermission", "Check", "HasRole"}
      /\ After(f.call, f.pc) # "return"
  BY <1>1, <1>2, StepTable
<1>4. f.id = f.call.id /\ f.id \in UserIDs /\ f.call.op \in UserOps
  BY <1>1, <1>3 DEF FrameOK, FrameNames, UserOps, Readers
<1>5. CASE Return(t)
  BY <1>5, ReturnOK
<1>6. CASE UserExists(f.id) /\ ~Return(t)
  <2>1. users[f.id] \in User /\ users[f.id].direct \subseteq ValidPermissions
        /\ users[f.id].roles \in SUBSET RoleIDs
    BY <1>4, <1>6 DEF TypeOK, StoreTypeOK, UserExists, User
  <2>2. PICK u : u = EditedUser(f.call, users[f.id])
    OBVIOUS
  <2>3. u \in User /\ u.direct \subseteq ValidPermissions
    BY <1>1, <1>4, <2>1, <2>2, EditedUserType DEF FrameOK, FrameBasic
  <2>4. /\ FrameBasic(t, d) /\ d.pc = After(f.call, f.pc)
        /\ d.call = f.call /\ d.id = f.id /\ d.name = f.name
        /\ d.role = f.role /\ d.todo = f.todo /\ d.seen = f.seen /\ d.perms = f.perms
        /\ d.at = f.at
    BY <1>1, <1>3, DoneBasic
  <2> HIDE DEF d
  <2> DEFINE g == [d EXCEPT !.user = u]
  <2>5. /\ FrameBasic(t, g)
        /\ g.pc = d.pc /\ g.call = f.call /\ g.id = f.id /\ g.name = f.name
        /\ g.todo = f.todo /\ g.seen = f.seen /\ g.at = f.at
    BY <2>3, <2>4 DEF FrameBasic, FrameRecord
  <2>6. CASE f.call.op = "Check"
    <3> DEFINE rs == users[f.id].roles
               h == [g EXCEPT !.todo = rs, !.seen = rs]
    <3>1. Proceed(t, h)
      BY <1>6, <2>2, <2>6 DEF GetUser, d
    <3> HIDE DEF rs, g
    <3>2. /\ FrameBasic(t, h) /\ h.pc = "resolve"
          /\ h.call = f.call /\ h.id = f.id /\ h.name = f.name
          /\ h.todo \subseteq RoleIDs /\ h.seen \subseteq RoleIDs /\ h.at = f.at
      <4>1. rs \in SUBSET RoleIDs
        BY <2>1 DEF rs
      <4>2. g.pc = "resolve"
        BY <1>1, <1>2, <2>4, <2>5, <2>6, StepTable
      <4> QED
        BY <4>1, <4>2, <2>5 DEF FrameBasic, FrameRecord
    <3> HIDE DEF h
    <3>3. FrameNames(h) /\ FrameLoops(h)
      BY <1>1, <2>6, <3>2
         DEF FrameOK, FrameNames, FrameLoops, UserOps, RoleOps, Readers, Parenting
    <3> QED
      BY <3>1, <3>2, <3>3, ProceedOK DEF FrameOK
  <2>7. CASE f.call.op # "Check"
    <3>1. Proceed(t, g)
      BY <1>6, <2>2, <2>7 DEF GetUser, d
    <3> HIDE DEF g
    <3>2. g.pc \in {"updateUser", "getRole", "publishDirectRoles"}
      BY <1>1, <1>2, <2>4, <2>5, <2>7, StepTable
    <3>3. g.call.op \in {"AssignRole", "RevokeRole", "GrantDirectPermission",
                         "RevokeDirectPermission", "HasRole"}
      BY <1>3, <2>5, <2>7
    <3>4. FrameNames(g)
      <4>1. FrameNames(f)
        BY <1>1 DEF FrameOK
      <4>2. g.pc = "getRole" => g.call.op = "RevokeRole"
        BY <1>1, <1>2, <2>4, <2>5, <2>7, StepTable
      <4> QED
        BY <1>4, <2>5, <3>2, <3>3, <4>1, <4>2
           DEF FrameNames, UserOps, RoleOps, Readers, Parenting
    <3>5. FrameLoops(g)
      BY <1>1, <2>5, <3>2, <3>3 DEF FrameOK, FrameLoops
    <3> QED
      BY <2>5, <3>1, <3>4, <3>5, ProceedOK DEF FrameOK
  <2> QED
    BY <2>6, <2>7
<1> QED
  BY <1>5, <1>6 DEF GetUser

LEMMA GetRoleOK ==
    ASSUME TypeOK, FramesOK, NEW t \in Threads, GetRole(t)
    PROVE  FramesOK'
<1> DEFINE f == frame[t]
           d == Done(f)
<1>1. /\ FrameOK(t, f) /\ f.call \in Call /\ f.pc = "getRole" /\ f # Nil
  BY InCall DEF GetRole, At
<1>2. f.pc \in DOMAIN Program[f.call.op] \ {"start"}
  BY <1>1 DEF FrameOK, FrameBasic
<1>3. CASE Return(t) \/ Proceed(t, d)
  BY <1>1, <1>3, PlainStepOK DEF PlainSteps
<1>4. CASE /\ RoleExists(f.name) /\ f.call.op \notin {"AssignRole", "RevokeRole", "DeleteRole"}
           /\ Proceed(t, [d EXCEPT !.role = EditedRole(f.call, roles[f.name])])
  <2>1. /\ f.call.op \in {"GrantPermission", "RevokePermission", "SetParent"}
        /\ After(f.call, f.pc) # "return"
    <3>1. \/ f.call.op \in {"GrantPermission", "RevokePermission"}
             /\ After(f.call, f.pc) = "updateRole"
          \/ f.call.op = "SetParent"
             /\ After(f.call, f.pc) = (IF f.call.parent = Nil THEN "updateRole" ELSE "findParent")
      BY <1>1, <1>2, <1>4, StepTable
    <3> QED
      BY <3>1
  <2>2. f.name \in RoleIDs
    BY <1>1, <2>1 DEF FrameOK, FrameNames, RoleOps
  <2>3. roles[f.name] \in Role /\ roles[f.name].permissions \subseteq ValidPermissions
    BY <1>4, <2>2 DEF TypeOK, StoreTypeOK, RoleExists
  <2>4. PICK r : r = EditedRole(f.call, roles[f.name])
    OBVIOUS
  <2>5. r \in Role /\ r.permissions \subseteq ValidPermissions
    BY <1>1, <2>1, <2>3, <2>4, EditedRoleType DEF FrameOK, FrameBasic
  <2>6. /\ FrameOK(t, d)
    BY <1>1, <2>1, DoneOK DEF PlainSteps
  <2> DEFINE g == [d EXCEPT !.role = r]
  <2> HIDE DEF d
  <2>7. /\ FrameBasic(t, g)
        /\ g.pc = d.pc /\ g.call = d.call /\ g.id = d.id /\ g.name = d.name
        /\ g.todo = d.todo /\ g.seen = d.seen /\ g.at = d.at
    BY <2>5, <2>6 DEF FrameOK, FrameBasic, FrameRecord
  <2>8. Proceed(t, g)
    BY <1>4, <2>4
  <2> HIDE DEF g
  <2>9. FrameNames(g) /\ FrameLoops(g)
    BY <2>6, <2>7 DEF FrameOK, FrameNames, FrameLoops
  <2> QED
    BY <2>7, <2>8, <2>9, ProceedOK DEF FrameOK
<1> QED
  BY <1>3, <1>4 DEF GetRole

LEMMA WalkOK ==
    ASSUME TypeOK, FramesOK, NEW t \in Threads, Walk(t)
    PROVE  FramesOK'
<1> DEFINE f == frame[t]
<1>1. /\ FrameOK(t, f) /\ f.call \in Call /\ f.pc = "walk" /\ f # Nil
  BY InCall DEF Walk, At
<1>2. CASE Return(t) \/ Proceed(t, Done(f))
  BY <1>1, <1>2, PlainStepOK DEF PlainSteps
<1>3. CASE /\ ~(f.depth > MaxDepth) /\ ParentOf(f.at) # Nil
           /\ Proceed(t, [f EXCEPT !.at = ParentOf(f.at), !.depth = @ + 1])
  <2>1. PICK at, depth : at = ParentOf(f.at) /\ depth = f.depth + 1
    OBVIOUS
  <2>2. f.depth \in 1..(MaxDepth + 1)
    BY <1>1 DEF FrameOK, FrameBasic, FrameRecord
  <2>3. depth \in 1..(MaxDepth + 1)
    BY <1>3, <2>1, <2>2, MaxDepthAssumption
  <2>4. at \in RoleIDs
    BY <1>1, <1>3, <2>1, ParentType DEF FrameOK, FrameNames
  <2> DEFINE g == [f EXCEPT !.at = at, !.depth = depth]
  <2>5. Proceed(t, g)
    BY <1>3, <2>1
  <2>6. /\ FrameBasic(t, g)
        /\ g.pc = f.pc /\ g.call = f.call /\ g.id = f.id /\ g.name = f.name
        /\ g.todo = f.todo /\ g.seen = f.seen /\ g.at = at
    BY <1>1, <2>3, <2>4 DEF FrameOK, FrameBasic, FrameRecord
  <2>7. f.call.op \in Parenting
    BY <1>1, StepTable DEF FrameOK, FrameBasic, Parenting
  <2> HIDE DEF g
  <2>8. FrameNames(g) /\ FrameLoops(g)
    BY <1>1, <2>4, <2>6, <2>7 DEF FrameOK, FrameNames, FrameLoops
  <2> QED
    BY <2>5, <2>6, <2>8, ProceedOK DEF FrameOK
<1> QED
  BY <1>2, <1>3 DEF Walk

\* The loops of DeleteRole.
LEMMA DeleteRoleLoopsOK ==
    ASSUME TypeOK, FramesOK, NEW t \in Threads,
           ReadHolders(t) \/ DetachUser(t) \/ ListRoles(t) \/ DetachChild(t)
    PROVE  FramesOK'
<1> DEFINE f == frame[t]
           d == Done(f)
<1>1. /\ FrameOK(t, f) /\ f.call \in Call /\ f # Nil
      /\ f.call.op \in RoleOps => f.call.name \in RoleIDs
  BY InCall DEF ReadHolders, DetachUser, ListRoles, DetachChild, At
<1>2. f.pc \in DOMAIN Program[f.call.op] \ {"start"}
  BY <1>1 DEF FrameOK, FrameBasic
<1>3. f.pc \in {"readHolders", "detachUser", "listRoles", "detachChild"}
  BY DEF ReadHolders, DetachUser, ListRoles, DetachChild, At
<1>4. /\ f.call.op = "DeleteRole" /\ After(f.call, f.pc) # "return"
      /\ f.pc = "readHolders" => After(f.call, f.pc) = "detachUser"
      /\ f.pc = "listRoles" => After(f.call, f.pc) = "detachChild"
  BY <1>1, <1>2, <1>3, StepTable
<1>5. /\ FrameBasic(t, d) /\ d.pc = After(f.call, f.pc)
      /\ d.call = f.call /\ d.id = f.id /\ d.name = f.name
      /\ d.todo = f.todo /\ d.seen = f.seen /\ d.at = f.at
  BY <1>1, <1>4, DoneBasic
<1>6. f.name \in RoleIDs /\ f.call.name \in RoleIDs /\ f.at = f.call.parent /\ f.seen \subseteq UserIDs
  BY <1>1, <1>4 DEF FrameOK, FrameNames, FrameLoops, RoleOps, Parenting
\* What has to be shown of the frame that t goes on with.
<1>7. ASSUME NEW g, Proceed(t, g), FrameBasic(t, g), g.call = f.call, g.at = f.at,
             g.name \in RoleIDs, g.seen \subseteq UserIDs,
             \/ g.pc \in {"detachUser"} /\ g.todo \subseteq UserIDs
             \/ g.pc \in {"updateUser", "revokeHolder"} /\ g.todo \subseteq UserIDs /\ g.id \in UserIDs
             \/ g.pc \in {"detachChild", "invalidateRoleHolders"} /\ g.todo \subseteq DetachedChild
      PROVE  FramesOK'
  <2>1. FrameNames(g) /\ FrameLoops(g)
    BY <1>4, <1>6, <1>7 DEF FrameNames, FrameLoops, UserOps, RoleOps, Readers, Parenting
  <2> QED
    BY <1>7, <2>1, ProceedOK DEF FrameOK
<1>8. CASE ReadHolders(t)
  <2>1. PICK hs : hs = roleHolders[f.name]
    OBVIOUS
  <2>2. hs \in SUBSET UserIDs
    BY <1>6, <2>1 DEF TypeOK
  <2> DEFINE g == [d EXCEPT !.todo = hs, !.seen = hs]
  <2>3. Proceed(t, g)
    BY <1>8, <2>1 DEF ReadHolders
  <2>4. d.pc = "detachUser"
    BY <1>4, <1>5, <1>8 DEF ReadHolders, At
  <2> HIDE DEF d
  <2>5. /\ FrameBasic(t, g) /\ g.pc = "detachUser" /\ g.call = f.call /\ g.at = f.at
        /\ g.name = f.name /\ g.seen = hs /\ g.todo = hs
    BY <1>5, <2>2, <2>4 DEF FrameBasic, FrameRecord
  <2> HIDE DEF g
  <2> QED
    BY <1>6, <1>7, <2>2, <2>3, <2>5
<1>9. CASE DetachUser(t) /\ ~Return(t)
  <2>1. f.pc = "detachUser" /\ f.todo \subseteq UserIDs
    BY <1>1, <1>4, <1>9 DEF DetachUser, At, FrameOK, FrameLoops
  <2>2. PICK id \in f.todo :
           /\ UserExists(id)
           /\ LET kept == [users[id] EXCEPT !.roles = @ \ {f.call.name}]
              IN  Proceed(t, [f EXCEPT !.todo = @ \ {id}, !.id = id, !.user = kept,
                                       !.pc = IF kept # users[id]
                                              THEN "updateUser" ELSE "revokeHolder"])
    BY <1>9 DEF DetachUser
  <2>3. id \in UserIDs /\ users[id] \in User /\ users[id].direct \subseteq ValidPermissions
    BY <2>1, <2>2 DEF TypeOK, StoreTypeOK, UserExists
  <2>4. PICK kept : kept = [users[id] EXCEPT !.roles = @ \ {f.call.name}]
    OBVIOUS
  <2>5. kept \in User /\ kept.direct \subseteq ValidPermissions
    BY <2>3, <2>4 DEF User
  <2>6. PICK pc \in {"updateUser", "revokeHolder"} :
           Proceed(t, [f EXCEPT !.todo = f.todo \ {id}, !.id = id, !.user = kept, !.pc = pc])
    BY <2>2, <2>4
  <2>7. pc \in DOMAIN Program[f.call.op] \ {"start"}
    BY <1>4 DEF Program
  <2>8. pc \in UNION {DOMAIN Program[op] : op \in Ops}
    BY <1>1, <2>7, PcType
  <2> DEFINE g == [f EXCEPT !.todo = f.todo \ {id}, !.id = id, !.user = kept, !.pc = pc]
  <2>9. /\ g \in FrameRecord /\ g.pc = pc /\ g.call = f.call /\ g.at = f.at
        /\ g.name = f.name /\ g.seen = f.seen /\ g.todo \subseteq f.todo /\ g.id = id
        /\ g.user = kept /\ g.role = f.role /\ g.perms = f.perms
    BY <1>1, <2>3, <2>5, <2>8 DEF FrameOK, FrameBasic, FrameRecord
  <2> HIDE DEF g
  <2>10. FrameBasic(t, g)
    BY <1>1, <2>5, <2>7, <2>9 DEF FrameOK, FrameBasic
  <2>11. Proceed(t, g)
    BY <2>6 DEF g
  <2> QED
    BY <1>6, <1>7, <2>1, <2>3, <2>9, <2>10, <2>11
<1>10. CASE ListRoles(t)
  <2>1. PICK cs :
           cs = {[name |-> c, role |-> [roles[c] EXCEPT !.parent = Nil]] :
                    c \in ChildrenOf(f.call.name)}
    OBVIOUS
  <2>2. ASSUME NEW c \in ChildrenOf(f.call.name)
        PROVE  [name |-> c, role |-> [roles[c] EXCEPT !.parent = Nil]] \in DetachedChild
    <3>1. c \in RoleIDs /\ RoleExists(c)
      BY <1>6, <2>2, NilAssumption DEF ChildrenOf, ParentOf
    <3>2. roles[c] \in Role /\ roles[c].permissions \subseteq ValidPermissions
      BY <3>1 DEF TypeOK, StoreTypeOK, RoleExists
    <3>3. PICK r : r = [roles[c] EXCEPT !.parent = Nil]
      OBVIOUS
    <3>4. r \in Role /\ r.parent = Nil /\ r.permissions \subseteq ValidPermissions
      BY <3>2, <3>3 DEF Role
    <3>5. [name |-> c, role |-> r] \in DetachedChild
      BY <3>1, <3>4 DEF DetachedChild, Child
    <3> QED
      BY <3>3, <3>5
  <2>3. cs \subseteq DetachedChild
    BY <2>1, <2>2
  <2>4. cs \in SUBSET (UserIDs \cup RoleIDs \cup Child)
    BY <2>3 DEF DetachedChild
  <2> DEFINE g == [d EXCEPT !.todo = cs]
  <2>5. Proceed(t, g)
    BY <1>10, <2>1 DEF ListRoles
  <2>6. d.pc = "detachChild"
    BY <1>4, <1>5, <1>10 DEF ListRoles, At
  <2> HIDE DEF d
  <2>7. /\ FrameBasic(t, g) /\ g.pc = "detachChild" /\ g.call = f.call /\ g.at = f.at
        /\ g.name = f.name /\ g.seen = f.seen /\ g.todo = cs
    BY <1>5, <2>4, <2>6 DEF FrameBasic, FrameRecord
  <2> HIDE DEF g
  <2> QED
    BY <1>6, <1>7, <2>3, <2>5, <2>7
<1>11. CASE DetachChild(t) /\ ~Return(t)
  <2>1. f.pc = "detachChild" /\ f.todo \subseteq DetachedChild
    BY <1>1, <1>4, <1>11 DEF DetachChild, At, FrameOK, FrameLoops
  <2>2. PICK child \in f.todo :
           Proceed(t, [f EXCEPT !.todo = f.todo \ {child}, !.name = child.name,
                                !.pc = "invalidateRoleHolders"])
    BY <1>11 DEF DetachChild
  <2>3. child.name \in RoleIDs
    BY <2>1, <2>2 DEF DetachedChild, Child
  <2>4. "invalidateRoleHolders" \in DOMAIN Program[f.call.op] \ {"start"}
    BY <1>4 DEF Program
  <2>5. "invalidateRoleHolders" \in UNION {DOMAIN Program[op] : op \in Ops}
    BY <1>1, <2>4, PcType
  <2> DEFINE g == [f EXCEPT !.todo = f.todo \ {child}, !.name = child.name,
                            !.pc = "invalidateRoleHolders"]
  <2>6. /\ g \in FrameRecord /\ g.pc = "invalidateRoleHolders" /\ g.call = f.call /\ g.at = f.at
        /\ g.name = child.name /\ g.seen = f.seen /\ g.todo \subseteq f.todo
        /\ g.user = f.user /\ g.role = f.role /\ g.perms = f.perms
    BY <1>1, <2>3, <2>5 DEF FrameOK, FrameBasic, FrameRecord
  <2> HIDE DEF g
  <2>7. FrameBasic(t, g)
    BY <1>1, <2>4, <2>6 DEF FrameOK, FrameBasic
  <2>8. Proceed(t, g)
    BY <2>2 DEF g
  <2> QED
    BY <1>6, <1>7, <2>1, <2>3, <2>6, <2>7, <2>8
<1>12. CASE Return(t)
  BY <1>12, ReturnOK
<1> QED
  BY <1>8, <1>9, <1>10, <1>11, <1>12

LEMMA FramesStep ==
    ASSUME TypeOK, FramesOK, NEW t \in Threads, Start(t) \/ Step(t)
    PROVE  FramesOK'
<1>1. CASE Start(t) \/ LoopDone(t)
  BY <1>1, StartOK, LoopDoneOK
<1>2. CASE \/ StoreFails(t) \/ DeleteUserStep(t) \/ CreateRoleStep(t) \/ DeleteRoleStep(t)
           \/ Publish(t) \/ PublishDirectRoles(t)
  BY <1>2, ReturnOK
     DEF StoreFails, DeleteUserStep, CreateRoleStep, DeleteRoleStep, Publish, PublishDirectRoles
<1>3. CASE \/ GetUser(t) \/ GetRole(t) \/ Walk(t) \/ Resolve(t) \/ Collect(t)
           \/ GrantHolderStep(t) \/ InvalidateHolder(t)
  BY <1>3, GetUserOK, GetRoleOK, WalkOK, ResolveOK, CollectOK, GrantHolderOK
<1>4. CASE ReadHolders(t) \/ DetachUser(t) \/ ListRoles(t) \/ DetachChild(t)
  BY <1>4, DeleteRoleLoopsOK
<1>5. CASE \/ GetParent(t) \/ CreateUserStep(t) \/ UpdateUserStep(t) \/ UpdateRoleStep(t)
           \/ DropHolders(t) \/ EvictUser(t) \/ RevokeHolderStep(t) \/ SetDirectRolesStep(t)
           \/ InvalidateUserStep(t) \/ InvalidateRoleHoldersStep(t)
           \/ ReadCache(t) \/ ReadDirectRoles(t)
  <2>1. frame[t] # Nil /\ frame[t].pc \in PlainSteps
    BY <1>5 DEF PlainSteps, At, GetParent, CreateUserStep, UpdateUserStep, UpdateRoleStep,
                DropHolders, EvictUser, RevokeHolderStep, SetDirectRolesStep, InvalidateUserStep,
                InvalidateRoleHoldersStep, ReadCache, ReadDirectRoles
  <2>2. Return(t) \/ Proceed(t, Done(frame[t]))
    BY <1>5 DEF GetParent, CreateUserStep, UpdateUserStep, UpdateRoleStep,
                DropHolders, EvictUser, RevokeHolderStep, SetDirectRolesStep, InvalidateUserStep,
                InvalidateRoleHoldersStep, ReadCache, ReadDirectRoles
  <2> QED
    BY <2>1, <2>2, PlainStepOK
<1> QED
  BY <1>1, <1>2, <1>3, <1>4, <1>5 DEF Step

\* The steps that use a user's name, and those that use a role's.
LEMMA StepOps ==
    ASSUME NEW c \in Call, NEW s \in DOMAIN Program[c.op] \ {"start"}
    PROVE  /\ s \in {"createUser", "grantHolder", "evict", "deleteUser", "invalidateUser", "publish",
                    "publishDirectRoles"} => c.op \in UserOps
           /\ s \in {"createRole", "updateRole", "deleteRole", "revokeHolder", "dropHolders",
                    "invalidateRoleHolders", "detachChild"} => c.op \in RoleOps
<1>1. CASE s = "createUser"
  BY <1>1, StepTable DEF UserOps, Readers
<1>2. CASE s = "grantHolder"
  BY <1>2, StepTable DEF UserOps, Readers
<1>3. CASE s = "evict"
  BY <1>3, StepTable DEF UserOps, Readers
<1>4. CASE s = "deleteUser"
  BY <1>4, StepTable DEF UserOps, Readers
<1>5. CASE s = "invalidateUser"
  BY <1>5, StepTable DEF UserOps, Readers
<1>6. CASE s = "publish"
  BY <1>6, StepTable DEF UserOps, Readers
<1>7. CASE s = "publishDirectRoles"
  BY <1>7, StepTable DEF UserOps, Readers
<1>8. CASE s = "createRole"
  BY <1>8, StepTable DEF RoleOps
<1>9. CASE s = "updateRole"
  BY <1>9, StepTable DEF RoleOps
<1>10. CASE s = "deleteRole"
  BY <1>10, StepTable DEF RoleOps
<1>11. CASE s = "revokeHolder"
  BY <1>11, StepTable DEF RoleOps
<1>12. CASE s = "dropHolders"
  BY <1>12, StepTable DEF RoleOps
<1>13. CASE s = "invalidateRoleHolders"
  BY <1>13, StepTable DEF RoleOps
<1>14. CASE s = "detachChild"
  BY <1>14, StepTable DEF RoleOps
<1> QED
  BY <1>1, <1>2, <1>3, <1>4, <1>5, <1>6, <1>7, <1>8, <1>9, <1>10, <1>11, <1>12, <1>13, <1>14

LEMMA StepTypes ==
    ASSUME TypeOK, FramesOK, NEW t \in Threads, Start(t) \/ Step(t)
    PROVE  TypeOK'
<1> DEFINE f == frame[t]
<1> USE NilAssumption
<1>1. CASE \/ Start(t) \/ LoopDone(t) \/ StoreFails(t) \/ GetUser(t) \/ GetRole(t) \/ GetParent(t)
           \/ Walk(t) \/ ReadHolders(t) \/ DetachUser(t) \/ ListRoles(t) \/ ReadCache(t)
           \/ Resolve(t) \/ Collect(t) \/ ReadDirectRoles(t)
  <2>1. UNCHANGED vars
    BY <1>1 DEF Start, LoopDone, StoreFails, GetUser, GetRole, GetParent, Walk, ReadHolders,
                DetachUser, ListRoles, ReadCache, Resolve, Collect, ReadDirectRoles
  <2> QED
    BY <2>1 DEF vars, TypeOK, StoreTypeOK, UserExists, RoleExists
<1>2. CASE f # Nil
  <2>1. /\ FrameOK(t, f) /\ f.call \in Call /\ f.pc \in DOMAIN Program[f.call.op] \ {"start"}
        /\ f.call.op \in UserOps => f.id \in UserIDs
        /\ f.call.op \in RoleOps => f.call.name \in RoleIDs /\ f.name \in RoleIDs
        /\ f.user \in User /\ f.role \in Role
        /\ f.user.direct \subseteq ValidPermissions /\ f.role.permissions \subseteq ValidPermissions
        /\ f.perms \subseteq ValidPermissions
    BY <1>2, InCall DEF FrameOK, FrameBasic, FrameNames, FrameRecord
  <2>2. /\ f.pc \in {"createUser", "grantHolder", "evict", "deleteUser", "updateUser", "revokeHolder",
                    "setDirectRoles", "invalidateUser", "publish", "publishDirectRoles"} =>
             f.id \in UserIDs
        /\ f.pc \in {"createRole", "updateRole", "deleteRole", "revokeHolder", "dropHolders",
                     "invalidateRoleHolders"} => f.name \in RoleIDs /\ f.call.name \in RoleIDs
    <3> HIDE DEF f
    <3> QED
      BY <2>1, StepOps DEF FrameOK, FrameNames
  <2> HIDE DEF f
  <2> USE DEF TypeOK, StoreTypeOK, UserExists, RoleExists
  <2>3. CASE CreateUserStep(t) \/ UpdateUserStep(t)
    <3>1. f.id \in UserIDs /\ (users' = users \/ users' = [users EXCEPT ![f.id] = f.user])
      BY <2>2, <2>3 DEF CreateUserStep, UpdateUserStep, StoreCreateUser, StoreUpdateUser, At, f
    <3>2. UNCHANGED <<roles, memo, restarts>>
      BY <2>3 DEF CreateUserStep, UpdateUserStep
    <3> QED
      BY <2>1, <3>1, <3>2 DEF memo
  <2>4. CASE DeleteUserStep(t)
    BY <2>2, <2>4 DEF DeleteUserStep, StoreDeleteUser, At, f, memo
  <2>5. CASE CreateRoleStep(t) \/ UpdateRoleStep(t)
    <3>1. f.name \in RoleIDs /\ (roles' = roles \/ roles' = [roles EXCEPT ![f.name] = f.role])
      BY <2>2, <2>5 DEF CreateRoleStep, UpdateRoleStep, StoreCreateRole, StoreUpdateRole, At, f
    <3>2. UNCHANGED <<users, memo, restarts>>
      BY <2>5 DEF CreateRoleStep, UpdateRoleStep
    <3> QED
      BY <2>1, <3>1, <3>2 DEF memo
  <2>6. CASE DeleteRoleStep(t)
    BY <2>2, <2>6 DEF DeleteRoleStep, StoreDeleteRole, At, f, memo
  <2>7. CASE DetachChild(t)
    <3>0. f.pc = "detachChild"
      BY <2>7 DEF DetachChild, At, f
    <3>1. f.call.op = "DeleteRole" /\ f.pc = "detachChild"
      BY <2>1, <3>0, StepTable
    <3>2. f.todo \subseteq DetachedChild
      BY <2>1, <3>1 DEF FrameOK, FrameLoops
    <3>3. PICK child \in f.todo : roles' = roles \/ roles' = [roles EXCEPT ![child.name] = child.role]
      BY <2>7 DEF DetachChild, StoreUpdateRole, f
    <3>4. child.name \in RoleIDs /\ child.role \in Role /\ child.role.permissions \subseteq ValidPermissions
      BY <3>2, <3>3 DEF DetachedChild, Child
    <3>5. UNCHANGED <<users, memo, restarts>>
      BY <2>7 DEF DetachChild
    <3> QED
      BY <3>3, <3>4, <3>5 DEF memo
  <2>8. CASE DropHolders(t)
    BY <2>2, <2>8 DEF DropHolders, At, f
  <2>9. CASE InvalidateHolder(t) \/ InvalidateUserStep(t) \/ InvalidateRoleHoldersStep(t)
    <3>1. PICK S : cache' = Evict(S)
      BY <2>9 DEF InvalidateHolder, InvalidateUserStep, InvalidateRoleHoldersStep,
                  InvalidateRoleHolders
    <3>2. UNCHANGED <<users, roles, directRoles, roleHolders, restarts>>
      BY <2>9 DEF InvalidateHolder, InvalidateUserStep, InvalidateRoleHoldersStep
    <3> QED
      BY <3>1, <3>2 DEF Evict
  <2>10. CASE EvictUser(t)
    BY <2>2, <2>10 DEF EvictUser, At, f, Evict, SetDirectRoles, DirectEntry
  <2>11. CASE GrantHolderStep(t)
    <3>1. f.pc = "grantHolder" /\ f.id \in UserIDs
      BY <2>2, <2>11 DEF GrantHolderStep, At, f
    <3> QED
      BY <2>11, <3>1 DEF GrantHolderStep, GrantHolder, f
  <2>12. CASE RevokeHolderStep(t)
    BY <2>2, <2>12 DEF RevokeHolderStep, RevokeHolder, At, f
  <2>13. CASE SetDirectRolesStep(t)
    <3>1. f.id \in UserIDs /\ f.user.roles \in SUBSET RoleIDs
      BY <2>1, <2>2, <2>13 DEF SetDirectRolesStep, At, f, User
    <3> QED
      BY <2>13, <3>1 DEF SetDirectRolesStep, SetDirectRoles, DirectEntry, f
  <2>14. CASE Publish(t) \/ PublishDirectRoles(t)
    <3>1. f.id \in UserIDs /\ f.user.roles \in SUBSET RoleIDs
          /\ f.perms \cup f.user.direct \in SUBSET ValidPermissions
      BY <2>1, <2>2, <2>14 DEF Publish, PublishDirectRoles, At, f, User
    <3>2. directRoles' \in [UserIDs -> {Nil} \cup SUBSET RoleIDs]
      BY <2>14, <3>1 DEF Publish, PublishDirectRoles, MemoizeDirectRoles, f
    <3>3. cache' \in [UserIDs -> {Nil} \cup SUBSET ValidPermissions]
      BY <2>14, <3>1 DEF Publish, PublishDirectRoles, f
    <3>4. UNCHANGED <<users, roles, roleHolders, restarts>>
      BY <2>14 DEF Publish, PublishDirectRoles
    <3> QED
      BY <3>2, <3>3, <3>4
  <2> QED
    BY <1>1, <2>3, <2>4, <2>5, <2>6, <2>7, <2>8, <2>9, <2>10, <2>11, <2>12, <2>13, <2>14 DEF Step
<1> QED
  BY <1>1, <1>2
     DEF Step, At, CreateUserStep, UpdateUserStep, DeleteUserStep, CreateRoleStep, UpdateRoleStep,
         DeleteRoleStep, DetachChild, DropHolders, InvalidateHolder, EvictUser, GrantHolderStep,
         RevokeHolderStep, SetDirectRolesStep, InvalidateUserStep, InvalidateRoleHoldersStep,
         Publish, PublishDirectRoles

LEMMA TypesStart ==
    ASSUME CInit
    PROVE  TypeOK /\ FramesOK
<1>1. FramesOK
  BY DEF CInit, FramesOK
<1>2. StoreTypeOK
  BY StoreAssumption DEF CInit, StoreTypeOK
<1>3. directRoles \in [UserIDs -> {Nil} \cup SUBSET RoleIDs]
  BY <1>2 DEF CInit, StoreTypeOK, DirectEntry, User, UserExists
<1>4. \A id \in UserIDs : UserExists(id) => users[id].direct \subseteq ValidPermissions
  BY <1>2, StoreAssumption DEF CInit, StoreTypeOK, ValidPermissions, User, UserExists
<1>5. \A r \in RoleIDs : RoleExists(r) => roles[r].permissions \subseteq ValidPermissions
  BY <1>2, StoreAssumption DEF CInit, StoreTypeOK, ValidPermissions, Role, RoleExists
<1> QED
  BY <1>1, <1>2, <1>3, <1>4, <1>5, MaxRestartsAssumption DEF CInit, TypeOK

LEMMA TypesInvariant == CSafety => [](TypeOK /\ FramesOK)
<1>1. CInit => TypeOK /\ FramesOK
  BY TypesStart
<1>2. TypeOK /\ FramesOK /\ [CNext]_cvars => (TypeOK /\ FramesOK)'
  <2>1. TypeOK /\ FramesOK /\ CNext => (TypeOK /\ FramesOK)'
    BY StepTypes, FramesStep DEF CNext
  <2>2. TypeOK /\ FramesOK /\ UNCHANGED cvars => (TypeOK /\ FramesOK)'
    BY DEF cvars, vars, TypeOK, StoreTypeOK, UserExists, RoleExists, FramesOK
  <2> QED
    BY <2>1, <2>2
<1> QED
  BY <1>1, <1>2, PTL DEF CSafety

\* Whatever the goroutines call and however their steps interleave, with a store
\* that fails or not: the shared state stays well typed and holds only
\* permissions that Valid accepts, every call is at a step of its own method,
\* and no walk of validateInheritance goes past the cap, even when the roles
\* are re-parented into a cycle under it.
THEOREM CTypeCorrect == CSpec => []CTypeOK
<1>1. TypeOK /\ FramesOK => CTypeOK
  BY DEF CTypeOK, FramesOK, FrameOK, FrameBasic
<1> QED
  BY <1>1, TypesInvariant, PTL DEF CSpec
=============================================================================
