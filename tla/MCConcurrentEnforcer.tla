------------------------ MODULE MCConcurrentEnforcer ------------------------
(***************************************************************************)
(* Instances of ConcurrentEnforcer: who calls what, on which store.        *)
(***************************************************************************)
EXTENDS ConcurrentEnforcer, TLC

CONSTANTS u1, u2, r1, r2, r3, t1, t2

Read       == [resource |-> <<"article">>, action |-> <<"read">>]
OnlyRead   == {Read}

\* Sound where the menu and the initial store treat all names alike.
Symmetry == Permutations(UserIDs) \cup Permutations(RoleIDs)

\* A call on user id, on role name, and on both.
On(op, id, name) ==
    [op |-> op, id |-> id, name |-> name, roles |-> {}, perms |-> {}, parent |-> Nil]
With(op, id, name, p) == [On(op, id, name) EXCEPT !.perms = {p}]
Parented(op, name, parent) == [On(op, Nil, name) EXCEPT !.parent = parent]

Checks == {On(op, id, Nil) : op \in Readers, id \in UserIDs}

UserWrites ==
    {[On("CreateUser", id, Nil) EXCEPT !.roles = rs] : id \in UserIDs, rs \in SUBSET RoleIDs}
    \cup {On("DeleteUser", id, Nil) : id \in UserIDs}
    \cup {On(op, id, name) : op \in {"AssignRole", "RevokeRole"}, id \in UserIDs, name \in RoleIDs}
    \cup {With(op, id, Nil, p) : op \in {"GrantDirectPermission", "RevokeDirectPermission"},
                                 id \in UserIDs, p \in Permissions}

RoleWrites ==
    {[Parented(op, name, parent) EXCEPT !.perms = perms] :
        op \in {"CreateRole", "UpdateRole"}, name \in RoleIDs,
        parent \in RoleIDs \cup {Nil}, perms \in SUBSET Permissions}
    \cup {With(op, Nil, name, p) : op \in {"GrantPermission", "RevokePermission"},
                                   name \in RoleIDs, p \in Permissions}
    \cup {Parented("SetParent", name, parent) : name \in RoleIDs, parent \in RoleIDs \cup {Nil}}
    \cup {On("DeleteRole", Nil, name) : name \in RoleIDs}

\* The stores the runs start from.
NoUsers == [id \in UserIDs |-> Nil]
NoRoles == [name \in RoleIDs |-> Nil]
PlainUsers == [id \in UserIDs |-> [roles |-> {}, direct |-> {}]]
HoldR1     == [id \in UserIDs |-> [roles |-> {r1}, direct |-> {}]]
PlainRoles == [name \in RoleIDs |-> [permissions |-> {}, parent |-> Nil]]
R1Reads    == [PlainRoles EXCEPT ![r1].permissions = {Read}]

-----------------------------------------------------------------------------
(* Who calls what.                                                         *)

\* t1 changes users and roles; t2 checks.
Writes    == UserWrites \cup RoleWrites
OneWriter == (t1 :> Writes) @@ (t2 :> Checks)

\* One goroutine does everything.
Alone == t1 :> Writes \cup Checks

\* Both re-parent roles, into cycles too, while t1 checks.
Reparent ==
    (t1 :> {Parented("SetParent", r1, r2), Parented("SetParent", r3, r1), On("Check", u1, Nil),
            On("DeleteRole", Nil, r3), Parented("CreateRole", r3, Nil)})
    @@ (t2 :> {Parented("SetParent", r2, r1), Parented("SetParent", r2, r3),
               Parented("UpdateRole", r2, Nil)})

RevokeWhileChecking     == (t1 :> {With("RevokePermission", Nil, r1, Read)}) @@ (t2 :> Checks)
RevokeRoleWhileChecking == (t1 :> {On("RevokeRole", u1, r1)}) @@ (t2 :> Checks)
DeleteWhileChecking     == (t1 :> {On("DeleteUser", u1, Nil)}) @@ (t2 :> Checks)
AssignTwice             == (t1 :> {On("AssignRole", u1, r1)}) @@ (t2 :> {On("AssignRole", u1, r2)})
CrossedParents          == (t1 :> {Parented("SetParent", r1, r2)})
                           @@ (t2 :> {Parented("SetParent", r2, r1)})
DeleteAdoptedRole       == (t1 :> {On("DeleteRole", Nil, r1)})
                           @@ (t2 :> {Parented("SetParent", r2, r1)})
DeleteUserFails         == t1 :> {On("DeleteUser", u1, Nil), On("Check", u1, Nil),
                                  With("RevokePermission", Nil, r1, Read)}
DeleteRoleFails         == t1 :> Checks \cup {On("DeleteRole", Nil, r1)}
=============================================================================
