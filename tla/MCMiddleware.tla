---------------------------- MODULE MCMiddleware ----------------------------
(***************************************************************************)
(* Instances of Middleware: t1 changes users and roles, q1 and q2 handle   *)
(* requests.                                                               *)
(***************************************************************************)
EXTENDS Middleware, MCConcurrentEnforcer

CONSTANTS q1, q2

RequestSymmetry == Permutations(Requests)

Write == [resource |-> <<"article">>, action |-> <<"write">>]
ReadAndWrite == {Read, Write}

\* Guards that need everything, guards that need one thing, and guards with an
\* empty list.
MCStacks ==
    {<<[kind |-> "Require", needs |-> <<Read>>],
       [kind |-> "RequireAll", needs |-> <<Read, Write>>]>>,
     <<[kind |-> "RequireRole", needs |-> <<r1>>],
       [kind |-> "RequireAny", needs |-> <<Read, Write>>]>>,
     <<[kind |-> "RequireAll", needs |-> <<>>],
       [kind |-> "RequireAny", needs |-> <<>>]>>}

SingleGuards ==
    {<<[kind |-> "Require", needs |-> <<Read>>]>>, <<[kind |-> "RequireRole", needs |-> <<r1>>]>>}

-----------------------------------------------------------------------------
(* Who calls what.  r1 grants writing, or reading; the user may be granted *)
(* reading.                                                                *)

R1Writes == [PlainRoles EXCEPT ![r1].permissions = {Write}]

CreateU1  == [On("CreateUser", u1, Nil) EXCEPT !.roles = {r1}]
DeleteU1  == On("DeleteUser", u1, Nil)
RoleEdits(p) == {With("GrantPermission", Nil, r1, p), With("RevokePermission", Nil, r1, p)}
HoldEdits    == {On("AssignRole", u1, r1), On("RevokeRole", u1, r1)}
DirectEdits(p) ==
    {With("GrantDirectPermission", u1, Nil, p), With("RevokeDirectPermission", u1, Nil, p)}

Behind(writes) == (t1 :> writes) @@ [q \in Requests |-> Asks]

BehindWrites ==
    Behind({CreateU1, DeleteU1, Parented("CreateRole", r1, Nil), On("DeleteRole", Nil, r1)}
           \cup HoldEdits \cup DirectEdits(Read) \cup RoleEdits(Write))
BehindFewWrites == Behind({CreateU1, DeleteU1} \cup RoleEdits(Read))
\* Writes to the user.  None of them, when a failing store call ends it, leaves
\* an entry behind that it should have evicted; those to roles may, see
\* FailedDeleteUser.cfg and FailedDeleteRole.cfg.
BehindEdits     == Behind({CreateU1, DeleteU1} \cup HoldEdits \cup DirectEdits(Read))
=============================================================================
