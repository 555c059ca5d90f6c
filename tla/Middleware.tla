----------------------------- MODULE Middleware -----------------------------
(***************************************************************************)
(* The net/http guards of package middleware, behind which handlers run.   *)
(* net/http handles each request in a goroutine of its own; a guard first  *)
(* identifies the user, then asks the Enforcer for one permission or role  *)
(* after the other.  Each such call runs step by step (ConcurrentEnforcer) *)
(* while other requests are checked and other goroutines change users and  *)
(* roles.                                                                  *)
(*                                                                         *)
(* seen is a history variable: what was the case at some moment since the  *)
(* request arrived.                                                        *)
(***************************************************************************)
EXTENDS OverlappedReads, Sequences

CONSTANTS
    Requests,   \* the goroutines that handle requests, one after the other
    Stacks      \* the sequences of guards around the handlers of the application

\* What a guard asks for: permissions, or a role.
Needs == Permissions \cup RoleIDs

\* The guards that Require, RequireAll, RequireAny and RequireRole build.
Guards ==
    [kind : {"Require"}, needs : {<<p>> : p \in Permissions}]
    \cup [kind : {"RequireAll", "RequireAny"}, needs : Seq(Permissions)]
    \cup [kind : {"RequireRole"}, needs : {<<r>> : r \in RoleIDs}]

Statuses == {"served", "Unauthorized", "Forbidden", "InternalServerError"}

\* Where a request is: at a guard of its stack, before the next of its needs;
\* set is the granted set that a check found in the cache.
Position ==
    [id : UserIDs \cup {Nil}, stack : Stacks, at : Nat, step : {"identify", "check", "confirm"},
     next : Nat, set : SUBSET Permissions, resolved : BOOLEAN, status : Statuses \cup {Nil}]

\* The calls of the Enforcer that guards make: Check or HasPermission, which
\* differ in what they return with a denial only, and HasRole.
Asks == [op : Readers, id : UserIDs, name : {Nil}, roles : {{}}, perms : {{}}, parent : {Nil}]

ASSUME StacksAssumption   == Stacks \subseteq Seq(Guards) \ {<<>>}
ASSUME NeedsAssumption    == Permissions \cap RoleIDs = {}
ASSUME PositionAssumption ==
    Nil \notin Position /\ Nil \notin Statuses /\ Nil \notin UserIDs
ASSUME RequestsAssumption ==
    /\ Requests \subseteq Threads /\ Nil \notin Requests
    /\ \A q \in Requests : Menu[q] = Asks

VARIABLES
    req,        \* req[q] is where the request of q is, or Nil before the first one
    seen

mvars == <<ovars, req, seen>>

-----------------------------------------------------------------------------
\* The guard q is at, and what it asks for next.
GuardOf(q)  == req[q].stack[req[q].at]
AskedAll(q) == req[q].next > Len(GuardOf(q).needs)
NeedOf(q)   == GuardOf(q).needs[req[q].next]

Pending(q)         == req[q] # Nil /\ req[q].status = Nil
AtGuard(q, step)   == Pending(q) /\ req[q].step = step

\* fail: the guard writes the response and does not call the next handler.
Fail(q, status) == req' = [req EXCEPT ![q].status = status]

\* A guard that calls the next handler without looking whether there is one.
ServeNextPastMutant(q) ==
    req' = [req EXCEPT ![q] = [@ EXCEPT !.resolved = TRUE, !.at = @ + 1, !.step = "identify",
                                        !.next = 1]]

\* A guard that calls itself instead of the next handler.
ServeNextSelfMutant(q) == req' = [req EXCEPT ![q].step = "identify", ![q].next = 1]

\* WithUser and next.ServeHTTP: the next guard finds the user in the context,
\* the handler runs when no guard is left.
ServeNext(q) ==
    LET r == req[q]
    IN  req' = [req EXCEPT ![q] =
                  IF r.at = Len(r.stack)
                  THEN [r EXCEPT !.resolved = TRUE, !.status = "served"]
                  ELSE [r EXCEPT !.resolved = TRUE, !.at = r.at + 1, !.step = "identify",
                                 !.next = 1]]

\* A request for a handler behind stack arrives at a goroutine that has answered
\* the one before; id is what the IdentityFunc will find, Nil an error.
Arrive(q, id, stack) ==
    /\ ~Pending(q)
    /\ req' = [req EXCEPT ![q] = [id |-> id, stack |-> stack, at |-> 1, step |-> "identify",
                                  next |-> 1, set |-> {}, resolved |-> FALSE, status |-> Nil]]
    /\ UNCHANGED ovars

\* identify: the user of the context, or the one the store has for the identity.
Identify(q) ==
    /\ AtGuard(q, "identify")
    /\ LET r == req[q]
       IN  IF r.resolved \/ (r.id # Nil /\ UserExists(r.id))
           THEN req' = [req EXCEPT ![q].step = "check"]
           ELSE Fail(q, "Unauthorized")
    /\ UNCHANGED ovars

-----------------------------------------------------------------------------
(* What a guard makes of an answer.                                        *)

\* Every refusal of Require is taken for an unknown user.
RefusalMutant(kind, unknown) == "Unauthorized"

\* The status of a check that did not grant: pass tells an unknown user from a
\* denial, RequireAny and RequireRole answer every error with 500.
Refusal(kind, unknown) ==
    CASE ~unknown -> "Forbidden"
      [] unknown /\ kind \in {"Require", "RequireAll"} -> "Unauthorized"
      [] unknown /\ kind \in {"RequireAny", "RequireRole"} -> "InternalServerError"

\* One granted need is enough: the loop of RequireAny breaks.
Enough(kind) == kind \in {"RequireAny", "RequireRole"}

\* On to the next need of the guard.
AskNext(q) == req' = [req EXCEPT ![q].next = @ + 1, ![q].step = "check", ![q].set = {}]

\* The answer is yes: every permission of RequireAll has to be granted.
\* The answer is no: RequireAny asks for the next one.
Decide(q, yes) ==
    LET kind == GuardOf(q).kind
    IN  CASE yes /\ Enough(kind)              -> ServeNext(q)
          [] yes /\ ~Enough(kind)             -> AskNext(q)
          [] ~yes /\ kind = "RequireAny"      -> AskNext(q)
          [] ~yes /\ kind # "RequireAny"      -> Fail(q, Refusal(kind, FALSE))

\* The Enforcer does not know the user.
Unknown(q) == Fail(q, Refusal(GuardOf(q).kind, TRUE))

\* The loop over the needs ends: everything was granted, or, for RequireAny,
\* nothing was.
LoopEnds(q) ==
    /\ AtGuard(q, "check") /\ AskedAll(q)
    /\ IF GuardOf(q).kind = "RequireAny" THEN Fail(q, "Forbidden") ELSE ServeNext(q)
    /\ UNCHANGED ovars

-----------------------------------------------------------------------------
(* The call of the Enforcer that a guard makes for its next need.          *)

Question(q) ==
    [op |-> IF GuardOf(q).kind = "RequireRole" THEN "HasRole" ELSE "Check", id |-> req[q].id,
     name |-> Nil, roles |-> {}, perms |-> {}, parent |-> Nil]

Ask(q) ==
    /\ AtGuard(q, "check") /\ ~AskedAll(q)
    /\ frame[q] = Nil
    /\ Proceed(q, Frame(Question(q)))
    /\ UNCHANGED <<vars, req>>

\* A step of the call, which has not returned after it.
CallGoesOn(q) ==
    /\ \/ ReadCache(q) \/ GetUser(q) \/ Resolve(q) \/ Collect(q) \/ LoopDone(q)
       \/ ReadDirectRoles(q)
    /\ frame'[q] # Nil
    /\ UNCHANGED req

\* getGrantedSetFull finds a memoized set, and asks the store for the user.
SetFound(q) ==
    /\ ReadCache(q)
    /\ frame'[q] = Nil
    /\ req' = [req EXCEPT ![q].step = "confirm", ![q].set = cache[req[q].id]]

Permits(set, p) == \E g \in set : Matches(g, p)

\* GetUser after the set was found.  The roles that resolveRoles reads then only
\* go into the text of a denial, and its errors are dropped.
Confirm(q) ==
    /\ AtGuard(q, "confirm")
    /\ IF UserExists(req[q].id) THEN Decide(q, Permits(req[q].set, NeedOf(q))) ELSE Unknown(q)
    /\ UNCHANGED ovars

\* GetUser of a check or of directRolesOf that found nothing memoized.
UserGone(q) ==
    /\ GetUser(q)
    /\ frame'[q] = Nil
    /\ Unknown(q)

\* computeAndCache ends: its set, or the one that another check put there first.
SetComputed(q) ==
    /\ Publish(q)
    /\ Decide(q, Permits(cache'[req[q].id], NeedOf(q)))

\* directRolesOf ends, with the set it found or the one that is memoized now.
RolesKnown(q) ==
    /\ ReadDirectRoles(q) \/ PublishDirectRoles(q)
    /\ frame'[q] = Nil
    /\ Decide(q, NeedOf(q) \in directRoles'[req[q].id])

\* The store fails: identify, RequireAny and RequireRole answer 500, while pass
\* takes every error but an unknown user for a denial.
StoreError(q) ==
    Fail(q, IF req[q].step # "identify" /\ GuardOf(q).kind \in {"Require", "RequireAll"}
            THEN "Forbidden" ELSE "InternalServerError")

\* GetUser, called by identify or on a memoized set, fails.
GetUserFails(q) ==
    /\ Flaky
    /\ AtGuard(q, "confirm") \/ (AtGuard(q, "identify") /\ ~req[q].resolved /\ req[q].id # Nil)
    /\ StoreError(q)
    /\ UNCHANGED ovars

\* A store call of a check that computes what is not memoized fails.
CheckFails(q) == StoreFails(q) /\ StoreError(q)

-----------------------------------------------------------------------------
\* What the store says of the user id: the needs it meets.
Holds(id) ==
    IF id = Nil \/ ~UserExists(id)
    THEN {}
    ELSE users[id].roles \cup {p \in Permissions : Permits(Effective(users[id]), p)}

\* What the guards around the handler of q's request ask for.
Wanted(q) ==
    {n \in Needs : \E i \in DOMAIN req[q].stack :
                      \E j \in DOMAIN req[q].stack[i].needs : n = req[q].stack[i].needs[j]}

Unseen == [held |-> {}, lacked |-> {}, absent |-> FALSE, failed |-> FALSE, excused |-> FALSE]

\* What is the case for the request of q now.
Now(q) ==
    LET id == req[q].id
    IN  [held   |-> Holds(id) \cap Wanted(q),
         lacked |-> Wanted(q) \ Holds(id),
         absent |-> id = Nil \/ ~UserExists(id)]

\* q ends a check that overlapped a write, or that was answered from an entry
\* which such a check published, or whose user inherits permissions.
Excuses(q) ==
    /\ frame[q] # Nil
    /\ frame'[q] = Nil
    /\ LET id == frame[q].id
       IN  CASE frame[q].call.op = "Check"   ->
                  q \in overlapped \/ id \in lateSets \/ (UserExists(id) /\ ~Flat(id))
             [] frame[q].call.op = "HasRole" -> q \in overlapped \/ id \in lateRoles

\* seen takes in what is the case after a step, until the request is answered;
\* a request that arrives starts afresh.
Observe(arrived, failed) ==
    seen' = [q \in Requests |->
        IF q # arrived /\ ~Pending(q)
        THEN seen[q]
        ELSE LET before == IF q = arrived THEN Unseen ELSE seen[q]
                 now    == Now(q)'
             IN  [held    |-> before.held \cup now.held,
                  lacked  |-> before.lacked \cup now.lacked,
                  absent  |-> before.absent \/ now.absent,
                  failed  |-> before.failed \/ q = failed,
                  excused |-> before.excused \/ Excuses(q)]]

MInit ==
    /\ OInit
    /\ req = [q \in Requests |-> Nil]
    /\ seen = [q \in Requests |-> Unseen]

\* The guards go on with q.
Handle(q) ==
    /\ \/ Identify(q) \/ Confirm(q) \/ LoopEnds(q)
       \/ /\ Ask(q) \/ CallGoesOn(q) \/ SetFound(q) \/ UserGone(q) \/ SetComputed(q) \/ RolesKnown(q)
          /\ Track
    /\ Observe(Nil, Nil)

\* A store call that q waits for fails.
HandleFails(q) ==
    /\ GetUserFails(q) \/ (CheckFails(q) /\ Track)
    /\ Observe(Nil, q)

\* Another goroutine of the application calls the Enforcer.
Elsewhere(t) ==
    /\ Start(t) \/ Step(t)
    /\ Track
    /\ UNCHANGED req
    /\ Observe(Nil, Nil)

MNext ==
    \/ \E q \in Requests, id \in UserIDs \cup {Nil}, stack \in Stacks :
          Arrive(q, id, stack) /\ Observe(q, Nil)
    \/ \E q \in Requests : Handle(q) \/ HandleFails(q)
    \/ \E t \in Threads \ Requests : Elsewhere(t)

\* Between its arrival and its answer a request is worked on: handlers run in
\* goroutines of their own and wait for nobody.
MSpec == MInit /\ [][MNext]_mvars /\ \A q \in Requests : WF_mvars(Handle(q))

-----------------------------------------------------------------------------
\* Requests are at a guard of their stack, and ask no further than its needs.
MTypeOK ==
    /\ CTypeOK
    /\ \A q \in Requests : req[q] # Nil =>
          /\ req[q] \in Position
          /\ req[q].at \in DOMAIN req[q].stack
          /\ req[q].next \in 1..(Len(GuardOf(q).needs) + 1)

\* What a guard asks for was met, each need at some moment.
Met(g, held) ==
    IF g.kind = "RequireAny"
    THEN \E i \in DOMAIN g.needs : g.needs[i] \in held
    ELSE \A i \in DOMAIN g.needs : g.needs[i] \in held

\* A handler runs only for a user that, while the request was under way, held
\* according to the store whatever each guard of the stack asks for, however
\* users and roles changed between two guards, two needs, or two store calls of
\* a check: a request that arrives after a revocation returned is not let
\* through by what was memoized before, nor by the user that an outer guard put
\* into the context.  Excused are requests one of whose checks overlapped a
\* write, or used an entry that a check published which overlapped one (see
\* StaleFill.cfg and StaleHasRole.cfg for what happens then), or was about
\* inherited permissions.  Calls that a failing store ends before they evicted
\* (FailedDeleteUser.cfg, FailedDeleteRole.cfg) are not among those of the run.
ServedWasAuthorized ==
    \A q \in Requests : req[q] # Nil /\ req[q].status = "served" /\ ~seen[q].excused =>
        \A i \in DOMAIN req[q].stack : Met(req[q].stack[i], seen[q].held)

\* No refusal without a reason in the store while the request was under way:
\* 401 only when there was no such user at some moment, 403 only when needs of
\* the guard were not met at some moment (with the same excuses; a store that
\* failed is no reason, see StoreFailureIs500).
AnswersJustified ==
    \A q \in Requests : req[q] # Nil =>
        /\ req[q].status = "Unauthorized" => seen[q].absent
        /\ req[q].status = "Forbidden" /\ ~seen[q].failed /\ ~seen[q].excused =>
              IF GuardOf(q).kind = "RequireAny"
              THEN \A i \in DOMAIN GuardOf(q).needs : GuardOf(q).needs[i] \in seen[q].lacked
              ELSE \E i \in DOMAIN GuardOf(q).needs : GuardOf(q).needs[i] \in seen[q].lacked

\* Every request that arrived is answered.
RequestsAnswered == \A q \in Requests : Pending(q) ~> ~Pending(q)

\* An unknown user is answered 401 ("user does not exist -> 401", README.md;
\* "unknown user should be rejected with 401", middleware_test.go): 500 is kept
\* for a store that failed.
UnknownUserIs401 ==
    \A q \in Requests : req[q] # Nil /\ req[q].status = "InternalServerError" => seen[q].failed

\* A store that fails is answered 500 ("store failure should surface as 500",
\* middleware_test.go) at whatever call of a guard it fails.
StoreFailureIs500 ==
    \A q \in Requests : req[q] # Nil /\ seen[q].failed => req[q].status = "InternalServerError"
=============================================================================
