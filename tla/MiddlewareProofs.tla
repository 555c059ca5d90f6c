-------------------------- MODULE MiddlewareProofs --------------------------
(***************************************************************************)
(* Proofs about Middleware for every set of requests and every stack of    *)
(* guards, however long, behind which users and roles change.              *)
(***************************************************************************)
EXTENDS Middleware, OneWriterProofs, SequenceTheorems

USE StacksAssumption, NeedsAssumption, PositionAssumption, RequestsAssumption

-----------------------------------------------------------------------------
(* Where a request can be.                                                 *)

\* A request is at one of its guards, which has an identified user before it
\* asks for anything, and keeps a set only for the permission it asks for.
Placed(q) ==
    /\ req[q].at \in 1..Len(req[q].stack)
    /\ req[q].next \in 1..(Len(GuardOf(q).needs) + 1)
    /\ req[q].step # "identify" \/ req[q].resolved => req[q].id # Nil
    /\ req[q].step = "confirm" => ~AskedAll(q) /\ GuardOf(q).kind # "RequireRole"

ReqInv ==
    /\ req \in [Requests -> Position \cup {Nil}]
    /\ \A q \in Requests : req[q] # Nil => Placed(q)

\* A request in a call of the Enforcer is at a guard that asks for something,
\* and the call is that question.
Asking(q) ==
    frame[q] # Nil => /\ AtGuard(q, "check") /\ ~AskedAll(q)
                      /\ frame[q].call = Question(q)

GuardInv == TypeOK /\ FramesOK /\ ReqInv /\ \A q \in Requests : Asking(q)

\* The guards of a stack, and what they ask for.
LEMMA GuardTypes ==
    ASSUME NEW stack \in Stacks, NEW i \in 1..Len(stack)
    PROVE  /\ stack \in Seq(Guards) /\ Len(stack) \in Nat \ {0}
           /\ stack[i] \in Guards
           /\ stack[i].kind \in {"Require", "RequireAll", "RequireAny", "RequireRole"}
           /\ Len(stack[i].needs) \in Nat
           /\ \A j \in 1..Len(stack[i].needs) :
                 IF stack[i].kind = "RequireRole"
                 THEN stack[i].needs[j] \in RoleIDs
                 ELSE stack[i].needs[j] \in Permissions
<1>1. stack \in Seq(Guards) /\ stack # <<>>
  OBVIOUS
<1>2. Len(stack) \in Nat \ {0} /\ stack[i] \in Guards
  BY <1>1, LenProperties, ElementOfSeq, EmptySeq
<1> DEFINE g == stack[i]
<1> HIDE DEF g
<1>3. g \in Guards
  BY <1>2 DEF g
<1>4. CASE g \in [kind : {"Require"}, needs : {<<p>> : p \in Permissions}]
  <2>1. PICK p \in Permissions : g.needs = <<p>>
    BY <1>4
  <2> QED
    BY <1>1, <1>2, <1>4, <2>1 DEF g
<1>5. CASE g \in [kind : {"RequireAll", "RequireAny"}, needs : Seq(Permissions)]
  <2>1. g.needs \in Seq(Permissions) /\ g.kind \in {"RequireAll", "RequireAny"}
    BY <1>5
  <2> QED
    BY <1>1, <1>2, <2>1, LenProperties, ElementOfSeq DEF g
<1>6. CASE g \in [kind : {"RequireRole"}, needs : {<<r>> : r \in RoleIDs}]
  <2>1. PICK r \in RoleIDs : g.needs = <<r>>
    BY <1>6
  <2> QED
    BY <1>1, <1>2, <1>6, <2>1 DEF g
<1> QED
  BY <1>3, <1>4, <1>5, <1>6 DEF Guards

\* What is known of a request under way.
LEMMA UnderWay ==
    ASSUME ReqInv, NEW q \in Requests, req[q] # Nil
    PROVE  /\ req[q] \in Position /\ Placed(q)
           /\ GuardOf(q) \in Guards
           /\ GuardOf(q).kind \in {"Require", "RequireAll", "RequireAny", "RequireRole"}
           /\ Len(GuardOf(q).needs) \in Nat
<1>1. req[q] \in Position /\ Placed(q)
  BY DEF ReqInv
<1>2. req[q].stack \in Stacks /\ req[q].at \in 1..Len(req[q].stack)
  BY <1>1 DEF Position, Placed
<1> QED
  BY <1>1, <1>2, GuardTypes DEF GuardOf

LEMMA GuardNeeds ==
    ASSUME NEW g \in Guards
    PROVE  /\ DOMAIN g.needs = 1..Len(g.needs)
           /\ g.kind = "RequireRole" => Len(g.needs) = 1
<1>1. CASE g \in [kind : {"Require"}, needs : {<<p>> : p \in Permissions}]
  BY <1>1
<1>2. CASE g \in [kind : {"RequireAll", "RequireAny"}, needs : Seq(Permissions)]
  <2>1. g.needs \in Seq(Permissions) /\ g.kind \in {"RequireAll", "RequireAny"}
    BY <1>2
  <2> QED
    BY <2>1, LenProperties
<1>3. CASE g \in [kind : {"RequireRole"}, needs : {<<r>> : r \in RoleIDs}]
  BY <1>3
<1> QED
  BY <1>1, <1>2, <1>3 DEF Guards

\* The need a guard asks for next.
LEMMA NeedTypes ==
    ASSUME ReqInv, NEW q \in Requests, Pending(q), req[q].step # "identify", ~AskedAll(q)
    PROVE  /\ req[q].id \in UserIDs
           /\ req[q].next \in DOMAIN GuardOf(q).needs
           /\ IF GuardOf(q).kind = "RequireRole"
              THEN NeedOf(q) \in RoleIDs /\ DOMAIN GuardOf(q).needs = {req[q].next}
              ELSE NeedOf(q) \in Permissions
<1>1. /\ req[q] \in Position /\ Placed(q) /\ GuardOf(q) \in Guards
      /\ Len(GuardOf(q).needs) \in Nat
  BY UnderWay DEF Pending
<1>2. /\ req[q].id \in UserIDs
      /\ req[q].stack \in Stacks /\ req[q].at \in 1..Len(req[q].stack)
      /\ req[q].next \in Nat
  BY <1>1 DEF Position, Placed, Pending
<1>3. req[q].next \in 1..Len(GuardOf(q).needs)
  BY <1>1, <1>2 DEF Placed, AskedAll
<1>4. IF GuardOf(q).kind = "RequireRole"
      THEN NeedOf(q) \in RoleIDs
      ELSE NeedOf(q) \in Permissions
  BY <1>2, <1>3, GuardTypes DEF GuardOf, NeedOf
<1>5. /\ DOMAIN GuardOf(q).needs = 1..Len(GuardOf(q).needs)
      /\ GuardOf(q).kind = "RequireRole" => Len(GuardOf(q).needs) = 1
  BY <1>1, GuardNeeds
<1>6. ASSUME GuardOf(q).kind = "RequireRole" PROVE DOMAIN GuardOf(q).needs = {req[q].next}
  <2>1. \A n \in 1..1 : 1..1 = {n}
    OBVIOUS
  <2>2. Len(GuardOf(q).needs) = 1
    BY <1>5, <1>6
  <2> QED
    BY <1>3, <1>5, <2>1, <2>2
<1> QED
  BY <1>2, <1>3, <1>4, <1>5, <1>6

\* A step that moves one request, to a place where it can be.
LEMMA MovePlaced ==
    ASSUME ReqInv, NEW q \in Requests, NEW r \in Position,
           req' = [req EXCEPT ![q] = r],
           r.at \in 1..Len(r.stack),
           r.next \in 1..(Len(r.stack[r.at].needs) + 1),
           r.step # "identify" \/ r.resolved => r.id # Nil,
           r.step = "confirm" => /\ ~(r.next > Len(r.stack[r.at].needs))
                                 /\ r.stack[r.at].kind # "RequireRole"
    PROVE  ReqInv'
<1>1. req' \in [Requests -> Position \cup {Nil}] /\ req'[q] = r
  BY DEF ReqInv
<1>2. Placed(q)'
  BY <1>1 DEF Placed, GuardOf, AskedAll
<1>3. ASSUME NEW p \in Requests, p # q, req'[p] # Nil PROVE Placed(p)'
  <2>1. req'[p] = req[p]
    BY <1>3 DEF ReqInv
  <2>2. Placed(p)
    BY <1>3, <2>1 DEF ReqInv
  <2> QED
    BY <2>1, <2>2 DEF Placed, GuardOf, AskedAll
<1> QED
  BY <1>1, <1>2, <1>3 DEF ReqInv

\* What the guards may do to a request: answer it, ...
LEMMA FailPlaced ==
    ASSUME ReqInv, NEW q \in Requests, req[q] # Nil, NEW s \in Statuses, Fail(q, s)
    PROVE  /\ ReqInv'
           /\ req'[q] = [req[q] EXCEPT !.status = s]
           /\ req'[q].stack = req[q].stack /\ req'[q].at = req[q].at /\ req'[q].id = req[q].id
           /\ req'[q].next = req[q].next /\ req'[q].status = s /\ req'[q] \in Position
<1> DEFINE r == [req[q] EXCEPT !.status = s]
<1>1. req[q] \in Position /\ Placed(q)
  BY UnderWay
<1>2. /\ r \in Position /\ r.at = req[q].at /\ r.stack = req[q].stack /\ r.next = req[q].next
      /\ r.step = req[q].step /\ r.resolved = req[q].resolved /\ r.id = req[q].id
      /\ r.status = s
  BY <1>1 DEF Position
<1>3. req' = [req EXCEPT ![q] = r] /\ req'[q] = r
  BY DEF Fail, ReqInv
<1> HIDE DEF r
<1>4. ReqInv'
  BY <1>1, <1>2, <1>3, MovePlaced DEF Placed, GuardOf, AskedAll
<1> QED
  BY <1>2, <1>3, <1>4 DEF r

\* ... go on to the next need, ...
LEMMA AskNextPlaced ==
    ASSUME ReqInv, NEW q \in Requests, Pending(q), req[q].step # "identify", ~AskedAll(q),
           AskNext(q)
    PROVE  /\ ReqInv'
           /\ req'[q].stack = req[q].stack /\ req'[q].at = req[q].at /\ req'[q].id = req[q].id
           /\ req'[q].next = req[q].next + 1 /\ req'[q].status = Nil /\ req'[q].step = "check"
           /\ req'[q] \in Position
<1> DEFINE next == req[q].next + 1
           r == [req[q] EXCEPT !.next = next, !.step = "check", !.set = {}]
<1>1. req[q] \in Position /\ Placed(q) /\ Len(GuardOf(q).needs) \in Nat
  BY UnderWay DEF Pending
<1>2. next \in Nat /\ next \in 1..(Len(GuardOf(q).needs) + 1)
  BY <1>1 DEF AskedAll, Placed
<1>3. req' = [req EXCEPT ![q] = r] /\ req'[q] = r
  BY DEF ReqInv, AskNext
<1> HIDE DEF next
<1>4. /\ r \in Position /\ r.at = req[q].at /\ r.stack = req[q].stack
      /\ r.next = next /\ r.status = req[q].status
      /\ r.step = "check" /\ r.resolved = req[q].resolved /\ r.id = req[q].id
  BY <1>1, <1>2 DEF Position
<1> HIDE DEF r
<1>5. ReqInv'
  BY <1>1, <1>2, <1>3, <1>4, MovePlaced DEF Placed, GuardOf
<1> QED
  BY <1>3, <1>4, <1>5 DEF Pending, next

\* ... or pass it on: the handler runs, or the request is at the next guard.
LEMMA ServeNextPlaced ==
    ASSUME ReqInv, NEW q \in Requests, AtGuard(q, "check") \/ AtGuard(q, "confirm"), ServeNext(q)
    PROVE  /\ ReqInv'
           /\ req'[q] # Nil /\ req'[q].id = req[q].id /\ req'[q].stack = req[q].stack
           /\ \/ /\ req[q].at = Len(req[q].stack)
                 /\ req'[q].at = req[q].at /\ req'[q].status = "served"
                 /\ req'[q].next = req[q].next
              \/ /\ req'[q].at = req[q].at + 1 /\ req'[q].status = Nil
                 /\ req'[q].next = 1 /\ req'[q].step = "identify"
<1>1. req[q] \in Position /\ Placed(q) /\ req[q].id # Nil /\ req[q] # Nil
  BY UnderWay DEF AtGuard, Pending, Placed
<1>2. req[q].stack \in Stacks /\ req[q].at \in 1..Len(req[q].stack)
  BY <1>1 DEF Position, Placed
<1>3. Len(req[q].stack) \in Nat
  BY <1>2, GuardTypes
<1>4. CASE req[q].at = Len(req[q].stack)
  <2> DEFINE r == [req[q] EXCEPT !.resolved = TRUE, !.status = "served"]
  <2>1. /\ r \in Position /\ r.at = req[q].at /\ r.stack = req[q].stack
        /\ r.next = req[q].next /\ r.id = req[q].id /\ r.status = "served"
        /\ r.step = req[q].step
    BY <1>1 DEF Position, Statuses
  <2>2. req' = [req EXCEPT ![q] = r]
    BY <1>4 DEF ServeNext, ReqInv
  <2>3. req'[q] = r
    BY <2>2 DEF ReqInv
  <2> HIDE DEF r
  <2>4. ReqInv'
    BY <1>1, <2>1, <2>2, MovePlaced DEF Placed, GuardOf, AskedAll
  <2> QED
    BY <1>1, <1>4, <2>1, <2>3, <2>4
<1>5. CASE req[q].at # Len(req[q].stack)
  <2> DEFINE r == [req[q] EXCEPT !.resolved = TRUE, !.at = req[q].at + 1, !.step = "identify", !.next = 1]
  <2>1. /\ r \in Position /\ r.at = req[q].at + 1 /\ r.stack = req[q].stack
        /\ r.next = 1 /\ r.id = req[q].id /\ r.status = req[q].status /\ r.step = "identify"
    <3> DEFINE at == req[q].at + 1
    <3>1. at \in Nat /\ 1 \in Nat
      BY <1>2, <1>3
    <3> HIDE DEF at
    <3>2. r = [req[q] EXCEPT !.resolved = TRUE, !.at = at, !.step = "identify", !.next = 1]
      BY DEF at
    <3> HIDE DEF r
    <3>3. /\ r \in Position /\ r.at = at /\ r.stack = req[q].stack
          /\ r.next = 1 /\ r.id = req[q].id /\ r.status = req[q].status /\ r.step = "identify"
      BY <1>1, <3>1, <3>2 DEF Position
    <3> QED
      BY <3>3 DEF at
  <2>2. req' = [req EXCEPT ![q] = r]
    BY <1>5 DEF ServeNext, ReqInv
  <2>3. req'[q] = r
    BY <2>2 DEF ReqInv
  <2>4. r.at \in 1..Len(r.stack) /\ r.stack \in Stacks
    BY <1>2, <1>3, <1>5, <2>1
  <2> HIDE DEF r
  <2>5. Len(r.stack[r.at].needs) \in Nat
    BY <2>4, GuardTypes
  <2>6. r.next \in 1..(Len(r.stack[r.at].needs) + 1)
    <3>1. \A n \in Nat : 1 \in 1..(n + 1)
      OBVIOUS
    <3> QED
      BY <2>1, <2>5, <3>1, Zenon
  <2>7. ReqInv'
    BY <1>1, <2>1, <2>2, <2>4, <2>6, MovePlaced
  <2> QED
    BY <1>1, <2>1, <2>3, <2>7 DEF AtGuard, Pending
<1> QED
  BY <1>4, <1>5

\* The user was identified, and the guard may ask.
LEMMA CheckPlaced ==
    ASSUME ReqInv, NEW q \in Requests, AtGuard(q, "identify"),
           req' = [req EXCEPT ![q].step = "check"], req[q].resolved \/ req[q].id # Nil
    PROVE  /\ ReqInv'
           /\ req'[q].stack = req[q].stack /\ req'[q].at = req[q].at /\ req'[q].id = req[q].id
           /\ req'[q].next = req[q].next /\ req'[q].status = Nil /\ req'[q].step = "check"
           /\ req'[q] # Nil
<1> DEFINE r == [req[q] EXCEPT !.step = "check"]
<1>1. req[q] \in Position /\ Placed(q)
  BY UnderWay DEF AtGuard, Pending
<1>2. /\ r \in Position /\ r.at = req[q].at /\ r.stack = req[q].stack /\ r.next = req[q].next
      /\ r.step = "check" /\ r.resolved = req[q].resolved /\ r.id = req[q].id
      /\ r.status = req[q].status
  BY <1>1 DEF Position
<1>3. req' = [req EXCEPT ![q] = r] /\ req'[q] = r
  BY DEF ReqInv
<1>4. r.id # Nil
  BY <1>1, <1>2 DEF Placed
<1> HIDE DEF r
<1>5. ReqInv'
  BY <1>1, <1>2, <1>3, <1>4, MovePlaced DEF Placed, GuardOf
<1> QED
  BY <1>2, <1>3, <1>5 DEF AtGuard, Pending

\* A memoized set was found.
LEMMA ConfirmPlaced ==
    ASSUME ReqInv, NEW q \in Requests, AtGuard(q, "check"), ~AskedAll(q),
           GuardOf(q).kind # "RequireRole", NEW set \in SUBSET Permissions,
           req' = [req EXCEPT ![q].step = "confirm", ![q].set = set]
    PROVE  /\ ReqInv'
           /\ req'[q].stack = req[q].stack /\ req'[q].at = req[q].at /\ req'[q].id = req[q].id
           /\ req'[q].next = req[q].next /\ req'[q].status = Nil /\ req'[q].step = "confirm"
           /\ req'[q].set = set /\ req'[q] # Nil
<1> DEFINE r == [req[q] EXCEPT !.step = "confirm", !.set = set]
<1>1. req[q] \in Position /\ Placed(q)
  BY UnderWay DEF AtGuard, Pending
<1>2. /\ r \in Position /\ r.at = req[q].at /\ r.stack = req[q].stack /\ r.next = req[q].next
      /\ r.step = "confirm" /\ r.resolved = req[q].resolved /\ r.id = req[q].id
      /\ r.status = req[q].status /\ r.set = set
  BY <1>1 DEF Position
<1>3. req' = [req EXCEPT ![q] = r] /\ req'[q] = r
  BY DEF ReqInv
<1>4. r.id # Nil
  BY <1>1, <1>2 DEF Placed, AtGuard
<1> HIDE DEF r
<1>5. /\ r.at \in 1..Len(r.stack)
      /\ r.next \in 1..(Len(r.stack[r.at].needs) + 1)
      /\ ~(r.next > Len(r.stack[r.at].needs)) /\ r.stack[r.at].kind # "RequireRole"
  BY <1>1, <1>2 DEF Placed, GuardOf, AskedAll
<1>6. ReqInv'
  BY <1>2, <1>3, <1>4, <1>5, MovePlaced
<1> QED
  BY <1>2, <1>3, <1>6 DEF AtGuard, Pending

\* No guard moves another request.
LEMMA OthersStay ==
    ASSUME ReqInv, NEW q \in Requests,
           \/ \E s : Fail(q, s)
           \/ AskNext(q) \/ ServeNext(q)
           \/ req' = [req EXCEPT ![q].step = "check"]
           \/ \E set : req' = [req EXCEPT ![q].step = "confirm", ![q].set = set]
    PROVE  \A p \in Requests \ {q} : req'[p] = req[p]
  BY DEF ReqInv, Fail, AskNext, ServeNext

\* A step goes on with the request of q, which stays the same request.
Moves(q) ==
    /\ ReqInv'
    /\ req'[q] # Nil /\ req'[q].id = req[q].id /\ req'[q].stack = req[q].stack
    /\ \A p \in Requests \ {q} : req'[p] = req[p]

LEMMA RefusalStatus ==
    ASSUME NEW kind \in {"Require", "RequireAll", "RequireAny", "RequireRole"}
    PROVE  /\ Refusal(kind, FALSE) = "Forbidden"
           /\ Refusal(kind, TRUE) \in {"Unauthorized", "InternalServerError"}
           /\ {"Forbidden", "Unauthorized", "InternalServerError"} = Statuses \ {"served"}
  BY DEF Refusal, Statuses

LEMMA FailMoves ==
    ASSUME ReqInv, NEW q \in Requests, Pending(q), NEW s \in Statuses, Fail(q, s)
    PROVE  Moves(q)
<1>1. req[q] # Nil /\ \A p \in Requests \ {q} : req'[p] = req[p]
  BY OthersStay DEF Pending
<1>2. ReqInv' /\ req'[q].id = req[q].id /\ req'[q].stack = req[q].stack /\ req'[q] \in Position
  BY <1>1, FailPlaced
<1> QED
  BY <1>1, <1>2 DEF Moves

LEMMA DecideMoves ==
    ASSUME ReqInv, NEW q \in Requests, Pending(q), req[q].step # "identify", ~AskedAll(q),
           NEW yes, Decide(q, yes) \/ Unknown(q)
    PROVE  Moves(q)
<1>1. GuardOf(q).kind \in {"Require", "RequireAll", "RequireAny", "RequireRole"}
  BY UnderWay DEF Pending
<1>2. req[q].step \in {"check", "confirm"}
  BY UnderWay DEF Pending, Position
<1>3. ServeNext(q) \/ AskNext(q) \/ \E s \in Statuses : Fail(q, s)
  <2>1. Refusal(GuardOf(q).kind, FALSE) \in Statuses /\ Refusal(GuardOf(q).kind, TRUE) \in Statuses
    BY <1>1, RefusalStatus
  <2> QED
    BY <2>1 DEF Decide, Unknown
<1>4. CASE ServeNext(q)
  BY <1>2, <1>4, ServeNextPlaced, OthersStay DEF Moves, AtGuard
<1>5. CASE AskNext(q)
  BY <1>5, AskNextPlaced, OthersStay DEF Moves
<1>6. CASE \E s \in Statuses : Fail(q, s)
  BY <1>6, FailMoves
<1> QED
  BY <1>3, <1>4, <1>5, <1>6

-----------------------------------------------------------------------------
(* The guards call the Enforcer as any goroutine does.                     *)

\* A guard that is in a call asks for what it needs next.
LEMMA InQuestion ==
    ASSUME GuardInv, NEW q \in Requests, frame[q] # Nil
    PROVE  /\ q \in Threads /\ req[q] # Nil /\ Pending(q) /\ AtGuard(q, "check")
           /\ req[q].step = "check" /\ ~AskedAll(q)
           /\ frame[q].id = req[q].id /\ req[q].id \in UserIDs
           /\ frame[q].call.op = IF GuardOf(q).kind = "RequireRole" THEN "HasRole" ELSE "Check"
           /\ Reading(q) /\ FrameOK(q, frame[q]) /\ frame[q].call \in Call
           /\ frame[q].call.op \in Readers
           /\ frame[q].pc \in DOMAIN Program[frame[q].call.op] \ {"start"}
<1>1. q \in Threads /\ Asking(q)
  BY DEF GuardInv
<1>2. AtGuard(q, "check") /\ ~AskedAll(q) /\ frame[q].call = Question(q)
  BY <1>1 DEF Asking
<1>3. req[q] # Nil /\ Pending(q) /\ req[q].step = "check"
  BY <1>2 DEF AtGuard, Pending
<1>4. frame[q].call.op = (IF GuardOf(q).kind = "RequireRole" THEN "HasRole" ELSE "Check")
      /\ frame[q].call.id = req[q].id
  BY <1>2 DEF Question
<1>5. FrameOK(q, frame[q]) /\ frame[q].call \in Call
  BY <1>1, InCall DEF GuardInv
<1>6. frame[q].call.op \in Readers /\ frame[q].call.op \in UserOps
  BY <1>4 DEF Readers, UserOps
<1>7. frame[q].id = req[q].id /\ req[q].id \in UserIDs
  BY <1>1, <1>4, <1>5, <1>6, InCall DEF FrameOK, FrameNames, GuardInv
<1>8. frame[q].pc \in DOMAIN Program[frame[q].call.op] \ {"start"}
  BY <1>5 DEF FrameOK, FrameBasic
<1>9. Reading(q)
  BY <1>6 DEF Reading
<1> QED
  BY <1>1, <1>2, <1>3, <1>4, <1>5, <1>6, <1>7, <1>8, <1>9

\* The steps of a guard in a call.
InCallStep(q) ==
    CallGoesOn(q) \/ SetFound(q) \/ UserGone(q) \/ SetComputed(q) \/ RolesKnown(q) \/ CheckFails(q)

LEMMA CallSteps ==
    ASSUME GuardInv, NEW q \in Requests
    PROVE  /\ Ask(q) => Start(q)
           /\ InCallStep(q) => Step(q) /\ frame[q] # Nil
           /\ InCallStep(q) /\ ~CallGoesOn(q) => frame'[q] = Nil
<1>1. q \in Threads
  OBVIOUS
<1>2. ASSUME Ask(q) PROVE Start(q)
  <2>1. Pending(q) /\ req[q].step = "check" /\ ~AskedAll(q)
    BY <1>2 DEF Ask, AtGuard
  <2>2. req[q].id \in UserIDs
    BY <2>1, NeedTypes DEF GuardInv
  <2>3. PICK c : c = Question(q)
    OBVIOUS
  <2>4. c \in Menu[q] /\ c.perms = {} /\ c.parent = Nil /\ c.op # "CreateUser"
    BY <2>2, <2>3 DEF Question, Asks, Readers
  <2>5. frame[q] = Nil /\ Proceed(q, Frame(c)) /\ UNCHANGED vars
    BY <1>2, <2>3 DEF Ask
  <2> QED
    BY <2>4, <2>5 DEF Start
<1>3. ASSUME InCallStep(q) PROVE Step(q) /\ frame[q] # Nil
  BY <1>3, Effects DEF InCallStep, CallGoesOn, SetFound, UserGone, SetComputed, RolesKnown, CheckFails, Step
<1>4. ASSUME InCallStep(q), ~CallGoesOn(q) PROVE frame'[q] = Nil
  <2>1. Publish(q) \/ StoreFails(q) => Return(q)
    BY DEF Publish, StoreFails
  <2> QED
    BY <1>4, <2>1, Moved DEF GuardInv, InCallStep, SetFound, UserGone, SetComputed, RolesKnown, CheckFails
<1> QED
  BY <1>1, <1>2, <1>3, <1>4

\* The steps of a check.
LEMMA ReadingTable ==
    ASSUME NEW c \in Call, NEW s \in DOMAIN Program[c.op] \ {"start"}
    PROVE  /\ s = "readCache" => c.op = "Check" /\ After(c, s) = "getUser"
           /\ s = "getUser" => After(c, s) # "return"
           /\ s = "publish" => c.op = "Check"
           /\ s = "readDirectRoles" => c.op = "HasRole" /\ After(c, s) = "getUser"
           /\ s = "publishDirectRoles" => c.op = "HasRole"
<1>1. s = "readCache" => c.op = "Check" /\ After(c, s) = "getUser"
  BY StepTable
<1>2. s = "getUser" => After(c, s) # "return"
  BY StepTable
<1>3. s = "publish" => c.op = "Check"
  BY StepTable
<1>4. s = "readDirectRoles" => c.op = "HasRole" /\ After(c, s) = "getUser"
  BY StepTable
<1>5. s = "publishDirectRoles" => c.op = "HasRole"
  BY StepTable
<1> QED
  BY <1>1, <1>2, <1>3, <1>4, <1>5

\* What a guard learns when its call returns.
LEMMA Found ==
    ASSUME GuardInv, NEW q \in Requests, SetFound(q)
    PROVE  /\ frame[q].call.op = "Check" /\ GuardOf(q).kind # "RequireRole"
           /\ cache[req[q].id] # Nil /\ cache[req[q].id] \in SUBSET Permissions
<1>1. frame[q] # Nil
  BY CallSteps DEF InCallStep
<1>2. PICK f : f = frame[q]
  OBVIOUS
<1>3. f # Nil /\ f.pc = "readCache" /\ frame'[q] = Nil /\ ReadCache(q)
  BY <1>2, CallSteps DEF InCallStep, SetFound, ReadCache, At
<1>4. /\ FrameOK(q, f) /\ f.call \in Call /\ f.pc \in DOMAIN Program[f.call.op] \ {"start"}
      /\ f.call.op = (IF GuardOf(q).kind = "RequireRole" THEN "HasRole" ELSE "Check")
      /\ f.id = req[q].id /\ req[q].id \in UserIDs /\ q \in Threads
  BY <1>1, <1>2, InQuestion
<1>5. f.call.op = "Check" /\ After(f.call, f.pc) = "getUser"
  BY <1>3, <1>4, ReadingTable
<1>6. Done(f) \in FrameRecord /\ Done(f).pc # "return"
  BY <1>4, <1>5, DoneBasic DEF FrameBasic
<1>7. ~Proceed(q, Done(f))
  BY <1>3, <1>4, <1>6, Moved, FrameAssumption DEF GuardInv
<1>8. cache[f.id] # Nil
  BY <1>2, <1>3, <1>7 DEF ReadCache
<1>9. cache[f.id] \in SUBSET Permissions
  BY <1>4, <1>8 DEF GuardInv, TypeOK, ValidPermissions
<1>10. GuardOf(q).kind # "RequireRole"
  BY <1>4, <1>5
<1> QED
  BY <1>2, <1>4, <1>5, <1>8, <1>9, <1>10

LEMMA Gone ==
    ASSUME GuardInv, NEW q \in Requests, UserGone(q)
    PROVE  ~UserExists(req[q].id)
<1>1. PICK f : f = frame[q]
  OBVIOUS
<1>2. f # Nil /\ f.pc = "getUser" /\ frame'[q] = Nil /\ GetUser(q)
  BY <1>1, CallSteps DEF InCallStep, UserGone, GetUser, At
<1>3. /\ FrameOK(q, f) /\ f.call \in Call /\ f.pc \in DOMAIN Program[f.call.op] \ {"start"}
      /\ f.id = req[q].id /\ req[q].id \in UserIDs /\ q \in Threads /\ f.call.op \in Readers
  BY <1>1, <1>2, InQuestion
<1>4. After(f.call, f.pc) # "return" /\ f.call.op \in {"Check", "HasRole"}
  BY <1>2, <1>3, StepTable DEF Readers
<1>5. Done(f) \in FrameRecord /\ Done(f).pc # "return"
  BY <1>3, <1>4, DoneBasic DEF FrameBasic
<1> SUFFICES ASSUME UserExists(f.id) PROVE FALSE
  BY <1>3
<1>6. PICK u : u = users[f.id]
  OBVIOUS
<1>7. u \in User /\ EditedUser(f.call, u) = u /\ ~UserNeedsNothing(f.call)
  BY <1>3, <1>4, <1>6 DEF EditedUser, UserNeedsNothing, GuardInv, TypeOK, StoreTypeOK, UserExists
<1> DEFINE g == [Done(f) EXCEPT !.user = u]
           h == [g EXCEPT !.todo = u.roles, !.seen = u.roles]
<1>8. Proceed(q, IF f.call.op = "Check" THEN h ELSE g)
  BY <1>1, <1>2, <1>6, <1>7 DEF GetUser
<1>9. g \in FrameRecord /\ g.pc # "return"
  BY <1>5, <1>7 DEF FrameRecord
<1> HIDE DEF g
<1>10. h \in FrameRecord /\ h.pc # "return"
  BY <1>7, <1>9 DEF FrameRecord, User
<1> HIDE DEF h
<1> QED
  BY <1>2, <1>3, <1>8, <1>9, <1>10, Moved, FrameAssumption DEF GuardInv

LEMMA Known ==
    ASSUME GuardInv, NEW q \in Requests, RolesKnown(q)
    PROVE  /\ frame[q].call.op = "HasRole" /\ GuardOf(q).kind = "RequireRole"
           /\ ReadDirectRoles(q) => directRoles[req[q].id] # Nil
<1>1. PICK f : f = frame[q]
  OBVIOUS
<1>2. f # Nil /\ f.pc \in {"readDirectRoles", "publishDirectRoles"} /\ frame'[q] = Nil
  BY <1>1, CallSteps DEF InCallStep, RolesKnown, ReadDirectRoles, PublishDirectRoles, At
<1>3. /\ FrameOK(q, f) /\ f.call \in Call /\ f.pc \in DOMAIN Program[f.call.op] \ {"start"}
      /\ f.call.op = (IF GuardOf(q).kind = "RequireRole" THEN "HasRole" ELSE "Check")
      /\ f.id = req[q].id /\ req[q].id \in UserIDs /\ q \in Threads
  BY <1>1, <1>2, InQuestion
<1>4. f.call.op = "HasRole"
  BY <1>2, <1>3, ReadingTable
<1>5. ASSUME ReadDirectRoles(q) PROVE directRoles[f.id] # Nil
  <2>1. f.pc = "readDirectRoles"
    BY <1>1, <1>5 DEF ReadDirectRoles, At
  <2>2. After(f.call, f.pc) = "getUser"
    BY <1>3, <2>1, ReadingTable
  <2>3. Done(f) \in FrameRecord /\ Done(f).pc # "return"
    BY <1>3, <2>2, DoneBasic DEF FrameBasic
  <2>4. ~Proceed(q, Done(f))
    BY <1>2, <1>3, <2>3, Moved, FrameAssumption DEF GuardInv
  <2> QED
    BY <1>1, <1>5, <2>4 DEF ReadDirectRoles
<1> QED
  BY <1>1, <1>3, <1>4, <1>5

\* What the guards do with the request of q.
Guarded(q) ==
    \/ Identify(q) \/ Confirm(q) \/ LoopEnds(q) \/ GetUserFails(q)
    \/ Ask(q) \/ InCallStep(q)

LEMMA SameReq ==
    ASSUME ReqInv, req' = req
    PROVE  ReqInv' /\ \A q \in Requests : Pending(q) => Moves(q)
<1>1. ReqInv'
  BY DEF ReqInv, Placed, GuardOf, AskedAll
<1> QED
  BY <1>1 DEF Moves, Pending

\* A guard moves one request, of one user, and leaves the store alone.
LEMMA HandleMoves ==
    ASSUME GuardInv, NEW q \in Requests, Guarded(q)
    PROVE  Pending(q) /\ Moves(q) /\ UNCHANGED <<users, roles>>
<1>1. ReqInv
  BY DEF GuardInv
<1>2. Pending(q)
  BY InQuestion, CallSteps DEF Guarded, Identify, Confirm, LoopEnds, GetUserFails, Ask, AtGuard
<1>3. UNCHANGED <<users, roles>>
  BY DEF Guarded, Identify, Confirm, LoopEnds, GetUserFails, Ask, InCallStep, CallGoesOn, SetFound,
         UserGone, SetComputed, RolesKnown, CheckFails, StoreFails, ReadCache, GetUser, Resolve,
         Collect, LoopDone, ReadDirectRoles, PublishDirectRoles, Publish, ovars, cvars, vars
<1>4. "Unauthorized" \in Statuses /\ "Forbidden" \in Statuses /\ "InternalServerError" \in Statuses
  BY DEF Statuses
<1>5. CASE Identify(q)
  <2>1. CASE Fail(q, "Unauthorized")
    BY <1>1, <1>2, <1>3, <1>4, <2>1, FailMoves
  <2>2. CASE /\ req' = [req EXCEPT ![q].step = "check"]
             /\ req[q].resolved \/ req[q].id # Nil
    <3>1. AtGuard(q, "identify") /\ \A p \in Requests \ {q} : req'[p] = req[p]
      BY <1>1, <1>5, <2>2, OthersStay DEF Identify
    <3> QED
      BY <1>1, <1>2, <1>3, <2>2, <3>1, CheckPlaced DEF Moves
  <2> QED
    BY <1>5, <2>1, <2>2 DEF Identify
<1>6. CASE Confirm(q)
  <2>1. req[q].step = "confirm" /\ Placed(q)
    BY <1>1, <1>6, UnderWay DEF Confirm, AtGuard, Pending
  <2>2. ~AskedAll(q) /\ req[q].step # "identify"
    BY <2>1 DEF Placed
  <2> QED
    BY <1>1, <1>2, <1>3, <1>6, <2>2, DecideMoves DEF Confirm
<1>7. CASE LoopEnds(q)
  <2>1. CASE Fail(q, "Forbidden")
    BY <1>1, <1>2, <1>3, <1>4, <2>1, FailMoves
  <2>2. CASE ServeNext(q)
    BY <1>1, <1>2, <1>3, <1>7, <2>2, ServeNextPlaced, OthersStay DEF Moves, LoopEnds
  <2> QED
    BY <1>7, <2>1, <2>2 DEF LoopEnds
<1>8. CASE GetUserFails(q) \/ CheckFails(q)
  <2>1. StoreError(q)
    BY <1>8 DEF GetUserFails, CheckFails
  <2> QED
    BY <1>1, <1>2, <1>3, <1>4, <2>1, FailMoves DEF StoreError
<1>9. CASE Ask(q) \/ CallGoesOn(q)
  BY <1>1, <1>2, <1>3, <1>9, SameReq DEF Ask, CallGoesOn
<1>10. CASE SetFound(q)
  <2>1. AtGuard(q, "check") /\ ~AskedAll(q)
    BY <1>10, InQuestion, CallSteps DEF InCallStep
  <2>2. GuardOf(q).kind # "RequireRole" /\ cache[req[q].id] \in SUBSET Permissions
    BY <1>10, Found
  <2>3. req' = [req EXCEPT ![q].step = "confirm", ![q].set = cache[req[q].id]]
    BY <1>10 DEF SetFound
  <2> QED
    BY <1>1, <1>2, <1>3, <2>1, <2>2, <2>3, ConfirmPlaced, OthersStay DEF Moves
<1>11. CASE UserGone(q) \/ SetComputed(q) \/ RolesKnown(q)
  <2>1. ~AskedAll(q) /\ req[q].step = "check"
    BY <1>11, InQuestion, CallSteps DEF InCallStep
  <2> QED
    BY <1>1, <1>2, <1>3, <1>11, <2>1, DecideMoves DEF UserGone, SetComputed, RolesKnown
<1> QED
  BY <1>5, <1>6, <1>7, <1>8, <1>9, <1>10, <1>11 DEF Guarded, InCallStep

\* A request that is neither moved nor in the step's call goes on asking.
LEMMA AskingKept ==
    ASSUME NEW q \in Requests, Asking(q), req'[q] = req[q], frame'[q] = frame[q]
    PROVE  Asking(q)'
  BY DEF Asking, AtGuard, Pending, AskedAll, GuardOf, Question

LEMMA AskingHandled ==
    ASSUME GuardInv, NEW q \in Requests, Guarded(q)
    PROVE  /\ Asking(q)'
           /\ frame' = frame \/ Start(q) \/ Step(q)
<1>1. q \in Threads /\ Asking(q)
  BY DEF GuardInv
<1>2. CASE Identify(q) \/ Confirm(q) \/ LoopEnds(q) \/ GetUserFails(q)
  <2>1. frame' = frame
    BY <1>2 DEF Identify, Confirm, LoopEnds, GetUserFails, ovars, cvars
  <2>2. frame[q] = Nil
    BY <1>1, <1>2, InQuestion DEF Identify, Confirm, LoopEnds, GetUserFails, AtGuard
  <2> QED
    BY <2>1, <2>2 DEF Asking
<1>3. CASE Ask(q)
  <2>1. Start(q) /\ req' = req /\ AtGuard(q, "check") /\ ~AskedAll(q) /\ Proceed(q, Frame(Question(q)))
    BY <1>3, CallSteps DEF Ask
  <2>2. frame'[q] = Nil \/ frame'[q].call = Question(q)
    BY <2>1, Moved DEF GuardInv, Frame
  <2>3. AtGuard(q, "check")' /\ ~AskedAll(q)' /\ Question(q)' = Question(q)
    BY <2>1 DEF AtGuard, Pending, AskedAll, GuardOf, Question
  <2> QED
    BY <2>1, <2>2, <2>3 DEF Asking
<1>4. CASE CallGoesOn(q)
  <2>1. Step(q) /\ frame[q] # Nil /\ req' = req /\ frame'[q] # Nil
    BY <1>4, CallSteps DEF InCallStep, CallGoesOn
  <2>2. frame'[q].call = frame[q].call
    BY <2>1, NextFrame DEF GuardInv, Follows
  <2>3. AtGuard(q, "check")' /\ ~AskedAll(q)' /\ Question(q)' = Question(q)
    BY <1>1, <2>1 DEF Asking, AtGuard, Pending, AskedAll, GuardOf, Question
  <2> QED
    BY <1>1, <2>1, <2>2, <2>3 DEF Asking
<1>5. CASE InCallStep(q) /\ ~CallGoesOn(q)
  BY <1>5, CallSteps DEF Asking
<1> QED
  BY <1>2, <1>3, <1>4, <1>5 DEF Guarded, InCallStep

\* Every step is one of the Enforcer, or leaves the Enforcer alone.
LEMMA MiddlewareSteps ==
    ASSUME GuardInv, MNext
    PROVE  \/ UNCHANGED ovars
           \/ Track /\ \E t \in Threads : Start(t) \/ Step(t)
<1>1. CASE \E q \in Requests, id \in UserIDs \cup {Nil}, stack \in Stacks : Arrive(q, id, stack)
  BY <1>1 DEF Arrive
<1>2. CASE \E q \in Requests : Handle(q) \/ HandleFails(q)
  BY <1>2, CallSteps DEF Handle, HandleFails, Identify, Confirm, LoopEnds, GetUserFails, InCallStep
<1>3. CASE \E t \in Threads \ Requests : Elsewhere(t)
  BY <1>3 DEF Elsewhere
<1> QED
  BY <1>1, <1>2, <1>3 DEF MNext

LEMMA GuardInvStep ==
    ASSUME GuardInv, [MNext]_mvars
    PROVE  GuardInv'
<1>1. CASE UNCHANGED mvars
  BY <1>1 DEF mvars, ovars, cvars, vars, GuardInv, TypeOK, StoreTypeOK, UserExists, RoleExists,
              FramesOK, ReqInv, Placed, GuardOf, AskedAll, Asking, AtGuard, Pending, Question
<1>2. ASSUME MNext PROVE TypeOK' /\ FramesOK'
  <2>1. CASE UNCHANGED ovars
    BY <2>1 DEF ovars, cvars, vars, GuardInv, TypeOK, StoreTypeOK, UserExists, RoleExists, FramesOK
  <2>2. CASE \E t \in Threads : Start(t) \/ Step(t)
    BY <2>2, StepTypes, FramesStep DEF GuardInv
  <2> QED
    BY <1>2, <2>1, <2>2, MiddlewareSteps
<1>3. ASSUME NEW q \in Requests, NEW id \in UserIDs \cup {Nil}, NEW stack \in Stacks,
             Arrive(q, id, stack)
      PROVE  ReqInv' /\ \A p \in Requests : Asking(p)'
  <2> DEFINE r == [id |-> id, stack |-> stack, at |-> 1, step |-> "identify",
                   next |-> 1, set |-> {}, resolved |-> FALSE, status |-> Nil]
  <2>1. r \in Position /\ 1 \in 1..Len(stack)
    BY GuardTypes DEF Position
  <2>2. /\ r.at = 1 /\ r.next = 1 /\ r.stack = stack /\ r.step = "identify" /\ r.resolved = FALSE
    OBVIOUS
  <2>3. req' = [req EXCEPT ![q] = r] /\ frame' = frame /\ ~Pending(q)
    BY <1>3 DEF Arrive, ovars, cvars
  <2> HIDE DEF r
  <2>4. Len(stack[1].needs) \in Nat
    BY <2>1, GuardTypes
  <2>5. ReqInv'
    <3>1. r.next \in 1..(Len(r.stack[r.at].needs) + 1)
      BY <2>2, <2>4
    <3> QED
      BY <2>1, <2>2, <2>3, <3>1, MovePlaced DEF GuardInv
  <2>6. frame[q] = Nil
    BY <2>3, InQuestion
  <2>7. \A p \in Requests \ {q} : req'[p] = req[p]
    BY <2>3 DEF GuardInv, ReqInv
  <2>8. \A p \in Requests \ {q} : Asking(p)'
    BY <2>3, <2>7, AskingKept DEF GuardInv
  <2> QED
    BY <2>3, <2>5, <2>6, <2>8 DEF Asking
<1>4. ASSUME NEW q \in Requests, Guarded(q)
      PROVE  ReqInv' /\ \A p \in Requests : Asking(p)'
  <2>1. ReqInv' /\ \A p \in Requests \ {q} : req'[p] = req[p]
    BY <1>4, HandleMoves DEF Moves
  <2>2. q \in Threads /\ FramesOK /\ \A p \in Requests : p \in Threads
    BY DEF GuardInv
  <2>3. \A p \in Requests \ {q} : frame'[p] = frame[p]
    BY <1>4, <2>2, AskingHandled, Moved
  <2>4. \A p \in Requests \ {q} : Asking(p)'
    BY <2>1, <2>3, AskingKept DEF GuardInv
  <2> QED
    BY <1>4, <2>1, <2>4, AskingHandled
<1>5. ASSUME NEW t \in Threads \ Requests, Elsewhere(t)
      PROVE  ReqInv' /\ \A p \in Requests : Asking(p)'
  <2>1. req' = req /\ \A p \in Requests : frame'[p] = frame[p]
    BY <1>5, Moved DEF Elsewhere, GuardInv
  <2> QED
    BY <2>1, SameReq, AskingKept DEF GuardInv
<1>6. ASSUME NEW q \in Requests, Handle(q) \/ HandleFails(q) PROVE Guarded(q)
  BY <1>6 DEF Handle, HandleFails, Guarded, InCallStep
<1>7. ASSUME MNext PROVE ReqInv' /\ \A p \in Requests : Asking(p)'
  BY <1>3, <1>4, <1>5, <1>6, <1>7 DEF MNext
<1> QED
  BY <1>1, <1>2, <1>7 DEF GuardInv

LEMMA GuardInvariant == MSpec => []GuardInv /\ OSpec
<1>1. MInit => OInit /\ CInit /\ ReqInv /\ \A q \in Requests : Asking(q)
  BY DEF MInit, OInit, CInit, ReqInv, Asking
<1>2. CInit => TypeOK /\ FramesOK
  BY TypesStart
<1>3. GuardInv /\ [MNext]_mvars => GuardInv'
  BY GuardInvStep
<1>4. GuardInv /\ [MNext]_mvars => [ONext]_ovars
  BY MiddlewareSteps DEF mvars, ONext, CNext
<1>5. MInit => GuardInv
  BY <1>1, <1>2 DEF GuardInv
<1> QED
  BY <1>1, <1>3, <1>4, <1>5, PTL DEF MSpec, OSpec

\* No request leaves its stack, asks past the end of a guard's list or gets an
\* answer that is none, and no guard breaks the types of the Enforcer, for any
\* number of requests and any stack of guards, over a store that fails or not.
THEOREM MTypeCorrect == MSpec => []MTypeOK
<1>1. GuardInv => MTypeOK
  <2> SUFFICES ASSUME GuardInv, NEW q \in Requests, req[q] # Nil
               PROVE  /\ req[q] \in Position
                      /\ req[q].at \in DOMAIN req[q].stack
                      /\ req[q].next \in 1..(Len(GuardOf(q).needs) + 1)
    BY DEF MTypeOK, GuardInv, CTypeOK, FramesOK, FrameOK, FrameBasic
  <2>1. req[q] \in Position /\ Placed(q)
    BY UnderWay DEF GuardInv
  <2>2. req[q].stack \in Stacks /\ req[q].at \in 1..Len(req[q].stack)
    BY <2>1 DEF Position, Placed
  <2>3. req[q].stack \in Seq(Guards)
    BY <2>2
  <2>4. req[q].at \in DOMAIN req[q].stack
    BY <2>2, <2>3, LenProperties
  <2> QED
    BY <2>1, <2>4 DEF Placed
<1> QED
  BY <1>1, GuardInvariant, PTL

-----------------------------------------------------------------------------
(* What a call answers when no write overlaps it.                          *)

\* What the store says of a user that exists.
LEMMA Holding ==
    ASSUME TypeOK, NEW id \in UserIDs, UserExists(id)
    PROVE  /\ \A p \in Permissions : p \in Holds(id) <=> Permits(Effective(users[id]), p)
           /\ \A r \in RoleIDs : r \in Holds(id) <=> r \in users[id].roles
<1>1. Holds(id) = users[id].roles \cup {p \in Permissions : Permits(Effective(users[id]), p)}
  BY DEF Holds
<1>2. users[id].roles \subseteq RoleIDs
  BY DEF TypeOK, StoreTypeOK, User, UserExists
<1>3. \A r \in RoleIDs : r \notin Permissions
  OBVIOUS
<1> HIDE DEF Holds
<1> QED
  BY <1>1, <1>2, <1>3

\* A check that ends without an excuse ran while nobody wrote.
LEMMA Unexcused ==
    ASSUME GuardInv, ReadsFresh, NEW q \in Requests, frame[q] # Nil, frame'[q] = Nil, ~Excuses(q)
    PROVE  /\ ~Writing /\ FreshRead(frame[q])
           /\ frame[q].call.op = "Check" =>
                 req[q].id \notin lateSets /\ (UserExists(req[q].id) => Flat(req[q].id))
           /\ frame[q].call.op = "HasRole" => req[q].id \notin lateRoles
<1>1. /\ q \in Threads /\ frame[q].id = req[q].id /\ Reading(q)
      /\ frame[q].call.op \in {"Check", "HasRole"}
  BY InQuestion DEF Readers
<1>2. q \notin overlapped
  BY <1>1 DEF Excuses
<1>3. ~Writing /\ FreshRead(frame[q])
  BY <1>1, <1>2 DEF ReadsFresh
<1>4. CASE frame[q].call.op = "Check"
  BY <1>1, <1>3, <1>4 DEF Excuses
<1>5. CASE frame[q].call.op = "HasRole"
  BY <1>1, <1>3, <1>5 DEF Excuses
<1> QED
  BY <1>1, <1>4, <1>5

LEMMA ExactAnswers ==
    ASSUME GuardInv, ReadsFresh, OnlyOverlappedReadsStale, NEW q \in Requests, ~Excuses(q)
    PROVE  /\ SetFound(q) =>
                 UserExists(req[q].id) /\ cache[req[q].id] = Effective(users[req[q].id])
           /\ SetComputed(q) =>
                 UserExists(req[q].id) /\ cache'[req[q].id] = Effective(users[req[q].id])
           /\ RolesKnown(q) =>
                 UserExists(req[q].id) /\ directRoles'[req[q].id] = users[req[q].id].roles
<1> SUFFICES ASSUME SetFound(q) \/ SetComputed(q) \/ RolesKnown(q)
             PROVE  /\ SetFound(q) =>
                          UserExists(req[q].id) /\ cache[req[q].id] = Effective(users[req[q].id])
                    /\ SetComputed(q) =>
                          UserExists(req[q].id) /\ cache'[req[q].id] = Effective(users[req[q].id])
                    /\ RolesKnown(q) =>
                          UserExists(req[q].id) /\ directRoles'[req[q].id] = users[req[q].id].roles
  OBVIOUS
<1>1. frame[q] # Nil
  BY CallSteps DEF InCallStep
<1>2. frame'[q] = Nil
  <2>1. Publish(q) => Return(q)
    BY DEF Publish
  <2>2. q \in Threads
    OBVIOUS
  <2> QED
    BY <2>1, <2>2, Moved DEF GuardInv, SetFound, SetComputed, RolesKnown
<1>3. PICK f : f = frame[q]
  OBVIOUS
<1>4. PICK id : id = req[q].id
  OBVIOUS
<1>5. /\ f.id = id /\ id \in UserIDs /\ f.call \in Call /\ f.user \in User /\ f # Nil
      /\ f.pc \in DOMAIN Program[f.call.op] \ {"start"}
  BY <1>1, <1>3, <1>4, InQuestion DEF FrameOK, FrameBasic, FrameRecord
<1>6. ~Writing /\ FreshRead(f)
  BY <1>1, <1>2, <1>3, Unexcused
<1>7. /\ f.call.op = "Check" => id \notin lateSets /\ (UserExists(id) => Flat(id))
      /\ f.call.op = "HasRole" => id \notin lateRoles
  BY <1>1, <1>2, <1>3, <1>4, Unexcused
<1>8. f.call.op = "Check" /\ cache[id] # Nil =>
         UserExists(id) /\ cache[id] = Effective(users[id])
  BY <1>5, <1>6, <1>7 DEF OnlyOverlappedReadsStale
<1>9. f.call.op = "HasRole" /\ directRoles[id] # Nil =>
         UserExists(id) /\ directRoles[id] = users[id].roles
  BY <1>5, <1>6, <1>7 DEF OnlyOverlappedReadsStale
<1>10. ASSUME SetFound(q)
       PROVE  UserExists(id) /\ cache[id] = Effective(users[id])
  BY <1>3, <1>4, <1>8, <1>10, Found
<1>11. ASSUME SetComputed(q)
       PROVE  UserExists(id) /\ cache'[id] = Effective(users[id])
  <2>1. f.pc = "publish" /\ cache' = [cache EXCEPT ![f.id] = IF @ = Nil THEN f.perms \cup f.user.direct ELSE @]
    BY <1>3, <1>11 DEF SetComputed, Publish, At
  <2>2. f.call.op = "Check"
    BY <1>5, <2>1, ReadingTable
  <2>3. cache'[id] = IF cache[id] = Nil THEN f.perms \cup f.user.direct ELSE cache[id]
    BY <1>5, <2>1 DEF GuardInv, TypeOK
  <2>4. CASE cache[id] = Nil
    <3>1. UserExists(id) /\ f.user = users[id]
      BY <1>5, <1>6, <2>1 DEF FreshRead, ReadCopy, ReadSteps
    <3>2. Flat(id) /\ f.perms = Granted(f.user.roles)
      BY <1>5, <1>6, <1>7, <2>1, <2>2, <3>1 DEF FreshRead, ReadSteps
    <3>3. Effective(users[id]) = Granted(f.user.roles) \cup f.user.direct
      BY <1>5, <3>1, <3>2, FlatEffective DEF Flat
    <3> QED
      BY <2>3, <2>4, <3>1, <3>2, <3>3
  <2> QED
    BY <1>8, <2>2, <2>3, <2>4
<1>12. ASSUME RolesKnown(q)
       PROVE  UserExists(id) /\ directRoles'[id] = users[id].roles
  <2>1. f.call.op = "HasRole" /\ (ReadDirectRoles(q) => directRoles[id] # Nil)
    BY <1>3, <1>4, <1>12, Known
  <2>2. CASE ReadDirectRoles(q)
    BY <1>9, <2>1, <2>2 DEF ReadDirectRoles, vars
  <2>3. CASE PublishDirectRoles(q)
    <3>1. f.pc = "publishDirectRoles"
          /\ directRoles' = [directRoles EXCEPT ![f.id] = IF @ = Nil THEN f.user.roles ELSE @]
      BY <1>3, <2>3 DEF PublishDirectRoles, At, MemoizeDirectRoles
    <3>2. directRoles'[id] = IF directRoles[id] = Nil THEN f.user.roles ELSE directRoles[id]
      BY <1>5, <3>1 DEF GuardInv, TypeOK
    <3>3. UserExists(id) /\ f.user = users[id]
      BY <1>5, <1>6, <3>1 DEF FreshRead, ReadCopy, ReadSteps
    <3> QED
      BY <1>9, <2>1, <3>2, <3>3
  <2> QED
    BY <1>12, <2>2, <2>3 DEF RolesKnown
<1> QED
  BY <1>4, <1>10, <1>11, <1>12

-----------------------------------------------------------------------------
(* What a request saw justifies its answer.                                *)

SeenType == \A q \in Requests : seen[q].absent \in BOOLEAN /\ seen[q].excused \in BOOLEAN

\* Without an excuse: the guards behind q were passed with what q held, the
\* loop of the guard q is at got its answers, a set that was found decides as
\* the store did, and the status of q has its reason.
GuardsPassed(q) ==
    \A i \in 1..(req[q].at - 1) : Met(req[q].stack[i], seen[q].held)

LoopAnswered(q) ==
    Pending(q) =>
        \A i \in 1..(req[q].next - 1) :
            IF GuardOf(q).kind = "RequireAny"
            THEN GuardOf(q).needs[i] \in seen[q].lacked
            ELSE GuardOf(q).needs[i] \in seen[q].held

ConfirmRight(q) ==
    AtGuard(q, "confirm") =>
        IF Permits(req[q].set, NeedOf(q)) THEN NeedOf(q) \in seen[q].held
                                          ELSE NeedOf(q) \in seen[q].lacked

ServedMet(q) ==
    req[q].status = "served" =>
        req[q].at = Len(req[q].stack) /\ Met(GuardOf(q), seen[q].held)

ForbiddenRight(q) ==
    req[q].status = "Forbidden" =>
        IF GuardOf(q).kind = "RequireAny"
        THEN \A i \in DOMAIN GuardOf(q).needs : GuardOf(q).needs[i] \in seen[q].lacked
        ELSE \E i \in DOMAIN GuardOf(q).needs : GuardOf(q).needs[i] \in seen[q].lacked

Earned(q) ==
    GuardsPassed(q) /\ LoopAnswered(q) /\ ConfirmRight(q) /\ ServedMet(q) /\ ForbiddenRight(q)

Absentee(q) == req[q].status = "Unauthorized" => seen[q].absent

Justified(q) == Absentee(q) /\ (~seen[q].excused => Earned(q))

SeenInv == SeenType /\ \A q \in Requests : req[q] # Nil => Justified(q)

\* What a step may do to what q saw.
Grown(q) ==
    /\ seen[q].held \subseteq seen'[q].held
    /\ seen[q].lacked \subseteq seen'[q].lacked
    /\ seen[q].absent => seen'[q].absent
    /\ seen[q].excused => seen'[q].excused
    /\ ~Pending(q) => seen'[q] = seen[q]

LEMMA Observed ==
    ASSUME SeenType, NEW arrived, NEW failed, Observe(arrived, failed)
    PROVE  /\ SeenType'
           /\ \A q \in Requests : q # arrived => Grown(q)
           /\ \A q \in Requests : Pending(q) \/ q = arrived =>
                 /\ (Holds(req[q].id) \cap Wanted(q))' \subseteq seen'[q].held
                 /\ (Wanted(q) \ Holds(req[q].id))' \subseteq seen'[q].lacked
                 /\ (req[q].id = Nil \/ ~UserExists(req[q].id))' => seen'[q].absent
                 /\ Excuses(q) => seen'[q].excused
<1> DEFINE B(q) == IF q = arrived THEN Unseen ELSE seen[q]
           H(q) == (Holds(req[q].id) \cap Wanted(q))'
           L(q) == (Wanted(q) \ Holds(req[q].id))'
           A(q) == (req[q].id = Nil \/ ~UserExists(req[q].id))'
           S(q) == [held    |-> B(q).held \cup H(q),
                    lacked  |-> B(q).lacked \cup L(q),
                    absent  |-> B(q).absent \/ A(q),
                    failed  |-> B(q).failed \/ q = failed,
                    excused |-> B(q).excused \/ Excuses(q)]
<1>1. seen' = [q \in Requests |-> IF q # arrived /\ ~Pending(q) THEN seen[q] ELSE S(q)]
  BY DEF Observe, Now
<1>2. \A q \in Requests : B(q).absent \in BOOLEAN /\ B(q).excused \in BOOLEAN
  BY DEF SeenType, Unseen
<1>3. \A q \in Requests : q # arrived => B(q) = seen[q]
  OBVIOUS
<1> HIDE DEF B, H, L, A
<1>4. \A q \in Requests :
         /\ S(q).held = B(q).held \cup H(q) /\ S(q).lacked = B(q).lacked \cup L(q)
         /\ S(q).absent = (B(q).absent \/ A(q)) /\ S(q).excused = (B(q).excused \/ Excuses(q))
         /\ S(q).absent \in BOOLEAN /\ S(q).excused \in BOOLEAN
  OBVIOUS
<1> HIDE DEF S
<1>5. \A q \in Requests : seen'[q] = IF q # arrived /\ ~Pending(q) THEN seen[q] ELSE S(q)
  BY <1>1
<1>6. SeenType'
  BY <1>4, <1>5 DEF SeenType
<1>7. ASSUME NEW q \in Requests, q # arrived PROVE Grown(q)
  <2>1. CASE Pending(q)
    BY <1>2, <1>3, <1>4, <1>5, <1>7, <2>1 DEF Grown
  <2>2. CASE ~Pending(q)
    <3>1. seen'[q] = seen[q]
      BY <1>5, <1>7, <2>2
    <3> QED
      BY <3>1 DEF Grown
  <2> QED
    BY <2>1, <2>2
<1>8. ASSUME NEW q \in Requests, Pending(q) \/ q = arrived
      PROVE  /\ H(q) \subseteq seen'[q].held /\ L(q) \subseteq seen'[q].lacked
             /\ A(q) => seen'[q].absent
             /\ Excuses(q) => seen'[q].excused
  <2>1. seen'[q] = S(q)
    BY <1>5, <1>8
  <2> QED
    BY <1>2, <1>4, <2>1
<1> QED
  BY <1>6, <1>7, <1>8 DEF H, L, A

\* Reads leave the store as it is, and so what it says of every user.
LEMMA HoldsKept ==
    ASSUME UNCHANGED <<users, roles>>, NEW id
    PROVE  Holds(id)' = Holds(id) /\ (UserExists(id)' <=> UserExists(id))
<1>1. \A u : Effective(u)' = Effective(u)
  BY DEF Effective, ResolveRoles, ParentClosed, ParentOf, RoleExists
<1> QED
  BY <1>1 DEF Holds, UserExists

\* A request that is worked on sees, in the same step, what the store says.
LEMMA SeesStore ==
    ASSUME SeenType, Observe(Nil, Nil), UNCHANGED <<users, roles>>,
           NEW q \in Requests, Pending(q), req'[q].id = req[q].id, req'[q].stack = req[q].stack
    PROVE  /\ Grown(q)
           /\ Holds(req[q].id) \cap Wanted(q) \subseteq seen'[q].held
           /\ Wanted(q) \ Holds(req[q].id) \subseteq seen'[q].lacked
           /\ req[q].id = Nil \/ ~UserExists(req[q].id) => seen'[q].absent
           /\ Excuses(q) => seen'[q].excused
<1>1. /\ Grown(q)
      /\ (Holds(req[q].id) \cap Wanted(q))' \subseteq seen'[q].held
      /\ (Wanted(q) \ Holds(req[q].id))' \subseteq seen'[q].lacked
      /\ (req[q].id = Nil \/ ~UserExists(req[q].id))' => seen'[q].absent
      /\ Excuses(q) => seen'[q].excused
  BY Observed
<1>2. PICK id : id = req[q].id
  OBVIOUS
<1>3. /\ req'[q].id = id /\ Wanted(q)' = Wanted(q)
      /\ Holds(req[q].id)' = Holds(id)' /\ UserExists(req[q].id)' = UserExists(id)'
  BY <1>2 DEF Holds, UserExists, Wanted
<1>4. Holds(id)' = Holds(id) /\ (UserExists(id)' <=> UserExists(id))
  BY HoldsKept
<1> QED
  BY <1>1, <1>2, <1>3, <1>4

\* A guard asks for something that is wanted.
LEMMA NeedWanted ==
    ASSUME ReqInv, NEW q \in Requests, Pending(q), req[q].step # "identify", ~AskedAll(q)
    PROVE  NeedOf(q) \in Wanted(q)
<1>1. /\ req[q] \in Position /\ Placed(q)
      /\ req[q].next \in DOMAIN GuardOf(q).needs /\ NeedOf(q) \in Needs
  BY NeedTypes, UnderWay DEF Needs, Pending
<1>2. req[q].at \in DOMAIN req[q].stack
  <2>1. req[q].stack \in Seq(Guards) /\ req[q].at \in 1..Len(req[q].stack)
    BY <1>1 DEF Position, Placed
  <2> QED
    BY <2>1, LenProperties
<1> QED
  BY <1>1, <1>2 DEF Wanted, NeedOf, GuardOf

-----------------------------------------------------------------------------
(* Each step of a guard keeps the reasons.                                 *)

\* The request stays where it is, while more is seen.
LEMMA EarnedKept ==
    ASSUME NEW q \in Requests, req[q] # Nil, Earned(q), Grown(q),
           req'[q].at = req[q].at, req'[q].stack = req[q].stack, req'[q].next = req[q].next,
           req'[q].status = req[q].status, ConfirmRight(q)'
    PROVE  Earned(q)'
<1>1. GuardOf(q)' = GuardOf(q)
  BY DEF GuardOf
<1>2. GuardsPassed(q)'
  BY DEF Grown, Earned, GuardsPassed, Met
<1>3. LoopAnswered(q)'
  BY <1>1 DEF Grown, Earned, LoopAnswered, Pending
<1>4. CASE req[q].status = Nil
  <2>1. ServedMet(q)' /\ ForbiddenRight(q)'
    BY <1>4 DEF ServedMet, ForbiddenRight, Statuses
  <2> QED
    BY <1>2, <1>3, <2>1 DEF Earned
<1>5. CASE req[q].status # Nil
  <2>1. seen'[q] = seen[q]
    BY <1>5 DEF Grown, Pending
  <2>2. ServedMet(q)' /\ ForbiddenRight(q)'
    BY <1>1, <2>1 DEF Earned, ServedMet, ForbiddenRight
  <2> QED
    BY <1>2, <1>3, <2>2 DEF Earned
<1> QED
  BY <1>4, <1>5

LEMMA JustifiedKept ==
    ASSUME NEW q \in Requests, req[q] # Nil, Justified(q), Grown(q), req'[q] = req[q]
    PROVE  Justified(q)'
<1>1. Absentee(q)'
  BY DEF Justified, Absentee, Grown
<1>2. ASSUME ~seen'[q].excused PROVE Earned(q)'
  <2>1. Earned(q)
    BY <1>2 DEF Justified, Grown
  <2>2. ConfirmRight(q)'
    BY <2>1 DEF Earned, ConfirmRight, AtGuard, Pending, NeedOf, GuardOf, Grown
  <2> QED
    BY <2>1, <2>2, EarnedKept
<1> QED
  BY <1>1, <1>2 DEF Justified

\* A refusal with a reason.
LEMMA EarnedFail ==
    ASSUME ReqInv, NEW q \in Requests, Pending(q), Earned(q), Grown(q),
           NEW s \in Statuses \ {"served"}, Fail(q, s),
           s = "Forbidden" =>
              IF GuardOf(q).kind = "RequireAny"
              THEN \A i \in DOMAIN GuardOf(q).needs : GuardOf(q).needs[i] \in seen'[q].lacked
              ELSE \E i \in DOMAIN GuardOf(q).needs : GuardOf(q).needs[i] \in seen'[q].lacked
    PROVE  Earned(q)'
<1>1. /\ req'[q].at = req[q].at /\ req'[q].stack = req[q].stack /\ req'[q].status = s
      /\ s # Nil
  BY FailPlaced DEF Pending
<1>2. GuardOf(q)' = GuardOf(q)
  BY <1>1 DEF GuardOf
<1>3. GuardsPassed(q)'
  BY <1>1 DEF Grown, Earned, GuardsPassed, Met
<1>4. LoopAnswered(q)' /\ ServedMet(q)' /\ ConfirmRight(q)'
  BY <1>1 DEF LoopAnswered, ServedMet, ConfirmRight, AtGuard, Pending
<1>5. ForbiddenRight(q)'
  BY <1>1, <1>2 DEF ForbiddenRight
<1> QED
  BY <1>3, <1>4, <1>5 DEF Earned

\* The loop goes on after an answer that is not the last word.
LEMMA EarnedAdvance ==
    ASSUME ReqInv, NEW q \in Requests, Pending(q), req[q].step # "identify", ~AskedAll(q),
           Earned(q), Grown(q), AskNext(q),
           IF GuardOf(q).kind = "RequireAny"
           THEN NeedOf(q) \in seen'[q].lacked
           ELSE NeedOf(q) \in seen'[q].held
    PROVE  Earned(q)'
<1>1. req[q] \in Position /\ req[q].next \in Nat
  BY UnderWay DEF Pending, Position
<1>2. /\ req'[q].at = req[q].at /\ req'[q].stack = req[q].stack /\ req'[q].status = Nil
      /\ req'[q].next = req[q].next + 1 /\ req'[q].step = "check"
  BY AskNextPlaced
<1>3. GuardOf(q)' = GuardOf(q)
  BY <1>2 DEF GuardOf
<1>4. GuardsPassed(q)'
  BY <1>2 DEF Grown, Earned, GuardsPassed, Met
<1>5. LoopAnswered(q)'
  <2> SUFFICES ASSUME NEW i \in 1..(req'[q].next - 1)
               PROVE  IF GuardOf(q).kind = "RequireAny"
                      THEN GuardOf(q).needs[i] \in seen'[q].lacked
                      ELSE GuardOf(q).needs[i] \in seen'[q].held
    BY <1>3 DEF LoopAnswered
  <2>1. i \in 1..(req[q].next - 1) \/ i = req[q].next
    BY <1>1, <1>2
  <2> QED
    BY <2>1 DEF Earned, LoopAnswered, Grown, NeedOf
<1>6. ServedMet(q)' /\ ForbiddenRight(q)'
  BY <1>2 DEF ServedMet, ForbiddenRight, Statuses
<1>7. ConfirmRight(q)'
  BY <1>2 DEF ConfirmRight, AtGuard
<1> QED
  BY <1>4, <1>5, <1>6, <1>7 DEF Earned

\* The guard calls the next handler with its needs met.
LEMMA EarnedServe ==
    ASSUME ReqInv, NEW q \in Requests, AtGuard(q, "check") \/ AtGuard(q, "confirm"),
           Earned(q), Grown(q), ServeNext(q), Met(GuardOf(q), seen'[q].held)
    PROVE  Earned(q)'
<1>1. req[q] \in Position /\ req[q] # Nil /\ req[q].at \in Nat
  BY UnderWay DEF AtGuard, Pending, Position
<1>2. /\ req'[q] # Nil /\ req'[q].stack = req[q].stack
      /\ \/ /\ req[q].at = Len(req[q].stack)
            /\ req'[q].at = req[q].at /\ req'[q].status = "served"
         \/ /\ req'[q].at = req[q].at + 1 /\ req'[q].status = Nil
            /\ req'[q].next = 1 /\ req'[q].step = "identify"
  BY ServeNextPlaced
<1>3. \A i \in 1..(req[q].at - 1) : Met(req[q].stack[i], seen'[q].held)
  BY DEF Grown, Earned, GuardsPassed, Met
<1>4. CASE /\ req[q].at = Len(req[q].stack)
           /\ req'[q].at = req[q].at /\ req'[q].status = "served"
  <2>1. GuardOf(q)' = GuardOf(q) /\ GuardsPassed(q)'
    BY <1>2, <1>3, <1>4 DEF GuardOf, GuardsPassed
  <2>2. LoopAnswered(q)' /\ ConfirmRight(q)' /\ ForbiddenRight(q)'
    BY <1>4 DEF LoopAnswered, ConfirmRight, ForbiddenRight, AtGuard, Pending, Statuses
  <2>3. ServedMet(q)'
    BY <1>2, <1>4, <2>1 DEF ServedMet
  <2> QED
    BY <2>1, <2>2, <2>3 DEF Earned
<1>5. CASE /\ req'[q].at = req[q].at + 1 /\ req'[q].status = Nil
           /\ req'[q].next = 1 /\ req'[q].step = "identify"
  <2>1. GuardsPassed(q)'
    <3> SUFFICES ASSUME NEW i \in 1..(req'[q].at - 1)
                 PROVE  Met(req[q].stack[i], seen'[q].held)
      BY <1>2 DEF GuardsPassed
    <3>1. i \in 1..(req[q].at - 1) \/ i = req[q].at
      BY <1>1, <1>5
    <3> QED
      BY <1>3, <3>1 DEF GuardOf
  <2>2. LoopAnswered(q)' /\ ConfirmRight(q)'
    BY <1>5 DEF LoopAnswered, ConfirmRight, AtGuard
  <2>3. ServedMet(q)' /\ ForbiddenRight(q)'
    BY <1>5 DEF ServedMet, ForbiddenRight, Statuses
  <2> QED
    BY <2>1, <2>2, <2>3 DEF Earned
<1> QED
  BY <1>2, <1>4, <1>5

\* What the guard makes of an answer that the store gave.
LEMMA EarnedDecide ==
    ASSUME ReqInv, NEW q \in Requests, AtGuard(q, "check") \/ AtGuard(q, "confirm"),
           ~AskedAll(q), Earned(q), Grown(q), NEW yes \in BOOLEAN, Decide(q, yes),
           IF yes THEN NeedOf(q) \in seen'[q].held ELSE NeedOf(q) \in seen'[q].lacked
    PROVE  Earned(q)'
<1>1. Pending(q) /\ req[q] # Nil /\ req[q].step # "identify"
  BY DEF AtGuard, Pending
<1>2. /\ GuardOf(q) \in Guards
      /\ GuardOf(q).kind \in {"Require", "RequireAll", "RequireAny", "RequireRole"}
  BY <1>1, UnderWay
<1>3. /\ req[q].next \in DOMAIN GuardOf(q).needs
      /\ GuardOf(q).kind = "RequireRole" => DOMAIN GuardOf(q).needs = {req[q].next}
  BY <1>1, NeedTypes
<1>4. CASE yes /\ Enough(GuardOf(q).kind)
  <2>1. Met(GuardOf(q), seen'[q].held)
    BY <1>2, <1>3, <1>4 DEF Met, Enough, NeedOf
  <2>2. ServeNext(q)
    BY <1>4 DEF Decide
  <2> QED
    BY <2>1, <2>2, EarnedServe
<1>5. CASE yes /\ ~Enough(GuardOf(q).kind)
  <2>1. AskNext(q) /\ GuardOf(q).kind # "RequireAny"
    BY <1>5 DEF Decide, Enough
  <2> QED
    BY <1>1, <1>5, <2>1, EarnedAdvance
<1>6. CASE ~yes /\ GuardOf(q).kind = "RequireAny"
  <2>1. AskNext(q)
    BY <1>6 DEF Decide
  <2> QED
    BY <1>1, <1>6, <2>1, EarnedAdvance
<1>7. CASE ~yes /\ GuardOf(q).kind # "RequireAny"
  <2>1. Fail(q, "Forbidden")
    BY <1>2, <1>7, RefusalStatus DEF Decide
  <2>2. \E i \in DOMAIN GuardOf(q).needs : GuardOf(q).needs[i] \in seen'[q].lacked
    BY <1>3, <1>7 DEF NeedOf
  <2>3. "Forbidden" \in Statuses \ {"served"}
    BY DEF Statuses
  <2> QED
    BY <1>1, <1>7, <2>1, <2>2, <2>3, EarnedFail
<1> QED
  BY <1>4, <1>5, <1>6, <1>7

\* An unknown user is no denial.
LEMMA EarnedUnknown ==
    ASSUME ReqInv, NEW q \in Requests, Pending(q), Earned(q), Grown(q), Unknown(q)
    PROVE  Earned(q)'
<1>1. Refusal(GuardOf(q).kind, TRUE) \in {"Unauthorized", "InternalServerError"}
  BY UnderWay, RefusalStatus DEF Pending
<1>2. \A s \in {"Unauthorized", "InternalServerError"} :
         s \in Statuses \ {"served"} /\ s # "Forbidden"
  BY DEF Statuses
<1> QED
  BY <1>1, <1>2, EarnedFail DEF Unknown

\* Only the failure to know the user is answered 401.
LEMMA DecideStatus ==
    ASSUME ReqInv, NEW q \in Requests, AtGuard(q, "check") \/ AtGuard(q, "confirm"),
           ~AskedAll(q), NEW yes, Decide(q, yes)
    PROVE  req'[q].status # "Unauthorized"
<1>1. Pending(q) /\ req[q] # Nil /\ req[q].step # "identify"
  BY DEF AtGuard, Pending
<1>2. GuardOf(q).kind \in {"Require", "RequireAll", "RequireAny", "RequireRole"}
  BY <1>1, UnderWay
<1>3. Refusal(GuardOf(q).kind, FALSE) = "Forbidden" /\ "Forbidden" \in Statuses
  BY <1>2, RefusalStatus
<1>4. ServeNext(q) \/ AskNext(q) \/ Fail(q, "Forbidden")
  BY <1>3 DEF Decide
<1>5. "Unauthorized" # Nil
  BY DEF Statuses
<1>6. CASE ServeNext(q)
  BY <1>5, <1>6, ServeNextPlaced
<1>7. CASE AskNext(q)
  BY <1>1, <1>5, <1>7, AskNextPlaced
<1>8. CASE Fail(q, "Forbidden")
  <2>1. req'[q].status = "Forbidden"
    BY <1>1, <1>3, <1>8, FailPlaced
  <2> QED
    BY <2>1
<1> QED
  BY <1>4, <1>6, <1>7, <1>8

\* What holds of a request that a guard works on.
LEMMA Handled ==
    ASSUME GuardInv, SeenInv, NEW q \in Requests, Handle(q)
    PROVE  /\ Pending(q) /\ req[q] # Nil /\ Moves(q) /\ Justified(q) /\ Grown(q) /\ ReqInv
           /\ Holds(req[q].id) \cap Wanted(q) \subseteq seen'[q].held
           /\ Wanted(q) \ Holds(req[q].id) \subseteq seen'[q].lacked
           /\ req[q].id = Nil \/ ~UserExists(req[q].id) => seen'[q].absent
           /\ Excuses(q) => seen'[q].excused
<1>1. Guarded(q) /\ Observe(Nil, Nil)
  BY DEF Handle, Guarded, InCallStep
<1>2. Pending(q) /\ Moves(q) /\ UNCHANGED <<users, roles>>
  BY <1>1, HandleMoves
<1>3. req[q] # Nil /\ SeenType /\ Justified(q) /\ ReqInv
  BY <1>2 DEF Pending, SeenInv, GuardInv
<1>4. req'[q].id = req[q].id /\ req'[q].stack = req[q].stack
  BY <1>2 DEF Moves
<1> QED
  BY <1>1, <1>2, <1>3, <1>4, SeesStore

\* 401: the store did not know the user when the guard asked.
LEMMA HandleAbsentee ==
    ASSUME GuardInv, SeenInv, NEW q \in Requests, Handle(q)
    PROVE  Absentee(q)'
<1>1. /\ Pending(q) /\ req[q] # Nil /\ ReqInv
      /\ req[q].id = Nil \/ ~UserExists(req[q].id) => seen'[q].absent
  BY Handled
<1> SUFFICES ASSUME req'[q].status = "Unauthorized",
                    ~(req[q].id = Nil \/ ~UserExists(req[q].id))
             PROVE  FALSE
  BY <1>1 DEF Absentee
<1>2. req[q].status # "Unauthorized" /\ "Unauthorized" # Nil
  BY <1>1 DEF Pending, Statuses
<1>3. CASE Identify(q)
  BY <1>1, <1>2, <1>3, CheckPlaced DEF Identify
<1>4. CASE Confirm(q)
  <2>1. AtGuard(q, "confirm") /\ ~AskedAll(q)
    BY <1>1, <1>4, UnderWay DEF Confirm, AtGuard, Placed
  <2>2. Decide(q, Permits(req[q].set, NeedOf(q)))
    BY <1>4 DEF Confirm
  <2> QED
    BY <1>1, <2>1, <2>2, DecideStatus
<1>5. CASE LoopEnds(q)
  <2>1. AtGuard(q, "check") /\ (Fail(q, "Forbidden") \/ ServeNext(q))
    BY <1>5 DEF LoopEnds
  <2>2. CASE Fail(q, "Forbidden")
    <3>1. "Forbidden" \in Statuses
      BY DEF Statuses
    <3>2. req'[q].status = "Forbidden"
      BY <1>1, <2>2, <3>1, FailPlaced
    <3> QED
      BY <3>2
  <2>3. CASE ServeNext(q)
    BY <1>1, <1>2, <2>1, <2>3, ServeNextPlaced
  <2> QED
    BY <2>1, <2>2, <2>3
<1>6. CASE Ask(q) \/ CallGoesOn(q)
  BY <1>2, <1>6 DEF Ask, CallGoesOn
<1>7. CASE SetFound(q)
  <2>1. /\ AtGuard(q, "check") /\ ~AskedAll(q) /\ GuardOf(q).kind # "RequireRole"
        /\ cache[req[q].id] \in SUBSET Permissions
    BY <1>7, Found, InQuestion, CallSteps DEF InCallStep
  <2>2. req' = [req EXCEPT ![q].step = "confirm", ![q].set = cache[req[q].id]]
    BY <1>7 DEF SetFound
  <2> QED
    BY <1>1, <1>2, <2>1, <2>2, ConfirmPlaced
<1>8. CASE UserGone(q)
  BY <1>8, Gone
<1>9. CASE SetComputed(q) \/ RolesKnown(q)
  <2>1. AtGuard(q, "check") /\ ~AskedAll(q)
    BY <1>9, InQuestion, CallSteps DEF InCallStep
  <2> QED
    BY <1>1, <1>9, <2>1, DecideStatus DEF SetComputed, RolesKnown
<1> QED
  BY <1>3, <1>4, <1>5, <1>6, <1>7, <1>8, <1>9 DEF Handle

\* The loop has its answers when it ends.
LEMMA LoopEarned ==
    ASSUME GuardInv, NEW q \in Requests, Pending(q), Earned(q), Grown(q), LoopEnds(q)
    PROVE  Earned(q)'
<1>1. /\ AtGuard(q, "check") /\ AskedAll(q) /\ req[q] # Nil /\ ReqInv
      /\ GuardOf(q) \in Guards /\ Len(GuardOf(q).needs) \in Nat /\ req[q] \in Position
  BY UnderWay DEF LoopEnds, Pending, GuardInv
<1>2. \A i \in DOMAIN GuardOf(q).needs : i \in 1..(req[q].next - 1)
  <2>1. DOMAIN GuardOf(q).needs = 1..Len(GuardOf(q).needs)
    BY <1>1, GuardNeeds
  <2>2. req[q].next \in Nat
    BY <1>1 DEF Position
  <2> QED
    BY <1>1, <2>1, <2>2 DEF AskedAll
<1>3. \A i \in DOMAIN GuardOf(q).needs :
         IF GuardOf(q).kind = "RequireAny"
         THEN GuardOf(q).needs[i] \in seen'[q].lacked
         ELSE GuardOf(q).needs[i] \in seen'[q].held
  BY <1>2 DEF Earned, LoopAnswered, Grown
<1>4. CASE GuardOf(q).kind = "RequireAny"
  <2>1. Fail(q, "Forbidden")
    BY <1>4 DEF LoopEnds
  <2>2. "Forbidden" \in Statuses \ {"served"}
    BY DEF Statuses
  <2> QED
    BY <1>1, <1>3, <1>4, <2>1, <2>2, EarnedFail
<1>5. CASE GuardOf(q).kind # "RequireAny"
  <2>1. Met(GuardOf(q), seen'[q].held) /\ ServeNext(q)
    BY <1>3, <1>5 DEF Met, LoopEnds
  <2> QED
    BY <1>1, <2>1, EarnedServe
<1> QED
  BY <1>4, <1>5

\* Without an excuse the call that ends answers what the store says.
LEMMA AnswerSeen ==
    ASSUME GuardInv, ReadsFresh, OnlyOverlappedReadsStale, SeenInv, NEW q \in Requests, Handle(q),
           ~seen'[q].excused, SetFound(q) \/ SetComputed(q) \/ RolesKnown(q)
    PROVE  /\ SetFound(q) =>
                 IF Permits(cache[req[q].id], NeedOf(q))
                 THEN NeedOf(q) \in seen'[q].held ELSE NeedOf(q) \in seen'[q].lacked
           /\ SetComputed(q) =>
                 IF Permits(cache'[req[q].id], NeedOf(q))
                 THEN NeedOf(q) \in seen'[q].held ELSE NeedOf(q) \in seen'[q].lacked
           /\ RolesKnown(q) =>
                 IF NeedOf(q) \in directRoles'[req[q].id]
                 THEN NeedOf(q) \in seen'[q].held ELSE NeedOf(q) \in seen'[q].lacked
<1>1. /\ Holds(req[q].id) \cap Wanted(q) \subseteq seen'[q].held
      /\ Wanted(q) \ Holds(req[q].id) \subseteq seen'[q].lacked
      /\ ~Excuses(q) /\ ReqInv
  BY Handled
<1>2. frame[q] # Nil
  BY CallSteps DEF InCallStep
<1>3. /\ Pending(q) /\ req[q].step # "identify" /\ ~AskedAll(q) /\ req[q].id \in UserIDs
      /\ FrameOK(q, frame[q]) /\ frame[q].call \in Call
      /\ frame[q].pc \in DOMAIN Program[frame[q].call.op] \ {"start"}
      /\ frame[q].call.op = (IF GuardOf(q).kind = "RequireRole" THEN "HasRole" ELSE "Check")
  BY <1>2, InQuestion
<1>4. PICK n : n = NeedOf(q)
  OBVIOUS
<1>5. n \in Wanted(q) /\ IF GuardOf(q).kind = "RequireRole" THEN n \in RoleIDs ELSE n \in Permissions
  BY <1>1, <1>3, <1>4, NeedWanted, NeedTypes
<1>6. n \in Holds(req[q].id) => n \in seen'[q].held
  BY <1>1, <1>5
<1>7. n \notin Holds(req[q].id) => n \in seen'[q].lacked
  BY <1>1, <1>5
<1>8. ASSUME SetFound(q)
      PROVE  IF Permits(cache[req[q].id], n) THEN n \in seen'[q].held ELSE n \in seen'[q].lacked
  <2>1. n \in Permissions
    BY <1>5, <1>8, Found
  <2>2. UserExists(req[q].id) /\ cache[req[q].id] = Effective(users[req[q].id])
    BY <1>1, <1>8, ExactAnswers
  <2>3. n \in Holds(req[q].id) <=> Permits(cache[req[q].id], n)
    BY <1>3, <2>1, <2>2, Holding DEF GuardInv
  <2> QED
    BY <1>6, <1>7, <2>3
<1>9. ASSUME SetComputed(q)
      PROVE  IF Permits(cache'[req[q].id], n) THEN n \in seen'[q].held ELSE n \in seen'[q].lacked
  <2>1. frame[q].pc = "publish"
    BY <1>9 DEF SetComputed, Publish, At
  <2>2. frame[q].call.op = "Check"
    BY <1>3, <2>1, ReadingTable
  <2>3. n \in Permissions
    BY <1>3, <1>5, <2>2
  <2>4. UserExists(req[q].id) /\ cache'[req[q].id] = Effective(users[req[q].id])
    BY <1>1, <1>9, ExactAnswers
  <2>5. n \in Holds(req[q].id) <=> Permits(cache'[req[q].id], n)
    BY <1>3, <2>3, <2>4, Holding DEF GuardInv
  <2> QED
    BY <1>6, <1>7, <2>5
<1>10. ASSUME RolesKnown(q)
       PROVE  IF n \in directRoles'[req[q].id] THEN n \in seen'[q].held ELSE n \in seen'[q].lacked
  <2>1. n \in RoleIDs
    BY <1>5, <1>10, Known
  <2>2. UserExists(req[q].id) /\ directRoles'[req[q].id] = users[req[q].id].roles
    BY <1>1, <1>10, ExactAnswers
  <2>3. n \in Holds(req[q].id) <=> n \in directRoles'[req[q].id]
    BY <1>3, <2>1, <2>2, Holding DEF GuardInv
  <2> QED
    BY <1>6, <1>7, <2>3
<1> QED
  BY <1>4, <1>8, <1>9, <1>10

LEMMA HandleEarned ==
    ASSUME GuardInv, ReadsFresh, OnlyOverlappedReadsStale, SeenInv, NEW q \in Requests, Handle(q),
           ~seen'[q].excused
    PROVE  Earned(q)'
<1>1. Pending(q) /\ req[q] # Nil /\ Justified(q) /\ Grown(q) /\ ReqInv
  BY Handled
<1>2. Earned(q) /\ req[q].status = Nil
  BY <1>1 DEF Justified, Grown, Pending
<1>3. CASE Identify(q)
  <2>1. CASE Fail(q, "Unauthorized")
    <3>1. "Unauthorized" \in Statuses \ {"served"} /\ "Unauthorized" # "Forbidden"
      BY DEF Statuses
    <3> QED
      BY <1>1, <1>2, <2>1, <3>1, EarnedFail
  <2>2. CASE req' = [req EXCEPT ![q].step = "check"] /\ (req[q].resolved \/ req[q].id # Nil)
    <3>1. /\ req'[q].stack = req[q].stack /\ req'[q].at = req[q].at /\ req'[q].next = req[q].next
          /\ req'[q].status = Nil /\ req'[q].step = "check"
      BY <1>1, <1>3, <2>2, CheckPlaced DEF Identify
    <3>2. ConfirmRight(q)'
      BY <3>1 DEF ConfirmRight, AtGuard
    <3> QED
      BY <1>1, <1>2, <3>1, <3>2, EarnedKept
  <2> QED
    BY <1>3, <2>1, <2>2 DEF Identify
<1>4. CASE Confirm(q)
  <2>1. AtGuard(q, "confirm") /\ ~AskedAll(q)
    BY <1>1, <1>4, UnderWay DEF Confirm, AtGuard, Placed
  <2> DEFINE yes == Permits(req[q].set, NeedOf(q))
  <2>2. IF yes THEN NeedOf(q) \in seen'[q].held ELSE NeedOf(q) \in seen'[q].lacked
    BY <1>1, <1>2, <2>1 DEF Earned, ConfirmRight, Grown
  <2>3. Decide(q, yes) \/ Unknown(q)
    BY <1>4 DEF Confirm
  <2>4. yes \in BOOLEAN
    BY DEF Permits
  <2> HIDE DEF yes
  <2> QED
    BY <1>1, <1>2, <2>1, <2>2, <2>3, <2>4, EarnedDecide, EarnedUnknown
<1>5. CASE LoopEnds(q)
  BY <1>1, <1>2, <1>5, LoopEarned
<1>6. CASE Ask(q) \/ CallGoesOn(q)
  <2>1. req'[q] = req[q]
    BY <1>6 DEF Ask, CallGoesOn
  <2>2. Justified(q)'
    BY <1>1, <2>1, JustifiedKept
  <2> QED
    BY <2>2 DEF Justified
<1>7. CASE SetFound(q)
  <2>1. /\ AtGuard(q, "check") /\ ~AskedAll(q) /\ GuardOf(q).kind # "RequireRole"
        /\ cache[req[q].id] \in SUBSET Permissions
    BY <1>7, Found, InQuestion, CallSteps DEF InCallStep
  <2>2. req' = [req EXCEPT ![q].step = "confirm", ![q].set = cache[req[q].id]]
    BY <1>7 DEF SetFound
  <2>3. /\ req'[q].stack = req[q].stack /\ req'[q].at = req[q].at /\ req'[q].next = req[q].next
        /\ req'[q].status = Nil /\ req'[q].set = cache[req[q].id]
    BY <1>1, <2>1, <2>2, ConfirmPlaced
  <2>4. IF Permits(cache[req[q].id], NeedOf(q))
        THEN NeedOf(q) \in seen'[q].held ELSE NeedOf(q) \in seen'[q].lacked
    BY <1>7, AnswerSeen
  <2>5. NeedOf(q)' = NeedOf(q)
    BY <2>3 DEF NeedOf, GuardOf
  <2>6. ConfirmRight(q)'
    BY <2>3, <2>4, <2>5 DEF ConfirmRight, Permits
  <2> QED
    BY <1>1, <1>2, <2>3, <2>6, EarnedKept
<1>8. CASE UserGone(q)
  BY <1>1, <1>2, <1>8, EarnedUnknown DEF UserGone
<1>9. CASE SetComputed(q)
  <2>1. AtGuard(q, "check") /\ ~AskedAll(q)
    BY <1>9, InQuestion, CallSteps DEF InCallStep
  <2> DEFINE yes == Permits(cache'[req[q].id], NeedOf(q))
  <2>2. IF yes THEN NeedOf(q) \in seen'[q].held ELSE NeedOf(q) \in seen'[q].lacked
    BY <1>9, AnswerSeen
  <2>3. Decide(q, yes) /\ yes \in BOOLEAN
    BY <1>9 DEF SetComputed, Permits
  <2> HIDE DEF yes
  <2> QED
    BY <1>1, <1>2, <2>1, <2>2, <2>3, EarnedDecide
<1>10. CASE RolesKnown(q)
  <2>1. AtGuard(q, "check") /\ ~AskedAll(q)
    BY <1>10, InQuestion, CallSteps DEF InCallStep
  <2> DEFINE yes == NeedOf(q) \in directRoles'[req[q].id]
  <2>2. IF yes THEN NeedOf(q) \in seen'[q].held ELSE NeedOf(q) \in seen'[q].lacked
    BY <1>10, AnswerSeen
  <2>3. Decide(q, yes) /\ yes \in BOOLEAN
    BY <1>10 DEF RolesKnown
  <2> HIDE DEF yes
  <2> QED
    BY <1>1, <1>2, <2>1, <2>2, <2>3, EarnedDecide
<1> QED
  BY <1>3, <1>4, <1>5, <1>6, <1>7, <1>8, <1>9, <1>10 DEF Handle

\* Whatever a step does with one request, the others keep their reasons.
LEMMA OthersJustified ==
    ASSUME SeenInv, NEW arrived, NEW failed, Observe(arrived, failed), NEW moved,
           \A p \in Requests \ {moved} : req'[p] = req[p] /\ p # arrived,
           moved \in Requests /\ req'[moved] # Nil => Justified(moved)'
    PROVE  SeenInv'
<1>1. SeenType /\ SeenType' /\ \A q \in Requests : q # arrived => Grown(q)
  BY Observed DEF SeenInv
<1>2. ASSUME NEW p \in Requests, p # moved, req'[p] # Nil PROVE Justified(p)'
  <2>1. req'[p] = req[p] /\ req[p] # Nil /\ Justified(p) /\ Grown(p)
    BY <1>1, <1>2 DEF SeenInv
  <2> QED
    BY <2>1, JustifiedKept
<1> QED
  BY <1>1, <1>2 DEF SeenInv

LEMMA SeenInvStep ==
    ASSUME GuardInv, ReadsFresh, OnlyOverlappedReadsStale, SeenInv, ~Flaky, [MNext]_mvars
    PROVE  SeenInv'
<1>1. ASSUME NEW q \in Requests, NEW id \in UserIDs \cup {Nil}, NEW stack \in Stacks,
             Arrive(q, id, stack), Observe(q, Nil)
      PROVE  SeenInv'
  <2> DEFINE r == [id |-> id, stack |-> stack, at |-> 1, step |-> "identify",
                   next |-> 1, set |-> {}, resolved |-> FALSE, status |-> Nil]
  <2>1. req'[q] = r /\ \A p \in Requests \ {q} : req'[p] = req[p]
    BY <1>1 DEF Arrive, GuardInv, ReqInv
  <2>2. /\ req'[q].at = 1 /\ req'[q].next = 1 /\ req'[q].status = Nil
        /\ req'[q].step = "identify"
    BY <2>1
  <2>3. Absentee(q)' /\ ServedMet(q)' /\ ForbiddenRight(q)'
    BY <2>2 DEF Absentee, ServedMet, ForbiddenRight, Statuses
  <2>4. GuardsPassed(q)' /\ LoopAnswered(q)' /\ ConfirmRight(q)'
    BY <2>2 DEF GuardsPassed, LoopAnswered, ConfirmRight, AtGuard
  <2>5. Justified(q)'
    BY <2>3, <2>4 DEF Justified, Earned
  <2> QED
    BY <1>1, <2>1, <2>5, OthersJustified
<1>2. ASSUME NEW q \in Requests, Handle(q) PROVE SeenInv'
  <2>1. Observe(Nil, Nil) /\ \A p \in Requests \ {q} : req'[p] = req[p] /\ p # Nil
    BY <1>2, Handled DEF Handle, Moves
  <2>2. Justified(q)'
    BY <1>2, HandleAbsentee, HandleEarned DEF Justified
  <2> QED
    BY <2>1, <2>2, OthersJustified
<1>3. ASSUME NEW q \in Requests PROVE ~HandleFails(q)
  BY DEF HandleFails, GetUserFails, CheckFails, StoreFails
<1>4. ASSUME NEW t \in Threads \ Requests, Elsewhere(t) PROVE SeenInv'
  <2>1. Observe(Nil, Nil) /\ \A p \in Requests \ {Nil} : req'[p] = req[p] /\ p # Nil
    BY <1>4 DEF Elsewhere
  <2> QED
    BY <2>1, OthersJustified
<1>5. CASE UNCHANGED mvars
  BY <1>5 DEF mvars, SeenInv, SeenType, Justified, Absentee, Earned, GuardsPassed, LoopAnswered,
              ConfirmRight, ServedMet, ForbiddenRight, AtGuard, Pending, NeedOf, GuardOf
<1> QED
  BY <1>1, <1>2, <1>3, <1>4, <1>5 DEF MNext

LEMMA SeenImplies ==
    ASSUME ReqInv, SeenInv
    PROVE  ServedWasAuthorized /\ AnswersJustified
<1>1. ServedWasAuthorized
  <2> SUFFICES ASSUME NEW q \in Requests, req[q] # Nil, req[q].status = "served",
                      ~seen[q].excused, NEW i \in DOMAIN req[q].stack
               PROVE  Met(req[q].stack[i], seen[q].held)
    BY DEF ServedWasAuthorized
  <2>1. req[q] \in Position /\ Placed(q) /\ Earned(q)
    BY UnderWay DEF SeenInv, Justified
  <2>2. req[q].stack \in Seq(Guards)
    BY <2>1 DEF Position
  <2>3. i \in 1..Len(req[q].stack) /\ Len(req[q].stack) \in Nat
    BY <2>2, LenProperties
  <2>4. req[q].at = Len(req[q].stack)
    BY <2>1 DEF Earned, ServedMet
  <2>5. i \in 1..(req[q].at - 1) \/ i = req[q].at
    BY <2>3, <2>4
  <2> QED
    BY <2>1, <2>5 DEF Earned, GuardsPassed, ServedMet, GuardOf
<1>2. AnswersJustified
  <2> SUFFICES ASSUME NEW q \in Requests, req[q] # Nil
               PROVE  /\ req[q].status = "Unauthorized" => seen[q].absent
                      /\ req[q].status = "Forbidden" /\ ~seen[q].excused =>
                            IF GuardOf(q).kind = "RequireAny"
                            THEN \A i \in DOMAIN GuardOf(q).needs : GuardOf(q).needs[i] \in seen[q].lacked
                            ELSE \E i \in DOMAIN GuardOf(q).needs : GuardOf(q).needs[i] \in seen[q].lacked
    BY DEF AnswersJustified
  <2> QED
    BY DEF SeenInv, Justified, Absentee, Earned, ForbiddenRight
<1> QED
  BY <1>1, <1>2

\* A handler runs only for a user that, while the request was under way, held
\* according to the store whatever each guard asks for, and each refusal has its
\* reason there, although every check is several store calls and critical
\* sections, between which other requests are checked and one goroutine changes
\* users and roles.  For any number of requests and any stack of guards, over a
\* store that does not fail, and roles created before they are named.  The
\* properties excuse what the Enforcer does not keep: checks that overlapped a
\* write, what such checks published, and inherited permissions.
THEOREM GuardsCorrect ==
    ASSUME NEW w \in Threads, OnlyWriter(w), ~Flaky, LateRoles = {}, StartsDetached
    PROVE  MSpec => [](ServedWasAuthorized /\ AnswersJustified)
<1>1. MInit => SeenInv
  <2> SUFFICES ASSUME MInit, NEW q \in Requests
               PROVE  req[q] = Nil /\ seen[q].absent \in BOOLEAN /\ seen[q].excused \in BOOLEAN
    BY DEF SeenInv, SeenType
  <2>1. req[q] = Nil /\ seen[q] = Unseen
    BY DEF MInit
  <2> QED
    BY <2>1 DEF Unseen
<1>2. LateEntriesInv(w) => ReadsFresh
  BY DEF LateEntriesInv
<1>3. OSpec => []LateEntriesInv(w)
  BY LateEntriesInvariant
<1>4. OSpec => []OnlyOverlappedReadsStale
  BY OneWriterLateEntries
<1>5. GuardInv /\ ReadsFresh /\ OnlyOverlappedReadsStale /\ SeenInv /\ [MNext]_mvars => SeenInv'
  BY SeenInvStep
<1>6. GuardInv /\ SeenInv => ServedWasAuthorized /\ AnswersJustified
  BY SeenImplies DEF GuardInv
<1> QED
  BY <1>1, <1>2, <1>3, <1>4, <1>5, <1>6, GuardInvariant, PTL DEF MSpec
=============================================================================
