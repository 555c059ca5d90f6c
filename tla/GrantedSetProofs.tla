-------------------------- MODULE GrantedSetProofs --------------------------
(***************************************************************************)
(* The index of GrantedSet answers as the permissions it was built from,   *)
(* for every set of permissions and requests.                              *)
(***************************************************************************)
EXTENDS GrantedSet, SequenceTheorems, TLAPS

\* The index lists, for each resource granted, the actions granted on it.
IndexInv ==
    /\ granted \subseteq Patterns
    /\ DOMAIN byResource = {p.resource : p \in granted}
    /\ \A r \in DOMAIN byResource :
          byResource[r] = {p.action : p \in {q \in granted : q.resource = r}}

LEMMA IndexInvariant == Spec => []IndexInv
<1>1. Init => IndexInv
  BY DEF Init, IndexInv
<1>2. IndexInv /\ [Next]_vars => IndexInv'
  <2> SUFFICES ASSUME IndexInv, [Next]_vars PROVE IndexInv'
    OBVIOUS
  <2>1. ASSUME NEW p \in Patterns, Add(p) PROVE IndexInv'
    <3>1. granted' \subseteq Patterns /\ granted' = granted \cup {p}
      BY <2>1 DEF Add, IndexInv
    <3>2. DOMAIN byResource' = DOMAIN byResource \cup {p.resource}
      BY <2>1 DEF Add, AddTo
    <3>3. DOMAIN byResource' = {q.resource : q \in granted'}
      BY <3>1, <3>2 DEF IndexInv
    <3>4. ASSUME NEW r \in DOMAIN byResource'
          PROVE  byResource'[r] = {q.action : q \in {s \in granted' : s.resource = r}}
      <4>1. byResource'[r] = ActionsOf(byResource, r)
                             \cup (IF r = p.resource THEN {p.action} ELSE {})
        BY <2>1, <3>2 DEF Add, AddTo
      <4>2. ActionsOf(byResource, r) = {q.action : q \in {s \in granted : s.resource = r}}
        BY DEF ActionsOf, IndexInv
      <4> QED
        BY <3>1, <4>1, <4>2
    <3> QED
      BY <3>1, <3>3, <3>4 DEF IndexInv
  <2>2. CASE UNCHANGED vars
    BY <2>2 DEF vars, IndexInv
  <2> QED
    BY <2>1, <2>2 DEF Next
<1> QED
  BY <1>1, <1>2, PTL DEF Spec

\* The index has an entry for exactly the resources granted; every entry has an
\* action, and only actions that were granted on its resource.
THEOREM TypeCorrect == Spec => []TypeOK
<1>1. IndexInv => TypeOK
  <2> SUFFICES ASSUME IndexInv, NEW r \in DOMAIN byResource PROVE byResource[r] # {}
    BY DEF IndexInv, TypeOK
  <2>1. PICK p \in granted : p.resource = r
    BY DEF IndexInv
  <2>2. p.action \in byResource[r]
    BY <2>1 DEF IndexInv
  <2> QED
    BY <2>2
<1> QED
  BY <1>1, IndexInvariant, PTL

\* For all permissions and requests: grantedSet.flatten lists exactly what was
\* added, and grantedSet.has answers exactly as Permission.Matches over it.
THEOREM GrantedSetCorrect == Spec => [](FlattenExact /\ HasAgreesWithMatches)
<1>1. IndexInv => FlattenExact
  <2> SUFFICES ASSUME IndexInv, NEW p \in Patterns
               PROVE  Flattened(byResource, p) <=> p \in granted
    BY DEF FlattenExact
  <2>1. p \in granted => Flattened(byResource, p)
    BY DEF IndexInv, Flattened
  <2>2. ASSUME Flattened(byResource, p) PROVE p \in granted
    <3>1. PICK q \in granted : q.resource = p.resource /\ q.action = p.action
      BY <2>2 DEF IndexInv, Flattened
    <3>2. q \in PermissionRecord /\ p \in PermissionRecord
      BY <3>1, PatternsAssumption DEF IndexInv
    <3>3. q = p
      BY <3>1, <3>2 DEF PermissionRecord
    <3> QED
      BY <3>1, <3>3
  <2> QED
    BY <2>1, <2>2
<1>2. IndexInv => HasAgreesWithMatches
  <2> SUFFICES ASSUME IndexInv, NEW required \in Requests
               PROVE  Has(byResource, required) <=> \E p \in granted : Matches(p, required)
    BY DEF HasAgreesWithMatches
  <2>0. \A r \in DOMAIN byResource : \E p \in granted : p.resource = r
    BY DEF IndexInv
  <2>1. ASSUME Has(byResource, required) PROVE \E p \in granted : Matches(p, required)
    <3>1. CASE Star \in DOMAIN byResource
      <4>1. PICK p \in granted : p.resource = Star
        BY <2>0, <3>1
      <4> QED
        BY <4>1 DEF Matches
    <3>2. ASSUME NEW a \in {Star, required.action},
                 required.resource \in DOMAIN byResource, a \in byResource[required.resource]
          PROVE  \E p \in granted : Matches(p, required)
      <4>1. PICK p \in granted : p.resource = required.resource /\ p.action = a
        BY <3>2 DEF IndexInv
      <4>2. Matches(p, required)
        BY <3>2, <4>1 DEF Matches
      <4> QED
        BY <4>1, <4>2
    <3> QED
      BY <2>1, <3>1, <3>2 DEF Has
  <2>2. ASSUME NEW p \in granted, Matches(p, required) PROVE Has(byResource, required)
    <3>1. p.resource \in DOMAIN byResource /\ p.action \in byResource[p.resource]
      BY <2>2 DEF IndexInv
    <3> QED
      BY <2>2, <3>1 DEF Has, Matches
  <2> QED
    BY <2>1, <2>2
<1> QED
  BY <1>1, <1>2, IndexInvariant, PTL

\* Joining one segment and a text with a colon, and cutting the result at the
\* first colon.
LEMMA JoinAndCut ==
    ASSUME NEW res \in Seq(STRING), Len(res) = 1, NEW act \in Seq(STRING), act # <<>>
    PROVE  LET s == res \o act
           IN  s \in Seq(STRING) /\ Len(s) > 1 /\ <<s[1]>> = res /\ Tail(s) = act
<1> DEFINE s == res \o act
<1>1. Len(act) \in Nat \ {0}
  BY EmptySeq, LenProperties
<1>2. s \in Seq(STRING) /\ Len(s) = 1 + Len(act)
  BY ConcatProperties
<1>3. \A i \in 1..(1 + Len(act)) : s[i] = IF i <= 1 THEN res[i] ELSE act[i - 1]
  <2>1. \A i \in 1..Len(res) + Len(act) :
            s[i] = IF i <= Len(res) THEN res[i] ELSE act[i - Len(res)]
    BY ConcatProperties, Zenon
  <2> HIDE DEF s
  <2> QED
    BY <2>1
<1>4. s[1] = res[1]
  BY <1>1, <1>3
<1>5. <<s[1]>> = res
  BY <1>4, <1>1, SeqEqual
<1>6. s # <<>>
  BY <1>1, <1>2
<1>7. Tail(s) \in Seq(STRING) /\ Len(Tail(s)) = Len(act)
      /\ \A i \in 1..Len(act) : Tail(s)[i] = s[i + 1]
  BY <1>1, <1>2, <1>6, HeadTailProperties
<1>8. \A i \in 1..Len(act) : Tail(s)[i] = act[i]
  BY <1>1, <1>3, <1>7
<1>9. Tail(s) = act
  BY <1>7, <1>8, SeqEqual
<1>10. Len(s) > 1
  BY <1>1, <1>2
<1> QED
  BY <1>2, <1>5, <1>9, <1>10

\* The text form of a permission with one segment of resource: cut at the
\* first colon it gives the resource and the action back, however many colons
\* the action has.
LEMMA PlainText ==
    ASSUME NEW p \in PermissionRecord, Valid(p), Len(p.resource) = 1, p.action # Empty
    PROVE  RoundTrips(p)
<1> DEFINE s == p.resource \o p.action
<1>1. /\ p.resource \in Seq(STRING)
      /\ p.action \in Seq(STRING) /\ p.action # <<>>
      /\ p = [resource |-> p.resource, action |-> p.action]
  BY DEF PermissionRecord, Text
<1>2. Len(s) > 1 /\ <<s[1]>> = p.resource /\ Tail(s) = p.action
  BY <1>1, JoinAndCut
<1>3. s[1] # ""
  BY <1>2 DEF Valid, Empty
<1>4. Len(Star) = 1
  BY DEF Star
<1> HIDE DEF s
<1>5. s # Star
  BY <1>2, <1>4
<1>6. Parses(s)
  BY <1>2, <1>3 DEF Parses
<1>7. ParsePermission(s) = p
  BY <1>1, <1>2, <1>5 DEF ParsePermission
<1>8. String(p) = s
  BY DEF String, s
<1> QED
  BY <1>6, <1>7, <1>8 DEF RoundTrips

\* MarshalText followed by UnmarshalText changes no granted permission that is
\* valid, has a resource of one segment and has an action.
THEOREM PlainTextCorrect == Spec => []PlainPermissionsRoundTrip
<1>1. IndexInv => PlainPermissionsRoundTrip
  BY PlainText, PatternsAssumption DEF IndexInv, PlainPermissionsRoundTrip
<1> QED
  BY <1>1, IndexInvariant, PTL
=============================================================================
