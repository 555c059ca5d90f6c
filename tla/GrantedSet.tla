----------------------------- MODULE GrantedSet -----------------------------
(***************************************************************************)
(* grantedSet of authz/authz.go: the two-level index                       *)
(* resource -> set of actions that answers a permission check, filled one  *)
(* permission at a time from a user's roles and direct grants.             *)
(*                                                                         *)
(* granted is a history variable: the permissions added so far.            *)
(***************************************************************************)
EXTENDS Permission

CONSTANTS
    Patterns,   \* the permissions that may be granted
    Requests    \* the permissions that may be asked for

VARIABLES
    byResource, \* the index: a function from some resources to sets of actions
    granted

vars == <<byResource, granted>>

\* A text has at least one segment.
Text == Seq(STRING) \ {<<>>}

PermissionRecord == [resource : Text, action : Text]

ASSUME PatternsAssumption == Patterns \subseteq PermissionRecord
ASSUME RequestsAssumption == Requests \subseteq PermissionRecord

-----------------------------------------------------------------------------
\* An add that replaces the resource's action set instead of extending it.
AddOverwritesMutant(g, p) ==
    [r \in DOMAIN g \cup {p.resource} |->
        IF r = p.resource THEN {p.action} ELSE g[r]]

\* An add that forgets a wildcard granted without an action.
AddNeedsActionMutant(g, p) ==
    IF p.action = Empty
    THEN g
    ELSE [r \in DOMAIN g \cup {p.resource} |->
             (IF r \in DOMAIN g THEN g[r] ELSE {})
             \cup (IF r = p.resource THEN {p.action} ELSE {})]

\* A lookup that treats a granted "*" action as an ordinary action.
HasNoActionWildcardMutant(g, required) ==
    \/ Star \in DOMAIN g
    \/ /\ required.resource \in DOMAIN g
       /\ required.action \in g[required.resource]
-----------------------------------------------------------------------------

\* The actions indexed under resource r, none when r has no entry.
ActionsOf(g, r) == IF r \in DOMAIN g THEN g[r] ELSE {}

\* grantedSet.add.
AddTo(g, p) ==
    [r \in DOMAIN g \cup {p.resource} |->
        ActionsOf(g, r) \cup (IF r = p.resource THEN {p.action} ELSE {})]

\* grantedSet.has.
Has(g, required) ==
    \/ Star \in DOMAIN g
    \/ /\ required.resource \in DOMAIN g
       /\ \/ Star \in g[required.resource]
          \/ required.action \in g[required.resource]

\* p is one of the permissions grantedSet.flatten lists.
Flattened(g, p) == p.resource \in DOMAIN g /\ p.action \in g[p.resource]

Init ==
    /\ byResource = [r \in {} |-> {}]
    /\ granted = {}

Add(p) ==
    /\ byResource' = AddTo(byResource, p)
    /\ granted' = granted \cup {p}

Next == \E p \in Patterns : Add(p)

Spec == Init /\ [][Next]_vars

-----------------------------------------------------------------------------
\* The index has an entry for exactly the resources that were granted, no
\* entry is without an action, and none has an action that was granted only on
\* another resource.
TypeOK ==
    /\ granted \subseteq Patterns
    /\ DOMAIN byResource = {p.resource : p \in granted}
    /\ \A r \in DOMAIN byResource :
          /\ byResource[r] # {}
          /\ byResource[r] \subseteq {p.action : p \in {q \in granted : q.resource = r}}

\* grantedSet.flatten lists exactly the permissions that were added, whatever
\* the order of the adds and however many share a resource.
FlattenExact == \A p \in Patterns : Flattened(byResource, p) <=> p \in granted

\* grantedSet.has, an index lookup in package authz, answers exactly as
\* Permission.Matches of package model does over the granted permissions: the
\* cached check and the pattern semantics never disagree.
HasAgreesWithMatches ==
    \A required \in Requests :
        Has(byResource, required) <=> \E p \in granted : Matches(p, required)

\* Every valid permission whose resource is a single segment and whose action
\* is not empty survives MarshalText followed by UnmarshalText.
PlainPermissionsRoundTrip ==
    \A p \in granted :
        Valid(p) /\ Len(p.resource) = 1 /\ p.action # Empty => RoundTrips(p)

\* Every valid permission survives MarshalText followed by UnmarshalText, as
\* "these types can be serialized, cached or transported as-is" says
\* (model/permission.go).
ValidPermissionsRoundTrip == \A p \in granted : Valid(p) => RoundTrips(p)
=============================================================================
