----------------------------- MODULE Permission -----------------------------
(***************************************************************************)
(* The permission patterns of model/permission.go: matching, validity and  *)
(* the text form "resource:action".                                        *)
(*                                                                         *)
(* A text is the sequence of its colon-free segments, so "a:b:c" is        *)
(* <<"a", "b", "c">>, the empty string is <<"">>, and joining two texts    *)
(* with a colon is concatenation.  The fields of a permission are texts.   *)
(***************************************************************************)
EXTENDS Naturals, Sequences

Star  == <<"*">>
Empty == <<"">>

-----------------------------------------------------------------------------
(***************************************************************************)
(* Faulty variants of the definitions below, used to confirm that the      *)
(* properties of this project can fail.                                    *)
(***************************************************************************)

\* Splitting at the last colon instead of the first one.
ParseLastColonMutant(s) ==
    IF s = Star
    THEN [resource |-> Star, action |-> Empty]
    ELSE [resource |-> SubSeq(s, 1, Len(s) - 1), action |-> <<s[Len(s)]>>]
-----------------------------------------------------------------------------

\* Permission.Matches: p is a granted pattern that covers required.
Matches(p, required) ==
    \/ p = required
    \/ p.resource = Star
    \/ /\ p.resource = required.resource
       /\ p.action \in {Star, required.action}

\* Permission.Valid.
Valid(p) ==
    /\ p.resource # Empty
    /\ p.resource = Star \/ p.action # Empty

\* Permission.String and MarshalText.
String(p) == p.resource \o p.action

\* ParsePermission returns no error: there is a colon, and neither the
\* resource before the first one nor all that follows it is empty.
Parses(s) ==
    \/ s = Star
    \/ /\ Len(s) > 1
       /\ s[1] # ""
       /\ Tail(s) # Empty

\* ParsePermission and UnmarshalText, on a text that Parses.
ParsePermission(s) ==
    IF s = Star
    THEN [resource |-> Star, action |-> Empty]
    ELSE [resource |-> <<s[1]>>, action |-> Tail(s)]

\* The text form of p reads back as p.
RoundTrips(p) == Parses(String(p)) /\ ParsePermission(String(p)) = p
=============================================================================
