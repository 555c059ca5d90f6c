---------------------------- MODULE MCGrantedSet ----------------------------
(***************************************************************************)
(* Instance of GrantedSet: every wildcard position, two concrete resources *)
(* of which one has two segments, and requests that include wildcards.     *)
(***************************************************************************)
EXTENDS GrantedSet

MCPatterns ==
    {[resource |-> r, action |-> a] :
        r \in {Star, <<"article">>, <<"tenant", "article">>},
        a \in {Star, <<"read">>, <<"read", "extra">>}}
    \cup {[resource |-> Star, action |-> Empty]}

MCRequests ==
    [resource : {Star, Empty, <<"article">>, <<"user">>, <<"tenant", "article">>},
     action   : {Star, Empty, <<"read">>, <<"delete">>, <<"read", "extra">>}]
=============================================================================
