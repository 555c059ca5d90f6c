------------------------------ MODULE MCBranca ------------------------------
(***************************************************************************)
(* Instances of Branca: bytes have three values, the alphabet four         *)
(* characters, a second is two units of the clock.                         *)
(***************************************************************************)
EXTENDS Branca, TLC

CONSTANTS k1, k2, p1, p2, t1, t2

\* The clock starts half a second before 1970 and passes the last second that
\* fits a timestamp.
First == -1

\* No text, and a character outside the alphabet; numbers that are too short or
\* have another version come from overlapping calls.
MCGarbage == {<<>>, <<BadChar>>}

\* One goroutine checks the age; the other one does not, and may have another
\* key than the issuer.
MCConsumers ==
    (t1 :> {[key |-> k1, ttl |-> 3]}) @@ (t2 :> {[key |-> k1, ttl |-> 0], [key |-> k2, ttl |-> 0]})

\* Both have the key of the issuer.
SameKey == [t \in Threads |-> {[key |-> k1, ttl |-> 0]}]
=============================================================================
