------------------------------- MODULE MCJwt -------------------------------
(***************************************************************************)
(* Instances of Jwt: a second is two units of the clock.                   *)
(***************************************************************************)
EXTENDS Jwt

HalfSeconds == 2
First == -4

\* A secret that is long enough, one that is too short, and a key pair.
Secret  == [name |-> "secret", size |-> 3]
Short   == [name |-> "short", size |-> 2]
KeyPair == [name |-> "pair", size |-> 2]
HMACSize == 3
PairSize == 2

Signer(alg, key, ttl) ==
    [alg |-> alg, key |-> key, ttl |-> ttl, issuer |-> "login", audience |-> <<"web", "app">>]

MCSigners ==
    {Signer("HS256", Secret, 3), Signer("HS256", Short, 3),
     Signer("EdDSA", KeyPair, 0), [Signer("EdDSA", KeyPair, 4) EXCEPT !.audience = <<>>]}

Verifier(alg, key) ==
    [alg |-> alg, key |-> key, leeway |-> 0, skew |-> 0, expectIssuer |-> "",
     expectAudience |-> ""]

\* Leeways and clocks that are off, by less and by more than the leeway.
MCVerifiers ==
    {[Verifier("HS256", Secret) EXCEPT !.leeway = l, !.skew = k] : l \in {0, 1, 2}, k \in {-1, 0, 1}}
    \cup {[Verifier("HS256", Secret) EXCEPT !.expectIssuer = "login"],
          [Verifier("HS256", Secret) EXCEPT !.expectAudience = "app"],
          Verifier("HS256", Short),
          Verifier("EdDSA", KeyPair),
          [Verifier("EdDSA", KeyPair) EXCEPT !.expectIssuer = "other", !.expectAudience = "web"]}

Ask == [sub |-> "bob", iss |-> "", aud |-> <<>>, iat |-> Nil, exp |-> Nil, nbf |-> Nil,
        extra |-> [n \in {} |-> ""]]

\* Claims with dates before, at and after 1970, without a subject, with one
\* audience, and with extra claims, one of them named like a registered claim.
MCRequests ==
    {[Ask EXCEPT !.exp = e, !.nbf = n] : e \in {Nil, -1, 0, 1, 3, 6}, n \in {Nil, 0, 3}}
    \cup {[Ask EXCEPT !.iat = t] : t \in {-3, 0, 1, 4}}
    \cup {[Ask EXCEPT !.sub = ""],
          [Ask EXCEPT !.iss = "other", !.aud = <<"web">>],
          [Ask EXCEPT !.extra = [n \in {"team"} |-> "blue"]],
          [Ask EXCEPT !.extra = [n \in {"team", "iss"} |-> "blue"]]}

Token(alg, key, payload) ==
    [broken |-> {}, alg |-> alg, typ |-> "", crit |-> FALSE, key |-> key, payload |-> payload]

\* Tokens of other programs: other headers, other keys, other payloads, and
\* parts that do not decode, of tokens with good and with bad signatures.
MCForeign ==
    LET plain == [sub |-> "bob", exp |-> 2]
        odd   == [sub |-> "bob", exp |-> Malformed]
    IN  {Token("HS256", Secret, plain), Token("HS256", Secret, odd),
         Token("HS256", Secret, [sub |-> "bob", exp |-> 0]),
         Token("HS256", Short, odd), Token("HS256", KeyPair, plain),
         Token("none", Secret, odd),
         [Token("HS256", Secret, plain) EXCEPT !.broken = {"header", "payload"}],
         [Token("HS256", Secret, plain) EXCEPT !.broken = {"signature"}],
         [Token("HS256", Secret, plain) EXCEPT !.broken = {"payload"}],
         [Token("HS256", KeyPair, plain) EXCEPT !.broken = {"payload"}],
         [Token("HS256", Secret, plain) EXCEPT !.typ = "at+jwt"],
         [Token("HS256", Secret, plain) EXCEPT !.crit = TRUE]}
=============================================================================
