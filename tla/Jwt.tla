-------------------------------- MODULE Jwt --------------------------------
(***************************************************************************)
(* Package jwt: signers issue tokens, time passes, verifiers judge them.   *)
(* Times are counted in fractions of a second, claims on the wire in whole *)
(* seconds.  Signatures are symbolic: a token carries the name of the key  *)
(* pair or secret that signed it, and what is signed cannot be changed.    *)
(* The claim "jti", treated as "iss" but for its default, is left out.     *)
(*                                                                         *)
(* A signer or verifier never changes once built, so Sign and Verify are   *)
(* one step each; Verify changes nothing and is an operator.  issued is a  *)
(* history variable.                                                       *)
(***************************************************************************)
EXTENDS Integers, Sequences, FiniteSets

CONSTANTS
    Second,         \* the length of a second in units of the clock
    MinHMACKeySize, \* minHMACKeySize, and the size of an Ed25519 key
    KeySize,
    MinClock,       \* the clock runs from MinClock to MaxClock
    MaxClock,
    SignerOptions,  \* key and settings the application builds signers with
    VerifierOptions,
    Requests,       \* the Claims callers pass to Sign
    Foreign,        \* tokens that other programs made
    MaxIssued,      \* how many tokens are issued
    Nil,            \* the zero time, a member that is absent
    Malformed       \* a member of the wrong JSON type

ASSUME TimeAssumption ==
    Second \in Nat \ {0} /\ MinClock \in Int /\ MaxClock \in Int /\ MinClock <= MaxClock
ASSUME LeewayAssumption == \A o \in VerifierOptions : o.leeway \in Nat /\ o.skew \in Int
ASSUME SignerAssumption ==
    \A o \in SignerOptions : o.ttl \in Int /\ o.issuer \in STRING /\ o.audience \in Seq(STRING)

\* The fields of Claims; of the extra claims only their names matter.
ASSUME RequestsAssumption ==
    /\ Requests \subseteq
          [sub : STRING, iss : STRING, aud : Seq(STRING),
           iat : Int \cup {Nil}, exp : Int \cup {Nil}, nbf : Int \cup {Nil},
           extra : {c.extra : c \in Requests}]
    /\ \A c \in Requests : c.extra = [n \in DOMAIN c.extra |-> c.extra[n]]

\* The JSON values of an audience.
AudienceValue ==
    [form : {"string"}, value : STRING] \cup [form : {"array"}, value : Seq(STRING)]

\* Nothing that Sign writes is mistaken for an absent or a malformed member.
ASSUME NilAssumption ==
    /\ Nil # Malformed
    /\ \A j \in {Nil, Malformed} : j \notin Int /\ j \notin STRING /\ j \notin AudienceValue

\* The parts of a token, broken where the text of the part does not decode.
Parts == {"header", "signature", "payload"}

ASSUME ForeignAssumption ==
    \A t \in Foreign :
        /\ DOMAIN t = {"broken", "alg", "typ", "crit", "key", "payload"}
        /\ t.broken \subseteq Parts

VARIABLES
    clock,
    issued          \* what Sign issued: by whom, for which claims, when, and the token

jvars == <<clock, issued>>

-----------------------------------------------------------------------------
(* Keys and algorithms: alg.go and the constructors.                       *)

\* newHMACAlg, newEdDSASignAlg and newEdDSAVerifyAlg accept the key.
ValidKey(alg, key) ==
    IF alg = "HS256" THEN key.size >= MinHMACKeySize ELSE key.size = KeySize

Signers   == {o \in SignerOptions : ValidKey(o.alg, o.key)}
Verifiers == {o \in VerifierOptions : ValidKey(o.alg, o.key)}

-----------------------------------------------------------------------------
(* Claims and their JSON form: claims.go.                                  *)

\* time.Time.Unix and time.Unix.
Unix(t)     == t \div Second
FromUnix(s) == s * Second

ReservedClaims == {"sub", "iss", "aud", "jti", "iat", "exp", "nbf"}

\* An empty string is omitted, and so is the number 0.
OmitEmpty(s) == IF s = "" THEN Nil ELSE s
DateJSON(t)  == IF t = Nil \/ Unix(t) = 0 THEN Nil ELSE Unix(t)

\* Only the first entry of the audience is written.
AudienceJSONMutant(aud) ==
    CASE Len(aud) = 0 -> Nil
      [] Len(aud) > 0 -> [form |-> "string", value |-> aud[1]]

\* Audience.MarshalJSON under omitempty.
AudienceJSON(aud) ==
    CASE Len(aud) = 0 -> Nil
      [] Len(aud) = 1 -> [form |-> "string", value |-> aud[1]]
      [] Len(aud) > 1 -> [form |-> "array", value |-> aud]

\* The registered claims, Nil for those that omitempty leaves out.
Registered(c) ==
    [sub |-> OmitEmpty(c.sub), iss |-> OmitEmpty(c.iss), aud |-> AudienceJSON(c.aud),
     iat |-> DateJSON(c.iat), exp |-> DateJSON(c.exp), nbf |-> DateJSON(c.nbf)]

\* Claims.MarshalJSON: the JSON object as a function on the names of its
\* members, with the extra claims merged over the registered ones.
MarshalJSON(c) ==
    LET reg   == Registered(c)
        names == {n \in DOMAIN reg : reg[n] # Nil} \cup DOMAIN c.extra
    IN  [n \in names |-> IF n \in DOMAIN c.extra THEN c.extra[n] ELSE reg[n]]

Member(p, name) == IF name \in DOMAIN p THEN p[name] ELSE Nil

TextOf(j) == IF j = Nil THEN "" ELSE j
DateOf(j) == IF j = Nil THEN Nil ELSE FromUnix(j)

\* Audience.UnmarshalJSON.
AudienceOf(j) ==
    IF j = Nil THEN <<>> ELSE IF j.form = "string" THEN <<j.value>> ELSE j.value

\* Claims.UnmarshalJSON returns no error.
Parses(p) == \A name \in ReservedClaims : Member(p, name) # Malformed

UnmarshalJSON(p) ==
    [sub |-> TextOf(Member(p, "sub")), iss |-> TextOf(Member(p, "iss")),
     aud |-> AudienceOf(Member(p, "aud")),
     iat |-> DateOf(Member(p, "iat")), exp |-> DateOf(Member(p, "exp")),
     nbf |-> DateOf(Member(p, "nbf")),
     extra |-> [name \in DOMAIN p \ ReservedClaims |-> p[name]]]

-----------------------------------------------------------------------------
(* Sign.                                                                   *)

\* What Sign fills in.
Defaults(s, c, now) ==
    LET iat == IF c.iat = Nil THEN now ELSE c.iat
    IN  [c EXCEPT !.iat = iat,
                  !.exp = IF @ = Nil THEN iat + s.ttl ELSE @,
                  !.iss = IF @ = "" THEN s.issuer ELSE @,
                  !.aud = IF @ = <<>> THEN s.audience ELSE @]

\* A Sign that issues tokens without a subject.
SignableNoSubjectMutant(s, c) ==
    /\ c.exp # Nil \/ s.ttl > 0
    /\ DOMAIN c.extra \cap ReservedClaims = {}

\* Sign returns no error.
Signable(s, c) ==
    /\ c.sub # ""
    /\ c.exp # Nil \/ s.ttl > 0
    /\ DOMAIN c.extra \cap ReservedClaims = {}

\* The compact serialization: a header, a payload and who signed both.
Compact(s, claims) ==
    [broken |-> {}, alg |-> s.alg, typ |-> "JWT", crit |-> FALSE, key |-> s.key,
     payload |-> MarshalJSON(claims)]

Sign(s, c) ==
    /\ Signable(s, c)
    /\ issued' = issued \cup
          {[by |-> s, asked |-> c, at |-> clock, token |-> Compact(s, Defaults(s, c, clock))]}
    /\ UNCHANGED clock

-----------------------------------------------------------------------------
(* Verify.                                                                 *)

\* time.Time.After and Before on a claim that is there.
After(now, t)  == t # Nil /\ now > t
Before(now, t) == t # Nil /\ now < t

\* The zero time plus a duration is never compared: Verify asks IsZero first.
Shift(t, d) == IF t = Nil THEN Nil ELSE t + d

Contains(aud, a) == \E i \in DOMAIN aud : aud[i] = a

\* A leeway that is taken off the expiry.
ValidateLeewayMutant(v, c, now) ==
    IF After(now, Shift(c.exp, 0 - v.leeway)) THEN "expired"
    ELSE IF Before(now, Shift(c.nbf, 0 - v.leeway)) THEN "notYetValid"
    ELSE IF Before(now, Shift(c.iat, 0 - v.leeway)) THEN "issuedInFuture"
    ELSE IF v.expectIssuer # "" /\ c.iss # v.expectIssuer THEN "issuerMismatch"
    ELSE IF v.expectAudience # "" /\ ~Contains(c.aud, v.expectAudience) THEN "audienceMismatch"
    ELSE "ok"

\* An expiry that is compared in whole seconds.
ValidateSecondsMutant(v, c, now) ==
    IF c.exp # Nil /\ Unix(now) > Unix(c.exp + v.leeway) THEN "expired"
    ELSE IF Before(now, Shift(c.nbf, 0 - v.leeway)) THEN "notYetValid"
    ELSE IF Before(now, Shift(c.iat, 0 - v.leeway)) THEN "issuedInFuture"
    ELSE IF v.expectIssuer # "" /\ c.iss # v.expectIssuer THEN "issuerMismatch"
    ELSE IF v.expectAudience # "" /\ ~Contains(c.aud, v.expectAudience) THEN "audienceMismatch"
    ELSE "ok"

\* validate: the first check that fails names the error.
Validate(v, c, now) ==
    IF After(now, Shift(c.exp, v.leeway)) THEN "expired"
    ELSE IF Before(now, Shift(c.nbf, 0 - v.leeway)) THEN "notYetValid"
    ELSE IF Before(now, Shift(c.iat, 0 - v.leeway)) THEN "issuedInFuture"
    ELSE IF v.expectIssuer # "" /\ c.iss # v.expectIssuer THEN "issuerMismatch"
    ELSE IF v.expectAudience # "" /\ ~Contains(c.aud, v.expectAudience) THEN "audienceMismatch"
    ELSE "ok"

\* The signature of the header and payload was made with the verifier's key.
Signed(v, t) == t.key = v.key

\* A Verify that decodes and parses the payload before it looks at the signature.
VerifyMutant(v, t, now) ==
    IF "header" \in t.broken THEN "malformed"
    ELSE IF t.alg # v.alg THEN "algMismatch"
    ELSE IF t.typ \notin {"", "JWT"} THEN "unexpectedTyp"
    ELSE IF t.crit THEN "unsupportedCrit"
    ELSE IF "signature" \in t.broken THEN "malformed"
    ELSE IF "payload" \in t.broken \/ ~Parses(t.payload) THEN "malformed"
    ELSE IF ~Signed(v, t) THEN "badSignature"
    ELSE Validate(v, UnmarshalJSON(t.payload), now)

\* The branches in the order of the code.  A token that does not split into
\* three parts counts as one with a broken header.  The typ "" stands for a
\* header without typ, "JWT" for the spellings typIsJWT accepts.
Verify(v, t, now) ==
    IF "header" \in t.broken THEN "malformed"
    ELSE IF t.alg # v.alg THEN "algMismatch"
    ELSE IF t.typ \notin {"", "JWT"} THEN "unexpectedTyp"
    ELSE IF t.crit THEN "unsupportedCrit"
    ELSE IF "signature" \in t.broken THEN "malformed"
    ELSE IF ~Signed(v, t) THEN "badSignature"
    ELSE IF "payload" \in t.broken \/ ~Parses(t.payload) THEN "malformed"
    ELSE Validate(v, UnmarshalJSON(t.payload), now)

-----------------------------------------------------------------------------
JInit ==
    /\ clock = MinClock
    /\ issued = {}

\* Time passes, up to the bound.
Tick ==
    /\ clock' = IF clock < MaxClock THEN clock + 1 ELSE clock
    /\ UNCHANGED issued

JNext ==
    \/ Tick
    \/ /\ Cardinality(issued) < MaxIssued
       /\ \E s \in Signers, c \in Requests : Sign(s, c)

JSpec == JInit /\ [][JNext]_jvars

-----------------------------------------------------------------------------
\* What a verifier takes for now: its clock may be off by v.skew.
Now(v) == clock + v.skew

\* What Sign promises of the token i: what the caller asked for, and the
\* defaults where nothing was asked for ("IssuedAt becomes now when zero;
\* ExpiresAt becomes IssuedAt plus the configured TTL when zero", jwt/jwt.go).
ClaimsOf(i) ==
    LET Or(asked, none, default) == IF asked = none THEN default ELSE asked
        iat == Or(i.asked.iat, Nil, i.at)
    IN  [iat |-> iat,
         exp |-> Or(i.asked.exp, Nil, iat + i.by.ttl),
         nbf |-> i.asked.nbf,
         iss |-> Or(i.asked.iss, "", i.by.issuer),
         aud |-> Or(i.asked.aud, <<>>, i.by.audience)]

\* The claims of the token i as a verifier hands them out.
DecodedOf(i) == UnmarshalJSON(i.token.payload)

\* The signer s and the verifier v use one key: one secret, or the two halves
\* of one key pair, which NewEdDSA leaves to its caller.
Paired(s, v) == s.alg = v.alg /\ s.key = v.key

Accepts(v, t) == Verify(v, t, Now(v)) = "ok"

\* A date that is not in the first second of 1970, which the JSON form cannot
\* tell from an absent one.
Datable(t) == t # Nil /\ Unix(t) # 0

\* Every issued token is one that a verifier can parse, was signed with a key
\* of sufficient size and names a subject: no request makes Sign issue a token
\* that authenticates nobody.
JTypeOK ==
    /\ clock \in MinClock..MaxClock
    /\ \A i \in issued :
          /\ ValidKey(i.token.alg, i.token.key)
          /\ Parses(i.token.payload)
          /\ DecodedOf(i).sub # ""

\* Through rounding, defaults, leeway and a verifier's clock that is off: a
\* token is never accepted after the expiry that was asked for plus the leeway,
\* nor a second or more before the NotBefore or the IssuedAt that was asked for
\* less the leeway.
AcceptedInWindow ==
    \A i \in issued, v \in Verifiers : Accepts(v, i.token) =>
        LET c == ClaimsOf(i)
        IN  /\ Datable(c.exp) => Now(v) <= c.exp + v.leeway
            /\ Datable(c.nbf) => Now(v) > c.nbf - v.leeway - Second
            /\ Datable(c.iat) => Now(v) > c.iat - v.leeway - Second

\* A token is accepted by every verifier with its key, algorithm and pinned
\* names from the moment it is valid (at once, for a token without dates in
\* the future and a verifier whose clock is not behind by more than the leeway)
\* until a second before it expires: the leeway, the order of the checks and
\* the cutting of fractions reject no good token.
LiveTokenAccepted ==
    \A i \in issued, v \in Verifiers :
        LET c == ClaimsOf(i)
        IN  /\ Paired(i.by, v)
            /\ v.expectIssuer \in {"", c.iss}
            /\ v.expectAudience = "" \/ Contains(c.aud, v.expectAudience)
            /\ Now(v) >= c.iat - v.leeway
            /\ c.nbf # Nil => Now(v) >= c.nbf - v.leeway
            /\ Now(v) <= c.exp + v.leeway - Second
            => Accepts(v, i.token)

\* Whoever accepts a token reads the claims that were signed, with the defaults
\* of the signer and the dates cut to seconds: the audience comes back as a
\* list whether it had one or several entries, and extra claims neither replace
\* registered ones nor get lost.
ClaimsSurvive ==
    \A i \in issued :
        LET c == ClaimsOf(i)
            d == DecodedOf(i)
        IN  /\ d.sub = i.asked.sub /\ d.iss = c.iss /\ d.aud = c.aud /\ d.extra = i.asked.extra
            /\ \A name \in {"iat", "exp", "nbf"} :
                  d[name] = IF Datable(c[name]) THEN c[name] - (c[name] % Second) ELSE Nil

Wire == {i.token : i \in issued} \cup Foreign

\* The token t with the payload part of other, which may not decode.
WithPayloadOf(t, other) ==
    [t EXCEPT !.payload = other.payload,
              !.broken  = (@ \ {"payload"}) \cup (other.broken \cap {"payload"})]

\* What a verifier answers for a token that was not signed with its key does
\* not depend on the payload, nor on whether the payload decodes at all: "the
\* signature is checked before the payload is parsed, so untrusted input never
\* reaches claim handling unauthenticated" (jwt/jwt.go).
UnsignedPayloadIgnored ==
    \A v \in Verifiers, t \in Wire, other \in Wire :
        ~Signed(v, t) \/ "signature" \in t.broken =>
            Verify(v, t, Now(v)) = Verify(v, WithPayloadOf(t, other), Now(v))

\* "Sign refuses claims without exp unless a default TTL is configured"
\* (jwt/jwt.go): every issued token expires.
EveryTokenExpires == \A i \in issued : DecodedOf(i).exp # Nil
=============================================================================
