------------------------------ MODULE JwtProofs ------------------------------
(***************************************************************************)
(* Proofs about Jwt for every clock, key, option, claim and token: what    *)
(* the JSON form keeps of the claims, and what follows for the tokens that *)
(* verifiers accept.                                                       *)
(***************************************************************************)
EXTENDS Jwt, SequenceTheorems, TLAPS

-----------------------------------------------------------------------------
(* Dates: whole seconds lose less than one.                                *)

\* A date as it comes back from its JSON form.
Cut(t) == IF Datable(t) THEN FromUnix(Unix(t)) ELSE Nil

LEMMA UnixBounds ==
    ASSUME NEW t \in Int
    PROVE  /\ Unix(t) \in Int
           /\ FromUnix(Unix(t)) \in Int
           /\ FromUnix(Unix(t)) <= t
           /\ t < FromUnix(Unix(t)) + Second
           /\ FromUnix(Unix(t)) = t - (t % Second)
  BY TimeAssumption DEF Unix, FromUnix

LEMMA DateRoundTrip ==
    ASSUME NEW t \in Int \cup {Nil}
    PROVE  DateOf(DateJSON(t)) = Cut(t) /\ DateJSON(t) # Malformed /\ Cut(t) \in Int \cup {Nil}
<1>1. Nil \notin Int /\ Malformed \notin Int /\ Nil # Malformed
  BY NilAssumption
<1>2. CASE t = Nil
  BY <1>1, <1>2 DEF DateJSON, DateOf, Cut, Datable
<1>3. CASE t \in Int
  <2>1. Unix(t) \in Int /\ FromUnix(Unix(t)) \in Int
    BY <1>3, UnixBounds
  <2> QED
    BY <1>1, <1>3, <2>1 DEF DateJSON, DateOf, Cut, Datable
<1> QED
  BY <1>2, <1>3

-----------------------------------------------------------------------------
(* Texts and audiences come back as they were.                             *)

LEMMA TextRoundTrip ==
    ASSUME NEW s \in STRING
    PROVE  TextOf(OmitEmpty(s)) = s /\ OmitEmpty(s) # Malformed
<1>1. Nil \notin STRING /\ Malformed \notin STRING /\ Nil # Malformed
  BY NilAssumption
<1> QED
  BY <1>1 DEF TextOf, OmitEmpty

LEMMA AudienceRoundTrip ==
    ASSUME NEW aud \in Seq(STRING)
    PROVE  AudienceOf(AudienceJSON(aud)) = aud /\ AudienceJSON(aud) # Malformed
<1>1. Nil \notin AudienceValue /\ Malformed \notin AudienceValue /\ Nil # Malformed
  BY NilAssumption
<1>2. CASE Len(aud) = 0
  <2>1. AudienceJSON(aud) = Nil
    BY <1>2 DEF AudienceJSON
  <2> QED
    BY <1>1, <1>2, <2>1 DEF AudienceOf
<1>3. CASE Len(aud) = 1
  <2> DEFINE j == [form |-> "string", value |-> aud[1]]
  <2>1. AudienceJSON(aud) = j
    BY <1>3 DEF AudienceJSON
  <2>2. j \in AudienceValue
    BY <1>3 DEF AudienceValue
  <2>3. <<aud[1]>> = aud
    BY <1>3
  <2> QED
    BY <1>1, <2>1, <2>2, <2>3 DEF AudienceOf
<1>4. CASE Len(aud) > 1
  <2> DEFINE j == [form |-> "array", value |-> aud]
  <2>1. AudienceJSON(aud) = j
    BY <1>4 DEF AudienceJSON
  <2>2. j \in AudienceValue
    BY DEF AudienceValue
  <2> QED
    BY <1>1, <2>1, <2>2 DEF AudienceOf
<1>5. Len(aud) = 0 \/ Len(aud) = 1 \/ Len(aud) > 1
  <2> DEFINE n == Len(aud)
  <2>1. n \in Nat
    BY LenProperties
  <2> HIDE DEF n
  <2>2. n = 0 \/ n = 1 \/ n > 1
    BY <2>1
  <2> QED
    BY <2>2 DEF n
<1> QED
  BY <1>2, <1>3, <1>4, <1>5, Zenon

-----------------------------------------------------------------------------
(* The claims come back, extra ones included.                              *)

RegisteredNames == {"sub", "iss", "aud", "iat", "exp", "nbf"}

\* Claims that Sign may write: extra claims are none of the registered ones.
Claims(c) ==
    /\ c.sub \in STRING /\ c.iss \in STRING /\ c.aud \in Seq(STRING)
    /\ c.iat \in Int \cup {Nil} /\ c.exp \in Int \cup {Nil} /\ c.nbf \in Int \cup {Nil}
    /\ DOMAIN c.extra \cap ReservedClaims = {}
    /\ c.extra = [n \in DOMAIN c.extra |-> c.extra[n]]

LEMMA MarshalMembers ==
    ASSUME NEW c, Claims(c)
    PROVE  /\ \A n \in RegisteredNames : Member(MarshalJSON(c), n) = Registered(c)[n]
           /\ Member(MarshalJSON(c), "jti") = Nil
           /\ DOMAIN MarshalJSON(c) \ ReservedClaims = DOMAIN c.extra
           /\ \A n \in DOMAIN c.extra : MarshalJSON(c)[n] = c.extra[n]
<1> DEFINE reg   == Registered(c)
           names == {n \in DOMAIN reg : reg[n] # Nil} \cup DOMAIN c.extra
           p     == [n \in names |-> IF n \in DOMAIN c.extra THEN c.extra[n] ELSE reg[n]]
<1>1. MarshalJSON(c) = p
  BY DEF MarshalJSON
<1>2. DOMAIN reg = RegisteredNames
  BY DEF Registered, RegisteredNames
<1> HIDE DEF reg
<1>3. RegisteredNames \subseteq ReservedClaims /\ "jti" \in ReservedClaims \ RegisteredNames
  BY DEF RegisteredNames, ReservedClaims
<1>4. DOMAIN c.extra \cap ReservedClaims = {}
  BY DEF Claims
<1>5. \A n \in RegisteredNames : Member(p, n) = reg[n]
  BY <1>2, <1>3, <1>4 DEF Member
<1>6. Member(p, "jti") = Nil
  BY <1>2, <1>3, <1>4 DEF Member
<1>7. DOMAIN p \ ReservedClaims = DOMAIN c.extra
  BY <1>2, <1>3, <1>4
<1>8. \A n \in DOMAIN c.extra : p[n] = c.extra[n]
  OBVIOUS
<1> HIDE DEF p
<1> QED
  BY <1>1, <1>5, <1>6, <1>7, <1>8 DEF reg

\* MarshalJSON followed by UnmarshalJSON keeps the claims but for the fractions
\* of a second, and the first second of 1970.
LEMMA ClaimsRoundTrip ==
    ASSUME NEW c, Claims(c)
    PROVE  LET d == UnmarshalJSON(MarshalJSON(c))
           IN  /\ Parses(MarshalJSON(c))
               /\ d.sub = c.sub /\ d.iss = c.iss /\ d.aud = c.aud /\ d.extra = c.extra
               /\ d.iat = Cut(c.iat) /\ d.exp = Cut(c.exp) /\ d.nbf = Cut(c.nbf)
<1> DEFINE p == MarshalJSON(c)
           d == UnmarshalJSON(p)
<1>1. /\ Member(p, "sub") = OmitEmpty(c.sub) /\ Member(p, "iss") = OmitEmpty(c.iss)
      /\ Member(p, "aud") = AudienceJSON(c.aud) /\ Member(p, "iat") = DateJSON(c.iat)
      /\ Member(p, "exp") = DateJSON(c.exp) /\ Member(p, "nbf") = DateJSON(c.nbf)
      /\ Member(p, "jti") = Nil
  BY MarshalMembers DEF RegisteredNames, Registered
<1>2. DOMAIN p \ ReservedClaims = DOMAIN c.extra /\ \A n \in DOMAIN c.extra : p[n] = c.extra[n]
  BY MarshalMembers
<1>3. Nil # Malformed
  BY NilAssumption
<1> HIDE DEF p
<1>4. Parses(p)
  BY <1>1, <1>3, TextRoundTrip, AudienceRoundTrip, DateRoundTrip DEF Parses, ReservedClaims, Claims
<1>5. d.sub = c.sub /\ d.iss = c.iss
  BY <1>1, TextRoundTrip DEF UnmarshalJSON, Claims
<1>6. d.aud = c.aud
  BY <1>1, AudienceRoundTrip DEF UnmarshalJSON, Claims
<1>7. d.iat = Cut(c.iat) /\ d.exp = Cut(c.exp) /\ d.nbf = Cut(c.nbf)
  BY <1>1, DateRoundTrip DEF UnmarshalJSON, Claims
<1>8. d.extra = [n \in DOMAIN c.extra |-> c.extra[n]]
  BY <1>2 DEF UnmarshalJSON
<1>9. d.extra = c.extra
  BY <1>8 DEF Claims
<1> QED
  BY <1>4, <1>5, <1>6, <1>7, <1>9 DEF p

-----------------------------------------------------------------------------
(* What was issued.                                                        *)

\* Every issued token is the compact form of what a signer with a valid key
\* made of a request it may sign.
IssuedInv ==
    /\ clock \in MinClock..MaxClock
    /\ \A i \in issued : \E s \in Signers, c \in Requests, at \in Int :
          /\ Signable(s, c)
          /\ i = [by |-> s, asked |-> c, at |-> at, token |-> Compact(s, Defaults(s, c, at))]

LEMMA IssuedInvariant == JSpec => []IssuedInv
<1>1. JInit => IssuedInv
  BY TimeAssumption DEF JInit, IssuedInv
<1>2. IssuedInv /\ [JNext]_jvars => IssuedInv'
  <2> SUFFICES ASSUME IssuedInv, [JNext]_jvars PROVE IssuedInv'
    OBVIOUS
  <2>1. CASE Tick
    BY <2>1, TimeAssumption DEF Tick, IssuedInv
  <2>2. ASSUME NEW s \in Signers, NEW c \in Requests, Sign(s, c) PROVE IssuedInv'
    <3>1. clock' = clock /\ clock \in Int
      BY <2>2, TimeAssumption DEF Sign, IssuedInv
    <3> QED
      BY <2>2, <3>1 DEF Sign, IssuedInv
  <2>3. CASE UNCHANGED jvars
    BY <2>3 DEF jvars, IssuedInv
  <2> QED
    BY <2>1, <2>2, <2>3 DEF JNext
<1> QED
  BY <1>1, <1>2, PTL DEF JSpec

\* What Sign fills in is what it promises, in claims that it may write.
LEMMA DefaultsKept ==
    ASSUME NEW s \in Signers, NEW c \in Requests, NEW at \in Int, Signable(s, c)
    PROVE  LET f == Defaults(s, c, at)
               i == [by |-> s, asked |-> c, at |-> at, token |-> Compact(s, f)]
           IN  /\ Claims(f)
               /\ f.sub = c.sub /\ f.extra = c.extra /\ f.nbf = c.nbf
               /\ f.iat = ClaimsOf(i).iat /\ f.exp = ClaimsOf(i).exp
               /\ f.iss = ClaimsOf(i).iss /\ f.aud = ClaimsOf(i).aud /\ f.nbf = ClaimsOf(i).nbf
               /\ f.iat \in Int /\ f.exp \in Int
<1> DEFINE iat == IF c.iat = Nil THEN at ELSE c.iat
           f == Defaults(s, c, at)
           i == [by |-> s, asked |-> c, at |-> at, token |-> Compact(s, f)]
<1>1. /\ c.sub \in STRING /\ c.iss \in STRING /\ c.aud \in Seq(STRING)
      /\ c.iat \in Int \cup {Nil} /\ c.exp \in Int \cup {Nil} /\ c.nbf \in Int \cup {Nil}
      /\ c.extra = [n \in DOMAIN c.extra |-> c.extra[n]]
      /\ DOMAIN c = {"sub", "iss", "aud", "iat", "exp", "nbf", "extra"}
  BY RequestsAssumption
<1>2. s.ttl \in Int /\ s.issuer \in STRING /\ s.audience \in Seq(STRING)
  BY SignerAssumption DEF Signers
<1>3. /\ f.sub = c.sub /\ f.extra = c.extra /\ f.nbf = c.nbf /\ f.iat = iat
      /\ f.exp = IF c.exp = Nil THEN iat + s.ttl ELSE c.exp
      /\ f.iss = IF c.iss = "" THEN s.issuer ELSE c.iss
      /\ f.aud = IF c.aud = <<>> THEN s.audience ELSE c.aud
  BY <1>1 DEF Defaults
<1>4. DOMAIN c.extra \cap ReservedClaims = {}
  BY DEF Signable
<1> HIDE DEF f
<1>5. iat \in Int /\ f.iat \in Int /\ f.exp \in Int
  <2>1. iat \in Int
    BY <1>1
  <2>2. iat + s.ttl \in Int
    BY <1>2, <2>1
  <2> QED
    BY <1>1, <1>3, <2>1, <2>2
<1>6. f.iss \in STRING /\ f.aud \in Seq(STRING)
  BY <1>1, <1>2, <1>3
<1>7. Claims(f)
  BY <1>1, <1>3, <1>4, <1>5, <1>6 DEF Claims
<1>8. /\ ClaimsOf(i).iat = iat /\ ClaimsOf(i).nbf = c.nbf
      /\ ClaimsOf(i).exp = IF c.exp = Nil THEN iat + s.ttl ELSE c.exp
      /\ ClaimsOf(i).iss = IF c.iss = "" THEN s.issuer ELSE c.iss
      /\ ClaimsOf(i).aud = IF c.aud = <<>> THEN s.audience ELSE c.aud
  BY DEF ClaimsOf
<1> QED
  BY <1>3, <1>5, <1>7, <1>8 DEF f

\* All that the theorems need to know of an issued token.
LEMMA IssuedToken ==
    ASSUME IssuedInv, NEW i \in issued
    PROVE  LET c == ClaimsOf(i)
               d == DecodedOf(i)
           IN  /\ i.by \in Signers /\ i.asked \in Requests /\ Signable(i.by, i.asked)
               /\ i.token.broken = {} /\ i.token.typ = "JWT" /\ i.token.crit = FALSE
               /\ i.token.alg = i.by.alg /\ i.token.key = i.by.key
               /\ DOMAIN i.token = {"broken", "alg", "typ", "crit", "key", "payload"}
               /\ Parses(i.token.payload)
               /\ c.iat \in Int /\ c.exp \in Int /\ c.nbf \in Int \cup {Nil}
               /\ d.sub = i.asked.sub /\ d.iss = c.iss /\ d.aud = c.aud
               /\ d.extra = i.asked.extra
               /\ d.iat = Cut(c.iat) /\ d.exp = Cut(c.exp) /\ d.nbf = Cut(c.nbf)
<1>1. PICK s \in Signers, c \in Requests, at \in Int :
          /\ Signable(s, c)
          /\ i = [by |-> s, asked |-> c, at |-> at, token |-> Compact(s, Defaults(s, c, at))]
  BY DEF IssuedInv
<1> DEFINE f == Defaults(s, c, at)
           d == UnmarshalJSON(MarshalJSON(f))
<1>2. /\ Claims(f) /\ f.sub = c.sub /\ f.extra = c.extra
      /\ f.iat = ClaimsOf(i).iat /\ f.exp = ClaimsOf(i).exp /\ f.nbf = ClaimsOf(i).nbf
      /\ f.iss = ClaimsOf(i).iss /\ f.aud = ClaimsOf(i).aud
      /\ f.iat \in Int /\ f.exp \in Int
  BY <1>1, DefaultsKept
<1>3. i.by = s /\ i.asked = c /\ i.token = Compact(s, f)
  BY <1>1
<1> HIDE DEF f
<1>4. /\ Parses(MarshalJSON(f))
      /\ d.sub = f.sub /\ d.iss = f.iss /\ d.aud = f.aud /\ d.extra = f.extra
      /\ d.iat = Cut(f.iat) /\ d.exp = Cut(f.exp) /\ d.nbf = Cut(f.nbf)
  BY <1>2, ClaimsRoundTrip
<1>5. /\ i.token.broken = {} /\ i.token.typ = "JWT" /\ i.token.crit = FALSE
      /\ i.token.alg = s.alg /\ i.token.key = s.key /\ i.token.payload = MarshalJSON(f)
      /\ DOMAIN i.token = {"broken", "alg", "typ", "crit", "key", "payload"}
  BY <1>3 DEF Compact
<1>6. DecodedOf(i) = d
  BY <1>5 DEF DecodedOf
<1>7. f.nbf \in Int \cup {Nil}
  BY <1>2 DEF Claims
<1> HIDE DEF d
<1> QED
  BY <1>1, <1>2, <1>3, <1>4, <1>5, <1>6, <1>7

-----------------------------------------------------------------------------
(* The theorems.                                                           *)

\* For every request and signer: an issued token is signed with a key of
\* sufficient size, parses, and names a subject.
THEOREM JTypeCorrect == JSpec => []JTypeOK
<1>1. IssuedInv => JTypeOK
  <2> SUFFICES ASSUME IssuedInv, NEW i \in issued
               PROVE  /\ ValidKey(i.token.alg, i.token.key)
                      /\ Parses(i.token.payload)
                      /\ DecodedOf(i).sub # ""
    BY DEF IssuedInv, JTypeOK
  <2>1. ValidKey(i.token.alg, i.token.key)
    <3>1. ValidKey(i.by.alg, i.by.key)
      BY IssuedToken DEF Signers
    <3> QED
      BY <3>1, IssuedToken
  <2>2. DecodedOf(i).sub # ""
    BY IssuedToken DEF Signable
  <2> QED
    BY <2>1, <2>2, IssuedToken
<1> QED
  BY <1>1, IssuedInvariant, PTL

\* For every clock, leeway and date: whoever accepts a token reads the claims
\* that were signed, the dates cut to seconds.
THEOREM ClaimsCorrect == JSpec => []ClaimsSurvive
<1>1. IssuedInv => ClaimsSurvive
  <2> SUFFICES ASSUME IssuedInv, NEW i \in issued
               PROVE  LET c == ClaimsOf(i)
                          d == DecodedOf(i)
                      IN  /\ d.sub = i.asked.sub /\ d.iss = c.iss /\ d.aud = c.aud
                          /\ d.extra = i.asked.extra
                          /\ \A name \in {"iat", "exp", "nbf"} :
                                d[name] = IF Datable(c[name])
                                          THEN c[name] - (c[name] % Second) ELSE Nil
    BY DEF ClaimsSurvive
  <2> DEFINE c == ClaimsOf(i)
             d == DecodedOf(i)
  <2>1. \A t \in Int \cup {Nil} :
            Cut(t) = IF Datable(t) THEN t - (t % Second) ELSE Nil
    BY UnixBounds DEF Cut, Datable
  <2>2. /\ d.sub = i.asked.sub /\ d.iss = c.iss /\ d.aud = c.aud /\ d.extra = i.asked.extra
        /\ c.iat \in Int \cup {Nil} /\ c.exp \in Int \cup {Nil} /\ c.nbf \in Int \cup {Nil}
        /\ d.iat = Cut(c.iat) /\ d.exp = Cut(c.exp) /\ d.nbf = Cut(c.nbf)
    BY IssuedToken
  <2> HIDE DEF c, d
  <2>3. ASSUME NEW name \in {"iat", "exp", "nbf"}
        PROVE  d[name] = IF Datable(c[name]) THEN c[name] - (c[name] % Second) ELSE Nil
    BY <2>1, <2>2
  <2> QED
    BY <2>2, <2>3 DEF c, d
<1> QED
  BY <1>1, IssuedInvariant, PTL

\* What validate's answer "ok" says of the dates and names.
LEMMA ValidateOK ==
    ASSUME NEW v, NEW c, NEW now
    PROVE  Validate(v, c, now) = "ok" <=>
              /\ ~After(now, Shift(c.exp, v.leeway))
              /\ ~Before(now, Shift(c.nbf, 0 - v.leeway))
              /\ ~Before(now, Shift(c.iat, 0 - v.leeway))
              /\ v.expectIssuer # "" => c.iss = v.expectIssuer
              /\ v.expectAudience # "" => Contains(c.aud, v.expectAudience)
  BY DEF Validate

\* A date of a token against the clock of a verifier, with a leeway.
LEMMA DateWindow ==
    ASSUME NEW t \in Int \cup {Nil}, NEW now \in Int, NEW leeway \in Nat
    PROVE  /\ ~After(now, Shift(Cut(t), leeway)) /\ Datable(t) => now <= t + leeway
           /\ ~Before(now, Shift(Cut(t), 0 - leeway)) /\ Datable(t) => now > t - leeway - Second
           /\ t \in Int /\ now <= t + leeway - Second => ~After(now, Shift(Cut(t), leeway))
           /\ (t # Nil => now >= t - leeway) => ~Before(now, Shift(Cut(t), 0 - leeway))
<1>1. Nil \notin Int /\ Second \in Nat
  BY NilAssumption, TimeAssumption
<1>2. CASE ~Datable(t)
  <2>1. Cut(t) = Nil
    BY <1>2 DEF Cut
  <2> QED
    BY <1>1, <1>2, <2>1 DEF After, Before, Shift
<1>3. CASE Datable(t)
  <2> DEFINE k == FromUnix(Unix(t))
  <2>1. t \in Int /\ t # Nil
    BY <1>1, <1>3 DEF Datable
  <2>2. k \in Int /\ k <= t /\ t < k + Second
    BY <2>1, UnixBounds
  <2>3. Cut(t) = k
    BY <1>3 DEF Cut
  <2> HIDE DEF k
  <2>4. Shift(k, leeway) = k + leeway /\ Shift(k, 0 - leeway) = k - leeway
        /\ k + leeway \in Int /\ k - leeway \in Int
    BY <1>1, <2>2 DEF Shift
  <2>5. After(now, Shift(k, leeway)) <=> now > k + leeway
    BY <1>1, <2>4 DEF After
  <2>6. Before(now, Shift(k, 0 - leeway)) <=> now < k - leeway
    BY <1>1, <2>4 DEF Before
  <2> QED
    BY <1>1, <2>1, <2>2, <2>3, <2>5, <2>6
<1> QED
  BY <1>2, <1>3

LEMMA NowType == ASSUME IssuedInv, NEW v \in Verifiers PROVE Now(v) \in Int /\ v.leeway \in Nat
  BY TimeAssumption, LeewayAssumption DEF IssuedInv, Verifiers, Now

\* For every second, clock, leeway and skew: no token is accepted after the
\* expiry that was asked for plus the leeway, nor a second or more too early.
THEOREM WindowCorrect == JSpec => []AcceptedInWindow
<1>1. IssuedInv => AcceptedInWindow
  <2> SUFFICES ASSUME IssuedInv, NEW i \in issued, NEW v \in Verifiers, Accepts(v, i.token)
               PROVE  LET c == ClaimsOf(i)
                      IN  /\ Datable(c.exp) => Now(v) <= c.exp + v.leeway
                          /\ Datable(c.nbf) => Now(v) > c.nbf - v.leeway - Second
                          /\ Datable(c.iat) => Now(v) > c.iat - v.leeway - Second
    BY DEF AcceptedInWindow
  <2> DEFINE c == ClaimsOf(i)
             d == DecodedOf(i)
  <2>1. Validate(v, d, Now(v)) = "ok"
    BY DEF Accepts, Verify, DecodedOf
  <2>2. /\ c.iat \in Int \cup {Nil} /\ c.exp \in Int \cup {Nil} /\ c.nbf \in Int \cup {Nil}
        /\ d.iat = Cut(c.iat) /\ d.exp = Cut(c.exp) /\ d.nbf = Cut(c.nbf)
    BY IssuedToken
  <2> HIDE DEF c, d
  <2>3. /\ ~After(Now(v), Shift(d.exp, v.leeway))
        /\ ~Before(Now(v), Shift(d.nbf, 0 - v.leeway))
        /\ ~Before(Now(v), Shift(d.iat, 0 - v.leeway))
    BY <2>1, ValidateOK
  <2>4. Datable(c.exp) => Now(v) <= c.exp + v.leeway
    BY <2>2, <2>3, DateWindow, NowType
  <2>5. Datable(c.nbf) => Now(v) > c.nbf - v.leeway - Second
    BY <2>2, <2>3, DateWindow, NowType
  <2>6. Datable(c.iat) => Now(v) > c.iat - v.leeway - Second
    BY <2>2, <2>3, DateWindow, NowType
  <2> QED
    BY <2>4, <2>5, <2>6 DEF c
<1> QED
  BY <1>1, IssuedInvariant, PTL

\* For every second, clock, leeway and skew: no verifier of the right key and
\* names rejects a token between its first valid moment and a second before
\* its expiry.
THEOREM LiveTokenCorrect == JSpec => []LiveTokenAccepted
<1>1. IssuedInv => LiveTokenAccepted
  <2> SUFFICES ASSUME IssuedInv, NEW i \in issued, NEW v \in Verifiers,
                      Paired(i.by, v),
                      v.expectIssuer \in {"", ClaimsOf(i).iss},
                      v.expectAudience = "" \/ Contains(ClaimsOf(i).aud, v.expectAudience),
                      Now(v) >= ClaimsOf(i).iat - v.leeway,
                      ClaimsOf(i).nbf # Nil => Now(v) >= ClaimsOf(i).nbf - v.leeway,
                      Now(v) <= ClaimsOf(i).exp + v.leeway - Second
               PROVE  Accepts(v, i.token)
    BY DEF LiveTokenAccepted
  <2> DEFINE c == ClaimsOf(i)
             d == DecodedOf(i)
  <2>1. /\ c.iat \in Int /\ c.exp \in Int /\ c.nbf \in Int \cup {Nil}
        /\ d.iat = Cut(c.iat) /\ d.exp = Cut(c.exp) /\ d.nbf = Cut(c.nbf)
        /\ d.iss = c.iss /\ d.aud = c.aud
    BY IssuedToken
  <2>2. ~After(Now(v), Shift(d.exp, v.leeway))
    BY <2>1, DateWindow, NowType
  <2>3. ~Before(Now(v), Shift(d.nbf, 0 - v.leeway))
    BY <2>1, DateWindow, NowType
  <2>4. ~Before(Now(v), Shift(d.iat, 0 - v.leeway))
    BY <2>1, DateWindow, NowType
  <2>5. Validate(v, d, Now(v)) = "ok"
    BY <2>1, <2>2, <2>3, <2>4, ValidateOK
  <2>6. /\ i.token.broken = {} /\ i.token.typ = "JWT" /\ i.token.crit = FALSE
        /\ i.token.alg = v.alg /\ i.token.key = v.key /\ Parses(i.token.payload)
    BY IssuedToken DEF Paired
  <2> QED
    BY <2>5, <2>6 DEF Accepts, Verify, Signed, DecodedOf
<1> QED
  BY <1>1, IssuedInvariant, PTL

\* For every token, of this program or another: what a verifier answers does
\* not depend on a payload that was not signed with its key, nor on whether
\* that payload decodes.
THEOREM UnsignedPayloadCorrect == JSpec => []UnsignedPayloadIgnored
<1>1. IssuedInv => UnsignedPayloadIgnored
  <2> SUFFICES ASSUME IssuedInv, NEW v \in Verifiers, NEW t \in Wire, NEW other \in Wire,
                      ~Signed(v, t) \/ "signature" \in t.broken
               PROVE  Verify(v, t, Now(v)) = Verify(v, WithPayloadOf(t, other), Now(v))
    BY DEF UnsignedPayloadIgnored
  <2> DEFINE u == WithPayloadOf(t, other)
  <2>1. DOMAIN t = {"broken", "alg", "typ", "crit", "key", "payload"}
    BY IssuedToken, ForeignAssumption DEF Wire
  <2>2. /\ u.alg = t.alg /\ u.typ = t.typ /\ u.crit = t.crit /\ u.key = t.key
        /\ u.broken = (t.broken \ {"payload"}) \cup (other.broken \cap {"payload"})
    BY <2>1 DEF WithPayloadOf
  <2> HIDE DEF u
  <2>3. Signed(v, u) <=> Signed(v, t)
    BY <2>2 DEF Signed
  <2>4. \A part \in {"header", "signature"} : part \in u.broken <=> part \in t.broken
    BY <2>2
  <2>5. Verify(v, t, Now(v)) = Verify(v, u, Now(v))
    BY <2>2, <2>3, <2>4 DEF Verify
  <2> QED
    BY <2>5 DEF u
<1> QED
  BY <1>1, IssuedInvariant, PTL
=============================================================================
