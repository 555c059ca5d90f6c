------------------------------- MODULE Branca -------------------------------
(***************************************************************************)
(* Package branca: Encode seals a payload with the current second in an    *)
(* authenticated header and writes the bytes as one number in base 62;     *)
(* Decode reads the number back, opens the box and checks the age.         *)
(*                                                                         *)
(* Goroutines decode at the same time, and base62Decode adds each digit    *)
(* through the package-level big integer base62Digit without a lock: it    *)
(* sets the integer and then reads it.  An integer of one word is set with *)
(* two stores, word and length, and read with two loads; that they race    *)
(* as well adds no outcome: what is read is the digit that the reader set  *)
(* or one that another call set since.  (On a text that begins with the    *)
(* digit 0, which no token does, the first calls of a process may also     *)
(* find the integer without its word and crash; there are no such texts    *)
(* here.)                                                                  *)
(*                                                                         *)
(* The cipher is symbolic: the box of the i-th token is one byte, i, and   *)
(* opens under the key and the header it was sealed with, and no other.    *)
(***************************************************************************)
EXTENDS Integers, Sequences

CONSTANTS
    Base,       \* the number of byte values; a timestamp is one byte
    Radix,      \* 62, the size of the alphabet
    Version,    \* the version byte
    Second,     \* the length of a second in units of the clock
    MinClock,   \* the clock runs from MinClock to MaxClock
    MaxClock,
    Keys,       \* the keys with which tokens are issued
    Payloads,   \* what is put into them
    Readable,   \* the payloads that the consumers' UnmarshalBinary accepts
    Garbage,    \* texts that no Encode made
    BadChar,    \* a character outside the alphabet
    MaxTokens,  \* how many tokens are issued
    Threads,    \* the goroutines that decode
    Consumer,   \* Consumer[t] is the set of keys and ttls with which t does
    Nil

ASSUME WidthAssumption ==
    /\ Base \in Nat /\ Radix \in Nat /\ Radix > 1 /\ Version \in 1..(Base - 1)
    /\ MaxTokens \in 0..Base
ASSUME ClockAssumption ==
    Second \in Nat \ {0} /\ MinClock \in Int /\ MaxClock \in Int /\ MinClock <= MaxClock
ASSUME TextAssumption ==
    BadChar \notin Int /\ Garbage \subseteq Seq(0..(Radix - 1) \cup {BadChar})
ASSUME ConsumerAssumption == \A t \in Threads : \A use \in Consumer[t] : use.ttl \in Int

VARIABLES
    clock,
    sealed,     \* sealed[i] is what the i-th Encode sealed
    digit,      \* base62Digit
    decode,     \* decode[t] is the call of Decode that t is in, or Nil
    result      \* what the call that just returned returned, or Nil

bvars == <<clock, sealed, digit, decode, result>>

Unix(t) == t \div Second

MaxTimestamp == Base - 1

-----------------------------------------------------------------------------
(* Numbers: base62.go.                                                     *)

\* The number after each digit of the loop that reads a number.
Accumulated(digits, base) ==
    LET n[i \in 0..Len(digits)] == IF i = 0 THEN 0 ELSE n[i - 1] * base + digits[i]
    IN  n

\* big.Int.SetBytes, and the number that a text stands for.
NumberOf(digits, base) == Accumulated(digits, base)[Len(digits)]

\* big.Int.Bytes.
Bytes[n \in Nat] == IF n = 0 THEN <<>> ELSE Append(Bytes[n \div Base], n % Base)

\* A loop that is left one digit early.
DigitsMutant[n \in Nat] ==
    IF n < Radix THEN <<>> ELSE Append(DigitsMutant[n \div Radix], n % Radix)

\* The loop of base62Encode, digits in their final order.
Digits[n \in Nat] == IF n = 0 THEN <<>> ELSE Append(Digits[n \div Radix], n % Radix)

Base62EncodeMutant(bytes) == DigitsMutant[NumberOf(bytes, Base)]

Base62Encode(bytes) == Digits[NumberOf(bytes, Base)]

-----------------------------------------------------------------------------
(* Encode.                                                                 *)

Header(ts) == <<Version, ts>>

\* The text of the i-th token.
TokenText(i) == Base62Encode(Append(Header(sealed[i].ts), i - 1))

\* An Encode that does not look whether the time fits a timestamp.
EncodeMutant(key, payload) ==
    /\ Len(sealed) < MaxTokens
    /\ sealed' = Append(sealed, [key |-> key, payload |-> payload, ts |-> Unix(clock), at |-> clock])
    /\ result' = Nil
    /\ UNCHANGED <<clock, digit, decode>>

\* encodeBytes; nonces never repeat, so no two boxes are the same.
Encode(key, payload) ==
    /\ Len(sealed) < MaxTokens
    /\ Unix(clock) \in 0..MaxTimestamp
    /\ sealed' = Append(sealed, [key |-> key, payload |-> payload, ts |-> Unix(clock), at |-> clock])
    /\ result' = Nil
    /\ UNCHANGED <<clock, digit, decode>>

-----------------------------------------------------------------------------
(* Decode.                                                                 *)

At(t, step) == decode[t] # Nil /\ decode[t].step = step

\* Decode returns; now is when.
Return(t, status, payload) ==
    /\ decode' = [decode EXCEPT ![t] = Nil]
    /\ result' = [call |-> decode[t].call, alone |-> decode[t].alone, old |-> decode[t].old,
                  status |-> status, payload |-> payload, now |-> clock]

\* The age of the i-th token has passed ttl.
TooOld(i, ttl) == ttl > 0 /\ clock > sealed[i].at + ttl

\* Decode is called.  The history variables alone and old say that no other
\* call overlaps, and which tokens are too old already.
Start(t, call) ==
    /\ decode[t] = Nil
    /\ decode' = [u \in Threads |->
          IF u = t
          THEN [call |-> call, step |-> "digit", next |-> 1, n |-> 0, box |-> Nil,
                old |-> {i \in DOMAIN sealed : TooOld(i, call.ttl)},
                alone |-> \A v \in Threads : decode[v] = Nil]
          ELSE IF decode[u] = Nil THEN Nil ELSE [decode[u] EXCEPT !.alone = FALSE]]
    /\ result' = Nil
    /\ UNCHANGED <<clock, sealed, digit>>

\* The head of the loop of base62Decode: the index of the character, n.Mul and
\* base62Digit.SetInt64.
SetDigit(t) ==
    /\ At(t, "digit")
    /\ decode[t].next <= Len(decode[t].call.text)
    /\ LET d == decode[t].call.text[decode[t].next]
       IN  IF d = BadChar
           THEN Return(t, "malformed", Nil) /\ UNCHANGED digit
           ELSE /\ digit' = d
                /\ decode' = [decode EXCEPT ![t].n = @ * Radix, ![t].step = "add"]
                /\ result' = Nil
    /\ UNCHANGED <<clock, sealed>>

\* n.Add, and on to the next character.
Add(t) ==
    /\ At(t, "add")
    /\ decode' = [decode EXCEPT ![t].n = @ + digit, ![t].step = "digit", ![t].next = @ + 1]
    /\ result' = Nil
    /\ UNCHANGED <<clock, sealed, digit>>

\* aead.Open: the token whose box this is, sealed with this key and header.
Opens(i, bytes, key) ==
    bytes = Append(Header(sealed[i].ts), i - 1) /\ sealed[i].key = key

\* An age that is never checked.
ExpiredMutant(i, ttl) == FALSE

\* The age check, on the timestamp and with the clock of the moment.
Expired(i, ttl) == ttl > 0 /\ clock > sealed[i].ts * Second + ttl

\* Neither the empty text, nor too short, nor another version.
Framed(text, bytes) == text # <<>> /\ Len(bytes) >= 3 /\ bytes[1] = Version

\* The end of base62Decode, and of open up to aead.Open: a box has been opened.
Open(t) ==
    /\ At(t, "digit")
    /\ decode[t].next > Len(decode[t].call.text)
    /\ LET call  == decode[t].call
           bytes == Bytes[decode[t].n]
           boxes == {i \in DOMAIN sealed : Opens(i, bytes, call.key)}
       IN  IF ~Framed(call.text, bytes) THEN Return(t, "malformed", Nil)
           ELSE IF boxes = {} THEN Return(t, "invalid", Nil)
           ELSE /\ \E i \in boxes : decode' = [decode EXCEPT ![t].box = i, ![t].step = "age"]
                /\ result' = Nil
    /\ UNCHANGED <<clock, sealed, digit>>

\* The rest of open, which reads the clock.
CheckAge(t) ==
    /\ At(t, "age")
    /\ IF Expired(decode[t].box, decode[t].call.ttl)
       THEN Return(t, "expired", Nil)
       ELSE /\ decode' = [decode EXCEPT ![t].step = "unmarshal"]
            /\ result' = Nil
    /\ UNCHANGED <<clock, sealed, digit>>

\* The consumer's UnmarshalBinary, which takes its time, and the end of Decode.
Unmarshal(t) ==
    /\ At(t, "unmarshal")
    /\ LET payload == sealed[decode[t].box].payload
       IN  IF payload \in Readable THEN Return(t, "ok", payload) ELSE Return(t, "malformed", Nil)
    /\ UNCHANGED <<clock, sealed, digit>>

-----------------------------------------------------------------------------
BInit ==
    /\ clock = MinClock
    /\ sealed = <<>>
    /\ digit = 0
    /\ decode = [t \in Threads |-> Nil]
    /\ result = Nil

\* Time passes, up to the bound.
Tick ==
    /\ clock' = IF clock < MaxClock THEN clock + 1 ELSE clock
    /\ result' = Nil
    /\ UNCHANGED <<sealed, digit, decode>>

Texts == {TokenText(i) : i \in DOMAIN sealed} \cup Garbage

Step(t) == SetDigit(t) \/ Add(t) \/ Open(t) \/ CheckAge(t) \/ Unmarshal(t)

BNext ==
    \/ Tick
    \/ \E key \in Keys, payload \in Payloads : Encode(key, payload)
    \/ \E t \in Threads, text \in Texts : \E use \in Consumer[t] :
          Start(t, [text |-> text, key |-> use.key, ttl |-> use.ttl])
    \/ \E t \in Threads : Step(t)

BSpec == BInit /\ [][BNext]_bvars

-----------------------------------------------------------------------------
\* Every timestamp fits its field, so that the header of a token never says
\* another time than the one it was sealed at.
BTypeOK ==
    /\ clock \in MinClock..MaxClock
    /\ \A i \in DOMAIN sealed :
          /\ sealed[i].key \in Keys /\ sealed[i].payload \in Payloads
          /\ sealed[i].ts \in 0..MaxTimestamp
          /\ sealed[i].at - sealed[i].ts * Second \in 0..(Second - 1)
    /\ digit \in 0..(Radix - 1)
    /\ \A t \in Threads : decode[t] # Nil =>
          decode[t].n \in Nat /\ decode[t].next \in 1..(Len(decode[t].call.text) + 1)

\* What Decode hands out was sealed by Encode under the consumer's key and was
\* not older than the consumer's ttl when Decode was called, whatever text was
\* passed and whatever other goroutines did to base62Digit meanwhile: a number
\* that was assembled wrongly opens no box it should not, nor one that is too
\* old.  (The age is checked before UnmarshalBinary, so that the ttl may run
\* out before Decode returns.)
AcceptedWasSealed ==
    result # Nil /\ result.status = "ok" =>
        \E i \in DOMAIN sealed :
            /\ sealed[i].key = result.call.key
            /\ sealed[i].payload = result.payload
            /\ i \notin result.old

\* The call was given the i-th token and the key of its issuer, and returned at
\* least a second before the token's age reached the ttl.
Genuine(call, now, i) ==
    /\ call.text = TokenText(i)
    /\ call.key = sealed[i].key
    /\ call.ttl > 0 => now <= sealed[i].at + call.ttl - Second
    /\ sealed[i].payload \in Readable

\* A call that was given the i-th token handed out its payload.
DeliversGenuine ==
    \A i \in DOMAIN sealed : Genuine(result.call, result.now, i) =>
        result.status = "ok" /\ result.payload = sealed[i].payload

\* A call of Decode that no other call overlaps hands out the payload of the
\* token it was given: base 62 loses nothing, neither leading digits nor zero
\* digits nor what an earlier call left in base62Digit matters, and the
\* cutting of the timestamp costs less than a second.
DecodeAloneExact == result # Nil /\ result.alone => DeliversGenuine

\* "Branca encodes and decodes branca tokens with one 32-byte key. Safe for
\* concurrent use." (branca/branca.go): overlapping calls are exact too.
DecodeExact == result # Nil => DeliversGenuine
=============================================================================
