---------------------------- MODULE BrancaProofs ----------------------------
(***************************************************************************)
(* Proofs about Branca for every number base, key, clock and number of     *)
(* goroutines.  Reading and writing numbers digit by digit is recursion;   *)
(* what it computes is proved from the least-number principle, with sets   *)
(* in the place of predicates.                                             *)
(***************************************************************************)
EXTENDS Branca, SequenceTheorems, WellFoundedInduction, TLAPS

-----------------------------------------------------------------------------
(* Recursion over the natural numbers.                                     *)

LEMMA LeastNumber ==
    ASSUME NEW T, T \subseteq Nat, T # {}
    PROVE  \E x \in T : \A y \in T : x <= y
<1> DEFINE R == OpToRel(<, Nat)
<1>1. PICK x \in T : \A y \in T : ~(<<y, x>> \in R)
  <2>1. IsWellFoundedOn(R, Nat)
    BY NatLessThanWellFounded
  <2> HIDE DEF R
  <2> QED
    BY <2>1, WFMin
<1>2. \A y \in T : ~(y < x)
  BY <1>1 DEF OpToRel
<1> QED
  BY <1>2

\* A set that holds a number whenever it holds all smaller ones holds all.
LEMMA StrongInduction ==
    ASSUME NEW S, \A n \in Nat : (\A m \in Nat : m < n => m \in S) => n \in S
    PROVE  Nat \subseteq S
<1> DEFINE T == Nat \ S
<1> SUFFICES ASSUME T # {} PROVE FALSE
  OBVIOUS
<1>1. PICK x \in T : \A y \in T : x <= y
  BY LeastNumber
<1>2. \A m \in Nat : m < x => m \in S
  BY <1>1
<1> QED
  BY <1>1, <1>2

\* A recursion with values in S: from x0, and from the value at the smaller
\* argument g[n].
Recursion(S, x0, g, step) ==
    /\ x0 \in S
    /\ g \in [Nat \ {0} -> Nat]
    /\ \A n \in Nat \ {0} : g[n] < n
    /\ step \in [(Nat \ {0}) \X S -> S]

LEMMA RecursionExists ==
    ASSUME NEW S, NEW x0, NEW g, NEW step, Recursion(S, x0, g, step)
    PROVE  \E f \in [Nat -> S] :
              f[0] = x0 /\ \A n \in Nat \ {0} : f[n] = step[<<n, f[g[n]]>>]
<1> USE DEF Recursion
<1> DEFINE Solves(h, n) == h[0] = x0 /\ \A k \in 1..n : h[k] = step[<<k, h[g[k]]>>]
           Agree == {n \in Nat : \A h1, h2 : Solves(h1, n) /\ Solves(h2, n) => h1[n] = h2[n]}
           Have  == {n \in Nat : \E h \in [Nat -> S] : Solves(h, n)}
<1>1. \A h, n, m : n \in Nat /\ m \in 0..n /\ Solves(h, n) => Solves(h, m)
  OBVIOUS
<1>2. Nat \subseteq Agree
  <2> SUFFICES ASSUME NEW n \in Nat, \A m \in Nat : m < n => m \in Agree,
                      NEW h1, NEW h2, Solves(h1, n), Solves(h2, n)
               PROVE  h1[n] = h2[n]
    <3>1. \A n \in Nat : (\A m \in Nat : m < n => m \in Agree) => n \in Agree
      OBVIOUS
    <3> HIDE DEF Agree
    <3> QED
      BY <3>1, StrongInduction
  <2>1. CASE n = 0
    BY <2>1
  <2>2. CASE n > 0
    <3>1. g[n] \in Nat /\ g[n] < n /\ n \in 1..n /\ g[n] \in 0..n
      BY <2>2
    <3>2. Solves(h1, g[n]) /\ Solves(h2, g[n])
      BY <3>1, <1>1
    <3>3. h1[g[n]] = h2[g[n]]
      BY <3>1, <3>2
    <3> QED
      BY <3>1, <3>3
  <2> QED
    BY <2>1, <2>2
<1>3. Nat \subseteq Have
  <2> SUFFICES ASSUME NEW n \in Nat, \A m \in Nat : m < n => m \in Have
               PROVE  \E h \in [Nat -> S] : Solves(h, n)
    <3>1. \A n \in Nat : (\A m \in Nat : m < n => m \in Have) => n \in Have
      OBVIOUS
    <3> HIDE DEF Have
    <3> QED
      BY <3>1, StrongInduction
  <2>1. CASE n = 0
    <3>1. Solves([k \in Nat |-> x0], n)
      BY <2>1
    <3> QED
      BY <3>1
  <2>2. CASE n > 0
    <3>1. n - 1 \in Nat /\ n - 1 < n
      BY <2>2
    <3>2. PICK h \in [Nat -> S] : Solves(h, n - 1)
      BY <3>1
    <3> DEFINE w == [h EXCEPT ![n] = step[<<n, h[g[n]]>>]]
    <3>3. g[n] \in Nat /\ g[n] < n /\ h[g[n]] \in S /\ step[<<n, h[g[n]]>>] \in S
      BY <2>2, <3>2
    <3>4. w \in [Nat -> S]
      BY <3>3
    <3>5. \A k \in 0..(n - 1) : w[k] = h[k]
      BY <3>1
    <3>6. w[n] = step[<<n, w[g[n]]>>]
      BY <3>3, <3>5
    <3>7. \A k \in 1..(n - 1) : w[k] = step[<<k, w[g[k]]>>]
      <4> TAKE k \in 1..(n - 1)
      <4>1. k \in Nat \ {0} /\ g[k] \in 0..(n - 1) /\ k \in 0..(n - 1)
        BY <3>1
      <4> QED
        BY <4>1, <3>2, <3>5
    <3>8. w[0] = x0
      BY <3>1, <3>2, <3>5
    <3> HIDE DEF w
    <3>9. Solves(w, n)
      BY <3>1, <3>6, <3>7, <3>8
    <3> QED
      BY <3>4, <3>9
  <2> QED
    BY <2>1, <2>2
<1> DEFINE H(n) == CHOOSE h \in [Nat -> S] : Solves(h, n)
           f    == [n \in Nat |-> H(n)[n]]
<1>4. \A n \in Nat : H(n) \in [Nat -> S] /\ Solves(H(n), n)
  BY <1>3
<1> HIDE DEF H
<1>5. f \in [Nat -> S] /\ f[0] = x0
  BY <1>4
<1>6. ASSUME NEW n \in Nat \ {0} PROVE f[n] = step[<<n, f[g[n]]>>]
  <2>1. g[n] \in Nat /\ g[n] \in 0..n /\ n \in 1..n
    BY <1>6
  <2>2. f[n] = step[<<n, H(n)[g[n]]>>]
    BY <1>4, <2>1
  <2>3. Solves(H(n), g[n]) /\ Solves(H(g[n]), g[n])
    BY <1>1, <1>4, <2>1
  <2>4. H(n)[g[n]] = H(g[n])[g[n]]
    BY <1>2, <2>1, <2>3
  <2> QED
    BY <2>1, <2>2, <2>4
<1> HIDE DEF f
<1> QED
  BY <1>5, <1>6

-----------------------------------------------------------------------------
(* Writing a number: Digits and Bytes are well defined.                    *)

\* f writes numbers in the base b.
Writes(f, b) == f = [n \in Nat |-> IF n = 0 THEN <<>> ELSE Append(f[n \div b], n % b)]

LEMMA DivMod ==
    ASSUME NEW b \in Nat, b > 1, NEW n \in Nat
    PROVE  /\ n \div b \in Nat /\ n % b \in 0..(b - 1)
           /\ n = (n \div b) * b + (n % b)
           /\ n > 0 => n \div b < n
<1>1. n \div b \in Nat /\ n % b \in 0..(b - 1)
  OBVIOUS
<1>2. (n \div b) * b = n - (n % b)
  OBVIOUS
<1>3. n = (n \div b) * b + (n % b)
  BY <1>1, <1>2
<1>4. n > 0 => n \div b < n
  OBVIOUS
<1> QED
  BY <1>1, <1>3, <1>4

LEMMA MulAdd == ASSUME NEW n \in Nat, NEW b \in Nat, NEW d \in Nat PROVE n * b + d \in Nat
<1>1. n * b \in Nat
  OBVIOUS
<1> QED
  BY <1>1

LEMMA WritesExists ==
    ASSUME NEW b \in Nat, b > 1
    PROVE  \E f : Writes(f, b)
<1> DEFINE S == Seq(Nat)
           g == [n \in Nat \ {0} |-> n \div b]
           step == [p \in (Nat \ {0}) \X S |-> Append(p[2], p[1] % b)]
<1>1. g \in [Nat \ {0} -> Nat] /\ \A n \in Nat \ {0} : g[n] < n
  BY DivMod
<1>2. step \in [(Nat \ {0}) \X S -> S]
  <2>1. \A n \in Nat \ {0}, s \in S : Append(s, n % b) \in S
    BY DivMod, AppendProperties
  <2> QED
    BY <2>1
<1>3. <<>> \in S
  OBVIOUS
<1>4. \A n \in Nat \ {0}, s \in S : step[<<n, s>>] = Append(s, n % b)
  OBVIOUS
<1>5. \A n \in Nat \ {0} : g[n] = n \div b
  OBVIOUS
<1> HIDE DEF step, g, S
<1>6. PICK f \in [Nat -> S] :
          f[0] = <<>> /\ \A n \in Nat \ {0} : f[n] = step[<<n, f[g[n]]>>]
  <2>1. Recursion(S, <<>>, g, step)
    BY <1>1, <1>2, <1>3 DEF Recursion
  <2> QED
    BY <2>1, RecursionExists
<1>7. \A n \in Nat \ {0} : f[n] = Append(f[n \div b], n % b)
  BY <1>1, <1>4, <1>5, <1>6
<1>8. Writes(f, b)
  BY <1>6, <1>7 DEF Writes
<1> QED
  BY <1>8

\* Every numeral is a sequence of digits of its base.
LEMMA WritesType ==
    ASSUME NEW b \in Nat, b > 1, NEW f, Writes(f, b)
    PROVE  /\ f[0] = <<>>
           /\ \A n \in Nat \ {0} : f[n] = Append(f[n \div b], n % b)
           /\ \A n \in Nat : f[n] \in Seq(0..(b - 1))
<1>1. f[0] = <<>> /\ \A n \in Nat \ {0} : f[n] = Append(f[n \div b], n % b)
  BY DEF Writes
<1> DEFINE S == {n \in Nat : f[n] \in Seq(0..(b - 1))}
<1>2. ASSUME NEW n \in Nat, \A m \in Nat : m < n => m \in S PROVE n \in S
  <2>1. CASE n = 0
    <3>1. f[0] \in Seq(0..(b - 1))
      BY <1>1
    <3> QED
      BY <2>1, <3>1
  <2>2. CASE n > 0
    <3>1. n \div b \in S /\ n % b \in 0..(b - 1)
      BY <1>2, <2>2, DivMod
    <3>2. Append(f[n \div b], n % b) \in Seq(0..(b - 1))
      BY <3>1, AppendProperties
    <3>3. n \in Nat \ {0}
      BY <2>2
    <3>4. f[n] = Append(f[n \div b], n % b)
      BY <1>1, <3>3, Zenon
    <3> QED
      BY <3>2, <3>4
  <2> QED
    BY <2>1, <2>2
<1>3. Nat \subseteq S
  <2> HIDE DEF S
  <2> QED
    BY <1>2, StrongInduction
<1> QED
  BY <1>1, <1>3

LEMMA BaseWidths == Base \in Nat /\ Base > 1 /\ Radix \in Nat /\ Radix > 1
  BY WidthAssumption

LEMMA DigitsWrites == Writes(Digits, Radix)
<1>1. \E f : Writes(f, Radix)
  BY WritesExists, BaseWidths
<1>2. Digits = CHOOSE f : Writes(f, Radix)
  BY DEF Digits, Writes
<1> QED
  BY <1>1, <1>2

LEMMA BytesWrites == Writes(Bytes, Base)
<1>1. \E f : Writes(f, Base)
  BY WritesExists, BaseWidths
<1>2. Bytes = CHOOSE f : Writes(f, Base)
  BY DEF Bytes, Writes
<1> QED
  BY <1>1, <1>2

-----------------------------------------------------------------------------
(* Reading a number.                                                       *)

\* n reads the digits in the base b.
Reads(n, digits, b) ==
    n = [i \in 0..Len(digits) |-> IF i = 0 THEN 0 ELSE n[i - 1] * b + digits[i]]

LEMMA ReadsExists ==
    ASSUME NEW digits \in Seq(Nat), NEW b \in Nat
    PROVE  \E n : Reads(n, digits, b)
<1> DEFINE g == [i \in Nat \ {0} |-> i - 1]
           At0(i) == IF i \in 1..Len(digits) THEN digits[i] ELSE 0
           step == [p \in (Nat \ {0}) \X Nat |-> p[2] * b + At0(p[1])]
<1>0. Len(digits) \in Nat /\ \A i \in 1..Len(digits) : digits[i] \in Nat
  BY LenProperties, ElementOfSeq
<1>1. g \in [Nat \ {0} -> Nat] /\ \A i \in Nat \ {0} : g[i] < i
  OBVIOUS
<1>2. \A i \in Nat \ {0} : At0(i) \in Nat
  BY <1>0
<1> HIDE DEF At0
<1>3. step \in [(Nat \ {0}) \X Nat -> Nat]
  <2>1. \A i \in Nat \ {0}, v \in Nat : v * b + At0(i) \in Nat
    BY <1>2, MulAdd
  <2> QED
    BY <2>1
<1>4. \A i \in Nat \ {0}, v \in Nat : step[<<i, v>>] = v * b + At0(i)
  OBVIOUS
<1>5. \A i \in Nat \ {0} : g[i] = i - 1
  OBVIOUS
<1> HIDE DEF step, g
<1>6. PICK f \in [Nat -> Nat] : f[0] = 0 /\ \A i \in Nat \ {0} : f[i] = step[<<i, f[g[i]]>>]
  <2>1. Recursion(Nat, 0, g, step)
    BY <1>1, <1>3 DEF Recursion
  <2> QED
    BY <2>1, RecursionExists
<1>7. \A i \in 1..Len(digits) : f[i] = f[i - 1] * b + digits[i]
  <2> TAKE i \in 1..Len(digits)
  <2>0. i \in Nat \ {0} /\ i - 1 \in Nat
    BY <1>0
  <2>1. i \in Nat \ {0} /\ i - 1 \in Nat /\ f[i - 1] \in Nat
    BY <2>0, <1>6
  <2>2. f[i] = f[i - 1] * b + At0(i)
    BY <2>1, <1>4, <1>5, <1>6
  <2> QED
    BY <2>2 DEF At0
<1> DEFINE n == [i \in 0..Len(digits) |-> f[i]]
<1>8. \A i \in 0..Len(digits) : n[i] = IF i = 0 THEN 0 ELSE n[i - 1] * b + digits[i]
  <2> TAKE i \in 0..Len(digits)
  <2>1. CASE i = 0
    BY <1>0, <1>6, <2>1
  <2>2. CASE i # 0
    <3>1. i \in 1..Len(digits) /\ i - 1 \in 0..Len(digits)
      BY <1>0, <2>2
    <3>2. n[i] = f[i] /\ n[i - 1] = f[i - 1]
      BY <3>1
    <3>3. f[i] = f[i - 1] * b + digits[i]
      BY <1>7, <3>1
    <3> QED
      BY <2>2, <3>2, <3>3
  <2> QED
    BY <2>1, <2>2
<1>9. n = [i \in 0..Len(digits) |-> n[i]]
  OBVIOUS
<1> HIDE DEF n
<1>10. Reads(n, digits, b)
  BY <1>8, <1>9 DEF Reads
<1> QED
  BY <1>10

LEMMA ReadsValues ==
    ASSUME NEW digits \in Seq(Nat), NEW b \in Nat, NEW n, Reads(n, digits, b)
    PROVE  /\ n[0] = 0
           /\ \A i \in 1..Len(digits) : n[i] = n[i - 1] * b + digits[i]
           /\ \A i \in 0..Len(digits) : n[i] \in Nat
<1>0. Len(digits) \in Nat /\ \A i \in 1..Len(digits) : digits[i] \in Nat
  BY LenProperties, ElementOfSeq
<1>1. n[0] = 0
  BY <1>0 DEF Reads
<1>2. \A i \in 1..Len(digits) : n[i] = n[i - 1] * b + digits[i]
  <2> TAKE i \in 1..Len(digits)
  <2>1. i \in 0..Len(digits) /\ i # 0
    BY <1>0
  <2> QED
    BY <2>1 DEF Reads
<1> DEFINE S == {i \in Nat : i <= Len(digits) => n[i] \in Nat}
<1>3. ASSUME NEW i \in Nat, \A m \in Nat : m < i => m \in S PROVE i \in S
  <2>1. CASE i = 0
    BY <1>1, <2>1
  <2>2. CASE i > 0 /\ i <= Len(digits)
    <3>1. i - 1 \in Nat /\ i - 1 < i /\ i - 1 <= Len(digits) /\ i \in 1..Len(digits)
      BY <1>0, <2>2
    <3>2. n[i - 1] \in Nat
      BY <1>3, <3>1
    <3>3. n[i] = n[i - 1] * b + digits[i] /\ digits[i] \in Nat
      BY <1>0, <1>2, <3>1
    <3>4. n[i] \in Nat
      BY <3>2, <3>3, MulAdd
    <3> QED
      BY <3>4
  <2> QED
    BY <1>0, <2>1, <2>2
<1>4. Nat \subseteq S
  <2> HIDE DEF S
  <2> QED
    BY <1>3, StrongInduction
<1>5. \A i \in 0..Len(digits) : n[i] \in Nat
  BY <1>0, <1>4
<1> QED
  BY <1>1, <1>2, <1>5

LEMMA AccumulatedReads ==
    ASSUME NEW digits \in Seq(Nat), NEW b \in Nat
    PROVE  Reads(Accumulated(digits, b), digits, b)
<1>1. \E n : Reads(n, digits, b)
  BY ReadsExists
<1>2. Accumulated(digits, b) = CHOOSE n : Reads(n, digits, b)
  BY DEF Accumulated, Reads
<1> QED
  BY <1>1, <1>2

\* The number read so far depends on the digits read so far.
LEMMA AccumulatedPrefix ==
    ASSUME NEW s \in Seq(Nat), NEW d \in Nat, NEW b \in Nat
    PROVE  \A i \in 0..Len(s) : Accumulated(Append(s, d), b)[i] = Accumulated(s, b)[i]
<1> DEFINE t == Append(s, d)
           m == Accumulated(s, b)
           n == Accumulated(t, b)
           S == {i \in Nat : i <= Len(s) => n[i] = m[i]}
<1>1. /\ t \in Seq(Nat) /\ Len(s) \in Nat /\ Len(t) = Len(s) + 1
      /\ \A i \in 1..Len(s) : t[i] = s[i]
  BY AppendProperties, LenProperties
<1>2. m[0] = 0 /\ \A i \in 1..Len(s) : m[i] = m[i - 1] * b + s[i]
  BY AccumulatedReads, ReadsValues
<1>3. n[0] = 0 /\ \A i \in 1..Len(t) : n[i] = n[i - 1] * b + t[i]
  <2> HIDE DEF t
  <2> QED
    BY <1>1, AccumulatedReads, ReadsValues
<1> HIDE DEF t, m, n
<1>4. ASSUME NEW i \in Nat, \A k \in Nat : k < i => k \in S PROVE i \in S
  <2>1. CASE i = 0
    BY <1>2, <1>3, <2>1
  <2>2. CASE i > 0 /\ i <= Len(s)
    <3>1. i - 1 \in Nat /\ i - 1 < i /\ i - 1 <= Len(s) /\ i \in 1..Len(s) /\ i \in 1..Len(t)
      BY <1>1, <2>2
    <3>2. n[i - 1] = m[i - 1]
      BY <1>4, <3>1
    <3>3. m[i] = m[i - 1] * b + s[i] /\ n[i] = n[i - 1] * b + t[i] /\ t[i] = s[i]
      BY <1>1, <1>2, <1>3, <3>1
    <3>4. n[i] = m[i]
      BY <3>2, <3>3
    <3> QED
      BY <3>4
  <2> QED
    BY <1>1, <2>1, <2>2
<1>5. Nat \subseteq S
  <2> HIDE DEF S
  <2> QED
    BY <1>4, StrongInduction
<1> QED
  BY <1>1, <1>5 DEF m, n, t

LEMMA NumberOfEmpty == ASSUME NEW b \in Nat PROVE NumberOf(<<>>, b) = 0
<1>1. <<>> \in Seq(Nat) /\ Len(<<>>) = 0
  OBVIOUS
<1>2. Accumulated(<<>>, b)[0] = 0
  BY <1>1, AccumulatedReads, ReadsValues
<1> QED
  BY <1>1, <1>2 DEF NumberOf

LEMMA NumberOfAppend ==
    ASSUME NEW s \in Seq(Nat), NEW d \in Nat, NEW b \in Nat
    PROVE  NumberOf(Append(s, d), b) = NumberOf(s, b) * b + d
<1> DEFINE t == Append(s, d)
           n == Accumulated(t, b)
           l == Len(s)
<1>1. t \in Seq(Nat) /\ l \in Nat /\ Len(t) = l + 1 /\ t[l + 1] = d
  BY AppendProperties, LenProperties
<1>2. \A i \in 1..Len(t) : n[i] = n[i - 1] * b + t[i]
  <2> HIDE DEF t
  <2>1. t \in Seq(Nat)
    BY <1>1
  <2>2. Reads(n, t, b)
    BY <2>1, AccumulatedReads
  <2> HIDE DEF n
  <2> QED
    BY <2>1, <2>2, ReadsValues
<1>3. n[l] = Accumulated(s, b)[l]
  BY <1>1, AccumulatedPrefix
<1> HIDE DEF n, t, l
<1>4. l + 1 \in 1..Len(t) /\ (l + 1) - 1 = l
  BY <1>1
<1>5. n[l + 1] = n[(l + 1) - 1] * b + t[l + 1]
  BY <1>2, <1>4
<1>6. n[l + 1] = n[l] * b + d
  BY <1>1, <1>4, <1>5
<1> QED
  BY <1>1, <1>3, <1>6 DEF NumberOf, n, t, l

\* Reading gives back what was written, in every base.
LEMMA ReadBack ==
    ASSUME NEW b \in Nat, b > 1, NEW f, Writes(f, b), NEW n \in Nat
    PROVE  NumberOf(f[n], b) = n
<1> DEFINE S == {k \in Nat : NumberOf(f[k], b) = k}
<1>1. ASSUME NEW k \in Nat, \A m \in Nat : m < k => m \in S PROVE k \in S
  <2>1. CASE k = 0
    <3>1. f[0] = <<>>
      BY WritesType
    <3> QED
      BY <2>1, <3>1, NumberOfEmpty
  <2>2. CASE k > 0
    <3>1. /\ k \div b \in Nat /\ k \div b < k /\ k % b \in Nat
          /\ k = (k \div b) * b + (k % b)
      <4>1. k % b \in 0..(b - 1) /\ 0..(b - 1) \subseteq Nat
        BY DivMod
      <4> QED
        BY <2>2, <4>1, DivMod
    <3>2. NumberOf(f[k \div b], b) = k \div b
      BY <1>1, <3>1
    <3>3. f[k] = Append(f[k \div b], k % b)
      <4>1. k \in Nat \ {0}
        BY <2>2
      <4> QED
        BY <4>1, WritesType, Zenon
    <3>4. f[k \div b] \in Seq(Nat)
      <4>1. f[k \div b] \in Seq(0..(b - 1)) /\ 0..(b - 1) \subseteq Nat
        BY <3>1, WritesType
      <4> QED
        BY <4>1, SeqMonotonic
    <3>5. NumberOf(f[k], b) = (k \div b) * b + (k % b)
      BY <3>1, <3>2, <3>3, <3>4, NumberOfAppend
    <3> QED
      BY <3>1, <3>5
  <2> QED
    BY <2>1, <2>2
<1>2. Nat \subseteq S
  <2> HIDE DEF S
  <2> QED
    BY <1>1, StrongInduction
<1> QED
  BY <1>2

\* Three bytes, the first of them not zero, survive being read as a number and
\* written again.
LEMMA ThreeBytes ==
    ASSUME NEW x \in 1..(Base - 1), NEW y \in 0..(Base - 1), NEW z \in 0..(Base - 1)
    PROVE  LET n == NumberOf(Append(<<x, y>>, z), Base)
           IN  n \in Nat \ {0} /\ Bytes[n] = Append(<<x, y>>, z)
<1> DEFINE n1 == x
           n2 == x * Base + y
           n3 == n2 * Base + z
<1>1. Base \in Nat /\ Base > 1 /\ x \in Nat \ {0} /\ y \in Nat /\ z \in Nat
  BY BaseWidths
<1>0. <<x>> = Append(<<>>, x) /\ <<x, y>> = Append(<<x>>, y)
  BY <1>1
<1>2. NumberOf(Append(<<x, y>>, z), Base) = n3
  <2>1. <<>> \in Seq(Nat) /\ <<x>> \in Seq(Nat) /\ <<x, y>> \in Seq(Nat)
    BY <1>1
  <2>2. NumberOf(Append(<<>>, x), Base) = NumberOf(<<>>, Base) * Base + x
    BY <1>1, <2>1, NumberOfAppend, Zenon
  <2>3. NumberOf(<<x>>, Base) = x
    <3>1. NumberOf(<<x>>, Base) = 0 * Base + x
      BY <1>0, <1>1, <2>2, NumberOfEmpty, Zenon
    <3> QED
      BY <1>1, <3>1
  <2>4. NumberOf(<<x, y>>, Base) = x * Base + y
    <3>1. NumberOf(Append(<<x>>, y), Base) = NumberOf(<<x>>, Base) * Base + y
      BY <1>1, <2>1, NumberOfAppend, Zenon
    <3> QED
      BY <1>0, <2>3, <3>1, Zenon
  <2> QED
    BY <1>1, <2>1, <2>4, NumberOfAppend
<1>3. ASSUME NEW q \in Nat, NEW r \in 0..(Base - 1)
      PROVE  (q * Base + r) \div Base = q /\ (q * Base + r) % Base = r
  BY <1>1
<1>4. x \div Base = 0 /\ x % Base = x
  BY <1>1
<1>5. n2 \in Nat /\ n2 > 0 /\ n3 \in Nat /\ n3 > 0
  <2>1. n2 \in Nat /\ n3 \in Nat
    BY <1>1, MulAdd
  <2>2. x * Base > 0
    BY <1>1
  <2>3. x * Base \in Nat
    BY <1>1
  <2>4. n2 > 0
    BY <1>1, <2>2, <2>3
  <2> HIDE DEF n2
  <2>5. n2 * Base > 0 /\ n2 * Base \in Nat
    BY <1>1, <2>1, <2>4
  <2>6. n3 > 0
    BY <1>1, <2>5
  <2> QED
    BY <2>1, <2>4, <2>6
<1>6. n3 \div Base = n2 /\ n3 % Base = z
  <2> HIDE DEF n2
  <2> QED
    BY <1>3, <1>5
<1>7. n2 \div Base = x /\ n2 % Base = y
  BY <1>1, <1>3
<1> HIDE DEF n2, n3
<1>8. Bytes[0] = <<>> /\ \A k \in Nat \ {0} : Bytes[k] = Append(Bytes[k \div Base], k % Base)
  BY <1>1, BytesWrites, WritesType
<1>9. Bytes[x] = <<x>>
  BY <1>1, <1>4, <1>8
<1>10. Bytes[n2] = <<x, y>>
  <2>1. n2 \in Nat \ {0}
    BY <1>5
  <2>2. Bytes[n2] = Append(Bytes[n2 \div Base], n2 % Base)
    BY <1>8, <2>1, Zenon
  <2>3. Bytes[n2] = Append(<<x>>, y)
    BY <1>7, <1>9, <2>2, Zenon
  <2> QED
    BY <1>0, <2>3, Zenon
<1>11. Bytes[n3] = Append(<<x, y>>, z)
  <2>1. n3 \in Nat \ {0}
    BY <1>5
  <2>2. Bytes[n3] = Append(Bytes[n3 \div Base], n3 % Base)
    BY <1>8, <2>1, Zenon
  <2> QED
    BY <1>6, <1>10, <2>2, Zenon
<1> QED
  BY <1>2, <1>5, <1>11

-----------------------------------------------------------------------------
(* The state.                                                              *)

Char == 0..(Radix - 1) \cup {BadChar}
Sealed == [key : Keys, payload : Payloads, ts : 0..MaxTimestamp, at : Int]
Call == [text : Seq(Char), key : {use.key : use \in UNION {Consumer[t] : t \in Threads}},
         ttl : Int]
Frame == [call : Call, step : {"digit", "add", "age", "unmarshal"}, next : Nat, n : Nat,
          box : Int \cup {Nil}, old : SUBSET Int, alone : BOOLEAN]

\* The header says when, cut to the second.
SealedOK(e) == e.at - e.ts * Second \in 0..(Second - 1)

\* A call of Decode between two steps: the next character is one of the text or
\* the end, and a character that is being added is no bad one.
FrameOK(f) ==
    /\ f.next \in 1..(Len(f.call.text) + 1)
    /\ f.step \in {"age", "unmarshal"} => f.next > Len(f.call.text)
    /\ f.step = "add" =>
          f.next <= Len(f.call.text) /\ f.call.text[f.next] \in 0..(Radix - 1)

\* A call that is alone, given nothing but digits, has read the number of the
\* digits so far, and base62Digit, d, is the digit it set.
AloneOK(f, d) ==
    f.call.text \in Seq(0..(Radix - 1)) =>
        /\ f.step # "add" => f.n = Accumulated(f.call.text, Radix)[f.next - 1]
        /\ f.step = "add" =>
              /\ f.n = Accumulated(f.call.text, Radix)[f.next - 1] * Radix
              /\ d = f.call.text[f.next]

SealedInv ==
    /\ clock \in MinClock..MaxClock
    /\ sealed \in Seq(Sealed)
    /\ Len(sealed) <= MaxTokens
    /\ \A i \in 1..Len(sealed) : SealedOK(sealed[i])

DecodeInv ==
    /\ digit \in 0..(Radix - 1)
    /\ decode \in [Threads -> Frame \cup {Nil}]
    /\ \A t \in Threads : decode[t] # Nil => decode[t] \in Frame /\ FrameOK(decode[t])
    /\ \A t \in Threads : decode[t] # Nil /\ decode[t].alone =>
          AloneOK(decode[t], digit) /\ \A u \in Threads \ {t} : decode[u] = Nil

LEMMA SealedType ==
    ASSUME SealedInv, NEW i \in DOMAIN sealed
    PROVE  /\ i \in 1..Len(sealed) /\ i - 1 \in 0..(Base - 1)
           /\ sealed[i].key \in Keys /\ sealed[i].payload \in Payloads
           /\ sealed[i].ts \in 0..MaxTimestamp
           /\ sealed[i].at \in Int
           /\ sealed[i].at - sealed[i].ts * Second \in 0..(Second - 1)
<1>1. Len(sealed) \in Nat /\ DOMAIN sealed = 1..Len(sealed) /\ \A k \in 1..Len(sealed) : sealed[k] \in Sealed
  BY LenProperties, ElementOfSeq DEF SealedInv
<1>2. i - 1 \in 0..(Base - 1)
  BY <1>1, WidthAssumption DEF SealedInv
<1> QED
  BY <1>1, <1>2 DEF SealedInv, SealedOK, Sealed

\* The text of a token is a number in base 62, the number its bytes are.
LEMMA TokenTextNumber ==
    ASSUME SealedInv, NEW i \in DOMAIN sealed
    PROVE  LET bytes == Append(Header(sealed[i].ts), i - 1)
               n     == NumberOf(TokenText(i), Radix)
           IN  /\ TokenText(i) \in Seq(0..(Radix - 1))
               /\ TokenText(i) # <<>>
               /\ n \in Nat /\ Bytes[n] = bytes
<1> DEFINE bytes == Append(Header(sealed[i].ts), i - 1)
           m     == NumberOf(bytes, Base)
<1>1. Version \in 1..(Base - 1) /\ sealed[i].ts \in 0..(Base - 1) /\ i - 1 \in 0..(Base - 1)
  BY SealedType, WidthAssumption DEF MaxTimestamp
<1>2. m \in Nat \ {0} /\ Bytes[m] = bytes
  BY <1>1, ThreeBytes DEF Header
<1>3. TokenText(i) = Digits[m]
  BY DEF TokenText, Base62Encode
<1> HIDE DEF m, bytes
<1>4. Digits[m] \in Seq(0..(Radix - 1)) /\ NumberOf(Digits[m], Radix) = m
  BY <1>2, BaseWidths, DigitsWrites, WritesType, ReadBack
<1>5. Digits[m] # <<>>
  <2>1. NumberOf(<<>>, Radix) = 0
    BY NumberOfEmpty, BaseWidths
  <2> QED
    BY <1>2, <1>4, <2>1
<1> QED
  BY <1>2, <1>3, <1>4, <1>5 DEF bytes, m

LEMMA SealedInvariant == BSpec => []SealedInv
<1>1. BInit => SealedInv
  <2> SUFFICES ASSUME BInit PROVE SealedInv
    OBVIOUS
  <2>1. clock \in MinClock..MaxClock
    BY ClockAssumption DEF BInit
  <2>2. sealed = <<>> /\ MaxTokens >= 0
    BY WidthAssumption DEF BInit
  <2> QED
    BY <2>1, <2>2 DEF SealedInv
<1>2. SealedInv /\ [BNext]_bvars => SealedInv'
  <2> SUFFICES ASSUME SealedInv, [BNext]_bvars PROVE SealedInv'
    OBVIOUS
  <2>1. CASE Tick
    BY <2>1, ClockAssumption DEF Tick, SealedInv
  <2>2. ASSUME NEW key \in Keys, NEW payload \in Payloads, Encode(key, payload)
        PROVE  SealedInv'
    <3> DEFINE e == [key |-> key, payload |-> payload, ts |-> Unix(clock), at |-> clock]
    <3>1. clock' = clock /\ sealed' = Append(sealed, e) /\ Len(sealed) < MaxTokens
          /\ Unix(clock) \in 0..MaxTimestamp /\ clock \in Int
      BY <2>2, ClockAssumption DEF Encode, SealedInv
    <3>2. clock - Unix(clock) * Second \in 0..(Second - 1)
      <4>1. clock - Unix(clock) * Second = clock % Second /\ clock % Second \in 0..(Second - 1)
        BY <3>1, ClockAssumption DEF Unix
      <4> QED
        BY <4>1
    <3>3. e \in Sealed /\ SealedOK(e)
      BY <3>1, <3>2 DEF Sealed, SealedOK
    <3> HIDE DEF e
    <3>4. sealed \in Seq(Sealed) /\ Len(sealed) \in Nat /\ MaxTokens \in Nat
      BY LenProperties, WidthAssumption DEF SealedInv
    <3>5. /\ sealed' \in Seq(Sealed) /\ Len(sealed') = Len(sealed) + 1
          /\ \A k \in 1..Len(sealed) : sealed'[k] = sealed[k]
          /\ sealed'[Len(sealed) + 1] = e
      BY <3>1, <3>3, <3>4, AppendProperties
    <3>6. \A k \in 1..Len(sealed') : SealedOK(sealed'[k])
      BY <3>3, <3>4, <3>5 DEF SealedInv
    <3> QED
      BY <3>1, <3>4, <3>5, <3>6 DEF SealedInv
  <2>3. ASSUME UNCHANGED <<clock, sealed>> PROVE SealedInv'
    BY <2>3 DEF SealedInv, SealedOK
  <2>4. ASSUME NEW t \in Threads, Step(t) PROVE SealedInv'
    BY <2>3, <2>4 DEF Step, SetDigit, Add, Open, CheckAge, Unmarshal
  <2>5. ASSUME NEW t \in Threads, NEW call, Start(t, call) PROVE SealedInv'
    BY <2>3, <2>5 DEF Start
  <2>6. CASE UNCHANGED bvars
    BY <2>3, <2>6 DEF bvars
  <2> QED
    BY <2>1, <2>2, <2>4, <2>5, <2>6 DEF BNext
<1> QED
  BY <1>1, <1>2, PTL DEF BSpec

LEMMA TextsType ==
    ASSUME SealedInv, NEW text \in Texts
    PROVE  text \in Seq(Char)
<1>1. CASE text \in Garbage
  BY <1>1, TextAssumption DEF Char
<1>2. ASSUME NEW i \in DOMAIN sealed, text = TokenText(i) PROVE text \in Seq(Char)
  <2>1. text \in Seq(0..(Radix - 1)) /\ 0..(Radix - 1) \subseteq Char
    BY <1>2, TokenTextNumber DEF Char
  <2> QED
    BY <2>1, SeqMonotonic
<1> QED
  BY <1>1, <1>2 DEF Texts

\* What a thread's call is, between two of its steps.
LEMMA FrameFacts ==
    ASSUME DecodeInv, NEW t \in Threads, decode[t] # Nil
    PROVE  LET f == decode[t]
           IN  /\ f \in Frame /\ FrameOK(f) /\ f.call \in Call /\ f.n \in Nat
               /\ f.call.text \in Seq(Char) /\ Len(f.call.text) \in Nat
               /\ f.next \in Nat /\ f.next > 0 /\ f.next <= Len(f.call.text) + 1
<1> DEFINE f == decode[t]
<1>1. f \in Frame /\ FrameOK(f)
  BY DEF DecodeInv
<1>2. f.call \in Call /\ f.n \in Nat /\ f.call.text \in Seq(Char) /\ f.next \in Nat
  BY <1>1 DEF Frame, Call
<1>3. Len(f.call.text) \in Nat
  BY <1>2, LenProperties
<1>4. f.next > 0 /\ f.next <= Len(f.call.text) + 1
  BY <1>1, <1>3 DEF FrameOK
<1> QED
  BY <1>1, <1>2, <1>3, <1>4

\* A step that changes the frame of t only, to one that is well formed, and
\* base62Digit at most to the benefit of a call that is alone.
LEMMA FrameStep ==
    ASSUME DecodeInv, NEW t \in Threads, NEW f, decode[t] # Nil,
           decode' = [decode EXCEPT ![t] = f],
           digit' \in 0..(Radix - 1),
           f = Nil \/ (f \in Frame /\ FrameOK(f)
                         /\ f.alone = decode[t].alone /\ (f.alone => AloneOK(f, digit')))
    PROVE  DecodeInv'
<1>1. decode' \in [Threads -> Frame \cup {Nil}]
  BY DEF DecodeInv
<1>2. decode'[t] = f /\ \A u \in Threads \ {t} : decode'[u] = decode[u]
  BY DEF DecodeInv
<1>3. \A u \in Threads : decode'[u] # Nil => decode'[u] \in Frame /\ FrameOK(decode'[u])
  BY <1>2 DEF DecodeInv
<1>4. ASSUME NEW u \in Threads, decode'[u] # Nil, decode'[u].alone
      PROVE  AloneOK(decode'[u], digit') /\ \A v \in Threads \ {u} : decode'[v] = Nil
  <2>1. u = t
    <3> SUFFICES ASSUME u # t PROVE FALSE
      OBVIOUS
    <3>1. decode[u] # Nil /\ decode[u].alone
      BY <1>2, <1>4
    <3> QED
      BY <3>1 DEF DecodeInv
  <2>2. f # Nil /\ f.alone /\ decode[t].alone
    BY <1>2, <1>4, <2>1
  <2>3. AloneOK(f, digit')
    BY <2>2
  <2>4. \A v \in Threads \ {t} : decode[v] = Nil
    BY <2>2 DEF DecodeInv
  <2> QED
    BY <1>2, <2>1, <2>3, <2>4
<1> QED
  BY <1>1, <1>3, <1>4 DEF DecodeInv

LEMMA DecodeInvariant == BSpec => []DecodeInv
<1>1. BInit => DecodeInv
  BY BaseWidths DEF BInit, DecodeInv
<1>2. SealedInv /\ DecodeInv /\ [BNext]_bvars => DecodeInv'
  <2> SUFFICES ASSUME SealedInv, DecodeInv, [BNext]_bvars PROVE DecodeInv'
    OBVIOUS
  <2>1. ASSUME UNCHANGED <<digit, decode>> PROVE DecodeInv'
    BY <2>1 DEF DecodeInv
  <2>2. CASE Tick
    BY <2>1, <2>2 DEF Tick
  <2>3. ASSUME NEW key, NEW payload, Encode(key, payload) PROVE DecodeInv'
    BY <2>1, <2>3 DEF Encode
  <2>4. ASSUME NEW t \in Threads, NEW text \in Texts, NEW use \in Consumer[t],
               Start(t, [text |-> text, key |-> use.key, ttl |-> use.ttl])
        PROVE  DecodeInv'
    <3> DEFINE call == [text |-> text, key |-> use.key, ttl |-> use.ttl]
               f == [call |-> call, step |-> "digit", next |-> 1, n |-> 0, box |-> Nil,
                     old |-> {i \in DOMAIN sealed : TooOld(i, use.ttl)},
                     alone |-> \A v \in Threads : decode[v] = Nil]
    <3>1. text \in Seq(Char) /\ Len(text) \in Nat
      BY TextsType, LenProperties
    <3>2. call \in Call
      BY <3>1, ConsumerAssumption DEF Call
    <3>3. f \in Frame
      <4>1. {i \in DOMAIN sealed : TooOld(i, use.ttl)} \subseteq Int
        BY SealedType
      <4> QED
        BY <3>2, <4>1 DEF Frame
    <3>4. FrameOK(f)
      BY <3>1 DEF FrameOK
    <3>5. AloneOK(f, digit)
      <4> SUFFICES ASSUME text \in Seq(0..(Radix - 1))
                   PROVE  Accumulated(text, Radix)[0] = 0
        BY DEF AloneOK
      <4>1. text \in Seq(Nat)
        <5>1. 0..(Radix - 1) \subseteq Nat
          BY BaseWidths
        <5> QED
          BY <5>1, SeqMonotonic
      <4> QED
        BY <4>1, AccumulatedReads, ReadsValues, BaseWidths
    <3>6. /\ decode' = [u \in Threads |->
                IF u = t THEN f
                ELSE IF decode[u] = Nil THEN Nil ELSE [decode[u] EXCEPT !.alone = FALSE]]
          /\ digit' = digit
      BY <2>4 DEF Start
    <3>7. f.alone <=> \A v \in Threads : decode[v] = Nil
      OBVIOUS
    <3> HIDE DEF f, call
    <3>8. ASSUME NEW u \in Threads, decode[u] # Nil
          PROVE  LET w == [decode[u] EXCEPT !.alone = FALSE]
                 IN  w \in Frame /\ FrameOK(w) /\ w.alone = FALSE
      <4> DEFINE w == [decode[u] EXCEPT !.alone = FALSE]
      <4>1. decode[u] \in Frame /\ FrameOK(decode[u])
        BY <3>8 DEF DecodeInv
      <4>2. w \in Frame /\ w.call = decode[u].call /\ w.step = decode[u].step
            /\ w.next = decode[u].next /\ w.alone = FALSE
        BY <4>1 DEF Frame
      <4> QED
        BY <4>1, <4>2 DEF FrameOK
    <3>9. decode'[t] = f
      BY <3>6
    <3>10. ASSUME NEW u \in Threads \ {t}
           PROVE  decode'[u] = Nil \/ (decode'[u] \in Frame /\ FrameOK(decode'[u])
                                         /\ decode'[u].alone = FALSE /\ decode[u] # Nil)
      BY <3>6, <3>8
    <3>11. decode' \in [Threads -> Frame \cup {Nil}]
      BY <3>3, <3>6, <3>9, <3>10
    <3>12. \A u \in Threads : decode'[u] # Nil => decode'[u] \in Frame /\ FrameOK(decode'[u])
      BY <3>3, <3>4, <3>9, <3>10
    <3>13. ASSUME NEW u \in Threads, decode'[u] # Nil, decode'[u].alone
           PROVE  AloneOK(decode'[u], digit') /\ \A v \in Threads \ {u} : decode'[v] = Nil
      <4>1. u = t
        BY <3>10, <3>13
      <4>2. \A v \in Threads : decode[v] = Nil
        BY <3>7, <3>9, <3>13, <4>1
      <4> QED
        BY <3>5, <3>6, <3>9, <4>1, <4>2
    <3>14. digit' \in 0..(Radix - 1)
      BY <3>6 DEF DecodeInv
    <3> QED
      BY <3>11, <3>12, <3>13, <3>14 DEF DecodeInv
  <2>5. ASSUME NEW t \in Threads, SetDigit(t) PROVE DecodeInv'
    <3> DEFINE f == decode[t]
               d == f.call.text[f.next]
    <3>1. /\ f # Nil /\ f.step = "digit" /\ f.next <= Len(f.call.text)
      BY <2>5 DEF SetDigit, At
    <3>2. /\ f \in Frame /\ FrameOK(f) /\ f.n \in Nat /\ f.call.text \in Seq(Char)
          /\ Len(f.call.text) \in Nat /\ f.next \in Nat /\ f.next > 0
      BY <3>1, FrameFacts
    <3>3. d \in Char
      BY <3>1, <3>2, ElementOfSeq
    <3>4. CASE d = BadChar
      <4>1. decode' = [decode EXCEPT ![t] = Nil] /\ digit' = digit
        BY <2>5, <3>4 DEF SetDigit, Return
      <4>2. digit' \in 0..(Radix - 1)
        BY <4>1 DEF DecodeInv
      <4> QED
        BY <3>1, <4>1, <4>2, FrameStep
    <3>5. CASE d # BadChar
      <4> DEFINE w == [f EXCEPT !.n = @ * Radix, !.step = "add"]
      <4>1. digit' = d /\ decode' = [decode EXCEPT ![t].n = @ * Radix, ![t].step = "add"]
        BY <2>5, <3>5 DEF SetDigit
      <4>2. decode' = [decode EXCEPT ![t] = w]
        BY <4>1 DEF DecodeInv
      <4>3. d \in 0..(Radix - 1)
        BY <3>3, <3>5 DEF Char
      <4>4. f.n * Radix \in Nat
        BY <3>2, BaseWidths
      <4>5. /\ w \in Frame /\ w.call = f.call /\ w.step = "add" /\ w.next = f.next
            /\ w.alone = f.alone /\ w.n = f.n * Radix
        BY <3>2, <4>4 DEF Frame
      <4> HIDE DEF w
      <4>6. FrameOK(w)
        BY <3>1, <3>2, <4>3, <4>5 DEF FrameOK
      <4>7. w.alone => AloneOK(w, digit')
        <5>1. w.alone => AloneOK(f, digit)
          BY <3>1, <4>5 DEF DecodeInv
        <5> QED
          BY <3>1, <4>1, <4>5, <5>1 DEF AloneOK
      <4>8. digit' \in 0..(Radix - 1)
        BY <4>1, <4>3
      <4> QED
        BY <3>1, <4>2, <4>5, <4>6, <4>7, <4>8, FrameStep
    <3> QED
      BY <3>4, <3>5
  <2>6. ASSUME NEW t \in Threads, Add(t) PROVE DecodeInv'
    <3> DEFINE f == decode[t]
               w == [f EXCEPT !.n = @ + digit, !.step = "digit", !.next = @ + 1]
    <3>1. /\ f # Nil /\ f.step = "add" /\ digit' = digit
          /\ decode' = [decode EXCEPT ![t].n = @ + digit, ![t].step = "digit", ![t].next = @ + 1]
      BY <2>6 DEF Add, At
    <3>2. /\ f \in Frame /\ FrameOK(f) /\ f.n \in Nat /\ f.call.text \in Seq(Char)
          /\ Len(f.call.text) \in Nat /\ f.next \in Nat /\ f.next > 0
      BY <3>1, FrameFacts
    <3>3. f.next <= Len(f.call.text)
      BY <3>1, <3>2 DEF FrameOK
    <3>4. decode' = [decode EXCEPT ![t] = w]
      BY <3>1 DEF DecodeInv
    <3>5. digit \in Nat /\ digit' \in 0..(Radix - 1)
      BY <3>1, BaseWidths DEF DecodeInv
    <3>6. /\ w \in Frame /\ w.call = f.call /\ w.step = "digit" /\ w.next = f.next + 1
          /\ w.alone = f.alone /\ w.n = f.n + digit
      <4> DEFINE s == f.n + digit
                 k == f.next + 1
      <4>1. s \in Nat /\ k \in Nat
        BY <3>2, <3>5
      <4>2. w = [f EXCEPT !.n = s, !.step = "digit", !.next = k]
        OBVIOUS
      <4> HIDE DEF s, k
      <4>3. /\ w \in Frame /\ w.call = f.call /\ w.step = "digit" /\ w.next = k
            /\ w.alone = f.alone /\ w.n = s
        BY <3>2, <4>1, <4>2 DEF Frame
      <4> QED
        BY <4>3 DEF s, k
    <3> HIDE DEF w
    <3>7. FrameOK(w)
      BY <3>2, <3>3, <3>6 DEF FrameOK
    <3>8. ASSUME w.alone PROVE AloneOK(w, digit')
      <4> DEFINE text == f.call.text
                 k == f.next
      <4> SUFFICES ASSUME text \in Seq(0..(Radix - 1))
                   PROVE  f.n + digit = Accumulated(text, Radix)[k]
        <5>1. w.next - 1 = k
          BY <3>2, <3>6
        <5> QED
          BY <3>6, <5>1 DEF AloneOK
      <4>1. AloneOK(f, digit)
        BY <3>1, <3>6, <3>8 DEF DecodeInv
      <4>2. f.n = Accumulated(text, Radix)[k - 1] * Radix /\ digit = text[k]
        BY <3>1, <4>1 DEF AloneOK
      <4>3. text \in Seq(Nat)
        <5>1. 0..(Radix - 1) \subseteq Nat
          BY BaseWidths
        <5> QED
          BY <5>1, SeqMonotonic
      <4>4. \A i \in 1..Len(text) :
                Accumulated(text, Radix)[i] = Accumulated(text, Radix)[i - 1] * Radix + text[i]
        BY <4>3, AccumulatedReads, ReadsValues, BaseWidths
      <4>5. k \in 1..Len(text)
        BY <3>2, <3>3
      <4> QED
        BY <4>2, <4>4, <4>5
    <3> QED
      BY <3>1, <3>4, <3>5, <3>6, <3>7, <3>8, FrameStep
  <2>7. ASSUME NEW t \in Threads, Open(t) \/ CheckAge(t) \/ Unmarshal(t) PROVE DecodeInv'
    <3> DEFINE f == decode[t]
    <3>1. f # Nil /\ digit' = digit /\ digit' \in 0..(Radix - 1)
      BY <2>7 DEF Open, CheckAge, Unmarshal, At, DecodeInv
    <3>2. CASE decode' = [decode EXCEPT ![t] = Nil]
      BY <3>1, <3>2, FrameStep
    <3>3. CASE Open(t) /\ decode' # [decode EXCEPT ![t] = Nil]
      <4>1. PICK i \in DOMAIN sealed : decode' = [decode EXCEPT ![t].box = i, ![t].step = "age"]
        BY <3>3 DEF Open, Return
      <4> DEFINE w == [f EXCEPT !.box = i, !.step = "age"]
      <4>2. decode' = [decode EXCEPT ![t] = w]
        BY <4>1 DEF DecodeInv
      <4>3. f \in Frame /\ FrameOK(f) /\ i \in Int
        BY <3>1, FrameFacts, SealedType
      <4>4. /\ w \in Frame /\ w.call = f.call /\ w.step = "age" /\ w.next = f.next
            /\ w.alone = f.alone /\ w.n = f.n
        BY <4>3 DEF Frame
      <4>5. f.step = "digit" /\ f.next > Len(f.call.text)
        BY <3>3 DEF Open, At
      <4> HIDE DEF w
      <4>6. FrameOK(w)
        BY <4>3, <4>4, <4>5 DEF FrameOK
      <4>7. w.alone => AloneOK(w, digit')
        <5>1. w.alone => AloneOK(f, digit)
          BY <3>1, <4>4 DEF DecodeInv
        <5> QED
          BY <4>4, <4>5, <5>1 DEF AloneOK
      <4> QED
        BY <3>1, <4>2, <4>4, <4>6, <4>7, FrameStep
    <3>4. CASE CheckAge(t) /\ decode' # [decode EXCEPT ![t] = Nil]
      <4>1. decode' = [decode EXCEPT ![t].step = "unmarshal"] /\ f.step = "age"
        BY <3>4 DEF CheckAge, Return, At
      <4> DEFINE w == [f EXCEPT !.step = "unmarshal"]
      <4>2. decode' = [decode EXCEPT ![t] = w]
        BY <4>1 DEF DecodeInv
      <4>3. f \in Frame /\ FrameOK(f)
        BY <3>1, FrameFacts
      <4>4. /\ w \in Frame /\ w.call = f.call /\ w.step = "unmarshal" /\ w.next = f.next
            /\ w.alone = f.alone /\ w.n = f.n
        BY <4>3 DEF Frame
      <4> HIDE DEF w
      <4>5. FrameOK(w)
        BY <4>1, <4>3, <4>4 DEF FrameOK
      <4>6. w.alone => AloneOK(w, digit')
        <5>1. w.alone => AloneOK(f, digit)
          BY <3>1, <4>4 DEF DecodeInv
        <5> QED
          BY <4>1, <4>4, <5>1 DEF AloneOK
      <4> QED
        BY <3>1, <4>2, <4>4, <4>5, <4>6, FrameStep
    <3>5. CASE Unmarshal(t)
      BY <3>2, <3>5 DEF Unmarshal, Return
    <3> QED
      BY <2>7, <3>2, <3>3, <3>4, <3>5
  <2>8. CASE UNCHANGED bvars
    BY <2>1, <2>8 DEF bvars
  <2> QED
    BY <2>2, <2>3, <2>4, <2>5, <2>6, <2>7, <2>8 DEF BNext, Step
<1> QED
  BY <1>1, <1>2, SealedInvariant, PTL DEF BSpec

\* Every timestamp fits its field and says the time of the sealing, and every
\* call of Decode stays within its text and its alphabet.
THEOREM BTypeCorrect == BSpec => []BTypeOK
<1>1. SealedInv /\ DecodeInv => BTypeOK
  <2> SUFFICES ASSUME SealedInv, DecodeInv PROVE BTypeOK
    OBVIOUS
  <2>1. clock \in MinClock..MaxClock /\ digit \in 0..(Radix - 1)
    BY DEF SealedInv, DecodeInv
  <2>2. \A t \in Threads : decode[t] # Nil =>
            decode[t].n \in Nat /\ decode[t].next \in 1..(Len(decode[t].call.text) + 1)
    BY FrameFacts DEF FrameOK
  <2> QED
    BY <2>1, <2>2, SealedType DEF BTypeOK
<1> QED
  BY <1>1, SealedInvariant, DecodeInvariant, PTL

-----------------------------------------------------------------------------
(* The box that a call has opened.                                         *)

\* What the call found too old still is; the box it opened is the one its
\* bytes are, and past the age check none that it found too old.
BoxOK(f) ==
    /\ \A i \in f.old : i \in DOMAIN sealed /\ TooOld(i, f.call.ttl)
    /\ f.step \in {"age", "unmarshal"} =>
          f.box \in DOMAIN sealed /\ Opens(f.box, Bytes[f.n], f.call.key)
    /\ f.step = "unmarshal" => f.box \notin f.old

BoxInv == \A t \in Threads : decode[t] # Nil => BoxOK(decode[t])

\* An expired token is one whose age, cut to the second, has passed the ttl.
LEMMA ExpiredWhenTooOld ==
    ASSUME SealedInv, NEW i \in DOMAIN sealed, NEW ttl \in Int
    PROVE  /\ TooOld(i, ttl) => Expired(i, ttl)
           /\ Expired(i, ttl) => ttl > 0 /\ clock > sealed[i].at + ttl - Second
<1> DEFINE h == sealed[i].ts * Second
<1>1. clock \in Int /\ Second \in Nat
  BY ClockAssumption DEF SealedInv
<1>2. sealed[i].ts \in Nat /\ sealed[i].at \in Int /\ sealed[i].at - h \in 0..(Second - 1)
  BY SealedType, BaseWidths DEF MaxTimestamp
<1>3. h \in Int
  BY <1>1, <1>2
<1>4. Expired(i, ttl) <=> ttl > 0 /\ clock > h + ttl
  BY DEF Expired
<1> HIDE DEF h
<1>5. TooOld(i, ttl) => Expired(i, ttl)
  BY <1>1, <1>2, <1>3, <1>4 DEF TooOld
<1>6. Expired(i, ttl) => ttl > 0 /\ clock > sealed[i].at + ttl - Second
  BY <1>1, <1>2, <1>3, <1>4
<1> QED
  BY <1>5, <1>6

\* The tokens stay, and age.
LEMMA Ages ==
    ASSUME SealedInv, clock' \in Int, clock' >= clock, DOMAIN sealed \subseteq DOMAIN sealed',
           \A i \in DOMAIN sealed : sealed'[i] = sealed[i],
           NEW f \in Frame, BoxOK(f)
    PROVE  BoxOK(f)'
<1>1. ASSUME NEW i \in f.old PROVE i \in DOMAIN sealed' /\ TooOld(i, f.call.ttl)'
  <2>1. i \in DOMAIN sealed /\ TooOld(i, f.call.ttl) /\ sealed'[i] = sealed[i]
    BY <1>1 DEF BoxOK
  <2>2. sealed[i].at \in Int /\ clock \in Int /\ f.call.ttl \in Int
    BY <2>1, SealedType, ClockAssumption DEF SealedInv, Frame, Call
  <2> QED
    BY <2>1, <2>2 DEF TooOld
<1>2. f.step \in {"age", "unmarshal"} =>
          f.box \in DOMAIN sealed' /\ Opens(f.box, Bytes[f.n], f.call.key)'
  BY DEF BoxOK, Opens
<1> QED
  BY <1>1, <1>2 DEF BoxOK

LEMMA BoxInvariant == BSpec => []BoxInv
<1>1. BInit => BoxInv
  BY DEF BInit, BoxInv
<1>2. SealedInv /\ DecodeInv /\ BoxInv /\ [BNext]_bvars => BoxInv'
  <2> SUFFICES ASSUME SealedInv, DecodeInv, BoxInv, [BNext]_bvars PROVE BoxInv'
    OBVIOUS
  <2>0. \A t \in Threads : decode[t] # Nil => decode[t] \in Frame /\ BoxOK(decode[t])
    BY DEF DecodeInv, BoxInv
  <2>1. ASSUME UNCHANGED <<clock, sealed>>, NEW f, BoxOK(f) PROVE BoxOK(f)'
    BY <2>1 DEF BoxOK, TooOld, Opens
  <2>2. CASE Tick
    <3>1. clock \in Int /\ clock' \in Int /\ clock' >= clock /\ sealed' = sealed /\ decode' = decode
      BY <2>2, ClockAssumption DEF Tick, SealedInv
    <3> QED
      BY <2>0, <3>1, Ages DEF BoxInv
  <2>3. ASSUME NEW key, NEW payload, Encode(key, payload) PROVE BoxInv'
    <3> DEFINE e == [key |-> key, payload |-> payload, ts |-> Unix(clock), at |-> clock]
    <3>1. clock' = clock /\ sealed' = Append(sealed, e) /\ decode' = decode
      BY <2>3 DEF Encode
    <3> HIDE DEF e
    <3>2. Len(sealed) \in Nat /\ DOMAIN sealed = 1..Len(sealed) /\ DOMAIN sealed' = 1..(Len(sealed) + 1)
          /\ \A i \in DOMAIN sealed : sealed'[i] = sealed[i]
      <4>1. sealed \in Seq({sealed[i] : i \in DOMAIN sealed} \cup {e})
        <5>1. DOMAIN sealed = 1..Len(sealed) /\ Len(sealed) \in Nat
          BY LenProperties DEF SealedInv
        <5> QED
          BY <5>1 DEF SealedInv
      <4> QED
        BY <3>1, <4>1
    <3>3. clock \in Int /\ clock' \in Int /\ clock' >= clock
      BY <3>1, ClockAssumption DEF SealedInv
    <3> QED
      BY <2>0, <3>1, <3>2, <3>3, Ages DEF BoxInv
  <2>4. ASSUME NEW t \in Threads, NEW text \in Texts, NEW use \in Consumer[t],
               Start(t, [text |-> text, key |-> use.key, ttl |-> use.ttl])
        PROVE  BoxInv'
    <3>1. UNCHANGED <<clock, sealed>>
      BY <2>4 DEF Start
    <3>2. ASSUME NEW u \in Threads, decode'[u] # Nil PROVE BoxOK(decode'[u])
      <4>1. CASE u = t
        BY <2>4, <3>2, <4>1 DEF Start, BoxOK
      <4>2. CASE u # t
        <5> DEFINE w == [decode[u] EXCEPT !.alone = FALSE]
        <5>1. decode'[u] = w /\ decode[u] # Nil
          BY <2>4, <3>2, <4>2 DEF Start
        <5>2. decode[u] \in Frame /\ BoxOK(decode[u])
          BY <2>0, <5>1
        <5>3. /\ w.call = decode[u].call /\ w.step = decode[u].step /\ w.n = decode[u].n
              /\ w.box = decode[u].box /\ w.old = decode[u].old
          BY <5>2 DEF Frame
        <5> HIDE DEF w
        <5> QED
          BY <5>1, <5>2, <5>3 DEF BoxOK
      <4> QED
        BY <4>1, <4>2
    <3> QED
      BY <2>1, <3>1, <3>2 DEF BoxInv
  <2>5. ASSUME NEW t \in Threads, NEW f, decode' = [decode EXCEPT ![t] = f], UNCHANGED <<clock, sealed>>,
               f # Nil => BoxOK(f)
        PROVE  BoxInv'
    <3>1. \A u \in Threads : decode'[u] = IF u = t THEN f ELSE decode[u]
      BY <2>5 DEF DecodeInv
    <3>2. \A u \in Threads : decode'[u] # Nil => BoxOK(decode'[u])
      BY <2>0, <2>5, <3>1
    <3> QED
      BY <2>1, <2>5, <3>2 DEF BoxInv
  <2>6. ASSUME NEW t \in Threads, SetDigit(t) \/ Add(t) PROVE BoxInv'
    <3> DEFINE f == decode[t]
               w == [f EXCEPT !.n = f.n * Radix, !.step = "add"]
               z == [f EXCEPT !.n = f.n + digit, !.step = "digit", !.next = f.next + 1]
    <3>1. f # Nil /\ f \in Frame /\ BoxOK(f) /\ UNCHANGED <<clock, sealed>>
      BY <2>0, <2>6 DEF SetDigit, Add, At
    <3>2. \/ decode' = [decode EXCEPT ![t] = Nil]
          \/ decode' = [decode EXCEPT ![t] = w]
          \/ decode' = [decode EXCEPT ![t] = z]
      BY <2>6 DEF SetDigit, Add, Return, DecodeInv
    <3>3. w.call = f.call /\ w.old = f.old /\ w.step = "add"
      BY <3>1 DEF Frame
    <3>4. z.call = f.call /\ z.old = f.old /\ z.step = "digit"
      BY <3>1 DEF Frame
    <3> HIDE DEF w, z
    <3>5. BoxOK(w) /\ BoxOK(z)
      BY <3>1, <3>3, <3>4 DEF BoxOK
    <3> QED
      BY <2>5, <3>1, <3>2, <3>5
  <2>7. ASSUME NEW t \in Threads, Open(t) PROVE BoxInv'
    <3> DEFINE f == decode[t]
    <3>1. f # Nil /\ f \in Frame /\ BoxOK(f) /\ UNCHANGED <<clock, sealed>>
      BY <2>0, <2>7 DEF Open, At
    <3>2. CASE decode' = [decode EXCEPT ![t] = Nil]
      BY <2>5, <3>1, <3>2
    <3>3. CASE decode' # [decode EXCEPT ![t] = Nil]
      <4>1. PICK i \in DOMAIN sealed :
               /\ decode' = [decode EXCEPT ![t].box = i, ![t].step = "age"]
               /\ Opens(i, Bytes[f.n], f.call.key)
        BY <2>7, <3>3 DEF Open, Return
      <4> DEFINE w == [f EXCEPT !.box = i, !.step = "age"]
      <4>2. decode' = [decode EXCEPT ![t] = w]
        BY <4>1 DEF DecodeInv
      <4>3. w.call = f.call /\ w.old = f.old /\ w.step = "age" /\ w.n = f.n /\ w.box = i
        BY <3>1 DEF Frame
      <4> HIDE DEF w
      <4>4. BoxOK(w)
        BY <3>1, <4>1, <4>3 DEF BoxOK
      <4> QED
        BY <2>5, <3>1, <4>2, <4>4
    <3> QED
      BY <3>2, <3>3
  <2>8. ASSUME NEW t \in Threads, CheckAge(t) PROVE BoxInv'
    <3> DEFINE f == decode[t]
               w == [f EXCEPT !.step = "unmarshal"]
    <3>1. f # Nil /\ f \in Frame /\ BoxOK(f) /\ f.step = "age" /\ UNCHANGED <<clock, sealed>>
      BY <2>0, <2>8 DEF CheckAge, At
    <3>2. CASE Expired(f.box, f.call.ttl)
      BY <2>5, <2>8, <3>1, <3>2 DEF CheckAge, Return
    <3>3. CASE ~Expired(f.box, f.call.ttl)
      <4>1. decode' = [decode EXCEPT ![t] = w]
        BY <2>8, <3>3 DEF CheckAge, DecodeInv
      <4>2. w.call = f.call /\ w.old = f.old /\ w.step = "unmarshal" /\ w.n = f.n /\ w.box = f.box
        BY <3>1 DEF Frame
      <4> HIDE DEF w
      <4>3. f.box \in DOMAIN sealed /\ Opens(f.box, Bytes[f.n], f.call.key) /\ f.call.ttl \in Int
        BY <3>1 DEF BoxOK, Frame, Call
      <4>4. f.box \notin f.old
        BY <3>1, <3>3, <4>3, ExpiredWhenTooOld DEF BoxOK
      <4>5. BoxOK(w)
        BY <3>1, <4>2, <4>3, <4>4 DEF BoxOK
      <4> QED
        BY <2>5, <3>1, <4>1, <4>5
    <3> QED
      BY <3>2, <3>3
  <2>9. ASSUME NEW t \in Threads, Unmarshal(t) PROVE BoxInv'
    BY <2>5, <2>9 DEF Unmarshal, Return
  <2>10. CASE UNCHANGED bvars
    BY <2>0, <2>1, <2>10 DEF bvars, BoxInv
  <2> QED
    BY <2>2, <2>3, <2>4, <2>6, <2>7, <2>8, <2>9, <2>10 DEF BNext, Step
<1> QED
  BY <1>1, <1>2, SealedInvariant, DecodeInvariant, PTL DEF BSpec

-----------------------------------------------------------------------------
(* What Decode hands out.                                                  *)

\* For every base, key, ttl, clock and interleaving of any number of
\* goroutines: what Decode hands out was sealed under the consumer's key and
\* was not older than its ttl when Decode was called.
THEOREM AcceptedCorrect == BSpec => []AcceptedWasSealed
<1>1. BInit => AcceptedWasSealed
  BY DEF BInit, AcceptedWasSealed
<1>2. BoxInv /\ AcceptedWasSealed /\ [BNext]_bvars => AcceptedWasSealed'
  <2> SUFFICES ASSUME BoxInv, AcceptedWasSealed, [BNext]_bvars
               PROVE  AcceptedWasSealed'
    OBVIOUS
  <2>1. ASSUME result' = Nil PROVE AcceptedWasSealed'
    BY <2>1 DEF AcceptedWasSealed
  <2>2. CASE Tick
    BY <2>1, <2>2 DEF Tick
  <2>3. ASSUME NEW key, NEW payload, Encode(key, payload) PROVE AcceptedWasSealed'
    BY <2>1, <2>3 DEF Encode
  <2>4. ASSUME NEW t \in Threads, NEW call, Start(t, call) PROVE AcceptedWasSealed'
    BY <2>1, <2>4 DEF Start
  <2>5. ASSUME NEW t \in Threads, SetDigit(t) PROVE AcceptedWasSealed'
    <3>1. result' = Nil \/ Return(t, "malformed", Nil)
      BY <2>5 DEF SetDigit
    <3> QED
      BY <2>1, <3>1 DEF Return, AcceptedWasSealed
  <2>6. ASSUME NEW t \in Threads, Add(t) PROVE AcceptedWasSealed'
    BY <2>1, <2>6 DEF Add
  <2>7. ASSUME NEW t \in Threads, Open(t) \/ CheckAge(t) PROVE AcceptedWasSealed'
    <3>1. result' = Nil \/ \E status \in {"malformed", "invalid", "expired"} : Return(t, status, Nil)
      BY <2>7 DEF Open, CheckAge
    <3> QED
      BY <2>1, <3>1 DEF Return, AcceptedWasSealed
  <2>9. ASSUME NEW t \in Threads, Unmarshal(t) PROVE AcceptedWasSealed'
    <3> DEFINE f == decode[t]
    <3>1. f # Nil /\ f.step = "unmarshal" /\ sealed' = sealed
      BY <2>9 DEF Unmarshal, At
    <3>2. CASE Return(t, "malformed", Nil)
      BY <3>2 DEF Return, AcceptedWasSealed
    <3>3. CASE Return(t, "ok", sealed[f.box].payload)
      <4>1. f.box \in DOMAIN sealed /\ sealed[f.box].key = f.call.key /\ f.box \notin f.old
        BY <3>1 DEF BoxInv, BoxOK, Opens
      <4>2. result'.call = f.call /\ result'.payload = sealed[f.box].payload /\ result'.old = f.old
        BY <3>3 DEF Return
      <4> QED
        BY <3>1, <4>1, <4>2 DEF AcceptedWasSealed
    <3> QED
      BY <2>9, <3>2, <3>3 DEF Unmarshal
  <2>8. CASE UNCHANGED bvars
    BY <2>8 DEF bvars, AcceptedWasSealed
  <2> QED
    BY <2>2, <2>3, <2>4, <2>5, <2>6, <2>7, <2>8, <2>9 DEF BNext, Step
<1> QED
  BY <1>1, <1>2, BoxInvariant, PTL DEF BSpec

\* A call that is alone has, at the end of a token's text, the bytes of the
\* token.
LEMMA AloneBytes ==
    ASSUME SealedInv, DecodeInv, NEW t \in Threads, decode[t] # Nil, decode[t].step # "add",
           decode[t].next > Len(decode[t].call.text), decode[t].alone,
           NEW i \in DOMAIN sealed, decode[t].call.text = TokenText(i)
    PROVE  Bytes[decode[t].n] = Append(Header(sealed[i].ts), i - 1)
<1> DEFINE f == decode[t]
           text == f.call.text
<1>1. f # Nil /\ f.step # "add"
  OBVIOUS
<1>2. f.next \in Nat /\ Len(text) \in Nat /\ f.next <= Len(text) + 1
  BY <1>1, FrameFacts
<1>3. f.next - 1 = Len(text)
  BY <1>2
<1>4. text \in Seq(0..(Radix - 1))
  BY TokenTextNumber
<1>5. AloneOK(f, digit)
  BY <1>1 DEF DecodeInv
<1>6. f.n = Accumulated(text, Radix)[f.next - 1]
  BY <1>1, <1>4, <1>5 DEF AloneOK
<1>7. f.n = NumberOf(TokenText(i), Radix)
  BY <1>3, <1>6 DEF NumberOf
<1> QED
  BY <1>7, TokenTextNumber

\* Bytes are those of one token.
LEMMA OneBox ==
    ASSUME SealedInv, NEW i \in DOMAIN sealed, NEW j \in DOMAIN sealed,
           Append(Header(sealed[i].ts), i - 1) = Append(Header(sealed[j].ts), j - 1)
    PROVE  i = j
<1>1. i \in Int /\ j \in Int
  BY SealedType
<1>2. Append(Header(sealed[i].ts), i - 1)[3] = i - 1 /\ Append(Header(sealed[j].ts), j - 1)[3] = j - 1
  BY <1>1 DEF Header
<1>3. i - 1 = j - 1
  BY <1>2
<1> QED
  BY <1>1, <1>3

\* A call that is alone opens the box of the token it was given.
LEMMA AloneBox ==
    ASSUME SealedInv, DecodeInv, BoxInv, NEW t \in Threads, decode[t] # Nil,
           decode[t].step \in {"age", "unmarshal"}, decode[t].alone,
           NEW i \in DOMAIN sealed, decode[t].call.text = TokenText(i)
    PROVE  decode[t].box = i
<1>1. decode[t].next > Len(decode[t].call.text)
  BY FrameFacts DEF FrameOK
<1>2. Bytes[decode[t].n] = Append(Header(sealed[i].ts), i - 1)
  BY <1>1, AloneBytes
<1>3. decode[t].box \in DOMAIN sealed /\ Opens(decode[t].box, Bytes[decode[t].n], decode[t].call.key)
  BY DEF BoxInv, BoxOK
<1> QED
  BY <1>2, <1>3, OneBox DEF Opens

\* For every base: a call of Decode that no other overlaps hands out the
\* payload of the token it was given.
THEOREM DecodeAloneCorrect == BSpec => []DecodeAloneExact
<1>1. BInit => DecodeAloneExact
  BY DEF BInit, DecodeAloneExact
<1>2. SealedInv /\ DecodeInv /\ BoxInv /\ DecodeAloneExact /\ [BNext]_bvars => DecodeAloneExact'
  <2> SUFFICES ASSUME SealedInv, DecodeInv, BoxInv, DecodeAloneExact, [BNext]_bvars
               PROVE  DecodeAloneExact'
    OBVIOUS
  <2>1. ASSUME result' = Nil PROVE DecodeAloneExact'
    BY <2>1 DEF DecodeAloneExact
  <2>2. CASE Tick
    BY <2>1, <2>2 DEF Tick
  <2>3. ASSUME NEW key, NEW payload, Encode(key, payload) PROVE DecodeAloneExact'
    BY <2>1, <2>3 DEF Encode
  <2>4. ASSUME NEW t \in Threads, NEW call, Start(t, call) PROVE DecodeAloneExact'
    BY <2>1, <2>4 DEF Start
  <2>6. ASSUME NEW t \in Threads, Add(t) PROVE DecodeAloneExact'
    BY <2>1, <2>6 DEF Add
  <2>0. ASSUME NEW t \in Threads, decode[t] # Nil, UNCHANGED sealed,
               \E status, payload : Return(t, status, payload),
               \A i \in DOMAIN sealed :
                  decode[t].alone /\ Genuine(decode[t].call, clock, i) =>
                      Return(t, "ok", sealed[i].payload)
        PROVE  DecodeAloneExact'
    <3>1. result'.call = decode[t].call /\ result'.now = clock /\ result'.alone = decode[t].alone
      BY <2>0 DEF Return
    <3> SUFFICES ASSUME result'.alone, NEW i \in DOMAIN sealed,
                        Genuine(result.call, result.now, i)'
                 PROVE  result'.status = "ok" /\ result'.payload = sealed[i].payload
      BY <2>0 DEF DecodeAloneExact, DeliversGenuine
    <3>2. Genuine(decode[t].call, clock, i)
      BY <2>0, <3>1 DEF Genuine, TokenText
    <3>3. Return(t, "ok", sealed[i].payload)
      BY <2>0, <3>1, <3>2
    <3> QED
      BY <3>3 DEF Return
  <2>5. ASSUME NEW t \in Threads, SetDigit(t) PROVE DecodeAloneExact'
    <3> DEFINE f == decode[t]
               d == f.call.text[f.next]
    <3>1. f # Nil /\ f.next <= Len(f.call.text) /\ UNCHANGED sealed
      BY <2>5 DEF SetDigit, At
    <3>2. CASE d # BadChar
      BY <2>1, <2>5, <3>2 DEF SetDigit
    <3>3. CASE d = BadChar
      <4>1. Return(t, "malformed", Nil)
        BY <2>5, <3>3 DEF SetDigit
      <4>2. ASSUME NEW i \in DOMAIN sealed, Genuine(f.call, clock, i) PROVE FALSE
        <5>1. f.call.text \in Seq(0..(Radix - 1))
          BY <4>2, TokenTextNumber DEF Genuine
        <5>2. f.next \in 1..Len(f.call.text)
          BY <3>1, FrameFacts
        <5>3. d \in Int
          BY <5>1, <5>2, ElementOfSeq, BaseWidths
        <5> QED
          BY <3>3, <5>3, TextAssumption
      <4> QED
        BY <2>0, <3>1, <4>1, <4>2
    <3> QED
      BY <3>2, <3>3
  <2>7. ASSUME NEW t \in Threads, Open(t) PROVE DecodeAloneExact'
    <3> DEFINE f == decode[t]
               call == f.call
               bytes == Bytes[f.n]
               boxes == {j \in DOMAIN sealed : Opens(j, bytes, call.key)}
    <3>1. f # Nil /\ f.step = "digit" /\ UNCHANGED sealed /\ f.next > Len(call.text)
      BY <2>7 DEF Open, At
    <3>2. CASE result' = Nil
      BY <2>1, <3>2
    <3>3. CASE result' # Nil
      <4>1. \E status, payload : Return(t, status, payload)
        BY <2>7, <3>3 DEF Open
      <4>2. ASSUME NEW i \in DOMAIN sealed, f.alone, Genuine(call, clock, i) PROVE FALSE
        <5>1. bytes = Append(Header(sealed[i].ts), i - 1)
          BY <3>1, <4>2, AloneBytes DEF Genuine
        <5>2. i \in boxes
          BY <4>2, <5>1 DEF Opens, Genuine
        <5>3. Framed(call.text, bytes)
          <6>1. call.text # <<>>
            BY <4>2, TokenTextNumber DEF Genuine
          <6>2. Len(bytes) = 3 /\ bytes[1] = Version
            BY <5>1 DEF Header
          <6> QED
            BY <6>1, <6>2 DEF Framed
        <5> QED
          BY <2>7, <3>3, <5>2, <5>3 DEF Open
      <4> QED
        BY <2>0, <3>1, <4>1, <4>2
    <3> QED
      BY <3>2, <3>3
  <2>9. ASSUME NEW t \in Threads, CheckAge(t) PROVE DecodeAloneExact'
    <3> DEFINE f == decode[t]
    <3>1. f # Nil /\ f.step = "age" /\ UNCHANGED sealed
      BY <2>9 DEF CheckAge, At
    <3>2. CASE ~Expired(f.box, f.call.ttl)
      BY <2>1, <2>9, <3>2 DEF CheckAge
    <3>3. CASE Expired(f.box, f.call.ttl)
      <4>1. Return(t, "expired", Nil)
        BY <2>9, <3>3 DEF CheckAge
      <4>2. ASSUME NEW i \in DOMAIN sealed, f.alone, Genuine(f.call, clock, i) PROVE FALSE
        <5>1. f.box = i
          BY <3>1, <4>2, AloneBox DEF Genuine
        <5>2. f.call.ttl \in Int /\ clock \in Int /\ sealed[i].at \in Int /\ Second \in Nat
          BY <3>1, FrameFacts, SealedType, ClockAssumption DEF Call, SealedInv
        <5>3. f.call.ttl > 0 /\ clock > sealed[i].at + f.call.ttl - Second
          BY <3>3, <5>1, <5>2, ExpiredWhenTooOld
        <5>4. f.call.ttl > 0 => clock <= sealed[i].at + f.call.ttl - Second
          BY <4>2 DEF Genuine
        <5> QED
          BY <5>2, <5>3, <5>4
      <4> QED
        BY <2>0, <3>1, <4>1, <4>2
    <3> QED
      BY <3>2, <3>3
  <2>10. ASSUME NEW t \in Threads, Unmarshal(t) PROVE DecodeAloneExact'
    <3> DEFINE f == decode[t]
    <3>1. f # Nil /\ f.step = "unmarshal" /\ UNCHANGED sealed
      BY <2>10 DEF Unmarshal, At
    <3>2. \E status, payload : Return(t, status, payload)
      BY <2>10 DEF Unmarshal
    <3>3. ASSUME NEW i \in DOMAIN sealed, f.alone, Genuine(f.call, clock, i)
          PROVE  Return(t, "ok", sealed[i].payload)
      <4>1. f.box = i
        BY <3>1, <3>3, AloneBox DEF Genuine
      <4> QED
        BY <2>10, <3>3, <4>1 DEF Unmarshal, Genuine
    <3> QED
      BY <2>0, <3>1, <3>2, <3>3
  <2>8. CASE UNCHANGED bvars
    BY <2>8 DEF bvars, DecodeAloneExact, DeliversGenuine, Genuine, TokenText
  <2> QED
    BY <2>2, <2>3, <2>4, <2>5, <2>6, <2>7, <2>8, <2>9, <2>10 DEF BNext, Step
<1> QED
  BY <1>1, <1>2, SealedInvariant, DecodeInvariant, BoxInvariant, PTL DEF BSpec
=============================================================================
