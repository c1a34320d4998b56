--------------------------- MODULE EncodingProofs ---------------------------
(***************************************************************************)
(* Proofs about encoding.js: base64url texts and JSON texts of any length, *)
(* what JSON.stringify makes of what was read, and the numbers that digits *)
(* of any length spell.                                                    *)
(*                                                                         *)
(* The provers cannot instantiate an induction rule that is stated with an *)
(* operator, so induction is stated with a set: a set of naturals has a    *)
(* least element (Least, from well-foundedness), therefore a set that      *)
(* contains zero and every successor contains every natural (Induction).   *)
(***************************************************************************)
EXTENDS Base64url, JsonPrinter, WellFoundedInduction, SequenceTheorems, TLAPS

\* Every set of naturals that is not empty has a least element.
LEMMA Least ==
  ASSUME NEW T, T \subseteq Nat, T # {}
  PROVE  \E n \in T : \A k \in T : n <= k
<1> DEFINE R == {ss \in Nat \X Nat : ss[1] < ss[2]}
<1>1. IsWellFoundedOn(R, Nat)
  BY NatLessThanWellFounded DEF OpToRel
<1>2. PICK x \in T : \A y \in T : ~(<<y, x>> \in R)
  <2> HIDE DEF R
  <2> QED
    BY <1>1, WFMin
<1>3. \A y \in T : ~(y < x)
  <2> SUFFICES ASSUME NEW y \in T, y < x PROVE FALSE
    OBVIOUS
  <2>1. <<y, x>> \in Nat \X Nat
    OBVIOUS
  <2>2. <<y, x>> \in R
    BY <2>1
  <2> QED
    BY <1>2, <2>2
<1> QED
  BY <1>3

\* Induction over the naturals.
LEMMA Induction ==
  ASSUME NEW T, 0 \in T, \A n \in Nat : n \in T => n + 1 \in T
  PROVE  Nat \subseteq T
<1> SUFFICES ASSUME Nat \ T # {} PROVE FALSE
  OBVIOUS
<1>1. PICK n \in Nat \ T : \A k \in Nat \ T : n <= k
  BY Least, Nat \ T \subseteq Nat
<1>2. n # 0 /\ n - 1 \in Nat /\ n - 1 \notin Nat \ T
  BY <1>1
<1> QED
  BY <1>2, (n - 1) + 1 = n

-----------------------------------------------------------------------------
(* The recursive function of Number exists.                                 *)

\* f holds the numbers that the first digits of d spell, up to the m-th.
Spells(f, b, d, m) ==
  f \in [0..m -> Nat] /\ f[0] = 0 /\ \A n \in 1..m : f[n] = b * f[n - 1] + d[n]

\* The function of the first digits extends to one digit more.
LEMMA SpellsOneMore ==
  ASSUME NEW b \in Nat, NEW d \in Seq(Nat), NEW m \in Nat, m + 1 <= Len(d),
         NEW f, Spells(f, b, d, m)
  PROVE  \E g : Spells(g, b, d, m + 1)
<1> DEFINE last == b * f[m] + d[m + 1]
           g    == [n \in 0..(m + 1) |-> IF n <= m THEN f[n] ELSE last]
<1>1. f \in [0..m -> Nat] /\ f[0] = 0 /\ \A n \in 1..m : f[n] = b * f[n - 1] + d[n]
  BY DEF Spells
<1>2. last \in Nat
  <2>1. f[m] \in Nat /\ d[m + 1] \in Nat
    BY <1>1
  <2>2. b * f[m] \in Nat
    BY <2>1
  <2> QED
    BY <2>1, <2>2
<1>3. ASSUME NEW n \in 1..(m + 1)
      PROVE  g[n] = b * g[n - 1] + d[n]
  <2>1. CASE n = m + 1
    BY <2>1
  <2>2. CASE n \in 1..m
    BY <1>1, <2>2
  <2> QED
    BY <2>1, <2>2
<1>4. g \in [0..(m + 1) -> Nat] /\ g[0] = 0
  <2> HIDE DEF last
  <2> QED
    BY <1>1, <1>2
<1> HIDE DEF g
<1> QED
  BY <1>3, <1>4 DEF Spells

\* By induction on the number of digits, there is one for all of them.
LEMMA SpellsExists ==
  ASSUME NEW b \in Nat, NEW d \in Seq(Nat)
  PROVE  \E f : Spells(f, b, d, Len(d))
<1> DEFINE T == {m \in Nat : m <= Len(d) => \E f : Spells(f, b, d, m)}
<1>1. 0 \in T
  <2>1. Spells([n \in 0..0 |-> 0], b, d, 0)
    BY DEF Spells
  <2> QED
    BY <2>1
<1>2. ASSUME NEW m \in Nat, m \in T PROVE m + 1 \in T
  BY <1>2, SpellsOneMore
<1>3. Nat \subseteq T
  <2> HIDE DEF T
  <2> QED
    BY <1>1, <1>2, Induction
<1> QED
  BY <1>3

\* Number follows its recursion.
LEMMA NumberIsSpelled ==
  ASSUME NEW b \in Nat, NEW d \in Seq(Nat)
  PROVE  \E f : Spells(f, b, d, Len(d)) /\ Number(b, d) = f[Len(d)]
<1> DEFINE F(f) == [n \in 0..Len(d) |-> IF n = 0 THEN 0 ELSE b * f[n - 1] + d[n]]
           upTo == CHOOSE f : f = F(f)
<1>1. PICK f : Spells(f, b, d, Len(d))
  BY SpellsExists
<1>2. f = F(f)
  BY <1>1 DEF Spells
<1>3. upTo = F(upTo)
  <2> HIDE DEF F
  <2> QED
    BY <1>2
<1>4. Number(b, d) = upTo[Len(d)]
  BY DEF Number
<1> HIDE DEF upTo
<1>5. upTo[0] = 0 /\ \A n \in 1..Len(d) : upTo[n] = b * upTo[n - 1] + d[n]
  <2>1. \A g : \A n \in 0..Len(d) : F(g)[n] = IF n = 0 THEN 0 ELSE b * g[n - 1] + d[n]
    OBVIOUS
  <2>2. \A n \in 0..Len(d) : upTo[n] = IF n = 0 THEN 0 ELSE b * upTo[n - 1] + d[n]
    <3> HIDE DEF F
    <3> QED
      BY <1>3, <2>1, Zenon
  <2>3. Len(d) \in Nat /\ 0 \in 0..Len(d) /\ \A n \in 1..Len(d) : n \in 0..Len(d) /\ n # 0
    OBVIOUS
  <2> QED
    BY <2>2, <2>3, Zenon
<1>6. \A n \in 0..Len(d) : upTo[n] = f[n]
  <2> DEFINE T == {n \in Nat : n <= Len(d) => upTo[n] = f[n]}
  <2>1. 0 \in T
    BY <1>1, <1>5 DEF Spells
  <2>2. ASSUME NEW n \in Nat, n \in T PROVE n + 1 \in T
    <3> SUFFICES ASSUME n + 1 <= Len(d) PROVE upTo[n + 1] = f[n + 1]
      OBVIOUS
    <3>1. n + 1 \in 1..Len(d) /\ (n + 1) - 1 = n /\ upTo[n] = f[n]
      BY <2>2
    <3>2. upTo[n + 1] = b * upTo[n] + d[n + 1] /\ f[n + 1] = b * f[n] + d[n + 1]
      BY <1>1, <1>5, <3>1 DEF Spells
    <3> QED
      BY <3>1, <3>2
  <2>3. Nat \subseteq T
    <3> HIDE DEF T
    <3> QED
      BY <2>1, <2>2, Induction
  <2> QED
    BY <2>3
<1> QED
  BY <1>1, <1>4, <1>6

-----------------------------------------------------------------------------
(* What a further digit and further digits do to a number.                  *)

SameDigits(d, e, m) == \A n \in 1..m : d[n] = e[n]

\* The numbers that the first digits spell depend on those digits only.
LEMMA SpellsAgree ==
  ASSUME NEW b \in Nat, NEW d, NEW e, NEW m \in Nat, SameDigits(d, e, m),
         NEW f, Spells(f, b, d, m), NEW l \in Nat, m <= l, NEW g, Spells(g, b, e, l)
  PROVE  f[m] = g[m]
<1> DEFINE T == {n \in Nat : n <= m => f[n] = g[n]}
<1>1. 0 \in T
  BY DEF Spells
<1>2. ASSUME NEW n \in Nat, n \in T PROVE n + 1 \in T
  <2> SUFFICES ASSUME n + 1 <= m PROVE f[n + 1] = g[n + 1]
    OBVIOUS
  <2>1. n + 1 \in 1..m /\ n + 1 \in 1..l /\ (n + 1) - 1 = n /\ f[n] = g[n]
    BY <1>2
  <2>2. f[n + 1] = b * f[n] + d[n + 1] /\ g[n + 1] = b * g[n] + e[n + 1]
    BY <2>1 DEF Spells
  <2> QED
    BY <2>1, <2>2 DEF SameDigits
<1>3. Nat \subseteq T
  <2> HIDE DEF T
  <2> QED
    BY <1>1, <1>2, Induction
<1> QED
  BY <1>3

\* The three facts that define Number on sequences.
LEMMA NumberFacts ==
  ASSUME NEW b \in Nat
  PROVE  /\ Number(b, <<>>) = 0
         /\ \A d \in Seq(Nat) : Number(b, d) \in Nat
         /\ \A d \in Seq(Nat), x \in Nat : Number(b, Append(d, x)) = b * Number(b, d) + x
<1>1. Number(b, <<>>) = 0
  <2>1. <<>> \in Seq(Nat) /\ Len(<<>>) = 0
    OBVIOUS
  <2> QED
    BY <2>1, NumberIsSpelled DEF Spells
<1>2. ASSUME NEW d \in Seq(Nat) PROVE Number(b, d) \in Nat
  <2>1. PICK f : Spells(f, b, d, Len(d)) /\ Number(b, d) = f[Len(d)]
    BY NumberIsSpelled
  <2>2. Len(d) \in 0..Len(d)
    OBVIOUS
  <2> QED
    BY <2>1, <2>2 DEF Spells
<1>3. ASSUME NEW d \in Seq(Nat), NEW x \in Nat
      PROVE  Number(b, Append(d, x)) = b * Number(b, d) + x
  <2> DEFINE e == Append(d, x)
             m == Len(d)
  <2>1. e \in Seq(Nat) /\ Len(e) = m + 1 /\ m \in Nat /\ e[m + 1] = x
    OBVIOUS
  <2>2. SameDigits(d, e, m)
    BY DEF SameDigits
  <2> HIDE DEF e
  <2>3. PICK f : Spells(f, b, d, m) /\ Number(b, d) = f[m]
    BY NumberIsSpelled
  <2>4. PICK g : Spells(g, b, e, m + 1) /\ Number(b, e) = g[m + 1]
    BY <2>1, NumberIsSpelled
  <2>5. f[m] = g[m]
    <3>1. m \in Nat /\ m + 1 \in Nat /\ m <= m + 1
      BY <2>1
    <3> HIDE DEF m
    <3> QED
      BY <2>2, <2>3, <2>4, <3>1, SpellsAgree
  <2>6. g[m + 1] = b * g[m] + e[m + 1]
    <3>1. m + 1 \in 1..(m + 1) /\ (m + 1) - 1 = m
      BY <2>1
    <3> QED
      BY <2>4, <3>1 DEF Spells
  <2> QED
    BY <2>1, <2>3, <2>4, <2>5, <2>6 DEF e
<1> QED
  BY <1>1, <1>2, <1>3

\* Zeros may be appended one at a time.
LEMMA ZerosFacts ==
  ASSUME NEW n \in Nat
  PROVE  /\ Zeros(n) \in Seq(Nat) /\ Len(Zeros(n)) = n
         /\ Zeros(0) = <<>> /\ Zeros(n + 1) = Append(Zeros(n), 0)
BY DEF Zeros

\* Powers of ten.
LEMMA TenToFacts ==
  TenTo(0) = 1 /\ \A n \in Nat : TenTo(n) \in Nat /\ TenTo(n + 1) = 10 * TenTo(n)
<1>1. TenTo(0) = 1
  <2>1. <<1>> \o Zeros(0) = Append(<<>>, 1) /\ <<>> \in Seq(Nat)
    BY DEF Zeros
  <2>2. Number(10, <<>>) = 0 /\ Number(10, Append(<<>>, 1)) = 10 * Number(10, <<>>) + 1
    BY <2>1, NumberFacts
  <2>3. TenTo(0) = Number(10, Append(<<>>, 1))
    BY <2>1, Zenon DEF TenTo
  <2> QED
    BY <2>2, <2>3
<1>2. ASSUME NEW n \in Nat PROVE TenTo(n) \in Nat /\ TenTo(n + 1) = 10 * TenTo(n)
  <2> DEFINE d == <<1>> \o Zeros(n)
  <2>1. d \in Seq(Nat)
    BY ZerosFacts
  <2>2. <<1>> \o Zeros(n + 1) = Append(d, 0)
    BY DEF Zeros
  <2>3. TenTo(n) = Number(10, d) /\ TenTo(n + 1) = Number(10, Append(d, 0))
    BY <2>2, Zenon DEF TenTo
  <2> HIDE DEF d
  <2>4. Number(10, d) \in Nat /\ Number(10, Append(d, 0)) = 10 * Number(10, d) + 0
    BY <2>1, NumberFacts
  <2> QED
    BY <2>3, <2>4
<1> QED
  BY <1>1, <1>2

\* A sequence that is not empty is what precedes its last element, and that element.
LEMMA SplitLast ==
  ASSUME NEW S, NEW e \in Seq(S), NEW n \in Nat, Len(e) = n + 1
  PROVE  /\ SubSeq(e, 1, n) \in Seq(S) /\ Len(SubSeq(e, 1, n)) = n /\ e[n + 1] \in S
         /\ e = Append(SubSeq(e, 1, n), e[n + 1])
<1> DEFINE u == SubSeq(e, 1, n)
<1>1. u \in Seq(S) /\ Len(u) = n /\ e[n + 1] \in S /\ \A i \in 1..n : u[i] = e[i]
  OBVIOUS
<1> HIDE DEF u
<1>2. /\ Append(u, e[n + 1]) \in Seq(S) /\ Len(Append(u, e[n + 1])) = n + 1
      /\ \A i \in 1..(n + 1) : Append(u, e[n + 1])[i] = e[i]
  BY <1>1
<1>3. e = Append(u, e[n + 1])
  BY <1>2, SeqEqual
<1> QED
  BY <1>1, <1>3 DEF u

\* Digits behind others leave those worth as many places more.
LEMMA NumberConcat ==
  ASSUME NEW a \in Seq(Nat), NEW c \in Seq(Nat)
  PROVE  Number(10, a \o c) = Number(10, a) * TenTo(Len(c)) + Number(10, c)
<1> DEFINE P(e) == Number(10, a \o e) = Number(10, a) * TenTo(Len(e)) + Number(10, e)
           T    == {n \in Nat : \A e \in Seq(Nat) : Len(e) = n => P(e)}
<1>1. 0 \in T
  <2> SUFFICES ASSUME NEW e \in Seq(Nat), Len(e) = 0 PROVE P(e)
    OBVIOUS
  <2>1. e = <<>> /\ a \o e = a
    OBVIOUS
  <2>2. Number(10, a) \in Nat /\ Number(10, <<>>) = 0 /\ TenTo(0) = 1
    BY NumberFacts, TenToFacts
  <2> QED
    BY <2>1, <2>2
<1>2. ASSUME NEW n \in Nat, n \in T PROVE n + 1 \in T
  <2> SUFFICES ASSUME NEW e \in Seq(Nat), Len(e) = n + 1 PROVE P(e)
    OBVIOUS
  <2> DEFINE u == SubSeq(e, 1, n)
             x == e[n + 1]
  <2>1. u \in Seq(Nat) /\ Len(u) = n /\ x \in Nat /\ e = Append(u, x)
    BY SplitLast
  <2> HIDE DEF u, x
  <2>2. a \o e = Append(a \o u, x) /\ a \o u \in Seq(Nat)
    BY <2>1
  <2>3. P(u)
    BY <1>2, <2>1
  <2>4. /\ Number(10, a) \in Nat /\ Number(10, u) \in Nat
        /\ Number(10, e) = 10 * Number(10, u) + x
        /\ Number(10, a \o e) = 10 * Number(10, a \o u) + x
    <3> HIDE DEF P, T
    <3>1. /\ \A d \in Seq(Nat) : Number(10, d) \in Nat
          /\ \A d \in Seq(Nat), y \in Nat : Number(10, Append(d, y)) = 10 * Number(10, d) + y
      BY NumberFacts, 10 \in Nat
    <3> QED
      BY <2>1, <2>2, <3>1
  <2>5. TenTo(n) \in Nat /\ TenTo(n + 1) = 10 * TenTo(n)
    BY TenToFacts
  <2>6. \A A, C, t \in Nat : 10 * (A * t + C) + x = A * (10 * t) + (10 * C + x)
    BY <2>1
  <2> QED
    BY <2>1, <2>3, <2>4, <2>5, <2>6
<1>3. Nat \subseteq T
  <2> HIDE DEF T
  <2> QED
    BY <1>1, <1>2, Induction
<1> QED
  BY <1>3

\* Zeros behind digits scale them.
LEMMA NumberZeros ==
  ASSUME NEW n \in Nat
  PROVE  Number(10, Zeros(n)) = 0
<1> DEFINE T == {k \in Nat : Number(10, Zeros(k)) = 0}
<1>1. 0 \in T
  BY ZerosFacts, NumberFacts
<1>2. ASSUME NEW k \in Nat, k \in T PROVE k + 1 \in T
  <2>1. Number(10, Append(Zeros(k), 0)) = 10 * Number(10, Zeros(k)) + 0
    BY ZerosFacts, NumberFacts
  <2>2. Zeros(k + 1) = Append(Zeros(k), 0)
    BY ZerosFacts
  <2>3. Number(10, Zeros(k)) = 0
    BY <1>2
  <2>4. Number(10, Zeros(k + 1)) = 10 * 0 + 0
    BY <2>1, <2>2, <2>3, Zenon
  <2> QED
    BY <2>4
<1>3. Nat \subseteq T
  <2> HIDE DEF T
  <2> QED
    BY <1>1, <1>2, Induction
<1> QED
  BY <1>3

\* A power of ten is a product of powers of ten.
LEMMA TenToSum ==
  ASSUME NEW m \in Nat, NEW n \in Nat
  PROVE  TenTo(m + n) = TenTo(m) * TenTo(n)
<1> DEFINE d == <<1>> \o Zeros(m)
<1>1. <<1>> \o Zeros(m + n) = d \o Zeros(n)
  BY DEF Zeros
<1>2. d \in Seq(Nat) /\ Zeros(n) \in Seq(Nat) /\ Len(Zeros(n)) = n
  BY ZerosFacts
<1> HIDE DEF d
<1>3. Number(10, d \o Zeros(n)) = Number(10, d) * TenTo(n) + 0
  BY <1>2, NumberConcat, NumberZeros
<1>4. Number(10, d) \in Nat /\ TenTo(n) \in Nat
  BY <1>2, NumberFacts, TenToFacts
<1>5. TenTo(m + n) = Number(10, d \o Zeros(n)) /\ TenTo(m) = Number(10, d)
  BY <1>1, Zenon DEF TenTo, d
<1> QED
  BY <1>3, <1>4, <1>5
-----------------------------------------------------------------------------
(* The bits of a number, and numbers by their bits.                         *)

\* Quotients of naturals are naturals.
LEMMA Quotient ==
  ASSUME NEW a \in Nat, NEW b \in Nat \ {0}
  PROVE  a \div b \in Nat
OBVIOUS

\* What is left over by two is a bit.
LEMMA Parity ==
  ASSUME NEW a \in Nat
  PROVE  a % 2 \in 0..1
OBVIOUS

\* Halving again and again.
LEMMA Halves ==
  ASSUME NEW x \in Nat
  PROVE  /\ x \div 1 = x /\ (x \div 2) \div 2 = x \div 4 /\ (x \div 4) \div 2 = x \div 8
         /\ (x \div 8) \div 2 = x \div 16 /\ (x \div 16) \div 2 = x \div 32
         /\ (x \div 32) \div 2 = x \div 64 /\ (x \div 64) \div 2 = x \div 128
OBVIOUS

\* The powers of two by which bits are counted.
LEMMA Powers ==
  ASSUME NEW e \in 0..7
  PROVE  2^e \in Nat \ {0}
<1>1. CASE e = 0
  BY <1>1
<1>2. CASE e = 1
  BY <1>2
<1>3. CASE e = 2
  BY <1>3
<1>4. CASE e = 3
  BY <1>4
<1>5. CASE e = 4
  BY <1>5
<1>6. CASE e = 5
  BY <1>6
<1>7. CASE e = 6
  BY <1>7
<1>8. CASE e = 7
  BY <1>8
<1> QED
  BY <1>1, <1>2, <1>3, <1>4, <1>5, <1>6, <1>7, <1>8

\* Place n of numbers of w bits: in which number and where in it.
LEMMA SixPlaces ==
  ASSUME NEW n \in Nat
  PROVE  \E k \in Nat, j \in 0..5 : n = 6 * k + j
<1>1. PICK k, j : k = n \div 6 /\ j = n % 6
  OBVIOUS
<1>2. k \in Nat
  BY <1>1
<1>3. j \in 0..5
  BY <1>1
<1>4. n = 6 * k + j
  BY <1>1, <1>2, <1>3
<1> QED
  BY <1>2, <1>3, <1>4

\* Every bit lies in some byte,
LEMMA EightPlaces ==
  ASSUME NEW n \in Nat
  PROVE  \E k \in Nat, j \in 0..7 : n = 8 * k + j
<1>1. PICK k, j : k = n \div 8 /\ j = n % 8
  OBVIOUS
<1>2. k \in Nat
  BY <1>1
<1>3. j \in 0..7
  BY <1>1
<1>4. n = 8 * k + j
  BY <1>1, <1>2, <1>3
<1> QED
  BY <1>2, <1>3, <1>4

\* and in some character.
LEMMA Places ==
  ASSUME NEW w \in {6, 8}, NEW n \in Nat
  PROVE  \E k \in Nat, j \in 0..(w - 1) : n = w * k + j
<1>1. CASE w = 6
  BY <1>1, SixPlaces
<1>2. CASE w = 8
  BY <1>2, EightPlaces
<1> QED
  BY <1>1, <1>2

\* In one of them only, at one place.
LEMMA PlaceIsUnique ==
  ASSUME NEW w \in {6, 8}, NEW k \in Nat, NEW j \in 0..(w - 1)
  PROVE  (w * k + j) \div w = k /\ (w * k + j) % w = j
<1>1. CASE w = 6
  <2>1. (6 * k + j) \div 6 = k /\ (6 * k + j) % 6 = j
    BY <1>1
  <2> QED
    BY <1>1, <2>1
<1>2. CASE w = 8
  <2>1. (8 * k + j) \div 8 = k /\ (8 * k + j) % 8 = j
    BY <1>2
  <2> QED
    BY <1>2, <2>1
<1> QED
  BY <1>1, <1>2

\* A number with six bits,
LEMMA BelowSixtyFour ==
  ASSUME NEW x \in Nat, x \div 32 \in 0..1
  PROVE  x \in 0..63
OBVIOUS

\* one with eight,
LEMMA BelowTwoFiftySix ==
  ASSUME NEW x \in Nat, x \div 128 \in 0..1
  PROVE  x \in 0..255
OBVIOUS

\* and one with one.
LEMMA OnlyBit ==
  ASSUME NEW x \in Nat, x \div 2 = 0
  PROVE  x \in 0..1
OBVIOUS

\* The last of some bits is the parity of what they spell, the others spell its half.
LEMMA BitsOfSpelled ==
  ASSUME NEW m \in Nat, NEW d \in Seq(0..1), Len(d) = m, NEW f, Spells(f, 2, d, m)
  PROVE  \A n \in 1..m : f[n] \in Nat /\ f[n] \div 2 = f[n - 1] /\ f[n] % 2 = d[n]
<1> SUFFICES ASSUME NEW n \in 1..m
             PROVE  f[n] \in Nat /\ f[n] \div 2 = f[n - 1] /\ f[n] % 2 = d[n]
  OBVIOUS
<1>1. PICK a, b, c : a = f[n - 1] /\ b = d[n] /\ c = f[n]
  OBVIOUS
<1>2. a \in Nat /\ c = 2 * a + b
  BY <1>1 DEF Spells
<1>3. b \in 0..1
  BY <1>1
<1>4. c \in Nat /\ c \div 2 = a /\ c % 2 = b
  BY <1>2, <1>3
<1> QED
  BY <1>1, <1>4

\* A number that is spelled with six bits has those bits.
LEMMA SixBits ==
  ASSUME NEW d \in Seq(0..1), Len(d) = 6
  PROVE  /\ Number(2, d) \in 0..63
         /\ \A j \in 0..5 : (Number(2, d) \div 2^(6 - 1 - j)) % 2 = d[j + 1]
<1>1. PICK f : Spells(f, 2, d, 6) /\ Number(2, d) = f[6]
  BY NumberIsSpelled, Seq(0..1) \subseteq Seq(Nat)
<1>2. \A n \in 1..6 : f[n] \in Nat /\ f[n] \div 2 = f[n - 1] /\ f[n] % 2 = d[n]
  BY <1>1, BitsOfSpelled, 6 \in Nat, Zenon
<1>3. PICK x : x = f[6]
  OBVIOUS
<1>4. x \in Nat
  BY <1>2, <1>3, 6 \in 1..6
<1>5. /\ x \div 1 = x
      /\ (x \div 2) \div 2 = x \div 4
      /\ (x \div 4) \div 2 = x \div 8
      /\ (x \div 8) \div 2 = x \div 16
      /\ (x \div 16) \div 2 = x \div 32
  BY <1>4, Halves
<1>6. x \div 1 = f[6] /\ x % 2 = d[6]
  BY <1>2, <1>3, <1>5, 6 \in 1..6
<1>7. x \div 2 = f[5] /\ f[5] % 2 = d[5]
  BY <1>2, <1>3, 6 \in 1..6, 6 - 1 = 5, 5 \in 1..6
<1>8. x \div 4 = f[4] /\ f[4] % 2 = d[4]
  BY <1>2, <1>5, <1>7, 5 \in 1..6, 5 - 1 = 4, 4 \in 1..6
<1>9. x \div 8 = f[3] /\ f[3] % 2 = d[3]
  BY <1>2, <1>5, <1>8, 4 \in 1..6, 4 - 1 = 3, 3 \in 1..6
<1>10. x \div 16 = f[2] /\ f[2] % 2 = d[2]
  BY <1>2, <1>5, <1>9, 3 \in 1..6, 3 - 1 = 2, 2 \in 1..6
<1>11. x \div 32 = f[1] /\ f[1] % 2 = d[1]
  BY <1>2, <1>5, <1>10, 2 \in 1..6, 2 - 1 = 1, 1 \in 1..6
<1>12. f[1] \in 0..1 /\ x \in 0..63
  <2>1. f[0] = 0 /\ 1 - 1 = 0 /\ 1 \in 1..6
    BY <1>1 DEF Spells
  <2>2. f[1] \in 0..1
    BY <1>2, <2>1, OnlyBit
  <2> QED
    BY <1>4, <1>11, <2>2, BelowSixtyFour
<1>13. ASSUME NEW j \in 0..5 PROVE (x \div 2^(6 - 1 - j)) % 2 = d[j + 1]
  <2>1. CASE j = 0
    BY <1>11, <2>1
  <2>2. CASE j = 1
    BY <1>10, <2>2
  <2>3. CASE j = 2
    BY <1>9, <2>3
  <2>4. CASE j = 3
    BY <1>8, <2>4
  <2>5. CASE j = 4
    BY <1>7, <2>5
  <2>6. CASE j = 5
    BY <1>3, <1>6, <2>6
  <2> QED
    BY <2>1, <2>2, <2>3, <2>4, <2>5, <2>6
<1> QED
  BY <1>1, <1>3, <1>12, <1>13

\* A number that is spelled with eight bits has those bits.
LEMMA EightBits ==
  ASSUME NEW d \in Seq(0..1), Len(d) = 8
  PROVE  /\ Number(2, d) \in 0..255
         /\ \A j \in 0..7 : (Number(2, d) \div 2^(8 - 1 - j)) % 2 = d[j + 1]
<1>1. PICK f : Spells(f, 2, d, 8) /\ Number(2, d) = f[8]
  BY NumberIsSpelled, Seq(0..1) \subseteq Seq(Nat)
<1>2. \A n \in 1..8 : f[n] \in Nat /\ f[n] \div 2 = f[n - 1] /\ f[n] % 2 = d[n]
  BY <1>1, BitsOfSpelled, 8 \in Nat, Zenon
<1>3. PICK x : x = f[8]
  OBVIOUS
<1>4. x \in Nat
  BY <1>2, <1>3, 8 \in 1..8
<1>5. /\ x \div 1 = x
      /\ (x \div 2) \div 2 = x \div 4
      /\ (x \div 4) \div 2 = x \div 8
      /\ (x \div 8) \div 2 = x \div 16
      /\ (x \div 16) \div 2 = x \div 32
      /\ (x \div 32) \div 2 = x \div 64
      /\ (x \div 64) \div 2 = x \div 128
  BY <1>4, Halves
<1>6. x \div 1 = f[8] /\ x % 2 = d[8]
  BY <1>2, <1>3, <1>5, 8 \in 1..8
<1>7. x \div 2 = f[7] /\ f[7] % 2 = d[7]
  BY <1>2, <1>3, 8 \in 1..8, 8 - 1 = 7, 7 \in 1..8
<1>8. x \div 4 = f[6] /\ f[6] % 2 = d[6]
  BY <1>2, <1>5, <1>7, 7 \in 1..8, 7 - 1 = 6, 6 \in 1..8
<1>9. x \div 8 = f[5] /\ f[5] % 2 = d[5]
  BY <1>2, <1>5, <1>8, 6 \in 1..8, 6 - 1 = 5, 5 \in 1..8
<1>10. x \div 16 = f[4] /\ f[4] % 2 = d[4]
  BY <1>2, <1>5, <1>9, 5 \in 1..8, 5 - 1 = 4, 4 \in 1..8
<1>11. x \div 32 = f[3] /\ f[3] % 2 = d[3]
  BY <1>2, <1>5, <1>10, 4 \in 1..8, 4 - 1 = 3, 3 \in 1..8
<1>12. x \div 64 = f[2] /\ f[2] % 2 = d[2]
  BY <1>2, <1>5, <1>11, 3 \in 1..8, 3 - 1 = 2, 2 \in 1..8
<1>13. x \div 128 = f[1] /\ f[1] % 2 = d[1]
  BY <1>2, <1>5, <1>12, 2 \in 1..8, 2 - 1 = 1, 1 \in 1..8
<1>14. f[1] \in 0..1 /\ x \in 0..255
  <2>1. f[0] = 0 /\ 1 - 1 = 0 /\ 1 \in 1..8
    BY <1>1 DEF Spells
  <2>2. f[1] \in 0..1
    BY <1>2, <2>1, OnlyBit
  <2> QED
    BY <1>4, <1>13, <2>2, BelowTwoFiftySix
<1>15. ASSUME NEW j \in 0..7 PROVE (x \div 2^(8 - 1 - j)) % 2 = d[j + 1]
  <2>1. CASE j = 0
    BY <1>13, <2>1
  <2>2. CASE j = 1
    BY <1>12, <2>2
  <2>3. CASE j = 2
    BY <1>11, <2>3
  <2>4. CASE j = 3
    BY <1>10, <2>4
  <2>5. CASE j = 4
    BY <1>9, <2>5
  <2>6. CASE j = 5
    BY <1>8, <2>6
  <2>7. CASE j = 6
    BY <1>7, <2>7
  <2>8. CASE j = 7
    BY <1>3, <1>6, <2>8
  <2> QED
    BY <2>1, <2>2, <2>3, <2>4, <2>5, <2>6, <2>7, <2>8
<1> QED
  BY <1>1, <1>3, <1>14, <1>15

\* The first bit of a byte.
LEMMA TopBit ==
  ASSUME NEW x \in 0..255
  PROVE  x \div 128 \in 0..1
OBVIOUS

\* Numbers with the same last bit and the same others are the same.
LEMMA SameHalves ==
  ASSUME NEW x \in Nat, NEW y \in Nat, x \div 2 = y \div 2, x % 2 = y % 2
  PROVE  x = y
OBVIOUS

\* A bit is its own last bit.
LEMMA OneBit ==
  ASSUME NEW x \in 0..1
  PROVE  x % 2 = x
OBVIOUS

\* Two bytes with the same bits are one byte.
LEMMA SameBits ==
  ASSUME NEW x \in 0..255, NEW y \in 0..255,
         \A j \in 0..7 : (x \div 2^(8 - 1 - j)) % 2 = (y \div 2^(8 - 1 - j)) % 2
  PROVE  x = y
<1> DEFINE SameAt(j) == (x \div 2^(8 - 1 - j)) % 2 = (y \div 2^(8 - 1 - j)) % 2
<1>1. \A j \in 0..7 : SameAt(j)
  OBVIOUS
<1> HIDE DEF SameAt
<1>2. /\ SameAt(0) /\ SameAt(1) /\ SameAt(2) /\ SameAt(3)
      /\ SameAt(4) /\ SameAt(5) /\ SameAt(6) /\ SameAt(7)
  BY <1>1, 0 \in 0..7, 1 \in 0..7, 2 \in 0..7, 3 \in 0..7, 4 \in 0..7, 5 \in 0..7, 6 \in 0..7,
     7 \in 0..7
<1>3. /\ (x \div 128) % 2 = (y \div 128) % 2 /\ (x \div 64) % 2 = (y \div 64) % 2
      /\ (x \div 32) % 2 = (y \div 32) % 2 /\ (x \div 16) % 2 = (y \div 16) % 2
      /\ (x \div 8) % 2 = (y \div 8) % 2 /\ (x \div 4) % 2 = (y \div 4) % 2
      /\ (x \div 2) % 2 = (y \div 2) % 2 /\ (x \div 1) % 2 = (y \div 1) % 2
  BY <1>2 DEF SameAt
<1>4. x \in Nat /\ y \in Nat
  OBVIOUS
<1> DEFINE Q(a) == \A p \in {1, 2, 4, 8, 16, 32, 64, 128} : a \div p \in Nat
<1>5. Q(x) /\ Q(y)
  BY <1>4, Quotient
<1>6. x \div 128 = y \div 128
  BY <1>3, TopBit, OneBit
<1>7. x \div 64 = y \div 64
  BY <1>3, <1>4, <1>5, <1>6, Halves, SameHalves
<1>8. x \div 32 = y \div 32
  BY <1>3, <1>4, <1>5, <1>7, Halves, SameHalves
<1>9. x \div 16 = y \div 16
  BY <1>3, <1>4, <1>5, <1>8, Halves, SameHalves
<1>10. x \div 8 = y \div 8
  BY <1>3, <1>4, <1>5, <1>9, Halves, SameHalves
<1>11. x \div 4 = y \div 4
  BY <1>3, <1>4, <1>5, <1>10, Halves, SameHalves
<1>12. x \div 2 = y \div 2
  BY <1>3, <1>4, <1>5, <1>11, Halves, SameHalves
<1>13. x % 2 = y % 2
  BY <1>3, <1>4, Halves
<1> QED
  BY <1>4, <1>12, <1>13, SameHalves

-----------------------------------------------------------------------------
(* Base64url: the bits of characters and of bytes are the same bits.        *)

\* Bits are bits.
LEMMA BitType ==
  ASSUME NEW s \in Seq(Nat), NEW w \in {6, 8}, NEW n \in Nat
  PROVE  Bit(s, w, n) \in 0..1
<1>1. PICK k \in Nat, j \in 0..(w - 1) : n = w * k + j
  BY Places
<1>2. n \div w = k /\ n % w = j
  BY <1>1, PlaceIsUnique
<1> DEFINE e == w - 1 - j
           x == s[k + 1]
<1>3. Bit(s, w, n) = IF k + 1 > Len(s) THEN 0 ELSE (x \div 2^e) % 2
  BY <1>2, Zenon DEF Bit
<1>4. ~(k + 1 > Len(s)) => x \in Nat
  OBVIOUS
<1>5. 2^e \in Nat \ {0}
  <2>1. e \in 0..7
    OBVIOUS
  <2> HIDE DEF e
  <2> QED
    BY <2>1, Powers
<1> HIDE DEF e, x
<1>6. ~(k + 1 > Len(s)) => (x \div 2^e) % 2 \in 0..1
  BY <1>4, <1>5, Quotient, Parity
<1> QED
  BY <1>3, <1>6

\* A group consists of the bits it is made of.
LEMMA GroupBits ==
  ASSUME NEW s \in Seq(Nat), NEW v \in {6, 8}, NEW w \in {6, 8}, NEW k \in Nat
  PROVE  /\ Group(s, v, w, k + 1) \in IF w = 6 THEN 0..63 ELSE 0..255
         /\ \A j \in 0..(w - 1) :
              (Group(s, v, w, k + 1) \div 2^(w - 1 - j)) % 2 = Bit(s, v, w * k + j)
<1> DEFINE d == [n \in 1..w |-> Bit(s, v, w * ((k + 1) - 1) + n - 1)]
<1>1. \A n \in 1..w : w * ((k + 1) - 1) + n - 1 = w * k + (n - 1) /\ w * k + (n - 1) \in Nat
  <2>1. CASE w = 6
    BY <2>1
  <2>2. CASE w = 8
    BY <2>2
  <2> QED
    BY <2>1, <2>2
<1>2. \A n \in 1..w : d[n] = Bit(s, v, w * k + (n - 1)) /\ d[n] \in 0..1
  BY <1>1, BitType
<1>3. Group(s, v, w, k + 1) = Number(2, d)
  BY DEF Group
<1>4. \A j \in 0..(w - 1) : d[j + 1] = Bit(s, v, w * k + j)
  <2> SUFFICES ASSUME NEW j \in 0..(w - 1) PROVE d[j + 1] = Bit(s, v, w * k + j)
    OBVIOUS
  <2>1. j + 1 \in 1..w /\ (j + 1) - 1 = j
    OBVIOUS
  <2> HIDE DEF d
  <2> QED
    BY <1>2, <2>1
<1>5. d \in Seq(0..1) /\ Len(d) = w
  BY <1>2
<1> HIDE DEF d
<1>6. CASE w = 6
  <2>1. /\ Number(2, d) \in 0..63
        /\ \A j \in 0..5 : (Number(2, d) \div 2^(6 - 1 - j)) % 2 = d[j + 1]
    BY <1>5, <1>6, SixBits
  <2>2. 6 - 1 = 5
    OBVIOUS
  <2> QED
    BY <1>3, <1>4, <1>6, <2>1, <2>2, Zenon
<1>7. CASE w = 8
  <2>1. /\ Number(2, d) \in 0..255
        /\ \A j \in 0..7 : (Number(2, d) \div 2^(8 - 1 - j)) % 2 = d[j + 1]
    BY <1>5, <1>7, EightBits
  <2>2. 8 - 1 = 7 /\ w # 6
    BY <1>7
  <2> QED
    BY <1>3, <1>4, <1>7, <2>1, <2>2, Zenon
<1> QED
  BY <1>6, <1>7

\* Grouping loses no bit: the bits of the groups are those of what is grouped.
LEMMA BitOfGroups ==
  ASSUME NEW s \in Seq(Nat), NEW v \in {6, 8}, NEW w \in {6, 8}, NEW l \in Nat,
         NEW t, t = [k \in 1..l |-> Group(s, v, w, k)], NEW n \in Nat, n < w * l
  PROVE  Bit(t, w, n) = Bit(s, v, n)
<1>1. PICK k \in Nat, j \in 0..(w - 1) : n = w * k + j
  BY Places
<1>2. n \div w = k /\ n % w = j
  BY <1>1, PlaceIsUnique
<1>3. k + 1 \in 1..l
  <2>1. CASE w = 6
    BY <1>1, <2>1
  <2>2. CASE w = 8
    BY <1>1, <2>2
  <2> QED
    BY <2>1, <2>2
<1>4. Len(t) = l /\ t[k + 1] = Group(s, v, w, k + 1)
  BY <1>3
<1>5. ~(k + 1 > Len(t))
  BY <1>3, <1>4
<1>6. Bit(t, w, n) = (Group(s, v, w, k + 1) \div 2^(w - 1 - j)) % 2
  BY <1>2, <1>4, <1>5, Zenon DEF Bit
<1>7. (Group(s, v, w, k + 1) \div 2^(w - 1 - j)) % 2 = Bit(s, v, w * k + j)
  BY GroupBits
<1> QED
  BY <1>1, <1>6, <1>7, Zenon

\* Texts and bytes are sequences of naturals.
LEMMA Numbers ==
  /\ Seq(0..255) \subseteq Seq(Nat) /\ Seq(0..63) \subseteq Seq(Nat)
  /\ Seq(0..Other) \subseteq Seq(Nat)
<1>1. 0..255 \subseteq Nat /\ 0..63 \subseteq Nat /\ 0..Other \subseteq Nat
  BY DEF Other
<1>2. ASSUME NEW S, S \subseteq Nat PROVE Seq(S) \subseteq Seq(Nat)
  BY <1>2, SeqMonotonic
<1> QED
  BY <1>1, <1>2

\* What B64 and Atob return.
LEMMA TextType ==
  ASSUME NEW b \in Seq(Nat)
  PROVE  B64(b) \in Seq(0..63) /\ Len(B64(b)) = (8 * Len(b) + 5) \div 6
<1> DEFINE l == (8 * Len(b) + 5) \div 6
<1>1. l \in Nat
  BY Quotient
<1> HIDE DEF l
<1>2. ASSUME NEW k \in 1..l PROVE Group(b, 8, 6, k) \in 0..63
  <2>1. k - 1 \in Nat /\ (k - 1) + 1 = k
    OBVIOUS
  <2> QED
    BY <2>1, GroupBits
<1>3. B64(b) = [k \in 1..l |-> Group(b, 8, 6, k)]
  BY DEF B64, l
<1> QED
  BY <1>1, <1>2, <1>3 DEF l

\* A text decodes to as many bytes as its bits fill.
LEMMA BytesType ==
  ASSUME NEW s \in Seq(Nat)
  PROVE  Atob(s) \in Seq(0..255) /\ Len(Atob(s)) = (6 * Len(s)) \div 8
<1> DEFINE l == (6 * Len(s)) \div 8
<1>1. l \in Nat
  BY Quotient
<1> HIDE DEF l
<1>2. ASSUME NEW k \in 1..l PROVE Group(s, 6, 8, k) \in 0..255
  <2>1. k - 1 \in Nat /\ (k - 1) + 1 = k /\ 8 # 6
    OBVIOUS
  <2> QED
    BY <2>1, GroupBits
<1>3. Atob(s) = [k \in 1..l |-> Group(s, 6, 8, k)]
  BY DEF Atob, l
<1> QED
  BY <1>1, <1>2, <1>3 DEF l

\* As many characters as the bits of m bytes need hold m bytes and no more.
LEMMA TextLength ==
  ASSUME NEW m \in Nat, NEW l, l = (8 * m + 5) \div 6
  PROVE  l \in Nat /\ (6 * l) \div 8 = m /\ l % 4 # 1 /\ (m # 0 => l # 0) /\ 8 * m <= 6 * l
<1>1. PICK a, r : a = m \div 3 /\ r = m % 3
  OBVIOUS
<1>2. a \in Nat /\ r \in 0..2
  BY <1>1
<1>3. m = 3 * a + r
  BY <1>1, <1>2
<1>4. CASE r = 0
  <2>1. l = 4 * a
    BY <1>2, <1>3, <1>4
  <2>2. l % 4 = 0
    BY <1>2, <2>1
  <2>3. (6 * l) \div 8 = m
    BY <1>2, <1>3, <1>4, <2>1
  <2> QED
    BY <1>2, <1>3, <1>4, <2>1, <2>2, <2>3
<1>5. CASE r = 1
  <2>1. l = 4 * a + 2
    BY <1>2, <1>3, <1>5
  <2>2. l % 4 = 2
    BY <1>2, <2>1
  <2>3. (6 * l) \div 8 = m
    BY <1>2, <1>3, <1>5, <2>1
  <2> QED
    BY <1>2, <1>3, <1>5, <2>1, <2>2, <2>3
<1>6. CASE r = 2
  <2>1. l = 4 * a + 3
    BY <1>2, <1>3, <1>6
  <2>2. l % 4 = 3
    BY <1>2, <2>1
  <2>3. (6 * l) \div 8 = m
    BY <1>2, <1>3, <1>6, <2>1
  <2> QED
    BY <1>2, <1>3, <1>6, <2>1, <2>2, <2>3
<1> QED
  BY <1>2, <1>4, <1>5, <1>6

\* What is written is read back (encoding.js:10-21).
LEMMA ReadBack ==
  ASSUME NEW b \in Seq(0..255)
  PROVE  Atob(B64(b)) = b
<1> DEFINE t == B64(b)
           l == (8 * Len(b) + 5) \div 6
<1>1. b \in Seq(Nat) /\ Len(b) \in Nat /\ \A k \in 1..Len(b) : b[k] \in 0..255
  <2>1. b \in Seq(Nat)
    BY Numbers
  <2>2. ASSUME NEW k \in 1..Len(b) PROVE b[k] \in 0..255
    BY ElementOfSeq
  <2>3. Len(b) \in Nat
    BY LenProperties
  <2> QED
    BY <2>1, <2>2, <2>3
<1>2. t \in Seq(0..63) /\ Len(t) = l /\ t \in Seq(Nat)
  BY <1>1, TextType, Numbers
<1>3. t = [k \in 1..l |-> Group(b, 8, 6, k)]
  BY DEF B64
<1> HIDE DEF t, l
<1>4. l \in Nat /\ (6 * l) \div 8 = Len(b) /\ 8 * Len(b) <= 6 * l
  BY <1>1, TextLength DEF l
<1>5. Atob(t) \in Seq(0..255) /\ Len(Atob(t)) = Len(b)
  BY <1>2, <1>4, BytesType
<1>6. \A k \in 1..Len(b) : Atob(t)[k] = Group(t, 6, 8, k)
  BY <1>2, <1>4 DEF Atob
<1>7. ASSUME NEW k \in 1..Len(b) PROVE Group(t, 6, 8, k) = b[k]
  <2>1. k - 1 \in Nat /\ (k - 1) + 1 = k /\ 8 # 6
    BY <1>1
  <2>2. Group(t, 6, 8, k) \in 0..255 /\ b[k] \in 0..255
    BY <1>1, <1>2, <2>1, GroupBits
  <2>3. ASSUME NEW j \in 0..7
        PROVE  (Group(t, 6, 8, k) \div 2^(8 - 1 - j)) % 2 = (b[k] \div 2^(8 - 1 - j)) % 2
    <3> DEFINE n == 8 * (k - 1) + j
    <3>1. n \in Nat /\ n < 6 * l
      BY <1>1, <1>4
    <3>2. n \div 8 = k - 1 /\ n % 8 = j
      BY <2>1, PlaceIsUnique, j \in 0..(8 - 1)
    <3>3. (Group(t, 6, 8, k) \div 2^(8 - 1 - j)) % 2 = Bit(t, 6, n)
      BY <1>2, <2>1, GroupBits, j \in 0..(8 - 1)
    <3> HIDE DEF n
    <3>4. Bit(t, 6, n) = Bit(b, 8, n)
      BY <1>1, <1>3, <1>4, <3>1, BitOfGroups
    <3>5. ~(k > Len(b))
      BY <1>1
    <3>6. Bit(b, 8, n) = (b[k] \div 2^(8 - 1 - j)) % 2
      BY <2>1, <3>2, <3>5, Zenon DEF Bit
    <3> QED
      BY <3>3, <3>4, <3>6
  <2> QED
    BY <2>2, <2>3, SameBits
<1>8. Atob(t) \in Seq(Nat) /\ b \in Seq(Nat)
  BY <1>1, <1>5, Numbers
<1> QED
  BY <1>5, <1>6, <1>7, <1>8, SeqEqual DEF t

\* Bytes of any number are read from exactly one text, which is the one that is written
\* (encoding.js:10-21).
THEOREM TextsAreCanonical ==
  ASSUME NEW s \in Seq(Nat), NEW b \in Seq(0..255), b # <<>>
  PROVE  b \in Unb64(s) <=> s = B64(b)
<1>1. ASSUME b \in Unb64(s) PROVE s = B64(b)
  BY <1>1 DEF Unb64
<1>2. ASSUME s = B64(b) PROVE b \in Unb64(s)
  <2>1. b \in Seq(Nat) /\ Len(b) \in Nat \ {0}
    BY Numbers
  <2>2. s \in Seq(0..63) /\ Len(s) = (8 * Len(b) + 5) \div 6
    BY <1>2, <2>1, TextType
  <2>3. s # <<>> /\ Len(s) % 4 # 1
    BY <2>1, <2>2, TextLength
  <2>4. ASSUME NEW i \in DOMAIN s PROVE s[i] # Other
    <3>1. i \in 1..Len(s)
      BY <2>2, LenProperties
    <3>2. s[i] \in 0..63
      BY <2>2, <3>1, ElementOfSeq
    <3>3. Other \notin 0..63
      BY DEF Other
    <3> QED
      BY <3>2, <3>3
  <2>5. Atob(s) = b
    BY <1>2, ReadBack
  <2> QED
    BY <1>2, <2>3, <2>4, <2>5 DEF Unb64
<1> QED
  BY <1>1, <1>2

\* Every text: what it decodes to is written and read back, and no other text is accepted for
\* the same bytes (protocol.md:41-42).
THEOREM BytesHaveOneText ==
  ASSUME NEW s \in Seq(0..Other), NEW alphabet \in SUBSET (0..Other)
  PROVE  OneTextPerBytes(s, alphabet)
<1>1. s \in Seq(Nat)
  BY Numbers
<1>2. ASSUME Atob(s) # <<>> PROVE Unb64(B64(Atob(s))) = {Atob(s)}
  <2> DEFINE b == Atob(s)
             t == B64(b)
  <2>1. b \in Seq(0..255) /\ b \in Seq(Nat)
    BY <1>1, BytesType, Numbers
  <2>2. t \in Seq(Nat)
    BY <2>1, TextType, Numbers
  <2>3. b \in Unb64(t)
    BY <1>2, <2>1, <2>2, TextsAreCanonical
  <2>4. Unb64(t) \subseteq {Atob(t)}
    BY DEF Unb64
  <2>5. Atob(t) = b
    BY <2>1, ReadBack
  <2> QED
    BY <2>3, <2>4, <2>5
<1>3. ASSUME NEW u, u # s PROVE Unb64(u) \cap Unb64(s) = {}
  BY <1>3 DEF Unb64
<1> QED
  BY <1>2, <1>3 DEF OneTextPerBytes

-----------------------------------------------------------------------------
(* What strictJSON reads.                                                   *)

\* There is a character only within the text.
LEMMA CharFacts ==
  ASSUME NEW s, Len(s) \in Nat, NEW j \in 1..Len(s) + 1
  PROVE  /\ Char(s, j) # End => j <= Len(s)
         /\ j <= Len(s) => Char(s, j) = s[j]
         /\ End \notin {BeginObject, EndObject, BeginArray, EndArray, Colon, Comma, Space}
<1>1. End \notin {BeginObject, EndObject, BeginArray, EndArray, Colon, Comma, Space}
  BY Zenon DEF End, Space, BeginObject, EndObject, BeginArray, EndArray, Colon, Comma
<1> QED
  BY <1>1 DEF Char

\* ws() stops at the first lexeme that is no space, or at the end.
LEMMA WsFacts ==
  ASSUME NEW s, Len(s) \in Nat, NEW i \in 1..Len(s) + 1
  PROVE  /\ Ws(s, i) \in i..Len(s) + 1
         /\ Blank(s, i, Ws(s, i) - 1) /\ Char(s, Ws(s, i)) # Space
<1> DEFINE I == {j \in i..Len(s) + 1 : Char(s, j) # Space}
<1>1. Len(s) + 1 \in I /\ I \subseteq Nat
  <2>1. Char(s, Len(s) + 1) # Space
    <3>1. Len(s) + 1 \in 1..Len(s) + 1 /\ ~(Len(s) + 1 <= Len(s))
      OBVIOUS
    <3> QED
      BY <3>1, CharFacts DEF Char
  <2>2. Len(s) + 1 \in i..Len(s) + 1
    OBVIOUS
  <2>3. I \subseteq Nat
    OBVIOUS
  <2> QED
    BY <2>1, <2>2, <2>3
<1>2. PICK j \in I : \A k \in I : j <= k
  BY <1>1, Least
<1>3. Blank(s, i, j - 1)
  <2> SUFFICES ASSUME NEW k \in i..j - 1 PROVE s[k] = Space
    BY DEF Blank
  <2>1. k \notin I /\ k \in i..Len(s) + 1 /\ k <= Len(s)
    BY <1>1, <1>2
  <2> QED
    BY <2>1 DEF Char
<1>4. \E l \in i..Len(s) + 1 : Blank(s, i, l - 1) /\ Char(s, l) # Space
  BY <1>2, <1>3
<1> HIDE DEF I
<1> QED
  BY <1>4 DEF Ws

\* Nowhere else.
LEMMA WsUnique ==
  ASSUME NEW s, Len(s) \in Nat, NEW i \in 1..Len(s) + 1,
         NEW j \in i..Len(s) + 1, Blank(s, i, j - 1), Char(s, j) # Space
  PROVE  j = Ws(s, i)
<1>1. PICK l : l = Ws(s, i)
  OBVIOUS
<1>2. l \in i..Len(s) + 1 /\ Blank(s, i, l - 1) /\ Char(s, l) # Space
  BY <1>1, WsFacts
<1>3. ~(j < l)
  BY <1>2 DEF Blank, Char
<1>4. ~(l < j)
  BY <1>2 DEF Blank, Char
<1> QED
  BY <1>1, <1>2, <1>3, <1>4

-----------------------------------------------------------------------------
(* The parser exists: each call is for less of the text.                    *)

\* What is left to parse; a list begins where its first item begins.
Size(s, t) == 2 * (Len(s) + 1 - t.at) + (IF t.job = "value" THEN 0 ELSE 1)

\* A result of a call at i.
Found(s, i, r) == r = [value |-> r.value, next |-> r.next] /\ r.next \in i + 1..Len(s) + 1

\* f and g make the same of every task smaller than t, and something sensible.
Agree(f, g, s, t) ==
  \A u \in Tasks(s) : Size(s, u) < Size(s, t) =>
    f[u] = g[u] /\ \A r \in f[u] : Found(s, u.at, r)

\* A result with another value.
LEMMA Rewrapped ==
  ASSUME NEW s, Len(s) \in Nat, NEW i \in 1..Len(s) + 1, NEW j \in i..Len(s) + 1, NEW r,
         Found(s, j, r), NEW x
  PROVE  /\ Found(s, i, [r EXCEPT !.value = x])
         /\ [r EXCEPT !.value = x] = [value |-> x, next |-> r.next]
<1>1. [r EXCEPT !.value = x] = [value |-> x, next |-> r.next]
  BY DEF Found
<1>2. r.next \in j + 1..Len(s) + 1
  BY DEF Found
<1> QED
  BY <1>1, <1>2 DEF Found

\* After an item both go on alike.
LEMMA LoopAgrees ==
  ASSUME NEW s, Len(s) \in Nat, NEW t \in Tasks(s), NEW f, NEW g, Agree(f, g, s, t),
         NEW item, NEW i \in 1..Len(s) + 1, t.at < i, NEW close \in {EndArray, EndObject}
  PROVE  /\ Loop(f, s, item, i, close, t) = Loop(g, s, item, i, close, t)
         /\ \A r \in Loop(f, s, item, i, close, t) : Found(s, t.at, r)
<1>1. PICK end : end = Ws(s, i)
  OBVIOUS
<1>2. end \in i..Len(s) + 1 /\ end \in 1..Len(s) + 1 /\ t.at \in 1..Len(s) + 1 /\ Len(s) \in Nat
  <2>1. t.at \in 1..Len(s) + 1
    BY DEF Tasks
  <2>2. end \in i..Len(s) + 1
    BY <1>1, WsFacts, Zenon
  <2> QED
    BY <2>1, <2>2
<1>3. CASE Char(s, end) = close
  <2>1. end <= Len(s)
    BY <1>2, <1>3, CharFacts
  <2>2. Found(s, t.at, [value |-> <<item>>, next |-> end + 1])
    BY <1>2, <2>1 DEF Found
  <2> QED
    BY <1>1, <1>3, <2>2 DEF Loop, Return
<1>4. CASE Char(s, end) = Comma /\ Char(s, end) # close
  <2>1. end <= Len(s)
    BY <1>2, <1>4, CharFacts
  <2>2. PICK x : x = Ws(s, end + 1)
    OBVIOUS
  <2>3. x \in end + 1..Len(s) + 1
    <3>1. end + 1 \in 1..Len(s) + 1
      BY <1>2, <2>1
    <3> QED
      BY <2>2, <3>1, WsFacts
  <2>4. PICK u : u = [t EXCEPT !.at = x]
    OBVIOUS
  <2>5. u \in Tasks(s) /\ u.at = x /\ u.job = t.job
    BY <1>2, <2>3, <2>4 DEF Tasks
  <2>6. Size(s, u) < Size(s, t)
    <3>1. t.at < x /\ x \in Nat
      BY <1>2, <2>3
    <3> QED
      BY <1>2, <2>5, <3>1 DEF Size
  <2>7. f[u] = g[u] /\ \A r \in f[u] : Found(s, x, r)
    BY <2>5, <2>6 DEF Agree
  <2>8. \A h : Loop(h, s, item, i, close, t) = {[r EXCEPT !.value = <<item>> \o @] : r \in h[u]}
    <3>1. /\ Char(s, Ws(s, i)) # close /\ Char(s, Ws(s, i)) = Comma
          /\ u = [t EXCEPT !.at = Ws(s, Ws(s, i) + 1)]
      BY <1>1, <1>4, <2>2, <2>4
    <3> QED
      BY <3>1 DEF Loop
  <2>9. ASSUME NEW r \in f[u] PROVE Found(s, t.at, [r EXCEPT !.value = <<item>> \o @])
    <3>1. Found(s, x, r)
      BY <2>7
    <3>2. x \in t.at..Len(s) + 1
      BY <1>2, <2>1, <2>3
    <3> QED
      BY <1>2, <3>1, <3>2, Rewrapped
  <2>10. Loop(f, s, item, i, close, t) = {[r EXCEPT !.value = <<item>> \o @] : r \in f[u]}
    BY <2>8
  <2>11. Loop(g, s, item, i, close, t) = Loop(f, s, item, i, close, t)
    BY <2>7, <2>8, Zenon
  <2> QED
    BY <2>9, <2>10, <2>11
<1>5. CASE Char(s, end) # Comma /\ Char(s, end) # close
  BY <1>1, <1>5 DEF Loop, Throw
<1> QED
  BY <1>3, <1>4, <1>5

\* Tasks for calls further on in the text are tasks, and smaller.
LEMMA Smaller ==
  ASSUME NEW s, Len(s) \in Nat, NEW t \in Tasks(s), NEW job \in {"value", "elements", "members"},
         NEW i \in 1..Len(s) + 1, NEW depth \in 0..MaxDepth + 1,
         t.at < i \/ (t.at = i /\ job = "value" /\ t.job # "value")
  PROVE  /\ Task(job, i, depth) \in Tasks(s) /\ Task(job, i, depth).at = i
         /\ Size(s, Task(job, i, depth)) < Size(s, t)
<1> DEFINE u == Task(job, i, depth)
<1>1. u \in Tasks(s) /\ u.at = i /\ u.job = job
  BY DEF Tasks, Task
<1>2. t.at \in 1..Len(s) + 1
  BY DEF Tasks
<1> HIDE DEF u
<1>3. Size(s, u) < Size(s, t)
  <2>1. CASE t.at < i
    BY <1>1, <1>2, <2>1 DEF Size
  <2>2. CASE t.at = i /\ job = "value" /\ t.job # "value"
    BY <1>1, <1>2, <2>2 DEF Size
  <2> QED
    BY <2>1, <2>2
<1> QED
  BY <1>1, <1>3 DEF u

\* What the parts of a task are.
LEMMA TaskFacts ==
  ASSUME NEW s, Len(s) \in Nat, NEW t \in Tasks(s)
  PROVE  /\ t.at \in 1..Len(s) + 1 /\ t.depth \in 0..MaxDepth + 1 /\ t.used \subseteq Names
         /\ t.job \in {"value", "elements", "members"}
BY DEF Tasks

\* What lexemes are read within the text.
LEMMA ReadFacts ==
  ASSUME NEW s, Len(s) \in Nat, NEW i \in 1..Len(s) + 1, NEW lexemes,
         lexemes \subseteq Strings \cup Scalars, NEW r \in Read(s, i, lexemes)
  PROVE  /\ Found(s, i, r) /\ i <= Len(s) /\ s[i] \in lexemes /\ Meaning[s[i]] # Unreadable
         /\ r = [value |-> Meaning[s[i]], next |-> i + 1]
<1>1. Char(s, i) \in lexemes /\ Meaning[s[i]] # Unreadable
  BY DEF Read, Throw
<1>2. r = [value |-> Meaning[s[i]], next |-> i + 1]
  BY <1>1 DEF Read, Return
<1>3. End \notin lexemes
  BY JsonAssumption, Zenon
<1>4. i <= Len(s) /\ s[i] \in lexemes
  BY <1>1, <1>3, CharFacts
<1>5. r.next \in i + 1..Len(s) + 1
  BY <1>2, <1>4
<1> QED
  BY <1>1, <1>2, <1>4, <1>5 DEF Found

\* Each step uses smaller tasks only: value(),
LEMMA ValueAgrees ==
  ASSUME NEW s, Len(s) \in Nat, NEW t \in Tasks(s), t.job = "value", NEW f, NEW g,
         Agree(f, g, s, t)
  PROVE  Value(f, s, t) = Value(g, s, t) /\ \A r \in Value(f, s, t) : Found(s, t.at, r)
<1>1. t.at \in 1..Len(s) + 1 /\ t.depth \in 0..MaxDepth + 1
  BY TaskFacts
<1>2. PICK j : j = Ws(s, t.at)
  OBVIOUS
<1>3. j \in t.at..Len(s) + 1 /\ j \in 1..Len(s) + 1
  BY <1>1, <1>2, WsFacts
<1>4. PICK k : k = Ws(s, j + 1)
  OBVIOUS
<1>5. Char(s, j) # End => k \in j + 1..Len(s) + 1 /\ k \in 1..Len(s) + 1
  <2>1. CASE Char(s, j) # End
    <3>1. j + 1 \in 1..Len(s) + 1
      BY <1>3, <2>1, CharFacts
    <3>2. k \in j + 1..Len(s) + 1
      BY <1>4, <3>1, WsFacts
    <3> QED
      BY <1>3, <3>1, <3>2
  <2> QED
    BY <2>1
<1>6. ASSUME t.depth <= MaxDepth, Char(s, j) # End, NEW job \in {"elements", "members"}
      PROVE  /\ f[Task(job, k, t.depth + 1)] = g[Task(job, k, t.depth + 1)]
             /\ \A r \in f[Task(job, k, t.depth + 1)] : Found(s, k, r)
  <2>1. t.at < k /\ t.depth + 1 \in 0..MaxDepth + 1 /\ k \in 1..Len(s) + 1
    BY <1>1, <1>3, <1>5, <1>6, JsonAssumption
  <2>2. /\ Task(job, k, t.depth + 1) \in Tasks(s) /\ Task(job, k, t.depth + 1).at = k
        /\ Size(s, Task(job, k, t.depth + 1)) < Size(s, t)
    BY <2>1, Smaller
  <2> QED
    BY <2>2 DEF Agree
<1>7. ASSUME NEW x, NEW r, Char(s, j) # End, Found(s, k, r)
      PROVE  Found(s, t.at, [r EXCEPT !.value = x])
  <2>1. k \in t.at..Len(s) + 1
    BY <1>1, <1>3, <1>5, <1>7
  <2> QED
    BY <1>1, <1>7, <2>1, Rewrapped
<1>8. ASSUME NEW x, Char(s, k) # End, Char(s, j) # End
      PROVE  Found(s, t.at, [value |-> x, next |-> k + 1])
  <2>1. k <= Len(s)
    BY <1>5, <1>8, CharFacts
  <2>2. k + 1 \in t.at + 1..Len(s) + 1
    BY <1>1, <1>3, <1>5, <1>8, <2>1
  <2> QED
    BY <2>2 DEF Found
<1>9. End \notin {BeginObject, EndObject, BeginArray, EndArray}
  BY <1>3, CharFacts
<1>10. \A h : Value(h, s, t) =
         IF t.depth > MaxDepth THEN {}
         ELSE IF Char(s, j) = BeginObject THEN
           IF Char(s, k) = EndObject THEN {[value |-> Object(<<>>), next |-> k + 1]}
           ELSE {[r EXCEPT !.value = Object(@)] : r \in h[Task("members", k, t.depth + 1)]}
         ELSE IF Char(s, j) = BeginArray THEN
           IF Char(s, k) = EndArray THEN {[value |-> Array(<<>>), next |-> k + 1]}
           ELSE {[r EXCEPT !.value = Array(@)] : r \in h[Task("elements", k, t.depth + 1)]}
         ELSE {[r EXCEPT !.value = Atom(@)] : r \in Read(s, j, Strings \cup Scalars)}
  BY <1>2, <1>4, Zenon DEF Value, Throw, Return
<1>11. CASE t.depth > MaxDepth
  <2>1. \A h : Value(h, s, t) = {}
    BY <1>10, <1>11
  <2> QED
    BY <2>1
<1>12. ASSUME ~(t.depth > MaxDepth) PROVE t.depth <= MaxDepth
  BY <1>1, <1>12, JsonAssumption
<1>13. CASE ~(t.depth > MaxDepth) /\ Char(s, j) = BeginObject
  <2>1. CASE Char(s, k) = EndObject
    <3>1. \A h : Value(h, s, t) = {[value |-> Object(<<>>), next |-> k + 1]}
      BY <1>10, <1>13, <2>1, Zenon
    <3>2. Found(s, t.at, [value |-> Object(<<>>), next |-> k + 1])
      BY <1>8, <1>9, <1>13, <2>1
    <3> QED
      BY <3>1, <3>2
  <2>2. CASE Char(s, k) # EndObject
    <3>1. \A h : Value(h, s, t) =
            {[r EXCEPT !.value = Object(@)] : r \in h[Task("members", k, t.depth + 1)]}
      BY <1>10, <1>13, <2>2, Zenon
    <3>2. Char(s, j) # End
      BY <1>9, <1>13
    <3>3. /\ f[Task("members", k, t.depth + 1)] = g[Task("members", k, t.depth + 1)]
          /\ \A r \in f[Task("members", k, t.depth + 1)] : Found(s, k, r)
      BY <1>6, <1>12, <1>13, <3>2
    <3>4. Value(f, s, t) = Value(g, s, t)
      BY <3>1, <3>3, Zenon
    <3>5. \A r \in Value(f, s, t) : Found(s, t.at, r)
      <4>1. ASSUME NEW r \in f[Task("members", k, t.depth + 1)]
            PROVE  Found(s, t.at, [r EXCEPT !.value = Object(@)])
        BY <1>7, <3>2, <3>3
      <4> QED
        BY <3>1, <4>1
    <3> QED
      BY <3>4, <3>5
  <2> QED
    BY <2>1, <2>2
<1>14. CASE ~(t.depth > MaxDepth) /\ Char(s, j) # BeginObject /\ Char(s, j) = BeginArray
  <2>1. CASE Char(s, k) = EndArray
    <3>1. \A h : Value(h, s, t) = {[value |-> Array(<<>>), next |-> k + 1]}
      BY <1>10, <1>14, <2>1, Zenon
    <3>2. Found(s, t.at, [value |-> Array(<<>>), next |-> k + 1])
      BY <1>8, <1>9, <1>14, <2>1
    <3> QED
      BY <3>1, <3>2
  <2>2. CASE Char(s, k) # EndArray
    <3>1. \A h : Value(h, s, t) =
            {[r EXCEPT !.value = Array(@)] : r \in h[Task("elements", k, t.depth + 1)]}
      BY <1>10, <1>14, <2>2, Zenon
    <3>2. Char(s, j) # End
      BY <1>9, <1>14
    <3>3. /\ f[Task("elements", k, t.depth + 1)] = g[Task("elements", k, t.depth + 1)]
          /\ \A r \in f[Task("elements", k, t.depth + 1)] : Found(s, k, r)
      BY <1>6, <1>12, <1>14, <3>2
    <3>4. Value(f, s, t) = Value(g, s, t)
      BY <3>1, <3>3, Zenon
    <3>5. \A r \in Value(f, s, t) : Found(s, t.at, r)
      <4>1. ASSUME NEW r \in f[Task("elements", k, t.depth + 1)]
            PROVE  Found(s, t.at, [r EXCEPT !.value = Array(@)])
        BY <1>7, <3>2, <3>3
      <4> QED
        BY <3>1, <4>1
    <3> QED
      BY <3>4, <3>5
  <2> QED
    BY <2>1, <2>2
<1>15. CASE ~(t.depth > MaxDepth) /\ Char(s, j) # BeginObject /\ Char(s, j) # BeginArray
  <2>1. \A h : Value(h, s, t) =
          {[r EXCEPT !.value = Atom(@)] : r \in Read(s, j, Strings \cup Scalars)}
    BY <1>10, <1>15, Zenon
  <2>2. ASSUME NEW r \in Read(s, j, Strings \cup Scalars)
        PROVE  Found(s, t.at, [r EXCEPT !.value = Atom(@)])
    <3>1. Found(s, j, r)
      BY <1>3, ReadFacts
    <3> QED
      BY <1>1, <1>3, <3>1, Rewrapped
  <2> DEFINE R == Read(s, j, Strings \cup Scalars)
  <2>3. Value(f, s, t) = {[r EXCEPT !.value = Atom(@)] : r \in R}
    BY <2>1, Zenon
  <2>4. ASSUME NEW r \in R PROVE Found(s, t.at, [r EXCEPT !.value = Atom(@)])
    BY <2>2
  <2> HIDE DEF R
  <2>5. \A r \in Value(f, s, t) : Found(s, t.at, r)
    BY <2>3, <2>4
  <2> QED
    BY <2>1, <2>5, Zenon
<1> QED
  BY <1>11, <1>13, <1>14, <1>15

\* the loop of an array,
LEMMA ElementsAgree ==
  ASSUME NEW s, Len(s) \in Nat, NEW t \in Tasks(s), t.job = "elements", NEW f, NEW g,
         Agree(f, g, s, t)
  PROVE  Elements(f, s, t) = Elements(g, s, t) /\ \A r \in Elements(f, s, t) : Found(s, t.at, r)
<1> DEFINE u == Task("value", t.at, t.depth)
<1>1. u \in Tasks(s) /\ u.at = t.at /\ Size(s, u) < Size(s, t)
  BY TaskFacts, Smaller
<1>2. f[u] = g[u] /\ \A v \in f[u] : Found(s, t.at, v)
  BY <1>1 DEF Agree
<1>3. ASSUME NEW v \in f[u]
      PROVE  /\ Loop(f, s, v.value, v.next, EndArray, t) = Loop(g, s, v.value, v.next, EndArray, t)
             /\ \A r \in Loop(f, s, v.value, v.next, EndArray, t) : Found(s, t.at, r)
  <2>1. v.next \in t.at + 1..Len(s) + 1 /\ t.at \in 1..Len(s) + 1
    BY <1>2, TaskFacts DEF Found
  <2>2. v.next \in 1..Len(s) + 1 /\ t.at < v.next
    BY <2>1
  <2> QED
    BY <2>2, LoopAgrees
<1>4. \A h : Elements(h, s, t) = UNION {Loop(h, s, v.value, v.next, EndArray, t) : v \in h[u]}
  BY DEF Elements
<1> HIDE DEF u
<1>5. Elements(f, s, t) = UNION {Loop(f, s, v.value, v.next, EndArray, t) : v \in f[u]}
  BY <1>4
<1>6. Elements(g, s, t) = UNION {Loop(g, s, v.value, v.next, EndArray, t) : v \in f[u]}
  BY <1>2, <1>4
<1>7. Elements(f, s, t) = Elements(g, s, t)
  BY <1>3, <1>5, <1>6
<1>8. \A r \in Elements(f, s, t) : Found(s, t.at, r)
  BY <1>3, <1>5
<1> QED
  BY <1>7, <1>8

\* and the loop of an object.
LEMMA MembersAgree ==
  ASSUME NEW s, Len(s) \in Nat, NEW t \in Tasks(s), t.job = "members", NEW f, NEW g,
         Agree(f, g, s, t)
  PROVE  Members(f, s, t) = Members(g, s, t) /\ \A r \in Members(f, s, t) : Found(s, t.at, r)
<1> DEFINE P(h, key) ==
      LET colon == Ws(s, key.next)
          more  == [t EXCEPT !.used = @ \cup {key.value}]
      IN  IF ~NewKey(t.used, key.value) \/ Char(s, colon) # Colon THEN Throw
          ELSE UNION {Loop(h, s, <<key.value, v.value>>, v.next, EndObject, more) :
                        v \in h[Task("value", colon + 1, t.depth)]}
<1>1. \A h : Members(h, s, t) = UNION {P(h, key) : key \in Read(s, t.at, Strings)}
  BY Zenon DEF Members
<1>2. ASSUME NEW key \in Read(s, t.at, Strings)
      PROVE  P(f, key) = P(g, key) /\ \A r \in P(f, key) : Found(s, t.at, r)
  <2>1. t.at \in 1..Len(s) + 1 /\ t.depth \in 0..MaxDepth + 1 /\ t.used \subseteq Names
    BY TaskFacts
  <2>2. Found(s, t.at, key) /\ s[t.at] \in Strings /\ key.value = Meaning[s[t.at]]
    BY <2>1, ReadFacts
  <2>3. key.next \in t.at + 1..Len(s) + 1 /\ key.next \in 1..Len(s) + 1
    BY <2>1, <2>2 DEF Found
  <2>4. PICK colon : colon = Ws(s, key.next)
    OBVIOUS
  <2>5. colon \in key.next..Len(s) + 1 /\ colon \in 1..Len(s) + 1
    BY <2>3, <2>4, WsFacts
  <2>6. PICK more : more = [t EXCEPT !.used = @ \cup {key.value}]
    OBVIOUS
  <2>7. more \in Tasks(s) /\ more.at = t.at /\ more.job = t.job
    <3>1. key.value \in Names
      BY <2>2 DEF Names
    <3> QED
      BY <2>6, <3>1 DEF Tasks
  <2>8. CASE ~NewKey(t.used, key.value) \/ Char(s, colon) # Colon
    <3>1. \A h : P(h, key) = {}
      BY <2>4, <2>8, Zenon DEF Throw
    <3> HIDE DEF P
    <3> QED
      BY <3>1
  <2>9. CASE NewKey(t.used, key.value) /\ Char(s, colon) = Colon
    <3> DEFINE u == Task("value", colon + 1, t.depth)
    <3>1. colon + 1 \in 1..Len(s) + 1 /\ t.at < colon + 1
      <4>1. Char(s, colon) # End
        BY <2>5, <2>9, CharFacts
      <4>2. colon <= Len(s)
        BY <2>5, <4>1, CharFacts
      <4> QED
        BY <2>1, <2>3, <2>5, <4>2
    <3>2. u \in Tasks(s) /\ u.at = colon + 1 /\ Size(s, u) < Size(s, t)
      BY <2>1, <3>1, Smaller
    <3>3. f[u] = g[u] /\ \A v \in f[u] : Found(s, colon + 1, v)
      BY <3>2 DEF Agree
    <3>4. \A h : P(h, key) = UNION {Loop(h, s, <<key.value, v.value>>, v.next, EndObject, more) :
                                      v \in h[u]}
      BY <2>4, <2>6, <2>9, Zenon
    <3>5. Agree(f, g, s, more)
      <4>1. Size(s, more) = Size(s, t)
        BY <2>7 DEF Size
      <4> QED
        BY <4>1 DEF Agree
    <3> HIDE DEF u, P
    <3>6. ASSUME NEW v \in f[u], NEW item
          PROVE  /\ Loop(f, s, item, v.next, EndObject, more)
                      = Loop(g, s, item, v.next, EndObject, more)
                 /\ \A r \in Loop(f, s, item, v.next, EndObject, more) : Found(s, t.at, r)
      <4>1. v.next \in colon + 1 + 1..Len(s) + 1
        BY <3>3 DEF Found
      <4>2. v.next \in 1..Len(s) + 1 /\ more.at < v.next
        <5>1. colon \in Nat /\ t.at \in Nat
          BY <2>1, <2>5
        <5> QED
          BY <2>7, <3>1, <4>1, <5>1
      <4> QED
        BY <2>7, <3>5, <4>2, LoopAgrees
    <3>7. P(f, key) =
            UNION {Loop(f, s, <<key.value, v.value>>, v.next, EndObject, more) : v \in f[u]}
      BY <3>4
    <3>8. P(g, key) =
            UNION {Loop(g, s, <<key.value, v.value>>, v.next, EndObject, more) : v \in f[u]}
      BY <3>3, <3>4
    <3>9. P(f, key) = P(g, key)
      BY <3>6, <3>7, <3>8
    <3>10. \A r \in P(f, key) : Found(s, t.at, r)
      BY <3>6, <3>7
    <3> QED
      BY <3>9, <3>10
  <2> HIDE DEF P
  <2> QED
    BY <2>8, <2>9
<1> HIDE DEF P
<1>3. Members(f, s, t) = Members(g, s, t)
  BY <1>1, <1>2
<1>4. \A r \in Members(f, s, t) : Found(s, t.at, r)
  BY <1>1, <1>2
<1> QED
  BY <1>3, <1>4

\* What a step makes of the text depends on the smaller tasks only.
LEMMA DoAgrees ==
  ASSUME NEW s, Len(s) \in Nat, NEW t \in Tasks(s), NEW f, NEW g, Agree(f, g, s, t)
  PROVE  Do(f, s, t) = Do(g, s, t) /\ \A r \in Do(f, s, t) : Found(s, t.at, r)
<1>1. CASE t.job = "value"
  BY <1>1, ValueAgrees, Zenon DEF Do
<1>2. CASE t.job = "elements"
  BY <1>2, ElementsAgree, Zenon DEF Do
<1>3. CASE t.job = "members"
  BY <1>3, MembersAgree, Zenon DEF Do
<1> QED
  BY <1>1, <1>2, <1>3, TaskFacts

\* The tasks smaller than n, and what the parser makes of them.
Below(s, n) == {t \in Tasks(s) : Size(s, t) < n}

Parses(f, s, n) ==
  /\ f = [t \in Below(s, n) |-> f[t]]
  /\ \A t \in Below(s, n) : f[t] = Do(f, s, t) /\ \A r \in f[t] : Found(s, t.at, r)

\* There are finitely many sizes.
LEMMA SizeFacts ==
  ASSUME NEW s, Len(s) \in Nat, NEW t \in Tasks(s)
  PROVE  Size(s, t) \in 0..2 * Len(s) + 1
<1>1. t.at \in 1..Len(s) + 1
  BY TaskFacts
<1>2. CASE t.job = "value"
  BY <1>1, <1>2 DEF Size
<1>3. CASE t.job # "value"
  BY <1>1, <1>3 DEF Size
<1> QED
  BY <1>2, <1>3

\* From the tasks smaller than n to those of size n,
LEMMA ParsesOneMore ==
  ASSUME NEW s, Len(s) \in Nat, NEW n \in Nat, NEW f, Parses(f, s, n)
  PROVE  \E g : Parses(g, s, n + 1)
<1> DEFINE S == Below(s, n + 1)
           g == [t \in S |-> Do(f, s, t)]
<1>1. \A t \in S : t \in Tasks(s) /\ g[t] = Do(f, s, t)
  BY DEF Below
<1>2. \A u \in Below(s, n) : f[u] = g[u] /\ \A r \in f[u] : Found(s, u.at, r)
  <2> SUFFICES ASSUME NEW u \in Below(s, n)
               PROVE  f[u] = g[u] /\ \A r \in f[u] : Found(s, u.at, r)
    OBVIOUS
  <2>1. u \in S
    BY SizeFacts DEF Below
  <2> HIDE DEF S, g
  <2> QED
    BY <1>1, <2>1 DEF Parses
<1>3. \A t \in S : Agree(f, g, s, t)
  <2> SUFFICES ASSUME NEW t \in S, NEW u \in Tasks(s), Size(s, u) < Size(s, t)
               PROVE  f[u] = g[u] /\ \A r \in f[u] : Found(s, u.at, r)
    BY Zenon DEF Agree
  <2>1. Size(s, u) \in Nat /\ Size(s, t) \in Nat /\ Size(s, t) < n + 1
    BY SizeFacts DEF Below
  <2>2. u \in Below(s, n)
    BY <2>1 DEF Below
  <2> QED
    BY <1>2, <2>2
<1>4. \A t \in S : Do(f, s, t) = Do(g, s, t) /\ \A r \in Do(f, s, t) : Found(s, t.at, r)
  BY <1>1, <1>3, DoAgrees
<1>5. \A t \in S : g[t] = Do(g, s, t) /\ \A r \in g[t] : Found(s, t.at, r)
  <2> HIDE DEF S, g
  <2> QED
    BY <1>1, <1>4
<1>6. g = [t \in S |-> g[t]]
  OBVIOUS
<1> HIDE DEF g
<1> QED
  BY <1>5, <1>6 DEF Parses

\* and so to all of them.
LEMMA ParsesExists ==
  ASSUME NEW s, Len(s) \in Nat
  PROVE  \E f : Parses(f, s, 2 * Len(s) + 2)
<1> DEFINE T == {n \in Nat : \E f : Parses(f, s, n)}
<1>1. 0 \in T
  <2>1. Below(s, 0) = {}
    BY SizeFacts DEF Below
  <2>2. Parses([t \in {} |-> {}], s, 0)
    BY <2>1 DEF Parses
  <2> QED
    BY <2>2
<1>2. ASSUME NEW n \in Nat, n \in T PROVE n + 1 \in T
  BY <1>2, ParsesOneMore
<1>3. Nat \subseteq T
  <2> HIDE DEF T
  <2> QED
    BY <1>1, <1>2, Induction
<1>4. 2 * Len(s) + 2 \in Nat
  OBVIOUS
<1> QED
  BY <1>3, <1>4

\* The parser does what its steps say, and what it returns lies in the text.
LEMMA ParserFacts ==
  ASSUME NEW s, Len(s) \in Nat, NEW t \in Tasks(s)
  PROVE  Parse(s)[t] = Do(Parse(s), s, t) /\ \A r \in Parse(s)[t] : Found(s, t.at, r)
<1> DEFINE F(f) == [u \in Tasks(s) |-> Do(f, s, u)]
           parse == CHOOSE f : f = F(f)
<1>1. PICK f : Parses(f, s, 2 * Len(s) + 2)
  BY ParsesExists
<1>2. Below(s, 2 * Len(s) + 2) = Tasks(s)
  BY SizeFacts DEF Below
<1>3. f = F(f)
  BY <1>1, <1>2 DEF Parses
<1>4. parse = F(parse)
  <2> HIDE DEF F
  <2> QED
    BY <1>3
<1>5. Parse(s) = parse
  BY DEF Parse
<1>6. \A u \in Tasks(s) : Parse(s)[u] = Do(Parse(s), s, u)
  <2>1. \A h : \A u \in Tasks(s) : F(h)[u] = Do(h, s, u)
    OBVIOUS
  <2> HIDE DEF F, parse
  <2> QED
    BY <1>4, <1>5, <2>1, Zenon
<1> HIDE DEF parse
<1> DEFINE T == {n \in Nat : \A u \in Below(s, n) : \A r \in Parse(s)[u] : Found(s, u.at, r)}
<1>7. 0 \in T
  BY SizeFacts DEF Below
<1>8. ASSUME NEW n \in Nat, n \in T PROVE n + 1 \in T
  <2> SUFFICES ASSUME NEW u \in Below(s, n + 1) PROVE \A r \in Parse(s)[u] : Found(s, u.at, r)
    OBVIOUS
  <2>1. u \in Tasks(s) /\ Size(s, u) < n + 1
    BY DEF Below
  <2>2. Agree(Parse(s), Parse(s), s, u)
    <3> SUFFICES ASSUME NEW w \in Tasks(s), Size(s, w) < Size(s, u)
                 PROVE  \A r \in Parse(s)[w] : Found(s, w.at, r)
      BY Zenon DEF Agree
    <3>1. Size(s, w) \in Nat /\ Size(s, u) \in Nat
      BY <2>1, SizeFacts
    <3>2. w \in Below(s, n)
      BY <2>1, <3>1 DEF Below
    <3> QED
      BY <1>8, <3>2
  <2>3. \A r \in Do(Parse(s), s, u) : Found(s, u.at, r)
    BY <2>1, <2>2, DoAgrees, Zenon
  <2> QED
    BY <1>6, <2>1, <2>3
<1>9. Nat \subseteq T
  <2> HIDE DEF T
  <2> QED
    BY <1>7, <1>8, Induction
<1>10. 2 * Len(s) + 2 \in Nat
  OBVIOUS
<1>11. \A u \in Tasks(s) : \A r \in Parse(s)[u] : Found(s, u.at, r)
  BY <1>2, <1>9, <1>10
<1> QED
  BY <1>6, <1>11

-----------------------------------------------------------------------------
(* The reference exists: each part is part of a longer one.                 *)

Extent(s, q) == 2 * (Len(s) + 1 + q.to - q.from) + (IF q.kind = "value" THEN 0 ELSE 1)

\* f and g mean the same by every part smaller than q.
SameParts(f, g, s, q) == \A p \in Parts(s) : Extent(s, p) < Extent(s, q) => f[p] = g[p]

\* What the fields of a part are.
LEMMA PartFacts ==
  ASSUME NEW s, Len(s) \in Nat, NEW q \in Parts(s)
  PROVE  /\ q.from \in 1..Len(s) + 1 /\ q.to \in 0..Len(s) /\ q.depth \in 0..MaxDepth + 1
         /\ q.used \subseteq Names /\ q.kind \in {"value", "elements", "members"}
BY DEF Parts

\* There are finitely many extents.
LEMMA ExtentFacts ==
  ASSUME NEW s, Len(s) \in Nat, NEW q \in Parts(s)
  PROVE  Extent(s, q) \in 0..4 * Len(s) + 3
<1>1. q.from \in 1..Len(s) + 1 /\ q.to \in 0..Len(s)
  BY PartFacts
<1>2. CASE q.kind = "value"
  BY <1>1, <1>2 DEF Extent
<1>3. CASE q.kind # "value"
  BY <1>1, <1>3 DEF Extent
<1> QED
  BY <1>2, <1>3

\* Parts of parts are parts, and smaller.
LEMMA SmallerPart ==
  ASSUME NEW s, Len(s) \in Nat, NEW q \in Parts(s), NEW kind \in {"value", "elements", "members"},
         NEW i \in 1..Len(s) + 1, NEW j \in 0..Len(s), NEW depth \in 0..MaxDepth + 1,
         q.from <= i, j <= q.to, q.from < i \/ (kind = "value" /\ q.kind # "value")
  PROVE  /\ Part(kind, i, j, depth) \in Parts(s)
         /\ Extent(s, Part(kind, i, j, depth)) < Extent(s, q)
<1> DEFINE u == Part(kind, i, j, depth)
<1>1. u \in Parts(s) /\ u.from = i /\ u.to = j /\ u.kind = kind
  BY DEF Parts, Part
<1>2. q.from \in 1..Len(s) + 1 /\ q.to \in 0..Len(s)
  BY PartFacts
<1> HIDE DEF u
<1>3. Extent(s, u) < Extent(s, q)
  <2>1. CASE q.from < i
    BY <1>1, <1>2, <2>1 DEF Extent
  <2>2. CASE kind = "value" /\ q.kind # "value"
    BY <1>1, <1>2, <2>2 DEF Extent
  <2> QED
    BY <2>1, <2>2
<1> QED
  BY <1>1, <1>3 DEF u

\* What the rules say, one meaning at a time.
LEMMA BracketedIs ==
  ASSUME NEW h, NEW s, NEW q, NEW open, NEW close, NEW kind, NEW x
  PROVE  x \in Bracketed(h, s, q, open, close, kind) <=>
           \E i \in Starts(s, q), j \in Stops(s, q) :
             /\ s[i] = open /\ s[j] = close
             /\ x \in IF Blank(s, i + 1, j - 1) THEN {<<>>}
                      ELSE h[Part(kind, i + 1, j - 1, q.depth + 1)]
<1> DEFINE I == {i \in Starts(s, q) : s[i] = open}
           J == {j \in Stops(s, q) : s[j] = close}
           P(i, j) == IF Blank(s, i + 1, j - 1) THEN {<<>>}
                      ELSE h[Part(kind, i + 1, j - 1, q.depth + 1)]
<1>1. Bracketed(h, s, q, open, close, kind) = UNION {P(i, j) : i \in I, j \in J}
  BY DEF Bracketed
<1> HIDE DEF P
<1>2. x \in Bracketed(h, s, q, open, close, kind) <=> \E i \in I, j \in J : x \in P(i, j)
  BY <1>1
<1> QED
  BY <1>2 DEF P

IsElements(h, s, q, x) ==
  \E k \in Cuts(s, q) : \E v \in h[Part("value", q.from, k - 1, q.depth)] :
    \E vs \in After(h, q, k) : x = <<v>> \o vs

\* An array has a first element, up to a cut, and what comes after the cut.
LEMMA ElementsMeanIs ==
  ASSUME NEW h, NEW s, NEW q, NEW x
  PROVE  x \in ElementsMean(h, s, q) <=> IsElements(h, s, q, x)
<1> DEFINE V(k) == h[Part("value", q.from, k - 1, q.depth)]
           W(k) == After(h, q, k)
           P(k) == {<<v>> \o vs : v \in V(k), vs \in W(k)}
<1>1. ElementsMean(h, s, q) = UNION {P(k) : k \in Cuts(s, q)}
  BY DEF ElementsMean
<1> HIDE DEF V, W
<1>2. ASSUME NEW k PROVE x \in P(k) <=> \E v \in V(k), vs \in W(k) : x = <<v>> \o vs
  OBVIOUS
<1> HIDE DEF P
<1>3. x \in ElementsMean(h, s, q) <=> \E k \in Cuts(s, q) : x \in P(k)
  BY <1>1
<1> QED
  BY <1>2, <1>3 DEF V, W, IsElements

\* Where a key, a colon and what follows the value make a member of q.
Keys(s, q)      == {i \in Starts(s, q) : Reads(s[i], Strings) /\ Meaning[s[i]] \notin q.used}
Colons(s, q, i) == {c \in i + 1..q.to : s[c] = Colon /\ Blank(s, i + 1, c - 1)}
Used(s, q, i)   == [q EXCEPT !.used = @ \cup {Meaning[s[i]]}]

IsMembers(h, s, q, x) ==
  \E i \in Keys(s, q) : \E c \in Colons(s, q, i), k \in Cuts(s, q) :
    \E v \in h[Part("value", c + 1, k - 1, q.depth)], ms \in After(h, Used(s, q, i), k) :
      x = <<<<Meaning[s[i]], v>>>> \o ms

\* An object has a first member likewise.
LEMMA MembersMeanIs ==
  ASSUME NEW h, NEW s, NEW q, NEW x
  PROVE  x \in MembersMean(h, s, q) <=> IsMembers(h, s, q, x)
<1> DEFINE V(c, k) == h[Part("value", c + 1, k - 1, q.depth)]
           W(i, k) == After(h, Used(s, q, i), k)
           P(i, c, k) == {<<<<Meaning[s[i]], v>>>> \o ms : v \in V(c, k), ms \in W(i, k)}
           M(i) == UNION {P(i, c, k) : c \in Colons(s, q, i), k \in Cuts(s, q)}
<1>1. MembersMean(h, s, q) = UNION {M(i) : i \in Keys(s, q)}
  BY DEF MembersMean, Keys, Colons, Used
<1> HIDE DEF V, W
<1> DEFINE Q(i, c, k) == \E v \in V(c, k), ms \in W(i, k) : x = <<<<Meaning[s[i]], v>>>> \o ms
<1>2. ASSUME NEW i, NEW c, NEW k PROVE x \in P(i, c, k) <=> Q(i, c, k)
  OBVIOUS
<1> HIDE DEF P, Q
<1>3. ASSUME NEW i
      PROVE  x \in M(i) <=> \E c \in Colons(s, q, i), k \in Cuts(s, q) : x \in P(i, c, k)
  OBVIOUS
<1> HIDE DEF M
<1>4. x \in MembersMean(h, s, q) <=> \E i \in Keys(s, q) : x \in M(i)
  BY <1>1
<1>5. ASSUME NEW i
      PROVE  x \in M(i) <=> \E c \in Colons(s, q, i), k \in Cuts(s, q) : Q(i, c, k)
  BY <1>2, <1>3
<1>6. x \in MembersMean(h, s, q) <=>
        \E i \in Keys(s, q) : \E c \in Colons(s, q, i), k \in Cuts(s, q) :
          Q(i, c, k)
  BY <1>4, <1>5
<1> QED
  BY <1>6, Zenon DEF Q, V, W, IsMembers

\* Each rule uses smaller parts only: what is between brackets,
LEMMA BracketedAgrees ==
  ASSUME NEW s, Len(s) \in Nat, NEW q \in Parts(s), NEW f, NEW g, SameParts(f, g, s, q),
         NEW open, NEW close, open # close, NEW kind \in {"elements", "members"},
         q.depth <= MaxDepth
  PROVE  Bracketed(f, s, q, open, close, kind) = Bracketed(g, s, q, open, close, kind)
<1>1. ASSUME NEW i \in Starts(s, q), NEW j \in Stops(s, q)
      PROVE  f[Part(kind, i + 1, j - 1, q.depth + 1)] = g[Part(kind, i + 1, j - 1, q.depth + 1)]
  <2>1. /\ q.from \in 1..Len(s) + 1 /\ q.to \in 0..Len(s) /\ q.depth + 1 \in 0..MaxDepth + 1
    BY PartFacts, JsonAssumption
  <2>2. i \in q.from..q.to /\ j \in q.from..q.to
    BY DEF Starts, Stops
  <2>3. i + 1 \in 1..Len(s) + 1 /\ j - 1 \in 0..Len(s) /\ q.from < i + 1 /\ q.from <= i + 1
        /\ j - 1 <= q.to
    BY <2>1, <2>2
  <2>4. /\ Part(kind, i + 1, j - 1, q.depth + 1) \in Parts(s)
        /\ Extent(s, Part(kind, i + 1, j - 1, q.depth + 1)) < Extent(s, q)
    BY <2>1, <2>3, SmallerPart
  <2> QED
    BY <2>4 DEF SameParts
<1> DEFINE B(h) == Bracketed(h, s, q, open, close, kind)
<1>2. ASSUME NEW x PROVE x \in B(f) <=> x \in B(g)
  <2>1. x \in B(f) => x \in B(g)
    BY <1>1, BracketedIs
  <2>2. x \in B(g) => x \in B(f)
    BY <1>1, BracketedIs
  <2> QED
    BY <2>1, <2>2
<1> HIDE DEF B
<1>3. B(f) = B(g)
  BY <1>2
<1> QED
  BY <1>3 DEF B

\* what comes after a cut,
LEMMA AfterAgrees ==
  ASSUME NEW s, Len(s) \in Nat, NEW q \in Parts(s), NEW f, NEW g, SameParts(f, g, s, q),
         NEW k \in Cuts(s, q)
  PROVE  After(f, q, k) = After(g, q, k)
<1>1. CASE k = q.to + 1
  BY <1>1 DEF After
<1>2. CASE k # q.to + 1
  <2> DEFINE u == [q EXCEPT !.from = k + 1]
  <2>1. q.from \in 1..Len(s) + 1 /\ q.to \in 0..Len(s)
    BY PartFacts
  <2>2. k \in q.from..q.to /\ k + 1 \in 1..Len(s) + 1
    BY <1>2, <2>1 DEF Cuts
  <2>3. u \in Parts(s) /\ u.from = k + 1 /\ u.to = q.to /\ u.kind = q.kind
    BY <2>2 DEF Parts
  <2> HIDE DEF u
  <2>4. Extent(s, u) < Extent(s, q)
    BY <2>1, <2>2, <2>3 DEF Extent
  <2>5. f[u] = g[u]
    BY <2>3, <2>4 DEF SameParts
  <2> QED
    BY <1>2, <2>5 DEF After, u
<1> QED
  BY <1>1, <1>2

\* arrays,
LEMMA ElementsMeanAgrees ==
  ASSUME NEW s, Len(s) \in Nat, NEW q \in Parts(s), NEW f, NEW g, SameParts(f, g, s, q),
         q.kind = "elements"
  PROVE  ElementsMean(f, s, q) = ElementsMean(g, s, q)
<1>1. ASSUME NEW k \in Cuts(s, q)
      PROVE  /\ f[Part("value", q.from, k - 1, q.depth)] = g[Part("value", q.from, k - 1, q.depth)]
             /\ After(f, q, k) = After(g, q, k)
  <2>1. /\ q.from \in 1..Len(s) + 1 /\ q.to \in 0..Len(s) /\ q.depth \in 0..MaxDepth + 1
    BY PartFacts
  <2>2. k - 1 \in 0..Len(s) /\ k - 1 <= q.to /\ q.from <= q.from
    BY <2>1 DEF Cuts
  <2>3. /\ Part("value", q.from, k - 1, q.depth) \in Parts(s)
        /\ Extent(s, Part("value", q.from, k - 1, q.depth)) < Extent(s, q)
    BY <2>1, <2>2, SmallerPart
  <2> QED
    BY <2>3, AfterAgrees DEF SameParts
<1>2. ASSUME NEW x PROVE x \in ElementsMean(f, s, q) <=> x \in ElementsMean(g, s, q)
  <2>1. ASSUME NEW h, NEW e, IsElements(h, s, q, x),
               \A k \in Cuts(s, q) :
                 /\ h[Part("value", q.from, k - 1, q.depth)]
                      = e[Part("value", q.from, k - 1, q.depth)]
                 /\ After(h, q, k) = After(e, q, k)
        PROVE  IsElements(e, s, q, x)
    <3>1. PICK k \in Cuts(s, q) : \E v \in h[Part("value", q.from, k - 1, q.depth)] :
                                   \E vs \in After(h, q, k) : x = <<v>> \o vs
      BY <2>1 DEF IsElements
    <3>2. PICK v \in h[Part("value", q.from, k - 1, q.depth)] :
            \E vs \in After(h, q, k) : x = <<v>> \o vs
      BY <3>1
    <3>3. v \in e[Part("value", q.from, k - 1, q.depth)] /\ After(h, q, k) = After(e, q, k)
      BY <2>1
    <3> QED
      BY <3>2, <3>3 DEF IsElements
  <2> QED
    BY <1>1, <2>1, ElementsMeanIs
<1> QED
  BY <1>2

\* objects,
LEMMA MembersMeanAgrees ==
  ASSUME NEW s, Len(s) \in Nat, NEW q \in Parts(s), NEW f, NEW g, SameParts(f, g, s, q),
         q.kind = "members"
  PROVE  MembersMean(f, s, q) = MembersMean(g, s, q)
<1>1. ASSUME NEW i \in Keys(s, q), NEW k \in Cuts(s, q)
      PROVE  After(f, Used(s, q, i), k) = After(g, Used(s, q, i), k)
  <2> DEFINE m == Used(s, q, i)
  <2>1. Meaning[s[i]] \in Names
    BY DEF Keys, Reads, Names
  <2>2. m \in Parts(s) /\ m.from = q.from /\ m.to = q.to /\ m.kind = q.kind
    BY <2>1 DEF Parts, Used
  <2> HIDE DEF m
  <2>3. Extent(s, m) = Extent(s, q) /\ k \in Cuts(s, m)
    BY <2>2 DEF Extent, Cuts
  <2>4. SameParts(f, g, s, m)
    BY <2>3 DEF SameParts
  <2>5. After(f, m, k) = After(g, m, k)
    BY <2>2, <2>3, <2>4, AfterAgrees
  <2> QED
    BY <2>5 DEF m
<1>2. ASSUME NEW i \in Keys(s, q), NEW c \in Colons(s, q, i), NEW k \in Cuts(s, q)
      PROVE  f[Part("value", c + 1, k - 1, q.depth)] = g[Part("value", c + 1, k - 1, q.depth)]
  <2>1. /\ q.from \in 1..Len(s) + 1 /\ q.to \in 0..Len(s) /\ q.depth \in 0..MaxDepth + 1
    BY PartFacts
  <2>2. i \in q.from..q.to /\ c \in i + 1..q.to
    BY DEF Keys, Starts, Colons
  <2>3. k - 1 \in 0..Len(s) /\ k - 1 <= q.to
    BY <2>1 DEF Cuts
  <2>4. c + 1 \in 1..Len(s) + 1 /\ q.from < c + 1 /\ q.from <= c + 1
    BY <2>1, <2>2
  <2>5. /\ Part("value", c + 1, k - 1, q.depth) \in Parts(s)
        /\ Extent(s, Part("value", c + 1, k - 1, q.depth)) < Extent(s, q)
    BY <2>1, <2>3, <2>4, SmallerPart
  <2> QED
    BY <2>5 DEF SameParts
<1>3. ASSUME NEW x PROVE x \in MembersMean(f, s, q) <=> x \in MembersMean(g, s, q)
  <2>1. ASSUME NEW h, NEW e, IsMembers(h, s, q, x),
               \A i \in Keys(s, q), k \in Cuts(s, q) :
                 After(h, Used(s, q, i), k) = After(e, Used(s, q, i), k),
               \A i \in Keys(s, q) : \A c \in Colons(s, q, i), k \in Cuts(s, q) :
                 h[Part("value", c + 1, k - 1, q.depth)] = e[Part("value", c + 1, k - 1, q.depth)]
        PROVE  IsMembers(e, s, q, x)
    <3>1. PICK i \in Keys(s, q) : \E c \in Colons(s, q, i), k \in Cuts(s, q) :
            \E v \in h[Part("value", c + 1, k - 1, q.depth)], ms \in After(h, Used(s, q, i), k) :
              x = <<<<Meaning[s[i]], v>>>> \o ms
      BY <2>1 DEF IsMembers
    <3>2. PICK c \in Colons(s, q, i), k \in Cuts(s, q) :
            \E v \in h[Part("value", c + 1, k - 1, q.depth)], ms \in After(h, Used(s, q, i), k) :
              x = <<<<Meaning[s[i]], v>>>> \o ms
      BY <3>1
    <3>3. /\ h[Part("value", c + 1, k - 1, q.depth)] = e[Part("value", c + 1, k - 1, q.depth)]
          /\ After(h, Used(s, q, i), k) = After(e, Used(s, q, i), k)
      BY <2>1
    <3> QED
      BY <3>2, <3>3 DEF IsMembers
  <2> QED
    BY <1>1, <1>2, <2>1, MembersMeanIs
<1> QED
  BY <1>3

\* and so all of them.
LEMMA MeansAgrees ==
  ASSUME NEW s, Len(s) \in Nat, NEW q \in Parts(s), NEW f, NEW g, SameParts(f, g, s, q)
  PROVE  Means(f, s, q) = Means(g, s, q)
<1>1. CASE q.kind = "value"
  <2>1. CASE q.depth > MaxDepth
    BY <1>1, <2>1, Zenon DEF Means, ValueMeans
  <2>2. CASE ~(q.depth > MaxDepth)
    <3>1. q.depth <= MaxDepth
      BY <2>2, PartFacts, JsonAssumption
    <3>2. BeginArray # EndArray /\ BeginObject # EndObject
      BY Zenon DEF BeginArray, EndArray, BeginObject, EndObject
    <3>3. /\ Bracketed(f, s, q, BeginArray, EndArray, "elements")
               = Bracketed(g, s, q, BeginArray, EndArray, "elements")
          /\ Bracketed(f, s, q, BeginObject, EndObject, "members")
               = Bracketed(g, s, q, BeginObject, EndObject, "members")
      BY <3>1, <3>2, BracketedAgrees
    <3> QED
      BY <1>1, <3>3, Zenon DEF Means, ValueMeans
  <2> QED
    BY <2>1, <2>2
<1>2. CASE q.kind = "elements"
  BY <1>2, ElementsMeanAgrees, Zenon DEF Means
<1>3. CASE q.kind = "members"
  BY <1>3, MembersMeanAgrees, Zenon DEF Means
<1> QED
  BY <1>1, <1>2, <1>3, PartFacts

\* The parts smaller than n, and what the rules give them.
Within(s, n) == {q \in Parts(s) : Extent(s, q) < n}

Follows(f, s, n) ==
  f = [q \in Within(s, n) |-> f[q]] /\ \A q \in Within(s, n) : f[q] = Means(f, s, q)

\* From the parts smaller than n to those of extent n.
LEMMA MeansOneMore ==
  ASSUME NEW s, Len(s) \in Nat, NEW n \in Nat, NEW f, Follows(f, s, n)
  PROVE  \E g : Follows(g, s, n + 1)
<1> DEFINE S == Within(s, n + 1)
           g == [q \in S |-> Means(f, s, q)]
<1>1. \A q \in S : q \in Parts(s) /\ g[q] = Means(f, s, q)
  BY DEF Within
<1>2. \A p \in Within(s, n) : f[p] = g[p]
  <2> SUFFICES ASSUME NEW p \in Within(s, n) PROVE f[p] = g[p]
    OBVIOUS
  <2>1. p \in S
    BY ExtentFacts DEF Within
  <2> HIDE DEF S, g
  <2> QED
    BY <1>1, <2>1 DEF Follows
<1>3. \A q \in S : SameParts(f, g, s, q)
  <2> SUFFICES ASSUME NEW q \in S, NEW p \in Parts(s), Extent(s, p) < Extent(s, q)
               PROVE  f[p] = g[p]
    BY Zenon DEF SameParts
  <2>1. Extent(s, p) \in Nat /\ Extent(s, q) \in Nat /\ Extent(s, q) < n + 1
    BY ExtentFacts DEF Within
  <2>2. p \in Within(s, n)
    BY <2>1 DEF Within
  <2> QED
    BY <1>2, <2>2
<1>4. \A q \in S : Means(f, s, q) = Means(g, s, q)
  BY <1>1, <1>3, MeansAgrees
<1>5. \A q \in S : g[q] = Means(g, s, q)
  <2> HIDE DEF S, g
  <2> QED
    BY <1>1, <1>4
<1>6. g = [q \in S |-> g[q]]
  OBVIOUS
<1> HIDE DEF g
<1> QED
  BY <1>5, <1>6 DEF Follows

\* The reference follows its rules.
LEMMA MeaningFacts ==
  ASSUME NEW s, Len(s) \in Nat, NEW q \in Parts(s)
  PROVE  Meanings(s)[q] = Means(Meanings(s), s, q)
<1> DEFINE T == {n \in Nat : \E f : Follows(f, s, n)}
           F(f) == [p \in Parts(s) |-> Means(f, s, p)]
           means == CHOOSE f : f = F(f)
<1>1. 0 \in T
  <2>1. Within(s, 0) = {}
    BY ExtentFacts DEF Within
  <2>2. Follows([p \in {} |-> {}], s, 0)
    BY <2>1 DEF Follows
  <2> QED
    BY <2>2
<1>2. ASSUME NEW n \in Nat, n \in T PROVE n + 1 \in T
  BY <1>2, MeansOneMore
<1>3. Nat \subseteq T
  <2> HIDE DEF T
  <2> QED
    BY <1>1, <1>2, Induction
<1>4. 4 * Len(s) + 4 \in Nat
  OBVIOUS
<1>5. PICK f : Follows(f, s, 4 * Len(s) + 4)
  BY <1>3, <1>4
<1>6. Within(s, 4 * Len(s) + 4) = Parts(s)
  BY ExtentFacts DEF Within
<1>7. f = F(f)
  BY <1>5, <1>6 DEF Follows
<1>8. means = F(means)
  <2> HIDE DEF F
  <2> QED
    BY <1>7
<1>9. Meanings(s) = means
  BY DEF Meanings
<1>10. \A h : F(h)[q] = Means(h, s, q)
  OBVIOUS
<1> HIDE DEF F, means
<1> QED
  BY <1>8, <1>9, <1>10, Zenon

-----------------------------------------------------------------------------
(* The parser is right.                                                     *)

Close(job) == IF job = "elements" THEN EndArray ELSE EndObject

\* Part q begins where task t begins, spaces apart; that of an array or object ends where
\* the bracket is.
Fits(s, t, q) ==
  /\ q.kind = t.job /\ q.depth = t.depth /\ q.used = t.used
  /\ q.from <= t.at /\ Blank(s, q.from, t.at - 1)
  /\ t.job # "value" => Char(s, t.at) # Space /\ q.to < Len(s) /\ s[q.to + 1] = Close(t.job)

\* After result r there are only spaces left of q, or after its bracket nothing.
Reaches(s, q, r) ==
  IF q.kind = "value" THEN r.next <= q.to + 1 /\ Blank(s, r.next, q.to) ELSE r.next = q.to + 2

Yields(s, t, q, x) == \E r \in Parse(s)[t] : r.value = x /\ Reaches(s, q, r)

\* What is parsed is what the part means; lists end with their bracket.
Right(s, t) ==
  /\ t.job # "value" =>
       \A r \in Parse(s)[t] : t.at + 2 <= r.next /\ s[r.next - 1] = Close(t.job)
  /\ \A q \in Parts(s) : Fits(s, t, q) => \A x : x \in Meanings(s)[q] <=> Yields(s, t, q, x)

\* The hypothesis of the induction.
Known(s, t) == \A u \in Tasks(s) : Size(s, u) < Size(s, t) => Right(s, u)

\* Punctuation is not confused with itself or with what is read.
LEMMA LexemesDiffer ==
  /\ BeginObject # BeginArray /\ EndArray # Comma /\ EndObject # Comma
  /\ EndArray # Space /\ EndObject # Space /\ Comma # Space /\ Colon # Space
  /\ EndArray # BeginArray /\ EndArray # BeginObject /\ EndObject # BeginObject
  /\ BeginArray # Space /\ BeginObject # Space
  /\ {BeginObject, EndObject, BeginArray, EndArray, Colon, Comma, Space, End}
       \cap (Strings \cup Scalars) = {}
<1>1. {BeginObject, EndObject, BeginArray, EndArray, Colon, Comma, Space, End}
        \cap (Strings \cup Scalars) = {}
  BY JsonAssumption
<1> QED
  BY <1>1, Zenon DEF BeginObject, EndObject, BeginArray, EndArray, Colon, Comma, Space

\* A part of a task starts where ws() stops, if that is in the part.
LEMMA StartIs ==
  ASSUME NEW s, Len(s) \in Nat, NEW at \in 1..Len(s) + 1, NEW q \in Parts(s),
         q.from <= at, Blank(s, q.from, at - 1), NEW i
  PROVE  i \in Starts(s, q) <=> i = Ws(s, at) /\ i <= q.to
<1>1. q.from \in 1..Len(s) + 1 /\ q.to \in 0..Len(s)
  BY PartFacts
<1>2. PICK a : a = Ws(s, at)
  OBVIOUS
<1>3. a \in at..Len(s) + 1 /\ Blank(s, at, a - 1) /\ Char(s, a) # Space
  BY <1>2, WsFacts
<1>4. ASSUME i \in Starts(s, q) PROVE i = a /\ i <= q.to
  <2>1. i \in q.from..q.to /\ s[i] # Space /\ Blank(s, q.from, i - 1)
    BY <1>4 DEF Starts
  <2>2. ~(i < at)
    BY <1>1, <2>1 DEF Blank
  <2>3. i \in at..Len(s) + 1 /\ i <= Len(s) /\ i \in 1..Len(s) + 1
    BY <1>1, <2>1, <2>2
  <2>4. Char(s, i) # Space /\ Blank(s, at, i - 1)
    BY <1>1, <2>1, <2>3 DEF Char, Blank
  <2>5. i = Ws(s, at)
    BY <2>3, <2>4, WsUnique
  <2> QED
    BY <1>2, <2>1, <2>5
<1>5. ASSUME i = a, i <= q.to PROVE i \in Starts(s, q)
  <2>1. i \in q.from..q.to /\ i <= Len(s)
    BY <1>1, <1>3, <1>5
  <2>2. s[i] # Space
    BY <1>3, <1>5, <2>1 DEF Char
  <2>3. Blank(s, q.from, i - 1)
    BY <1>1, <1>3, <1>5 DEF Blank
  <2> QED
    BY <2>1, <2>2, <2>3 DEF Starts
<1> QED
  BY <1>2, <1>4, <1>5

\* value(), with the places where ws() stops named.
LEMMA ValueIs ==
  ASSUME NEW h, NEW s, NEW t, NEW a, a = Ws(s, t.at), NEW k, k = Ws(s, a + 1)
  PROVE  Value(h, s, t) =
           IF t.depth > MaxDepth THEN {}
           ELSE IF Char(s, a) = BeginObject THEN
             IF Char(s, k) = EndObject THEN {[value |-> Object(<<>>), next |-> k + 1]}
             ELSE {[r EXCEPT !.value = Object(@)] : r \in h[Task("members", k, t.depth + 1)]}
           ELSE IF Char(s, a) = BeginArray THEN
             IF Char(s, k) = EndArray THEN {[value |-> Array(<<>>), next |-> k + 1]}
             ELSE {[r EXCEPT !.value = Array(@)] : r \in h[Task("elements", k, t.depth + 1)]}
           ELSE {[r EXCEPT !.value = Atom(@)] : r \in Read(s, a, Strings \cup Scalars)}
BY Zenon DEF Value, Throw, Return

\* After a comma another item must follow: at its closing bracket a list throws.
LEMMA NothingAtClose ==
  ASSUME NEW s, Len(s) \in Nat, NEW job \in {"elements", "members"}, NEW k \in 1..Len(s) + 1,
         NEW depth \in 0..MaxDepth + 1, Char(s, k) = Close(job)
  PROVE  Parse(s)[Task(job, k, depth)] = {}
<1> DEFINE u == Task(job, k, depth)
           P == Parse(s)
<1>1. u \in Tasks(s) /\ u.at = k /\ u.job = job /\ u.depth = depth
  BY DEF Task, Tasks
<1>2. P[u] = Do(P, s, u)
  BY <1>1, ParserFacts
<1>3. Char(s, k) \notin Strings \cup Scalars
  BY LexemesDiffer DEF Close
<1>4. \A lexemes : lexemes \subseteq Strings \cup Scalars => Read(s, k, lexemes) = {}
  BY <1>3 DEF Read, Throw
<1>5. CASE job = "elements"
  <2> DEFINE v == Task("value", k, depth)
  <2>1. v \in Tasks(s) /\ v.at = k /\ v.job = "value"
    BY DEF Task, Tasks
  <2>2. Char(s, k) = EndArray /\ Char(s, k) # Space
    BY <1>5, LexemesDiffer DEF Close
  <2>3. k = Ws(s, k)
    <3>1. k \in k..Len(s) + 1 /\ Blank(s, k, k - 1)
      BY DEF Blank
    <3> QED
      BY <2>2, <3>1, WsUnique
  <2>4. P[v] = Value(P, s, v)
    <3>1. P[v] = Do(P, s, v)
      BY <2>1, ParserFacts
    <3> QED
      BY <2>1, <3>1, Zenon DEF Do
  <2>5. Char(s, k) # BeginObject /\ Char(s, k) # BeginArray
    BY <2>2, LexemesDiffer
  <2>6. Value(P, s, v) =
          IF v.depth > MaxDepth THEN {}
          ELSE {[r EXCEPT !.value = Atom(@)] : r \in Read(s, k, Strings \cup Scalars)}
    <3>1. Ws(s, v.at) = k
      BY <2>1, <2>3
    <3> HIDE DEF v, P
    <3> QED
      BY <2>5, <3>1, ValueIs, Zenon
  <2>7. Read(s, k, Strings \cup Scalars) = {}
    BY <1>4
  <2>8. P[v] = {}
    <3> HIDE DEF v, P
    <3> QED
      BY <2>4, <2>6, <2>7
  <2>9. P[u] = Elements(P, s, u)
    BY <1>1, <1>2, <1>5, Zenon DEF Do
  <2>10. Elements(P, s, u) = UNION {Loop(P, s, r.value, r.next, EndArray, u) : r \in P[v]}
    BY <1>1, Zenon DEF Elements
  <2> HIDE DEF u, v, P
  <2>11. P[u] = {}
    BY <2>8, <2>9, <2>10
  <2> QED
    BY <2>11 DEF u, P
<1>6. CASE job = "members"
  <2> DEFINE B(key) ==
        LET colon == Ws(s, key.next)
            more  == [u EXCEPT !.used = @ \cup {key.value}]
        IN  IF ~NewKey(u.used, key.value) \/ Char(s, colon) # Colon THEN Throw
            ELSE UNION {Loop(P, s, <<key.value, v.value>>, v.next, EndObject, more) :
                          v \in P[Task("value", colon + 1, u.depth)]}
  <2>1. P[u] = Members(P, s, u)
    BY <1>1, <1>2, <1>6, Zenon DEF Do
  <2>2. Members(P, s, u) = UNION {B(key) : key \in Read(s, k, Strings)}
    BY <1>1, Zenon DEF Members
  <2>3. Read(s, k, Strings) = {}
    BY <1>4
  <2> HIDE DEF u, P, B
  <2>4. P[u] = {}
    BY <2>1, <2>2, <2>3
  <2> QED
    BY <2>4 DEF u, P
<1> QED
  BY <1>5, <1>6

\* What is between two brackets, parsed and meant.
Between(s, t, q, job, k, vs) ==
  IF Char(s, k) = Close(job) THEN vs = <<>> /\ k + 1 <= q.to + 1 /\ Blank(s, k + 1, q.to)
  ELSE \E r \in Parse(s)[Task(job, k, t.depth + 1)] :
         r.value = vs /\ r.next <= q.to + 1 /\ Blank(s, r.next, q.to)

\* If smaller tasks are right, the parser finds the end and the content that the rules find.
LEMMA BracketRight ==
  ASSUME NEW s, Len(s) \in Nat, NEW t \in Tasks(s), t.job = "value", t.depth <= MaxDepth,
         Known(s, t), NEW q \in Parts(s), Fits(s, t, q), NEW job \in {"elements", "members"},
         NEW open, open # Close(job), open # End, open # Space,
         NEW a, a = Ws(s, t.at), Char(s, a) = open, NEW k, k = Ws(s, a + 1), NEW vs
  PROVE  vs \in Bracketed(Meanings(s), s, q, open, Close(job), job) <=>
           Between(s, t, q, job, k, vs)
<1> SUFFICES vs \in Bracketed(Meanings(s), s, q, open, Close(job), job) <=>
           IF Char(s, k) = Close(job) THEN vs = <<>> /\ k + 1 <= q.to + 1 /\ Blank(s, k + 1, q.to)
           ELSE \E r \in Parse(s)[Task(job, k, t.depth + 1)] :
                  r.value = vs /\ r.next <= q.to + 1 /\ Blank(s, r.next, q.to)
  BY Zenon DEF Between
<1> DEFINE u == Task(job, k, t.depth + 1)
           p(j) == Part(job, a + 1, j - 1, t.depth + 1)
           close == Close(job)
           M == Meanings(s)
<1>1. /\ t.at \in 1..Len(s) + 1 /\ t.depth + 1 \in 0..MaxDepth + 1
      /\ q.from \in 1..Len(s) + 1 /\ q.to \in 0..Len(s) /\ q.depth = t.depth
      /\ q.from <= t.at /\ Blank(s, q.from, t.at - 1)
  BY TaskFacts, PartFacts, JsonAssumption DEF Fits
<1>2. a \in t.at..Len(s) + 1 /\ a <= Len(s) /\ a + 1 \in 1..Len(s) + 1 /\ s[a] = open
      /\ a \in Nat
  <2>1. a \in t.at..Len(s) + 1 /\ a \in 1..Len(s) + 1
    BY <1>1, WsFacts
  <2>2. a <= Len(s)
    BY <2>1, CharFacts
  <2> QED
    BY <2>1, <2>2, CharFacts
<1>3. /\ k \in a + 1..Len(s) + 1 /\ Blank(s, a + 1, k - 1) /\ Char(s, k) # Space
  BY <1>2, WsFacts
<1>4. close # Space /\ close # open /\ close # End
  BY LexemesDiffer, CharFacts, <1>1 DEF Close
<1>5. \A i : i \in Starts(s, q) <=> i = a /\ a <= q.to
  BY <1>1, StartIs
<1>6. ASSUME NEW j \in Stops(s, q), s[j] = close
      PROVE  j \in k..q.to /\ Blank(s, j + 1, q.to) /\ j <= Len(s) /\ j \in Nat
  <2>1. j \in q.from..q.to /\ s[j] # Space /\ Blank(s, j + 1, q.to)
    BY DEF Stops
  <2>2. Blank(s, t.at, a - 1)
    BY <1>1, WsFacts
  <2>3. ~(j < t.at) /\ ~(j \in t.at..a - 1) /\ j # a
    BY <1>1, <1>2, <1>4, <1>6, <2>1, <2>2 DEF Blank
  <2>4. j \in Int /\ j >= a + 1
    BY <1>1, <1>2, <2>1, <2>3
  <2>5. ~(j \in a + 1..k - 1)
    BY <1>3, <2>1 DEF Blank
  <2> QED
    BY <1>1, <1>2, <1>3, <2>1, <2>4, <2>5
<1>7. ASSUME NEW j \in k..q.to, s[j] = close, Blank(s, j + 1, q.to)
      PROVE  j \in Stops(s, q) /\ a <= q.to
  BY <1>1, <1>2, <1>3, <1>4, <1>7 DEF Stops
<1>8. ASSUME NEW j \in k..q.to PROVE Blank(s, a + 1, j - 1) <=> j = k
  <2>1. CASE j = k
    BY <1>3, <2>1
  <2>2. CASE j # k
    <3>1. k \in a + 1..j - 1 /\ k <= Len(s)
      BY <1>1, <1>2, <1>3, <2>2
    <3>2. s[k] # Space
      BY <1>2, <1>3, <3>1 DEF Char
    <3> QED
      BY <2>2, <3>1, <3>2 DEF Blank
  <2> QED
    BY <2>1, <2>2
<1>9. /\ u \in Tasks(s) /\ u.at = k /\ u.job = job /\ u.depth = t.depth + 1 /\ u.used = {}
      /\ Right(s, u)
  <2>1. k \in 1..Len(s) + 1 /\ t.at < k
    BY <1>1, <1>2, <1>3
  <2>2. u \in Tasks(s) /\ Size(s, u) < Size(s, t)
    BY <1>1, <2>1, Smaller
  <2>3. u.at = k /\ u.job = job /\ u.depth = t.depth + 1 /\ u.used = {}
    BY DEF Task
  <2> QED
    BY <2>2, <2>3 DEF Known
<1> HIDE DEF u
<1>10. ASSUME NEW j \in k..q.to, s[j] = close, j # k
       PROVE  vs \in M[p(j)] <=> \E r \in Parse(s)[u] : r.value = vs /\ r.next = j + 1
  <2>1. j - 1 \in 0..Len(s) /\ j \in Nat /\ j - 1 < Len(s) /\ (j - 1) + 1 = j
    BY <1>1, <1>2, <1>3, <1>10
  <2>2. p(j) \in Parts(s) /\ p(j).kind = job /\ p(j).depth = t.depth + 1 /\ p(j).used = {}
        /\ p(j).from = a + 1 /\ p(j).to = j - 1
    BY <1>1, <1>2, <2>1 DEF Part, Parts
  <2> HIDE DEF p
  <2>3. Fits(s, u, p(j))
    BY <1>2, <1>3, <1>9, <1>10, <2>1, <2>2 DEF Fits
  <2>4. vs \in M[p(j)] <=> Yields(s, u, p(j), vs)
    BY <1>9, <2>2, <2>3 DEF Right
  <2>5. p(j).kind # "value" /\ p(j).to + 2 = j + 1
    BY <2>1, <2>2
  <2> QED
    BY <2>4, <2>5 DEF Yields, Reaches
<1>11. vs \in Bracketed(M, s, q, open, close, job) <=>
         \E j \in Stops(s, q) :
           /\ s[j] = close /\ a <= q.to
           /\ vs \in IF Blank(s, a + 1, j - 1) THEN {<<>>} ELSE M[p(j)]
  <2>1. vs \in Bracketed(M, s, q, open, close, job) <=>
          \E i \in Starts(s, q), j \in Stops(s, q) :
             /\ s[i] = open /\ s[j] = close
             /\ vs \in IF Blank(s, i + 1, j - 1) THEN {<<>>}
                       ELSE M[Part(job, i + 1, j - 1, q.depth + 1)]
    BY BracketedIs
  <2>2. q.depth = t.depth /\ s[a] = open
    BY <1>1, <1>2
  <2> HIDE DEF M, close
  <2> QED
    BY <1>5, <2>1, <2>2
<1> HIDE DEF p, M
<1>12. CASE Char(s, k) = close
  <2>1. k <= Len(s) /\ s[k] = close
    BY <1>2, <1>3, <1>4, <1>12, CharFacts
  <2>2. Parse(s)[u] = {}
    <3>1. k \in 1..Len(s) + 1
      BY <1>2, <1>3
    <3> QED
      BY <1>1, <1>12, <3>1, NothingAtClose DEF u
  <2>3. ASSUME vs \in Bracketed(M, s, q, open, close, job)
        PROVE  vs = <<>> /\ k + 1 <= q.to + 1 /\ Blank(s, k + 1, q.to)
    <3>1. PICK j \in Stops(s, q) :
            s[j] = close /\ vs \in IF Blank(s, a + 1, j - 1) THEN {<<>>} ELSE M[p(j)]
      BY <1>11, <2>3
    <3>2. j \in k..q.to /\ Blank(s, j + 1, q.to)
      BY <1>6, <3>1
    <3>3. j = k
      BY <1>8, <1>10, <2>2, <3>1, <3>2
    <3> QED
      BY <1>1, <1>3, <1>8, <3>1, <3>2, <3>3
  <2>4. ASSUME vs = <<>>, k + 1 <= q.to + 1, Blank(s, k + 1, q.to)
        PROVE  vs \in Bracketed(M, s, q, open, close, job)
    <3>1. k \in k..q.to
      BY <1>1, <1>2, <1>3, <2>4
    <3>2. k \in Stops(s, q) /\ a <= q.to
      BY <1>7, <2>1, <2>4, <3>1
    <3>3. Blank(s, a + 1, k - 1)
      BY <1>3
    <3> QED
      BY <1>11, <2>1, <2>4, <3>2, <3>3
  <2> QED
    BY <1>12, <2>3, <2>4 DEF M, close
<1>13. CASE Char(s, k) # close
  <2>1. \A j \in k..q.to : s[j] = close => j # k
    <3>1. CASE k <= Len(s)
      BY <1>13, <3>1 DEF Char
    <3>2. CASE ~(k <= Len(s))
      BY <1>1, <1>2, <1>3, <3>2
    <3> QED
      BY <3>1, <3>2
  <2>2. ASSUME vs \in Bracketed(M, s, q, open, close, job)
        PROVE  \E r \in Parse(s)[u] : r.value = vs /\ r.next <= q.to + 1 /\ Blank(s, r.next, q.to)
    <3>1. PICK j \in Stops(s, q) :
            s[j] = close /\ vs \in IF Blank(s, a + 1, j - 1) THEN {<<>>} ELSE M[p(j)]
      BY <1>11, <2>2
    <3>2. j \in k..q.to /\ Blank(s, j + 1, q.to) /\ j \in Nat
      BY <1>6, <3>1
    <3>3. PICK r \in Parse(s)[u] : r.value = vs /\ r.next = j + 1
      BY <1>8, <1>10, <2>1, <3>1, <3>2
    <3>4. j + 1 <= q.to + 1
      BY <1>1, <3>2
    <3> QED
      BY <3>2, <3>3, <3>4
  <2>3. ASSUME NEW r \in Parse(s)[u], r.value = vs, r.next <= q.to + 1, Blank(s, r.next, q.to)
        PROVE  vs \in Bracketed(M, s, q, open, close, job)
    <3>1. r.next \in k + 1..Len(s) + 1
      BY <1>9, ParserFacts DEF Found
    <3>2. PICK j : j = r.next - 1
      OBVIOUS
    <3>3. r.next = j + 1 /\ j \in k..q.to
      <4>1. PICK n : n = r.next
        OBVIOUS
      <4>2. n \in k + 1..Len(s) + 1 /\ n <= q.to + 1 /\ j = n - 1 /\ k \in Nat /\ q.to \in Nat
        BY <1>1, <1>2, <1>3, <2>3, <3>1, <3>2, <4>1
      <4>3. n = j + 1 /\ j \in k..q.to
        BY <4>2
      <4> QED
        BY <4>1, <4>3
    <3>4. s[j] = close
      BY <1>9, <3>2 DEF Right
    <3>5. j # k /\ j \in Stops(s, q) /\ a <= q.to /\ ~Blank(s, a + 1, j - 1)
      BY <1>7, <1>8, <2>1, <2>3, <3>3, <3>4
    <3>6. vs \in M[p(j)]
      BY <1>10, <2>3, <3>3, <3>4, <3>5
    <3> QED
      BY <1>11, <3>4, <3>5, <3>6
  <2> QED
    BY <1>13, <2>2, <2>3 DEF M, close, u
<1> QED
  BY <1>12, <1>13

\* A list's result with an item before it, and what is left of the list after a comma at e.
Before(item, r) == [value |-> <<item>> \o r.value, next |-> r.next]
Rest(s, t, e)   == [t EXCEPT !.at = Ws(s, e + 1)]

\* The parts of that result.
LEMMA BeforeIs ==
  ASSUME NEW item, NEW r
  PROVE  Before(item, r).value = <<item>> \o r.value /\ Before(item, r).next = r.next
BY DEF Before

\* After an item comes its list's bracket, or a comma and the rest of the list.
GoesOnWith(s, t, item, i, e, u) ==
  /\ e \in i..Len(s) /\ s[e] = Comma
  /\ u \in Tasks(s) /\ u.job = t.job /\ u.depth = t.depth /\ u.used = t.used
  /\ Size(s, u) < Size(s, t)
  /\ u.at \in e + 1..Len(s) + 1 /\ Blank(s, e + 1, u.at - 1) /\ Char(s, u.at) # Space
  /\ \A y : y \in Loop(Parse(s), s, item, i, Close(t.job), t) <=>
              \E r \in Parse(s)[u] : y = Before(item, r)

\* ws() and the comma lie in the text, and what is left is a smaller task.
LEMMA GoesOn ==
  ASSUME NEW s, Len(s) \in Nat, NEW t \in Tasks(s), t.job # "value", NEW item,
         NEW i \in 1..Len(s) + 1, t.at < i, NEW e, e = Ws(s, i), Char(s, e) = Comma,
         NEW u, u = Rest(s, t, e)
  PROVE  GoesOnWith(s, t, item, i, e, u)
<1>1. t.at \in 1..Len(s) + 1 /\ e \in i..Len(s) + 1 /\ e \in 1..Len(s) + 1
  BY TaskFacts, WsFacts
<1>2. e <= Len(s) /\ s[e] = Comma
  BY <1>1, CharFacts
<1>3. PICK x : x = Ws(s, e + 1)
  OBVIOUS
<1>4. x \in e + 1..Len(s) + 1 /\ Blank(s, e + 1, x - 1) /\ Char(s, x) # Space
  <2>1. e + 1 \in 1..Len(s) + 1
    BY <1>1, <1>2
  <2> QED
    BY <1>3, <2>1, WsFacts
<1>5. /\ u \in Tasks(s) /\ u.at = x /\ u.job = t.job /\ u.depth = t.depth /\ u.used = t.used
  BY <1>1, <1>3, <1>4 DEF Tasks, Rest
<1>6. Size(s, u) < Size(s, t)
  <2>1. t.at < x /\ x \in Nat
    BY <1>1, <1>4
  <2> QED
    BY <1>1, <1>5, <2>1 DEF Size
<1>7. Loop(Parse(s), s, item, i, Close(t.job), t)
        = {[r EXCEPT !.value = <<item>> \o @] : r \in Parse(s)[u]}
  <2>1. Comma # Close(t.job)
    BY LexemesDiffer DEF Close
  <2>2. Char(s, Ws(s, i)) # Close(t.job) /\ Char(s, Ws(s, i)) = Comma
    BY <2>1
  <2>3. u = [t EXCEPT !.at = Ws(s, Ws(s, i) + 1)]
    BY Zenon DEF Rest
  <2> QED
    BY <2>2, <2>3 DEF Loop
<1>8. \A r \in Parse(s)[u] :
        [r EXCEPT !.value = <<item>> \o @] = Before(item, r)
  <2> SUFFICES ASSUME NEW r \in Parse(s)[u]
      PROVE [r EXCEPT !.value = <<item>> \o @] = Before(item, r)
    OBVIOUS
  <2>1. Found(s, x, r)
    BY <1>5, ParserFacts
  <2>2. x \in 1..Len(s) + 1 /\ x \in x..Len(s) + 1
    BY <1>1, <1>4
  <2>3. \A w : [r EXCEPT !.value = w] = [value |-> w, next |-> r.next]
    BY <2>1, <2>2, Rewrapped
  <2> QED
    BY <2>3, Zenon DEF Before
<1>9. \A y : y \in Loop(Parse(s), s, item, i, Close(t.job), t) <=>
               \E r \in Parse(s)[u] : y = Before(item, r)
  BY <1>7, <1>8
<1>10. u.at \in e + 1..Len(s) + 1 /\ Blank(s, e + 1, u.at - 1) /\ Char(s, u.at) # Space
  BY <1>4, <1>5, Zenon
<1>11. e \in i..Len(s)
  BY <1>1, <1>2
<1> QED
  BY <1>2, <1>5, <1>6, <1>9, <1>10, <1>11, Zenon DEF GoesOnWith

\* A list ends with its bracket.
LEMMA LoopCloses ==
  ASSUME NEW s, Len(s) \in Nat, NEW t \in Tasks(s), t.job # "value", Known(s, t), NEW item,
         NEW i \in 1..Len(s) + 1, t.at < i,
         NEW y \in Loop(Parse(s), s, item, i, Close(t.job), t)
  PROVE  t.at + 2 <= y.next /\ s[y.next - 1] = Close(t.job) /\ i + 1 <= y.next
<1>1. PICK e : e = Ws(s, i)
  OBVIOUS
<1>2. t.at \in 1..Len(s) + 1 /\ e \in i..Len(s) + 1 /\ e \in 1..Len(s) + 1
  BY <1>1, TaskFacts, WsFacts
<1>3. CASE Char(s, e) = Close(t.job)
  <2>1. y = [value |-> <<item>>, next |-> e + 1]
    BY <1>1, <1>3 DEF Loop, Return
  <2>2. Close(t.job) # End
    BY <1>2, CharFacts DEF Close
  <2>3. s[e] = Close(t.job)
    BY <1>2, <1>3, <2>2, CharFacts
  <2>4. PICK n : n = y.next
    OBVIOUS
  <2>5. n = e + 1
    BY <2>1, <2>4
  <2>6. n - 1 = e /\ t.at + 2 <= n /\ i + 1 <= n
    BY <1>2, <2>5
  <2>7. s[n - 1] = Close(t.job)
    BY <2>3, <2>6, Zenon
  <2> QED
    BY <2>4, <2>6, <2>7, Zenon
<1>4. CASE Char(s, e) # Close(t.job)
  <2>1. Char(s, e) = Comma
    BY <1>1, <1>4 DEF Loop, Throw
  <2>2. PICK u : u = Rest(s, t, e)
    OBVIOUS
  <2>3. /\ u \in Tasks(s) /\ u.job = t.job /\ Size(s, u) < Size(s, t)
        /\ u.at \in e + 1..Len(s) + 1
        /\ \E r \in Parse(s)[u] : y = Before(item, r)
    <3>1. GoesOnWith(s, t, item, i, e, u)
      BY <1>1, <2>1, <2>2, GoesOn
    <3> QED
      BY <3>1, Zenon DEF GoesOnWith
  <2>4. PICK r \in Parse(s)[u] : y = Before(item, r)
    BY <2>3
  <2>5. u.at + 2 <= r.next /\ s[r.next - 1] = Close(t.job)
    BY <2>3 DEF Known, Right
  <2>6. Found(s, u.at, r)
    BY <2>3, ParserFacts
  <2>7. r.next \in Int /\ y.next = r.next
    <3>1. r.next \in Int
      BY <2>6 DEF Found
    <3> QED
      BY <2>4, <3>1, BeforeIs, Zenon
  <2>8. t.at + 2 <= r.next /\ i + 1 <= r.next
    BY <1>2, <2>3, <2>5, <2>7
  <2> QED
    BY <2>5, <2>7, <2>8
<1> QED
  BY <1>3, <1>4

\* What follows an item, parsed and meant.
Loops(s, t, q, item, i, x) ==
  \E r \in Loop(Parse(s), s, item, i, Close(t.job), t) : r.value = x /\ r.next = q.to + 2

Continues(s, q, item, i, x) ==
  \E k \in Cuts(s, q) :
    i <= k /\ Blank(s, i, k - 1) /\ \E vs \in After(Meanings(s), q, k) : x = <<item>> \o vs

\* If smaller tasks are right, the loop goes on as the rules say.
LEMMA LoopRight ==
  ASSUME NEW s, Len(s) \in Nat, NEW t \in Tasks(s), t.job # "value", Known(s, t),
         NEW q \in Parts(s), Fits(s, t, q), NEW item, NEW i \in 1..Len(s) + 1, t.at < i, NEW x
  PROVE  Loops(s, t, q, item, i, x) <=> Continues(s, q, item, i, x)
<1> SUFFICES
      (\E r \in Loop(Parse(s), s, item, i, Close(t.job), t) : r.value = x /\ r.next = q.to + 2)
      <=> \E k \in Cuts(s, q) : /\ i <= k /\ Blank(s, i, k - 1)
                                /\ \E vs \in After(Meanings(s), q, k) : x = <<item>> \o vs
  BY Zenon DEF Loops, Continues
<1> DEFINE M == Meanings(s)
           L == Loop(Parse(s), s, item, i, Close(t.job), t)
<1>1. PICK e : e = Ws(s, i)
  OBVIOUS
<1>2. PICK close : close = Close(t.job)
  OBVIOUS
<1>3. /\ t.at \in 1..Len(s) + 1 /\ e \in i..Len(s) + 1 /\ e \in 1..Len(s) + 1
      /\ Blank(s, i, e - 1) /\ Char(s, e) # Space
  BY <1>1, TaskFacts, WsFacts
<1>4. /\ q.from \in 1..Len(s) + 1 /\ q.to \in 0..Len(s) /\ q.from <= t.at
      /\ q.to < Len(s) /\ s[q.to + 1] = close /\ q.kind = t.job /\ q.kind # "value"
      /\ q.depth = t.depth /\ q.used = t.used
  BY <1>2, PartFacts DEF Fits
<1>5. close # Space /\ close # Comma /\ close # End /\ Comma # Space /\ Comma # End
  BY <1>2, <1>3, LexemesDiffer, CharFacts DEF Close
<1>6. ASSUME NEW k \in Cuts(s, q), i <= k, Blank(s, i, k - 1) PROVE k = e
  <2>1. k \in i..Len(s) + 1 /\ k <= Len(s)
    BY <1>3, <1>4, <1>6 DEF Cuts
  <2>2. s[k] # Space
    BY <1>4, <1>5 DEF Cuts
  <2>3. Char(s, k) # Space
    BY <2>1, <2>2 DEF Char
  <2> QED
    BY <1>1, <1>6, <2>1, <2>3, WsUnique
<1>7. <<item>> \o <<>> = <<item>>
  OBVIOUS
<1>8. CASE Char(s, e) = close
  <2>1. \A r : r \in L <=> r = [value |-> <<item>>, next |-> e + 1]
    BY <1>1, <1>2, <1>8 DEF Loop, Return
  <2>2. e <= Len(s) /\ s[e] = close
    BY <1>3, <1>5, <1>8, CharFacts
  <2>3. (\E r \in L : r.value = x /\ r.next = q.to + 2) <=> x = <<item>> /\ e = q.to + 1
    <3>1. e + 1 = q.to + 2 <=> e = q.to + 1
      BY <1>3, <1>4
    <3> HIDE DEF L
    <3>2. PICK z : z = [value |-> <<item>>, next |-> e + 1]
      OBVIOUS
    <3>3. z.value = <<item>> /\ z.next = e + 1
      BY <3>2
    <3>4. \A r : r \in L <=> r = z
      BY <2>1, <3>2, Zenon
    <3> QED
      BY <3>1, <3>3, <3>4, Zenon
  <2>4. ASSUME NEW k \in Cuts(s, q), i <= k, Blank(s, i, k - 1),
               NEW vs \in After(M, q, k), x = <<item>> \o vs
        PROVE  x = <<item>> /\ e = q.to + 1
    <3>1. k = e
      BY <1>6, <2>4
    <3>2. k = q.to + 1
      BY <1>5, <2>2, <3>1 DEF Cuts
    <3>3. vs = <<>>
      BY <3>2 DEF After
    <3> QED
      BY <1>7, <2>4, <3>1, <3>2, <3>3
  <2>5. ASSUME x = <<item>>, e = q.to + 1
        PROVE  /\ e \in Cuts(s, q) /\ i <= e /\ Blank(s, i, e - 1)
               /\ <<>> \in After(M, q, e) /\ x = <<item>> \o <<>>
    BY <1>3, <1>4, <1>7, <2>5 DEF Cuts, After
  <2> QED
    BY <1>2, <2>3, <2>4, <2>5
<1>9. CASE Char(s, e) = Comma
  <2>1. PICK u : u = Rest(s, t, e)
    OBVIOUS
  <2>2. /\ e \in i..Len(s) /\ s[e] = Comma
        /\ u \in Tasks(s) /\ u.job = t.job /\ u.depth = t.depth /\ u.used = t.used
        /\ Size(s, u) < Size(s, t)
        /\ u.at \in e + 1..Len(s) + 1 /\ Blank(s, e + 1, u.at - 1) /\ Char(s, u.at) # Space
        /\ \A y : y \in L <=>
                    \E r \in Parse(s)[u] : y = Before(item, r)
    <3>1. GoesOnWith(s, t, item, i, e, u)
      BY <1>1, <1>9, <2>1, GoesOn
    <3> QED
      BY <3>1, Zenon DEF GoesOnWith
  <2> HIDE DEF L
  <2>3. Right(s, u)
    BY <2>2 DEF Known
  <2>4. ASSUME e <= q.to
        PROVE  \A vs : vs \in After(M, q, e) <=>
                         \E r \in Parse(s)[u] : r.value = vs /\ r.next = q.to + 2
    <3> DEFINE p == [q EXCEPT !.from = e + 1]
    <3>1. e + 1 \in 1..Len(s) + 1 /\ e # q.to + 1
      BY <1>3, <1>4, <2>2, <2>4
    <3>2. /\ p \in Parts(s) /\ p.from = e + 1 /\ p.to = q.to /\ p.kind = t.job
          /\ p.depth = t.depth /\ p.used = t.used
      BY <1>4, <3>1 DEF Parts
    <3>3. After(M, q, e) = M[p]
      BY <3>1 DEF After
    <3> HIDE DEF p, M
    <3>4. Fits(s, u, p)
      BY <1>2, <1>4, <2>2, <3>1, <3>2 DEF Fits
    <3>5. \A vs : vs \in M[p] <=> Yields(s, u, p, vs)
      BY <2>3, <3>2, <3>4 DEF Right, M
    <3>6. p.kind # "value" /\ p.to + 2 = q.to + 2
      BY <3>2
    <3> QED
      BY <3>3, <3>5, <3>6 DEF Yields, Reaches
  <2>5. ASSUME NEW y \in L, y.value = x, y.next = q.to + 2
        PROVE  \E k \in Cuts(s, q) : /\ i <= k /\ Blank(s, i, k - 1)
                                     /\ \E vs \in After(M, q, k) : x = <<item>> \o vs
    <3>1. PICK r \in Parse(s)[u] : y = Before(item, r)
      BY <2>2
    <3>2. r.next = q.to + 2 /\ x = <<item>> \o r.value
      BY <2>5, <3>1, BeforeIs, Zenon
    <3>3. u.at + 2 <= r.next
      BY <1>4, <2>2, <2>3 DEF Right
    <3>4. e <= q.to
      BY <1>3, <1>4, <2>2, <3>2, <3>3
    <3>5. e \in Cuts(s, q)
      BY <1>3, <1>4, <2>2, <3>4 DEF Cuts
    <3>6. r.value \in After(M, q, e)
      BY <2>4, <3>2, <3>4
    <3>7. i <= e
      BY <1>3
    <3> HIDE DEF M
    <3> QED
      BY <1>3, <3>2, <3>5, <3>6, <3>7, Zenon
  <2>6. ASSUME NEW k \in Cuts(s, q), i <= k, Blank(s, i, k - 1),
               NEW vs \in After(M, q, k), x = <<item>> \o vs
        PROVE  \E y \in L : y.value = x /\ y.next = q.to + 2
    <3>1. k = e
      BY <1>6, <2>6
    <3>2. e <= q.to
      BY <1>4, <1>5, <2>2, <2>6, <3>1 DEF Cuts
    <3> HIDE DEF M
    <3>3. PICK r \in Parse(s)[u] : r.value = vs /\ r.next = q.to + 2
      BY <2>4, <2>6, <3>1, <3>2
    <3>4. Before(item, r) \in L
      BY <2>2
    <3>5. Before(item, r).value = x /\ Before(item, r).next = q.to + 2
      BY <2>6, <3>3, BeforeIs, Zenon
    <3> QED
      BY <3>4, <3>5
  <2> QED
    BY <2>5, <2>6, Zenon DEF L, M
<1>10. CASE Char(s, e) # close /\ Char(s, e) # Comma
  <2>1. L = {}
    BY <1>1, <1>2, <1>10 DEF Loop, Throw
  <2>2. ASSUME NEW k \in Cuts(s, q), i <= k, Blank(s, i, k - 1) PROVE FALSE
    <3>1. k = e /\ k <= Len(s)
      BY <1>4, <1>6, <2>2 DEF Cuts
    <3>2. s[k] = close \/ s[k] = Comma
      BY <1>4 DEF Cuts
    <3> QED
      BY <1>10, <3>1, <3>2 DEF Char
  <2> QED
    BY <2>1, <2>2
<1> QED
  BY <1>8, <1>9, <1>10

\* Arrays are right if what is smaller is.
LEMMA ElementsRight ==
  ASSUME NEW s, Len(s) \in Nat, NEW t \in Tasks(s), t.job = "elements", Known(s, t)
  PROVE  Right(s, t)
<1> DEFINE u == Task("value", t.at, t.depth)
           P == Parse(s)
           L(v) == Loop(P, s, v.value, v.next, EndArray, t)
<1>1. t.at \in 1..Len(s) + 1 /\ t.depth \in 0..MaxDepth + 1 /\ Close(t.job) = EndArray
  BY TaskFacts DEF Close
<1>2. /\ u \in Tasks(s) /\ u.at = t.at /\ Size(s, u) < Size(s, t)
      /\ u.job = "value" /\ u.depth = t.depth /\ u.used = {}
  <2>1. u \in Tasks(s) /\ u.at = t.at /\ Size(s, u) < Size(s, t)
    BY <1>1, Smaller
  <2> QED
    BY <2>1 DEF Task
<1>3. Right(s, u)
  BY <1>2 DEF Known
<1>4. P[t] = UNION {L(v) : v \in P[u]}
  <2>1. P[t] = Do(P, s, t)
    BY ParserFacts
  <2>2. P[t] = Elements(P, s, t)
    BY <2>1, Zenon DEF Do
  <2> QED
    BY <2>2, Zenon DEF Elements
<1> HIDE DEF u
<1>5. ASSUME NEW v \in P[u]
      PROVE  v.next \in 1..Len(s) + 1 /\ t.at < v.next
  <2>1. Found(s, t.at, v)
    BY <1>2, ParserFacts
  <2> QED
    BY <1>1, <2>1 DEF Found
<1>6. ASSUME NEW r \in P[t] PROVE t.at + 2 <= r.next /\ s[r.next - 1] = Close(t.job)
  <2>1. PICK v \in P[u] : r \in L(v)
    <3> HIDE DEF P, L
    <3> QED
      BY <1>4
  <2> QED
    BY <1>1, <1>5, <2>1, LoopCloses
<1>7. ASSUME NEW q \in Parts(s), Fits(s, t, q), NEW x
      PROVE  x \in Meanings(s)[q] <=> Yields(s, t, q, x)
  <2> DEFINE M == Meanings(s)
             p(k) == Part("value", q.from, k - 1, q.depth)
  <2>1. /\ q.kind = "elements" /\ q.depth = t.depth /\ q.from <= t.at
        /\ Blank(s, q.from, t.at - 1) /\ q.from \in 1..Len(s) + 1 /\ q.to \in 0..Len(s)
    BY <1>7, PartFacts DEF Fits
  <2>2. M[q] = ElementsMean(M, s, q)
    <3>1. M[q] = Means(M, s, q)
      BY MeaningFacts
    <3> QED
      BY <2>1, <3>1, Zenon DEF Means
  <2>3. x \in M[q] <=> IsElements(M, s, q, x)
    BY <2>2, ElementsMeanIs
  <2>4. Yields(s, t, q, x) <=> \E r \in P[t] : r.value = x /\ r.next = q.to + 2
    BY <2>1 DEF Yields, Reaches
  <2>5. ASSUME NEW k \in Cuts(s, q)
        PROVE  \A v : v \in M[p(k)] <=>
                        \E r \in P[u] : r.value = v /\ r.next <= k /\ Blank(s, r.next, k - 1)
    <3>1. k - 1 \in 0..Len(s) /\ (k - 1) + 1 = k
      BY <2>1 DEF Cuts
    <3>2. /\ p(k) \in Parts(s) /\ p(k).kind = "value" /\ p(k).from = q.from /\ p(k).to = k - 1
          /\ p(k).depth = t.depth /\ p(k).used = {}
      BY <1>1, <2>1, <3>1 DEF Part, Parts
    <3> HIDE DEF p, M
    <3>3. Fits(s, u, p(k))
      BY <1>2, <2>1, <3>2 DEF Fits
    <3>4. \A v : v \in M[p(k)] <=> Yields(s, u, p(k), v)
      BY <1>3, <3>2, <3>3 DEF Right, M
    <3>5. \A r : Reaches(s, p(k), r) <=> r.next <= k /\ Blank(s, r.next, k - 1)
      BY <3>1, <3>2 DEF Reaches
    <3> QED
      BY <3>4, <3>5, Zenon DEF Yields
  <2> HIDE DEF p, M
  <2>6. ASSUME NEW v \in P[u]
        PROVE  Continues(s, q, v.value, v.next, x)
                 <=> \E r \in L(v) : r.value = x /\ r.next = q.to + 2
    <3>1. Loops(s, t, q, v.value, v.next, x) <=> Continues(s, q, v.value, v.next, x)
      BY <1>5, <1>7, LoopRight
    <3> QED
      BY <1>1, <3>1, Zenon DEF Loops
  <2>7. ASSUME IsElements(M, s, q, x)
        PROVE  \E r \in P[t] : r.value = x /\ r.next = q.to + 2
    <3>1. PICK k \in Cuts(s, q) : \E v \in M[p(k)] : \E vs \in After(M, q, k) : x = <<v>> \o vs
      BY <2>7, Zenon DEF IsElements, p
    <3>2. PICK v \in M[p(k)] : \E vs \in After(M, q, k) : x = <<v>> \o vs
      BY <3>1, Zenon
    <3>3. PICK r \in P[u] : r.value = v /\ r.next <= k /\ Blank(s, r.next, k - 1)
      BY <2>5
    <3>4. Continues(s, q, r.value, r.next, x)
      BY <3>2, <3>3, Zenon DEF Continues, M
    <3>5. PICK y \in L(r) : y.value = x /\ y.next = q.to + 2
      BY <2>6, <3>4
    <3>6. y \in P[t]
      <4> HIDE DEF P, L
      <4> QED
        BY <1>4, <3>5
    <3> QED
      BY <3>5, <3>6
  <2>8. ASSUME NEW y \in P[t], y.value = x, y.next = q.to + 2
        PROVE  IsElements(M, s, q, x)
    <3>1. PICK r \in P[u] : y \in L(r)
      <4> HIDE DEF P, L
      <4> QED
        BY <1>4
    <3>2. Continues(s, q, r.value, r.next, x)
      BY <2>6, <2>8, <3>1
    <3>3. PICK k \in Cuts(s, q) : /\ r.next <= k /\ Blank(s, r.next, k - 1)
                                  /\ \E vs \in After(M, q, k) : x = <<r.value>> \o vs
      BY <3>2, Zenon DEF Continues, M
    <3>4. r.value \in M[p(k)]
      BY <2>5, <3>3
    <3> QED
      BY <3>3, <3>4, Zenon DEF IsElements, p
  <2> QED
    BY <2>3, <2>4, <2>7, <2>8 DEF M
<1> HIDE DEF P
<1> QED
  BY <1>6, <1>7 DEF P, Right

\* The first member of what is left of an object: its key, colon c and what becomes of it.
Member(s, t, c) ==
  /\ t.at <= Len(s) /\ Reads(s[t.at], Strings) /\ Meaning[s[t.at]] \notin t.used
  /\ c <= Len(s) /\ s[c] = Colon

WithKey(s, t) == [t EXCEPT !.used = @ \cup {Meaning[s[t.at]]}]

\* The loop of an object, without its nested conditions.
LEMMA MemberIs ==
  ASSUME NEW s, Len(s) \in Nat, NEW t \in Tasks(s), t.job = "members", NEW c,
         t.at <= Len(s) => c = Ws(s, t.at + 1), NEW y
  PROVE  y \in Parse(s)[t] <=>
           /\ Member(s, t, c)
           /\ \E v \in Parse(s)[Task("value", c + 1, t.depth)] :
                y \in Loop(Parse(s), s, <<Meaning[s[t.at]], v.value>>, v.next, EndObject,
                           WithKey(s, t))
<1> DEFINE P == Parse(s)
           B(value, next) ==
             IF ~NewKey(t.used, value) \/ Char(s, Ws(s, next)) # Colon THEN Throw
             ELSE UNION {Loop(P, s, <<value, v.value>>, v.next, EndObject,
                              [t EXCEPT !.used = @ \cup {value}]) :
                           v \in P[Task("value", Ws(s, next) + 1, t.depth)]}
<1>1. t.at \in 1..Len(s) + 1
  BY TaskFacts
<1>2. P[t] = UNION {B(key.value, key.next) : key \in Read(s, t.at, Strings)}
  <2>1. P[t] = Do(P, s, t)
    BY ParserFacts
  <2>2. P[t] = Members(P, s, t)
    BY <2>1, Zenon DEF Do
  <2> QED
    BY <2>2, Zenon DEF Members
<1>3. CASE ~(t.at <= Len(s) /\ Reads(s[t.at], Strings))
  <2>1. Char(s, t.at) \in Strings => t.at <= Len(s) /\ s[t.at] \in Strings
    BY <1>1, LexemesDiffer, CharFacts
  <2>2. Read(s, t.at, Strings) = {}
    BY <1>3, <2>1 DEF Read, Throw, Reads
  <2> HIDE DEF B, P
  <2>3. P[t] = {}
    BY <1>2, <2>2
  <2> QED
    BY <1>3, <2>3 DEF Member, P
<1>4. CASE t.at <= Len(s) /\ Reads(s[t.at], Strings)
  <2> DEFINE name == Meaning[s[t.at]]
  <2>1. c = Ws(s, t.at + 1) /\ c \in 1..Len(s) + 1
    <3>1. t.at + 1 \in 1..Len(s) + 1
      BY <1>1, <1>4
    <3>2. Ws(s, t.at + 1) \in t.at + 1..Len(s) + 1
      BY <3>1, WsFacts
    <3> QED
      BY <1>1, <1>4, <3>2
  <2>2. Read(s, t.at, Strings) = {[value |-> name, next |-> t.at + 1]}
    BY <1>4, <1>1, CharFacts DEF Read, Return, Reads
  <2>3. P[t] = B(name, t.at + 1)
    <3> HIDE DEF B, P, name
    <3> QED
      BY <1>2, <2>2
  <2>4. Char(s, c) = Colon <=> c <= Len(s) /\ s[c] = Colon
    BY <2>1, CharFacts
  <2>5. CASE name \in t.used \/ ~(c <= Len(s) /\ s[c] = Colon)
    <3>1. P[t] = {}
      BY <2>1, <2>3, <2>4, <2>5, Zenon DEF NewKey, Throw
    <3>2. ~Member(s, t, c)
      BY <2>5 DEF Member
    <3> HIDE DEF P, B, name
    <3> QED
      BY <3>1, <3>2 DEF P
  <2>6. CASE name \notin t.used /\ c <= Len(s) /\ s[c] = Colon
    <3> DEFINE U == P[Task("value", c + 1, t.depth)]
               L(v) == Loop(P, s, <<name, v.value>>, v.next, EndObject, WithKey(s, t))
    <3>1. P[t] = UNION {L(v) : v \in U}
      BY <2>1, <2>3, <2>4, <2>6, Zenon DEF NewKey, WithKey
    <3>2. Member(s, t, c)
      BY <1>4, <2>6 DEF Member
    <3> HIDE DEF U, L
    <3>3. y \in P[t] <=> \E v \in U : y \in L(v)
      BY <3>1
    <3> QED
      BY <3>2, <3>3, Zenon DEF U, L, P, name
  <2> QED
    BY <2>5, <2>6
<1> QED
  BY <1>3, <1>4

\* Objects are right if what is smaller is.
LEMMA MembersRight ==
  ASSUME NEW s, Len(s) \in Nat, NEW t \in Tasks(s), t.job = "members", Known(s, t)
  PROVE  Right(s, t)
<1> DEFINE P == Parse(s)
           a == t.at
           name == Meaning[s[a]]
<1>1. PICK c : c = Ws(s, a + 1)
  OBVIOUS
<1> DEFINE u == Task("value", c + 1, t.depth)
           more == WithKey(s, t)
           L(v) == Loop(P, s, <<name, v.value>>, v.next, EndObject, more)
<1>2. /\ a \in 1..Len(s) + 1 /\ t.depth \in 0..MaxDepth + 1 /\ Close(t.job) = EndObject
      /\ t.used \subseteq Names
  BY TaskFacts, Zenon DEF Close
<1>3. \A y : y \in P[t] <=> Member(s, t, c) /\ \E v \in P[u] : y \in L(v)
  BY <1>1, MemberIs, Zenon
<1>4. a <= Len(s) => c \in a + 1..Len(s) + 1 /\ Blank(s, a + 1, c - 1) /\ c \in Nat
  <2>1. ASSUME a <= Len(s) PROVE a + 1 \in 1..Len(s) + 1
    BY <1>2, <2>1
  <2>2. ASSUME a <= Len(s) PROVE c \in a + 1..Len(s) + 1 /\ Blank(s, a + 1, c - 1)
    BY <1>1, <2>1, <2>2, WsFacts
  <2> QED
    BY <1>2, <2>2
<1>5. ASSUME Member(s, t, c)
      PROVE  /\ a <= Len(s) /\ c <= Len(s) /\ name \in Names /\ c + 1 \in 1..Len(s) + 1 /\ a < c + 1
             /\ u \in Tasks(s) /\ u.at = c + 1 /\ Right(s, u)
             /\ u.job = "value" /\ u.depth = t.depth /\ u.used = {}
             /\ more \in Tasks(s) /\ more.at = a /\ more.job = t.job /\ more.depth = t.depth
             /\ more.used = t.used \cup {name} /\ Known(s, more)
  <2>1. a <= Len(s) /\ c <= Len(s) /\ name \in Names
    BY <1>5 DEF Member, Reads, Names
  <2>2. c + 1 \in 1..Len(s) + 1 /\ a < c + 1
    BY <1>2, <1>4, <2>1
  <2>3. u \in Tasks(s) /\ u.at = c + 1 /\ Size(s, u) < Size(s, t)
    BY <1>2, <2>2, Smaller
  <2>4. u.job = "value" /\ u.depth = t.depth /\ u.used = {}
    BY DEF Task
  <2>5. /\ more \in Tasks(s) /\ more.at = a /\ more.job = t.job /\ more.depth = t.depth
        /\ more.used = t.used \cup {name}
    BY <2>1 DEF Tasks, WithKey
  <2> HIDE DEF more, u, name
  <2>6. Size(s, more) = Size(s, t)
    BY <2>5 DEF Size
  <2>7. Known(s, more) /\ Right(s, u)
    BY <2>3, <2>6 DEF Known
  <2> QED
    BY <2>1, <2>2, <2>3, <2>4, <2>5, <2>7
<1> HIDE DEF u, more
<1>6. ASSUME Member(s, t, c), NEW v \in P[u]
      PROVE  v.next \in 1..Len(s) + 1 /\ a < v.next /\ c + 2 <= v.next
  <2>1. Found(s, c + 1, v)
    BY <1>5, <1>6, ParserFacts
  <2> QED
    BY <1>2, <1>4, <1>5, <1>6, <2>1 DEF Found
<1>7. ASSUME NEW r \in P[t] PROVE t.at + 2 <= r.next /\ s[r.next - 1] = Close(t.job)
  <2>1. Member(s, t, c)
    BY <1>3
  <2>2. PICK v \in P[u] : r \in L(v)
    BY <1>3
  <2>3. more.at + 2 <= r.next /\ s[r.next - 1] = Close(more.job)
    <3>1. more.job # "value" /\ Close(more.job) = EndObject
      BY <1>2, <1>5, <2>1
    <3>2. v.next \in 1..Len(s) + 1 /\ more.at < v.next
      BY <1>5, <1>6, <2>1
    <3>3. PICK item : item = <<name, v.value>>
      OBVIOUS
    <3>4. r \in Loop(Parse(s), s, item, v.next, Close(more.job), more)
      BY <2>2, <3>1, <3>3, Zenon
    <3>5. more \in Tasks(s) /\ Known(s, more)
      BY <1>5, <2>1
    <3> HIDE DEF P, L
    <3> QED
      BY <3>1, <3>2, <3>4, <3>5, LoopCloses
  <2> QED
    BY <1>5, <2>1, <2>3
<1>8. ASSUME NEW q \in Parts(s), Fits(s, t, q), NEW x
      PROVE  x \in Meanings(s)[q] <=> Yields(s, t, q, x)
  <2> DEFINE M == Meanings(s)
             p(k) == Part("value", c + 1, k - 1, q.depth)
             m == Used(s, q, a)
  <2>1. /\ q.kind = "members" /\ q.depth = t.depth /\ q.from <= a /\ q.used = t.used
        /\ Blank(s, q.from, a - 1) /\ q.from \in 1..Len(s) + 1 /\ q.to \in 0..Len(s)
        /\ Char(s, a) # Space /\ q.to < Len(s) /\ s[q.to + 1] = EndObject
    BY <1>2, <1>8, PartFacts DEF Fits
  <2>2. M[q] = MembersMean(M, s, q)
    <3>1. M[q] = Means(M, s, q)
      BY MeaningFacts
    <3> QED
      BY <2>1, <3>1, Zenon DEF Means
  <2>3. x \in M[q] <=> IsMembers(M, s, q, x)
    BY <2>2, MembersMeanIs
  <2>4. Yields(s, t, q, x) <=> \E r \in P[t] : r.value = x /\ r.next = q.to + 2
    BY <2>1 DEF Yields, Reaches
  <2>5. \A i : i \in Starts(s, q) <=> i = a /\ a <= q.to
    <3>1. a = Ws(s, a)
      <4>1. a \in a..Len(s) + 1 /\ Blank(s, a, a - 1)
        BY <1>2 DEF Blank
      <4> QED
        BY <1>2, <2>1, <4>1, WsUnique
    <3> QED
      BY <1>2, <2>1, <3>1, StartIs
  <2>6. ASSUME a <= q.to
        PROVE  \A d : d \in Colons(s, q, a) <=> d = c /\ c <= q.to /\ s[c] = Colon
    <3>1. a <= Len(s)
      BY <1>2, <2>1, <2>6
    <3>2. ASSUME NEW d \in Colons(s, q, a) PROVE d = c /\ c <= q.to /\ s[c] = Colon
      <4>1. d \in a + 1..Len(s) + 1 /\ d <= Len(s) /\ d <= q.to /\ s[d] = Colon
            /\ Blank(s, a + 1, d - 1)
        BY <1>2, <2>1 DEF Colons
      <4>2. Char(s, d) # Space
        BY <4>1, LexemesDiffer DEF Char
      <4>3. a + 1 \in 1..Len(s) + 1
        BY <1>2, <3>1
      <4>4. d = c
        BY <1>1, <4>1, <4>2, <4>3, WsUnique
      <4> QED
        BY <4>1, <4>4
    <3>3. ASSUME c <= q.to, s[c] = Colon PROVE c \in Colons(s, q, a)
      BY <1>2, <1>4, <2>1, <3>1, <3>3 DEF Colons
    <3> QED
      BY <3>2, <3>3
  <2>7. ASSUME Member(s, t, c)
        PROVE  /\ m \in Parts(s) /\ Fits(s, more, m) /\ m.to = q.to /\ Cuts(s, m) = Cuts(s, q)
    <3>1. /\ m \in Parts(s) /\ m.from = q.from /\ m.to = q.to /\ m.kind = q.kind
          /\ m.depth = q.depth /\ m.used = q.used \cup {name}
      BY <1>5, <2>7 DEF Parts, Used
    <3> HIDE DEF m, name
    <3>2. Fits(s, more, m)
      BY <1>5, <1>8, <2>1, <2>7, <3>1 DEF Fits
    <3>3. Cuts(s, m) = Cuts(s, q)
      BY <3>1 DEF Cuts
    <3> QED
      BY <3>1, <3>2, <3>3
  <2>8. ASSUME Member(s, t, c), NEW k \in Cuts(s, q)
        PROVE  \A v : v \in M[p(k)] <=>
                        \E r \in P[u] : r.value = v /\ r.next <= k /\ Blank(s, r.next, k - 1)
    <3>1. k - 1 \in 0..Len(s) /\ (k - 1) + 1 = k
      BY <2>1 DEF Cuts
    <3>2. /\ p(k) \in Parts(s) /\ p(k).kind = "value" /\ p(k).from = c + 1 /\ p(k).to = k - 1
          /\ p(k).depth = t.depth /\ p(k).used = {}
      BY <1>2, <1>5, <2>1, <2>8, <3>1 DEF Part, Parts
    <3> HIDE DEF p, M
    <3>3. Fits(s, u, p(k))
      BY <1>5, <2>8, <3>2 DEF Fits, Blank
    <3>4. \A v : v \in M[p(k)] <=> Yields(s, u, p(k), v)
      BY <1>5, <2>8, <3>2, <3>3 DEF Right, M
    <3>5. \A r : Reaches(s, p(k), r) <=> r.next <= k /\ Blank(s, r.next, k - 1)
      BY <3>1, <3>2 DEF Reaches
    <3> QED
      BY <3>4, <3>5, Zenon DEF Yields
  <2> HIDE DEF p, M
  <2>9. ASSUME Member(s, t, c), NEW v \in P[u]
        PROVE  Continues(s, m, <<name, v.value>>, v.next, x)
                 <=> \E r \in L(v) : r.value = x /\ r.next = q.to + 2
    <3> HIDE DEF m, name
    <3>1. PICK item : item = <<name, v.value>>
      OBVIOUS
    <3>2. more.job # "value" /\ Close(more.job) = EndObject
      BY <1>2, <1>5, <2>9
    <3>3. v.next \in 1..Len(s) + 1 /\ more.at < v.next
      BY <1>5, <1>6, <2>9
    <3>4. Loops(s, more, m, item, v.next, x) <=> Continues(s, m, item, v.next, x)
      BY <1>5, <2>7, <2>9, <3>2, <3>3, LoopRight
    <3>5. m.to = q.to
      BY <2>7, <2>9
    <3> QED
      BY <3>1, <3>2, <3>4, <3>5, Zenon DEF Loops
  <2> HIDE DEF m
  <2>10. ASSUME IsMembers(M, s, q, x)
         PROVE  \E r \in P[t] : r.value = x /\ r.next = q.to + 2
    <3>1. PICK i \in Keys(s, q) : \E d \in Colons(s, q, i), k \in Cuts(s, q) :
            \E v \in M[Part("value", d + 1, k - 1, q.depth)], ms \in After(M, Used(s, q, i), k) :
              x = <<<<Meaning[s[i]], v>>>> \o ms
      BY <2>10, Zenon DEF IsMembers
    <3>2. i = a /\ a <= q.to /\ Reads(s[a], Strings) /\ name \notin q.used
      BY <2>5 DEF Keys
    <3>3. PICK d \in Colons(s, q, a), k \in Cuts(s, q) :
            \E v \in M[Part("value", d + 1, k - 1, q.depth)], ms \in After(M, m, k) :
              x = <<<<name, v>>>> \o ms
      BY <3>1, <3>2, Zenon DEF m
    <3>4. d = c /\ c <= q.to /\ s[c] = Colon
      BY <2>6, <3>2
    <3>5. c <= Len(s) /\ a <= Len(s)
      <4>1. c \in Int
        BY <3>4 DEF Colons
      <4> QED
        BY <1>2, <2>1, <3>2, <3>4, <4>1
    <3>6. Member(s, t, c)
      BY <2>1, <3>2, <3>4, <3>5 DEF Member
    <3>7. PICK v \in M[p(k)], ms \in After(M, m, k) : x = <<<<name, v>>>> \o ms
      BY <3>3, <3>4, Zenon DEF p
    <3>8. PICK r \in P[u] : r.value = v /\ r.next <= k /\ Blank(s, r.next, k - 1)
      BY <2>8, <3>6
    <3>9. Continues(s, m, <<name, r.value>>, r.next, x)
      <4>1. k \in Cuts(s, m)
        BY <2>7, <3>6
      <4> QED
        BY <3>7, <3>8, <4>1, Zenon DEF Continues, M
    <3>10. PICK y \in L(r) : y.value = x /\ y.next = q.to + 2
      BY <2>9, <3>6, <3>9
    <3>11. y \in P[t]
      BY <1>3, <3>6, <3>10
    <3> QED
      BY <3>10, <3>11
  <2>11. ASSUME NEW y \in P[t], y.value = x, y.next = q.to + 2
         PROVE  IsMembers(M, s, q, x)
    <3>1. Member(s, t, c)
      BY <1>3
    <3>2. PICK r \in P[u] : y \in L(r)
      BY <1>3
    <3>3. Continues(s, m, <<name, r.value>>, r.next, x)
      BY <2>9, <2>11, <3>1, <3>2
    <3>4. PICK k \in Cuts(s, m) : /\ r.next <= k /\ Blank(s, r.next, k - 1)
                                  /\ \E vs \in After(M, m, k) : x = <<<<name, r.value>>>> \o vs
      BY <3>3, Zenon DEF Continues, M
    <3>5. k \in Cuts(s, q)
      BY <2>7, <3>1
    <3>6. r.value \in M[p(k)]
      BY <2>8, <3>1, <3>4, <3>5
    <3>7. c <= q.to /\ a <= q.to
      <4>1. k <= q.to + 1 /\ k \in Int
        BY <2>1, <3>5 DEF Cuts
      <4>2. r.next \in Int /\ c + 2 <= r.next /\ c \in a + 1..Len(s) + 1
        BY <1>4, <1>5, <1>6, <3>1
      <4> QED
        BY <1>2, <2>1, <3>4, <4>1, <4>2
    <3>8. a \in Keys(s, q)
      BY <2>1, <2>5, <3>1, <3>7 DEF Keys, Member
    <3>9. c \in Colons(s, q, a)
      BY <2>6, <3>1, <3>7 DEF Member
    <3> QED
      BY <3>4, <3>5, <3>6, <3>8, <3>9, Zenon DEF IsMembers, p, m
  <2> QED
    BY <2>3, <2>4, <2>10, <2>11 DEF M
<1> HIDE DEF P
<1> QED
  BY <1>7, <1>8 DEF P, Right

\* Arrays and objects alike.
Open(job)     == IF job = "elements" THEN BeginArray ELSE BeginObject
Wrap(job, vs) == IF job = "elements" THEN Array(vs) ELSE Object(vs)

\* A value in brackets, parsed and meant.
LEMMA WrappedRight ==
  ASSUME NEW s, Len(s) \in Nat, NEW t \in Tasks(s), t.job = "value", t.depth <= MaxDepth,
         Known(s, t), NEW q \in Parts(s), Fits(s, t, q), NEW job \in {"elements", "members"},
         Char(s, Ws(s, t.at)) = Open(job), NEW x
  PROVE  (\E vs \in Bracketed(Meanings(s), s, q, Open(job), Close(job), job) : x = Wrap(job, vs))
         <=> Yields(s, t, q, x)
<1> DEFINE P == Parse(s)
           u(k) == Task(job, k, t.depth + 1)
           B == Bracketed(Meanings(s), s, q, Open(job), Close(job), job)
<1>1. PICK a : a = Ws(s, t.at)
  OBVIOUS
<1>2. PICK k : k = Ws(s, a + 1)
  OBVIOUS
<1>3. t.at \in 1..Len(s) + 1 /\ t.depth \in 0..MaxDepth + 1 /\ t.depth + 1 \in 0..MaxDepth + 1
  BY TaskFacts, JsonAssumption
<1>4. Open(job) # Close(job) /\ Open(job) # End /\ Open(job) # Space
  <2>1. End \notin {BeginObject, BeginArray}
    BY <1>3, CharFacts
  <2> QED
    BY <2>1, LexemesDiffer DEF Open, Close
<1>5. P[t] = Value(P, s, t)
  <2>1. P[t] = Do(P, s, t)
    BY ParserFacts
  <2> QED
    BY <2>1, Zenon DEF Do
<1>6. P[t] = IF Char(s, k) = Close(job) THEN {[value |-> Wrap(job, <<>>), next |-> k + 1]}
             ELSE {[r EXCEPT !.value = Wrap(job, @)] : r \in P[u(k)]}
  <2>1. ~(t.depth > MaxDepth)
    BY <1>3, JsonAssumption
  <2>2. CASE job = "elements"
    <3>1. Char(s, a) = BeginArray /\ Char(s, a) # BeginObject /\ Close(job) = EndArray
      BY <1>1, <2>2, LexemesDiffer DEF Open, Close
    <3>2. \A vs : Wrap(job, vs) = Array(vs)
      BY <2>2, Zenon DEF Wrap
    <3>3. Value(P, s, t) =
            IF Char(s, k) = EndArray THEN {[value |-> Array(<<>>), next |-> k + 1]}
            ELSE {[r EXCEPT !.value = Array(@)] : r \in P[Task("elements", k, t.depth + 1)]}
      BY <1>1, <1>2, <2>1, <3>1, ValueIs, Zenon
    <3> DEFINE W(r) == [r EXCEPT !.value = Wrap(job, @)]
               X(r) == [r EXCEPT !.value = Array(@)]
    <3>4. \A r : W(r) = X(r)
      BY <3>2, Zenon
    <3>5. Value(P, s, t) =
            IF Char(s, k) = Close(job) THEN {[value |-> Array(<<>>), next |-> k + 1]}
            ELSE {X(r) : r \in P[u(k)]}
      BY <2>2, <3>1, <3>3, Zenon
    <3> HIDE DEF P, W, X, u
    <3>6. P[t] = IF Char(s, k) = Close(job) THEN {[value |-> Wrap(job, <<>>), next |-> k + 1]}
                 ELSE {W(r) : r \in P[u(k)]}
      BY <1>5, <3>2, <3>4, <3>5
    <3> QED
      BY <3>6, Zenon DEF W
  <2>3. CASE job = "members"
    <3>1. Char(s, a) = BeginObject /\ Close(job) = EndObject
      BY <1>1, <2>3 DEF Open, Close
    <3>2. \A vs : Wrap(job, vs) = Object(vs)
      <4>1. job # "elements"
        BY <2>3
      <4> QED
        BY <4>1, Zenon DEF Wrap
    <3>3. Value(P, s, t) =
            IF Char(s, k) = EndObject THEN {[value |-> Object(<<>>), next |-> k + 1]}
            ELSE {[r EXCEPT !.value = Object(@)] : r \in P[Task("members", k, t.depth + 1)]}
      BY <1>1, <1>2, <2>1, <3>1, ValueIs, Zenon
    <3> DEFINE W(r) == [r EXCEPT !.value = Wrap(job, @)]
               X(r) == [r EXCEPT !.value = Object(@)]
    <3>4. \A r : W(r) = X(r)
      BY <3>2, Zenon
    <3>5. Value(P, s, t) =
            IF Char(s, k) = Close(job) THEN {[value |-> Object(<<>>), next |-> k + 1]}
            ELSE {X(r) : r \in P[u(k)]}
      BY <2>3, <3>1, <3>3, Zenon
    <3> HIDE DEF P, W, X, u
    <3>6. P[t] = IF Char(s, k) = Close(job) THEN {[value |-> Wrap(job, <<>>), next |-> k + 1]}
                 ELSE {W(r) : r \in P[u(k)]}
      BY <1>5, <3>2, <3>4, <3>5
    <3> QED
      BY <3>6, Zenon DEF W
  <2> QED
    BY <2>2, <2>3
<1>7. \A vs : vs \in B <=>
        IF Char(s, k) = Close(job) THEN vs = <<>> /\ k + 1 <= q.to + 1 /\ Blank(s, k + 1, q.to)
        ELSE \E r \in P[u(k)] : r.value = vs /\ r.next <= q.to + 1 /\ Blank(s, r.next, q.to)
  <2>1. PICK open : open = Open(job)
    OBVIOUS
  <2>2. Char(s, a) = open
    BY <1>1, <2>1
  <2>3. SUFFICES ASSUME NEW vs
                 PROVE  vs \in B <=>
          IF Char(s, k) = Close(job) THEN vs = <<>> /\ k + 1 <= q.to + 1 /\ Blank(s, k + 1, q.to)
          ELSE \E r \in P[u(k)] : r.value = vs /\ r.next <= q.to + 1 /\ Blank(s, r.next, q.to)
    OBVIOUS
  <2>4. open # Close(job) /\ open # End /\ open # Space
    BY <1>4, <2>1
  <2>5. vs \in Bracketed(Meanings(s), s, q, open, Close(job), job) <=>
          Between(s, t, q, job, k, vs)
    <3> HIDE DEF P, B, u
    <3> QED
      BY <1>1, <1>2, <2>2, <2>4, BracketRight
  <2> QED
    BY <2>1, <2>5, Zenon DEF Between
<1>8. q.kind = "value"
  BY DEF Fits
<1>9. Yields(s, t, q, x) <=>
       \E r \in P[t] : r.value = x /\ r.next <= q.to + 1 /\ Blank(s, r.next, q.to)
  BY <1>8 DEF Yields, Reaches
<1>10. CASE Char(s, k) = Close(job)
  <2>1. PICK z : z = [value |-> Wrap(job, <<>>), next |-> k + 1]
    OBVIOUS
  <2>2. z.value = Wrap(job, <<>>) /\ z.next = k + 1
    BY <2>1
  <2>3. P[t] = {z}
    BY <1>6, <1>10, <2>1
  <2> HIDE DEF P, B
  <2>4. Yields(s, t, q, x) <=> x = Wrap(job, <<>>) /\ k + 1 <= q.to + 1 /\ Blank(s, k + 1, q.to)
    BY <1>9, <2>2, <2>3
  <2>5. (\E vs \in B : x = Wrap(job, vs))
          <=> x = Wrap(job, <<>>) /\ k + 1 <= q.to + 1 /\ Blank(s, k + 1, q.to)
    BY <1>7, <1>10, Zenon
  <2> QED
    BY <2>4, <2>5 DEF B
<1>11. CASE Char(s, k) # Close(job)
  <2>1. a \in 1..Len(s) + 1 /\ a <= Len(s) /\ a >= t.at
    <3>1. a \in t.at..Len(s) + 1
      BY <1>1, <1>3, WsFacts
    <3>2. a \in 1..Len(s) + 1
      BY <1>3, <3>1
    <3> QED
      BY <1>1, <1>3, <1>4, <3>1, <3>2, CharFacts
  <2>2. k \in 1..Len(s) + 1 /\ k \in k..Len(s) + 1
    <3>1. a + 1 \in 1..Len(s) + 1
      BY <2>1
    <3>2. k \in a + 1..Len(s) + 1
      BY <1>2, <3>1, WsFacts
    <3> QED
      BY <2>1, <3>2
  <2>3. u(k) \in Tasks(s) /\ u(k).at = k
    BY <1>3, <2>2 DEF Task, Tasks
  <2>4. ASSUME NEW r \in P[u(k)]
        PROVE  /\ [r EXCEPT !.value = Wrap(job, @)].value = Wrap(job, r.value)
               /\ [r EXCEPT !.value = Wrap(job, @)].next = r.next
    <3>1. Found(s, k, r)
      BY <2>3, ParserFacts
    <3>2. \A w : [r EXCEPT !.value = w] = [value |-> w, next |-> r.next]
      BY <2>2, <3>1, Rewrapped
    <3>3. PICK z : z = [r EXCEPT !.value = Wrap(job, @)]
      OBVIOUS
    <3>4. z = [value |-> Wrap(job, r.value), next |-> r.next]
      BY <3>2, <3>3, Zenon
    <3>5. z.value = Wrap(job, r.value) /\ z.next = r.next
      BY <3>4
    <3> QED
      BY <3>3, <3>5, Zenon
  <2> DEFINE W(r) == [r EXCEPT !.value = Wrap(job, @)]
  <2>5. P[t] = {W(r) : r \in P[u(k)]}
    BY <1>6, <1>11, Zenon
  <2>6. \A r \in P[u(k)] : W(r).value = Wrap(job, r.value) /\ W(r).next = r.next
    BY <2>4
  <2> HIDE DEF W, P, u, B
  <2>7. Yields(s, t, q, x) <=>
          \E r \in P[u(k)] : Wrap(job, r.value) = x /\ r.next <= q.to + 1 /\ Blank(s, r.next, q.to)
    BY <1>9, <2>5, <2>6
  <2>8. (\E vs \in B : x = Wrap(job, vs)) <=>
          \E r \in P[u(k)] : Wrap(job, r.value) = x /\ r.next <= q.to + 1 /\ Blank(s, r.next, q.to)
    BY <1>7, <1>11, Zenon
  <2> QED
    BY <2>7, <2>8 DEF B
<1> QED
  BY <1>10, <1>11

\* A lexeme, parsed and meant.
IsAtom(s, q, x) ==
  \E i \in Starts(s, q) \cap Stops(s, q) :
    Reads(s[i], Strings \cup Scalars) /\ x = Atom(Meaning[s[i]])

\* A lexeme is read if it is all there is, spaces apart.
LEMMA AtomRight ==
  ASSUME NEW s, Len(s) \in Nat, NEW t \in Tasks(s), t.job = "value", t.depth <= MaxDepth,
         NEW q \in Parts(s), Fits(s, t, q),
         Char(s, Ws(s, t.at)) \notin {BeginArray, BeginObject}, NEW x
  PROVE  IsAtom(s, q, x) <=> Yields(s, t, q, x)
<1> SUFFICES (\E i \in Starts(s, q) \cap Stops(s, q) :
                Reads(s[i], Strings \cup Scalars) /\ x = Atom(Meaning[s[i]]))
             <=> Yields(s, t, q, x)
  BY Zenon DEF IsAtom
<1> DEFINE P == Parse(s)
<1>1. PICK a : a = Ws(s, t.at)
  OBVIOUS
<1>2. /\ t.at \in 1..Len(s) + 1 /\ q.from \in 1..Len(s) + 1 /\ q.to \in 0..Len(s)
      /\ q.from <= t.at /\ Blank(s, q.from, t.at - 1) /\ q.kind = "value" /\ t.depth \in Nat
  BY TaskFacts, PartFacts, JsonAssumption DEF Fits
<1>3. a \in t.at..Len(s) + 1 /\ a \in 1..Len(s) + 1 /\ Char(s, a) # Space
  BY <1>1, <1>2, WsFacts
<1>4. \A i : i \in Starts(s, q) <=> i = a /\ a <= q.to
  BY <1>1, <1>2, StartIs
<1>5. P[t] = {[r EXCEPT !.value = Atom(@)] : r \in Read(s, a, Strings \cup Scalars)}
  <2>1. P[t] = Do(P, s, t)
    BY ParserFacts
  <2>2. P[t] = Value(P, s, t)
    BY <2>1, Zenon DEF Do
  <2>3. ~(t.depth > MaxDepth)
    BY <1>2, JsonAssumption
  <2>4. Char(s, a) # BeginObject /\ Char(s, a) # BeginArray
    BY <1>1
  <2>5. Value(P, s, t) = {[r EXCEPT !.value = Atom(@)] : r \in Read(s, a, Strings \cup Scalars)}
    BY <1>1, <2>3, <2>4, ValueIs, Zenon
  <2> HIDE DEF P
  <2> QED
    BY <2>2, <2>5, Zenon
<1>6. Yields(s, t, q, x) <=>
       \E r \in P[t] : r.value = x /\ r.next <= q.to + 1 /\ Blank(s, r.next, q.to)
  BY <1>2 DEF Yields, Reaches
<1>7. CASE ~(a <= Len(s) /\ Reads(s[a], Strings \cup Scalars))
  <2>1. Char(s, a) \in Strings \cup Scalars => a <= Len(s) /\ s[a] \in Strings \cup Scalars
    BY <1>3, LexemesDiffer, CharFacts
  <2>2. Read(s, a, Strings \cup Scalars) = {}
    BY <1>7, <2>1 DEF Read, Throw, Reads
  <2>3. P[t] = {}
    <3> HIDE DEF P
    <3> QED
      BY <1>5, <2>2
  <2>4. a <= q.to => a <= Len(s)
    BY <1>2, <1>3
  <2> HIDE DEF P
  <2> QED
    BY <1>4, <1>6, <1>7, <2>3, <2>4
<1>8. CASE a <= Len(s) /\ Reads(s[a], Strings \cup Scalars)
  <2>1. PICK z : z = [value |-> Atom(Meaning[s[a]]), next |-> a + 1]
    OBVIOUS
  <2>2. z.value = Atom(Meaning[s[a]]) /\ z.next = a + 1
    BY <2>1
  <2>3. P[t] = {z}
    <3>1. PICK y : y = [value |-> Meaning[s[a]], next |-> a + 1]
      OBVIOUS
    <3>2. Read(s, a, Strings \cup Scalars) = {y}
      BY <1>3, <1>8, <3>1, CharFacts DEF Read, Return, Reads
    <3>3. y.value = Meaning[s[a]]
      BY <3>1
    <3>4. [y EXCEPT !.value = Atom(@)] = z
      BY <2>1, <3>1
    <3> DEFINE W(r) == [r EXCEPT !.value = Atom(@)]
    <3>5. P[t] = {W(r) : r \in Read(s, a, Strings \cup Scalars)}
      BY <1>5, Zenon
    <3>6. W(y) = z
      BY <3>4, Zenon
    <3> HIDE DEF W, P
    <3> QED
      BY <3>2, <3>5, <3>6
  <2>4. Yields(s, t, q, x) <=> Atom(Meaning[s[a]]) = x /\ a + 1 <= q.to + 1 /\ Blank(s, a + 1, q.to)
    <3> HIDE DEF P
    <3> QED
      BY <1>6, <2>2, <2>3
  <2>5. a \in Stops(s, q) /\ a <= q.to <=> a + 1 <= q.to + 1 /\ Blank(s, a + 1, q.to)
    <3>1. s[a] # Space
      BY <1>3, <1>8 DEF Char
    <3>2. a <= q.to => a \in q.from..q.to
      BY <1>2, <1>3
    <3>3. a <= q.to <=> a + 1 <= q.to + 1
      BY <1>2, <1>3
    <3> QED
      BY <3>1, <3>2, <3>3 DEF Stops
  <2> QED
    BY <1>4, <1>8, <2>4, <2>5, Zenon
<1> QED
  BY <1>7, <1>8

\* Values are right if what is smaller is.
LEMMA ValueRight ==
  ASSUME NEW s, Len(s) \in Nat, NEW t \in Tasks(s), t.job = "value", Known(s, t)
  PROVE  Right(s, t)
<1> SUFFICES ASSUME NEW q \in Parts(s), Fits(s, t, q), NEW x
             PROVE  x \in Meanings(s)[q] <=> Yields(s, t, q, x)
  BY DEF Right
<1> DEFINE M == Meanings(s)
           Atoms == {Atom(Meaning[s[i]]) :
                       i \in {i \in Starts(s, q) \cap Stops(s, q) :
                               Reads(s[i], Strings \cup Scalars)}}
           B(job) == Bracketed(M, s, q, Open(job), Close(job), job)
           Char1 == Char(s, Ws(s, t.at))
<1>1. /\ t.at \in 1..Len(s) + 1 /\ t.depth \in 0..MaxDepth + 1
      /\ q.kind = "value" /\ q.depth = t.depth /\ q.from <= t.at /\ Blank(s, q.from, t.at - 1)
  BY TaskFacts DEF Fits
<1>2. M[q] = ValueMeans(M, s, q)
  <2>1. M[q] = Means(M, s, q)
    BY MeaningFacts
  <2> QED
    BY <1>1, <2>1, Zenon DEF Means
<1>3. CASE t.depth > MaxDepth
  <2>1. M[q] = {}
    BY <1>1, <1>2, <1>3, Zenon DEF ValueMeans
  <2>2. Parse(s)[t] = {}
    <3>1. Parse(s)[t] = Do(Parse(s), s, t)
      BY ParserFacts
    <3>2. Parse(s)[t] = Value(Parse(s), s, t)
      BY <3>1, Zenon DEF Do
    <3> QED
      BY <1>3, <3>2, ValueIs, Zenon
  <2> QED
    BY <2>1, <2>2 DEF Yields
<1>4. CASE ~(t.depth > MaxDepth)
  <2>1. t.depth <= MaxDepth
    BY <1>1, <1>4, JsonAssumption
  <2>2. x \in M[q] <=> \/ x \in Atoms
                       \/ \E vs \in B("elements") : x = Wrap("elements", vs)
                       \/ \E vs \in B("members") : x = Wrap("members", vs)
    <3>1. /\ Open("elements") = BeginArray /\ Close("elements") = EndArray
          /\ Open("members") = BeginObject /\ Close("members") = EndObject
      BY DEF Open, Close
    <3>2. \A vs : Wrap("elements", vs) = Array(vs) /\ Wrap("members", vs) = Object(vs)
      BY DEF Wrap
    <3>3. M[q] = Atoms \cup {Array(vs) : vs \in B("elements")}
                       \cup {Object(vs) : vs \in B("members")}
      BY <1>1, <1>2, <1>4, <3>1, Zenon DEF ValueMeans
    <3> HIDE DEF M, Atoms, B
    <3> QED
      BY <3>2, <3>3
  <2>3. \A i : i \in Starts(s, q) => i = Ws(s, t.at) /\ i <= Len(s) /\ s[i] = Char1
    <3>1. q.to \in 0..Len(s)
      BY PartFacts
    <3>2. Ws(s, t.at) \in 1..Len(s) + 1
      <4>1. Ws(s, t.at) \in t.at..Len(s) + 1
        BY <1>1, WsFacts
      <4> QED
        BY <1>1, <4>1
    <3>3. \A i : i \in Starts(s, q) => i = Ws(s, t.at) /\ i <= q.to
      BY <1>1, StartIs
    <3> QED
      BY <3>1, <3>2, <3>3, CharFacts
  <2>4. x \in Atoms <=> IsAtom(s, q, x)
    BY DEF IsAtom
  <2>5. ASSUME NEW job \in {"elements", "members"}, Char1 # Open(job) PROVE B(job) = {}
    <3>1. ASSUME NEW vs PROVE vs \notin B(job)
      BY <2>3, <2>5, BracketedIs
    <3> HIDE DEF B
    <3> QED
      BY <3>1
  <2>6. ASSUME Char1 \in {BeginArray, BeginObject} PROVE Atoms = {}
    <3>1. Char1 \notin Strings \cup Scalars
      BY <2>6, LexemesDiffer
    <3>2. \A i \in Starts(s, q) : ~Reads(s[i], Strings \cup Scalars)
      BY <2>3, <3>1 DEF Reads
    <3> QED
      BY <3>2
  <2> HIDE DEF Atoms, B, M
  <2>7. CASE Char1 \notin {BeginArray, BeginObject}
    <3>1. B("elements") = {} /\ B("members") = {}
      BY <2>5, <2>7 DEF Open
    <3>2. x \in Atoms <=> Yields(s, t, q, x)
      BY <2>1, <2>4, <2>7, AtomRight
    <3> QED
      BY <2>2, <3>1, <3>2 DEF M
  <2>8. ASSUME NEW job \in {"elements", "members"}, Char1 = Open(job)
        PROVE  x \in M[q] <=> Yields(s, t, q, x)
    <3>1. Atoms = {}
      BY <2>6, <2>8 DEF Open
    <3>2. \A other \in {"elements", "members"} : other # job => B(other) = {}
      BY <2>5, <2>8, LexemesDiffer DEF Open
    <3>3. (\E vs \in B(job) : x = Wrap(job, vs)) <=> Yields(s, t, q, x)
      BY <2>1, <2>8, WrappedRight, Zenon DEF B, M
    <3>4. CASE job = "elements"
      BY <2>2, <3>1, <3>2, <3>3, <3>4
    <3>5. CASE job = "members"
      BY <2>2, <3>1, <3>2, <3>3, <3>5
    <3> QED
      BY <3>4, <3>5
  <2>9. ASSUME Char1 \in {BeginArray, BeginObject}
        PROVE  \E job \in {"elements", "members"} : Char1 = Open(job)
    BY <2>9 DEF Open
  <2> QED
    BY <2>7, <2>8, <2>9, Zenon DEF M
<1> QED
  BY <1>3, <1>4

\* strictJSON is right about every text.
LEMMA AllRight ==
  ASSUME NEW s, Len(s) \in Nat, NEW t \in Tasks(s)
  PROVE  Right(s, t)
<1> DEFINE T == {n \in Nat : \A u \in Below(s, n) : Right(s, u)}
<1>1. 0 \in T
  BY SizeFacts DEF Below
<1>2. ASSUME NEW n \in Nat, n \in T PROVE n + 1 \in T
  <2> SUFFICES ASSUME NEW u \in Below(s, n + 1) PROVE Right(s, u)
    OBVIOUS
  <2>1. u \in Tasks(s) /\ Size(s, u) < n + 1
    BY DEF Below
  <2>2. Known(s, u)
    <3> SUFFICES ASSUME NEW w \in Tasks(s), Size(s, w) < Size(s, u) PROVE Right(s, w)
      BY DEF Known
    <3>1. Size(s, w) \in Nat /\ Size(s, u) \in Nat
      BY <2>1, SizeFacts
    <3>2. w \in Below(s, n)
      BY <2>1, <3>1 DEF Below
    <3> QED
      BY <1>2, <3>2
  <2> QED
    BY <2>1, <2>2, TaskFacts, ValueRight, ElementsRight, MembersRight
<1>3. Nat \subseteq T
  <2> HIDE DEF T
  <2> QED
    BY <1>1, <1>2, Induction
<1>4. 2 * Len(s) + 2 \in Nat /\ t \in Below(s, 2 * Len(s) + 2)
  BY SizeFacts DEF Below
<1> QED
  BY <1>3, <1>4

\* For a text of any length, any lexemes and any limit on nesting, strictJSON returns exactly
\* what the grammar says the text means (encoding.js:49-79).
THEOREM TextsMeanWhatTheySay ==
  ASSUME NEW s, Len(s) \in Nat
  PROVE  MeansWhatItSays(s)
<1> DEFINE t == Task("value", 1, 0)
           q == Part("value", 1, Len(s), 0)
           P == Parse(s)
<1>1. /\ t \in Tasks(s) /\ t.job = "value" /\ t.at = 1 /\ t.depth = 0 /\ t.used = {}
      /\ q \in Parts(s) /\ q.kind = "value" /\ q.from = 1 /\ q.to = Len(s) /\ q.depth = 0
      /\ q.used = {}
  BY JsonAssumption DEF Task, Part, Tasks, Parts
<1> HIDE DEF t, q
<1>2. Fits(s, t, q)
  BY <1>1 DEF Fits, Blank
<1>3. \A x : x \in Meanings(s)[q] <=> Yields(s, t, q, x)
  BY <1>1, <1>2, AllRight DEF Right
<1>4. ASSUME NEW r \in P[t] PROVE Ws(s, r.next) = Len(s) + 1 <=> Reaches(s, q, r)
  <2>1. r.next \in 1..Len(s) + 1
    <3>1. Found(s, 1, r)
      BY <1>1, ParserFacts
    <3> QED
      BY <3>1 DEF Found
  <2>2. Reaches(s, q, r) <=> Blank(s, r.next, Len(s))
    BY <1>1, <2>1 DEF Reaches
  <2>3. ASSUME Ws(s, r.next) = Len(s) + 1 PROVE Blank(s, r.next, Len(s))
    <3>1. Blank(s, r.next, Ws(s, r.next) - 1)
      BY <2>1, WsFacts
    <3>2. Ws(s, r.next) - 1 = Len(s)
      BY <2>3
    <3> QED
      BY <3>1, <3>2
  <2>4. ASSUME Blank(s, r.next, Len(s)) PROVE Ws(s, r.next) = Len(s) + 1
    <3>1. Len(s) + 1 \in 1..Len(s) + 1 /\ Len(s) + 1 \in r.next..Len(s) + 1
          /\ Len(s) + 1 - 1 = Len(s) /\ ~(Len(s) + 1 <= Len(s))
      BY <2>1
    <3>2. Char(s, Len(s) + 1) # Space
      BY <3>1, CharFacts DEF Char
    <3>3. Blank(s, r.next, Len(s) + 1 - 1)
      BY <2>4, <3>1
    <3> QED
      BY <2>1, <3>1, <3>2, <3>3, WsUnique
  <2> QED
    BY <2>2, <2>3, <2>4
<1>5. StrictJSON(s) = {v.value : v \in {r \in P[t] : Ws(s, r.next) = Len(s) + 1}}
  BY DEF StrictJSON, t
<1>6. StrictJSON(s) = Meanings(s)[q]
  <2>1. \A x : x \in StrictJSON(s) <=> \E r \in P[t] : x = r.value /\ Ws(s, r.next) = Len(s) + 1
    BY <1>5
  <2>2. \A x : x \in StrictJSON(s) <=> x \in Meanings(s)[q]
    BY <1>3, <1>4, <2>1 DEF Yields
  <2> QED
    BY <2>2
<1> QED
  BY <1>6 DEF MeansWhatItSays, q

-----------------------------------------------------------------------------
(* The printer.                                                             *)

\* f is made by m steps, the n-th of them from what is there by n.
Steps(f, X, first, step, m) ==
  f \in [0..m -> X] /\ f[0] = first /\ \A n \in 1..m : f[n] = step[<<n, f[n - 1]>>]

LEMMA StepsExist ==
  ASSUME NEW X, NEW first \in X, NEW step \in [Nat \X X -> X], NEW m \in Nat
  PROVE  \E f : Steps(f, X, first, step, m)
<1> DEFINE T == {n \in Nat : \E f : Steps(f, X, first, step, n)}
<1>1. 0 \in T
  <2>1. Steps([n \in 0..0 |-> first], X, first, step, 0)
    BY DEF Steps
  <2> QED
    BY <2>1
<1>2. ASSUME NEW k \in Nat, k \in T PROVE k + 1 \in T
  <2>1. PICK f : Steps(f, X, first, step, k)
    BY <1>2
  <2> DEFINE x == step[<<k + 1, f[k]>>]
             g == [n \in 0..k + 1 |-> IF n <= k THEN f[n] ELSE x]
  <2>2. f \in [0..k -> X] /\ f[0] = first /\ \A n \in 1..k : f[n] = step[<<n, f[n - 1]>>]
    BY <2>1 DEF Steps
  <2>3. x \in X
    BY <2>2
  <2>4. ASSUME NEW n \in 1..k + 1 PROVE g[n] = step[<<n, g[n - 1]>>]
    <3>1. CASE n = k + 1
      BY <3>1
    <3>2. CASE n \in 1..k
      BY <2>2, <3>2
    <3> QED
      BY <3>1, <3>2
  <2>5. g \in [0..k + 1 -> X] /\ g[0] = first
    <3> HIDE DEF x
    <3> QED
      BY <2>2, <2>3
  <2> HIDE DEF g
  <2>6. Steps(g, X, first, step, k + 1)
    BY <2>4, <2>5 DEF Steps
  <2> QED
    BY <2>6
<1>3. Nat \subseteq T
  <2> HIDE DEF T
  <2> QED
    BY <1>1, <1>2, Induction
<1> QED
  BY <1>3

\* Where every step stays.
LEMMA StepsStay ==
  ASSUME NEW X, NEW m \in Nat, NEW f, f[0] \in X, \A n \in 1..m : f[n - 1] \in X => f[n] \in X
  PROVE  \A n \in 0..m : f[n] \in X
<1> DEFINE T == {n \in Nat : n <= m => f[n] \in X}
<1>1. 0 \in T
  OBVIOUS
<1>2. ASSUME NEW k \in Nat, k \in T PROVE k + 1 \in T
  <2> SUFFICES ASSUME k + 1 <= m PROVE f[k + 1] \in X
    OBVIOUS
  <2>1. f[k] \in X /\ k + 1 \in 1..m /\ (k + 1) - 1 = k
    BY <1>2
  <2> QED
    BY <2>1
<1>3. Nat \subseteq T
  <2> HIDE DEF T
  <2> QED
    BY <1>1, <1>2, Induction
<1> QED
  BY <1>3

\* What a text is printed with: its lexemes' meanings, and punctuation.
Glyphs(s) ==
  {Meant(s[k]) : k \in 1..Len(s)}
    \cup {BeginObject, EndObject, BeginArray, EndArray, Colon, Comma}

\* f[n] is the plain text of the first n lexemes.
IsPlain(f, s) ==
  /\ f \in [0..Len(s) -> Seq(Glyphs(s))] /\ f[0] = <<>>
  /\ \A n \in 1..Len(s) :
       f[n] = f[n - 1] \o IF s[n] = Space THEN <<>> ELSE <<Meant(s[n])>>

LEMMA PlainExists ==
  ASSUME NEW s, Len(s) \in Nat
  PROVE  \E f : IsPlain(f, s) /\ Plain(s) = f[Len(s)]
<1> DEFINE X == Seq(Glyphs(s))
           add(n) == IF s[n] = Space THEN <<>> ELSE <<Meant(s[n])>>
           F(g) == [n \in 0..Len(s) |-> IF n = 0 THEN <<>> ELSE g[n - 1] \o add(n)]
           plain == CHOOSE g : g = F(g)
           step == [p \in Nat \X X |-> IF p[1] \in 1..Len(s) THEN p[2] \o add(p[1]) ELSE <<>>]
<1>1. \A n \in 1..Len(s) : add(n) \in X
  <2> SUFFICES ASSUME NEW n \in 1..Len(s) PROVE add(n) \in X
    OBVIOUS
  <2>1. Meant(s[n]) \in Glyphs(s)
    BY DEF Glyphs
  <2> QED
    BY <2>1
<1> HIDE DEF add
<1>2. <<>> \in X /\ step \in [Nat \X X -> X]
  <2>1. \A x \in X, y \in X : x \o y \in X
    OBVIOUS
  <2>2. <<>> \in X
    OBVIOUS
  <2> HIDE DEF X
  <2> QED
    BY <1>1, <2>1, <2>2
<1>3. PICK f : Steps(f, X, <<>>, step, Len(s))
  <2> HIDE DEF step, X
  <2> QED
    BY <1>2, StepsExist
<1>4. f \in [0..Len(s) -> X] /\ f[0] = <<>> /\ \A n \in 1..Len(s) : f[n] = step[<<n, f[n - 1]>>]
  BY <1>3 DEF Steps
<1>5. \A n \in 1..Len(s) : f[n] = f[n - 1] \o add(n)
  <2> SUFFICES ASSUME NEW n \in 1..Len(s) PROVE f[n] = f[n - 1] \o add(n)
    OBVIOUS
  <2> HIDE DEF X
  <2>1. n \in Nat /\ n - 1 \in 0..Len(s) /\ f[n - 1] \in X
    BY <1>4
  <2>2. step[<<n, f[n - 1]>>] = f[n - 1] \o add(n)
    BY <2>1
  <2> QED
    BY <1>4, <2>2
<1>6. f = F(f)
  <2> HIDE DEF X, step
  <2>1. \A n \in 0..Len(s) : f[n] = IF n = 0 THEN <<>> ELSE f[n - 1] \o add(n)
    BY <1>4, <1>5
  <2>2. f = [n \in 0..Len(s) |-> f[n]]
    BY <1>4
  <2> QED
    BY <2>1, <2>2
<1> HIDE DEF X, step
<1>7. plain = F(plain)
  <2> HIDE DEF F
  <2> QED
    BY <1>6
<1>8. Plain(s) = plain[Len(s)]
  BY DEF Plain, add
<1> HIDE DEF plain
<1>9. /\ plain[0] = <<>> /\ plain = [n \in 0..Len(s) |-> plain[n]]
      /\ \A n \in 1..Len(s) : plain[n] = plain[n - 1] \o add(n)
  <2>1. \A n \in 0..Len(s) : plain[n] = IF n = 0 THEN <<>> ELSE plain[n - 1] \o add(n)
    BY <1>7
  <2>2. plain = [n \in 0..Len(s) |-> plain[n]]
    BY <1>7
  <2> QED
    BY <2>1, <2>2
<1>10. \A n \in 0..Len(s) : plain[n] \in X
  <2>1. \A n \in 1..Len(s) : plain[n - 1] \in X => plain[n] \in X
    BY <1>1, <1>9 DEF X
  <2> QED
    BY <1>2, <1>9, <2>1, StepsStay
<1>11. plain \in [0..Len(s) -> X]
  BY <1>9, <1>10
<1> QED
  BY <1>8, <1>9, <1>11 DEF IsPlain, X, add

\* f[n] is the last n of the texts, with commas.
IsSeparated(f, G, texts) ==
  /\ f \in [0..Len(texts) -> Seq(G)] /\ f[0] = <<>>
  /\ \A n \in 1..Len(texts) :
       f[n] = texts[Len(texts) - n + 1] \o IF n = 1 THEN <<>> ELSE <<Comma>> \o f[n - 1]

LEMMA SeparatedExists ==
  ASSUME NEW G, Comma \in G, NEW texts \in Seq(Seq(G))
  PROVE  \E f : IsSeparated(f, G, texts) /\ Separated(texts) = f[Len(texts)]
<1> DEFINE X == Seq(G)
           m == Len(texts)
           add(n, x) == texts[m - n + 1] \o IF n = 1 THEN <<>> ELSE <<Comma>> \o x
           F(g) == [n \in 0..m |-> IF n = 0 THEN <<>> ELSE add(n, g[n - 1])]
           last == CHOOSE g : g = F(g)
           step == [p \in Nat \X X |-> IF p[1] \in 1..m THEN add(p[1], p[2]) ELSE <<>>]
<1>m. m \in Nat /\ <<>> \in X
  OBVIOUS
<1>1. \A n \in 1..m, x \in X : add(n, x) \in X
  <2> SUFFICES ASSUME NEW n \in 1..m, NEW x \in X PROVE add(n, x) \in X
    OBVIOUS
  <2>1. texts[m - n + 1] \in Seq(G)
    <3>1. m - n + 1 \in 1..m
      BY <1>m
    <3> QED
      BY <3>1
  <2>2. <<Comma>> \o x \in Seq(G)
    OBVIOUS
  <2> QED
    BY <2>1, <2>2
<1>2. step \in [Nat \X X -> X]
  <2> HIDE DEF X, add, m
  <2> QED
    BY <1>1, <1>m
<1>3. PICK f : Steps(f, X, <<>>, step, m)
  <2> HIDE DEF step, X, m
  <2> QED
    BY <1>2, <1>m, StepsExist
<1>4. f = F(f)
  <2> HIDE DEF add, X, m
  <2>1. f \in [0..m -> X] /\ f[0] = <<>> /\ \A n \in 1..m : f[n] = step[<<n, f[n - 1]>>]
    BY <1>3 DEF Steps
  <2>2. \A n \in 1..m : f[n] = add(n, f[n - 1])
    <3> SUFFICES ASSUME NEW n \in 1..m PROVE f[n] = add(n, f[n - 1])
      OBVIOUS
    <3>1. n \in Nat /\ n - 1 \in 0..m /\ f[n - 1] \in X
      BY <1>m, <2>1
    <3>2. step[<<n, f[n - 1]>>] = add(n, f[n - 1])
      BY <3>1
    <3> QED
      BY <2>1, <3>2
  <2> HIDE DEF step
  <2>3. \A n \in 0..m : f[n] = IF n = 0 THEN <<>> ELSE add(n, f[n - 1])
    BY <1>m, <2>1, <2>2
  <2>4. f = [n \in 0..m |-> f[n]]
    BY <2>1
  <2> QED
    BY <2>3, <2>4
<1>5. last = F(last)
  <2> HIDE DEF F
  <2> QED
    BY <1>4
<1>6. Separated(texts) = last[m]
  BY DEF Separated
<1> HIDE DEF last, add, X, step, m
<1>7. /\ last[0] = <<>> /\ last = [n \in 0..m |-> last[n]]
      /\ \A n \in 1..m : last[n] = add(n, last[n - 1])
  <2>1. \A n \in 0..m : last[n] = IF n = 0 THEN <<>> ELSE add(n, last[n - 1])
    BY <1>5
  <2>2. last = [n \in 0..m |-> last[n]]
    BY <1>5
  <2> QED
    BY <1>m, <2>1, <2>2
<1>8. \A n \in 0..m : last[n] \in X
  <2>1. \A n \in 1..m : last[n - 1] \in X => last[n] \in X
    BY <1>1, <1>7
  <2> QED
    BY <1>m, <1>7, <2>1, StepsStay
<1>9. last \in [0..m -> X]
  BY <1>7, <1>8
<1> QED
  BY <1>6, <1>7, <1>9 DEF IsSeparated, X, add, m

LEMMA Prepended ==
  ASSUME NEW S, NEW x \in S, NEW xs \in Seq(S)
  PROVE  /\ <<x>> \o xs \in Seq(S) /\ Len(<<x>> \o xs) = Len(xs) + 1 /\ Len(xs) \in Nat
         /\ (<<x>> \o xs)[1] = x /\ \A n \in 1..Len(xs) : (<<x>> \o xs)[n + 1] = xs[n]
OBVIOUS

\* A text and a comma before the others.
LEMMA SeparatedFacts ==
  ASSUME NEW G, Comma \in G, NEW x \in Seq(G), NEW xs \in Seq(Seq(G))
  PROVE  /\ Separated(xs) \in Seq(G)
         /\ xs = <<>> => Separated(xs) = <<>>
         /\ Separated(<<x>> \o xs) =
              x \o IF xs = <<>> THEN <<>> ELSE <<Comma>> \o Separated(xs)
<1> DEFINE ys == <<x>> \o xs
           m  == Len(xs)
<1>1. ys \in Seq(Seq(G)) /\ Len(ys) = m + 1 /\ ys[1] = x /\ m \in Nat
        /\ \A n \in 1..m : ys[n + 1] = xs[n]
  BY Prepended
<1>2. PICK f : IsSeparated(f, G, xs) /\ Separated(xs) = f[m]
  BY SeparatedExists
<1>3. PICK g : IsSeparated(g, G, ys) /\ Separated(ys) = g[m + 1]
  BY <1>1, SeparatedExists
<1> HIDE DEF ys
<1>4. /\ f \in [0..m -> Seq(G)] /\ f[0] = <<>>
      /\ \A n \in 1..m : f[n] = xs[m - n + 1] \o IF n = 1 THEN <<>> ELSE <<Comma>> \o f[n - 1]
  BY <1>2 DEF IsSeparated
<1>5. /\ g[0] = <<>>
      /\ \A n \in 1..Len(ys) :
           g[n] = ys[Len(ys) - n + 1] \o IF n = 1 THEN <<>> ELSE <<Comma>> \o g[n - 1]
  BY <1>3, Zenon DEF IsSeparated
<1> DEFINE T == {n \in Nat : n <= m => f[n] = g[n]}
<1>6. 0 \in T
  BY <1>4, <1>5
<1>7. ASSUME NEW n \in Nat, n \in T PROVE n + 1 \in T
  <2> SUFFICES ASSUME n + 1 <= m PROVE f[n + 1] = g[n + 1]
    OBVIOUS
  <2>1. f[n] = g[n] /\ n + 1 \in 1..m /\ n + 1 \in 1..Len(ys) /\ (n + 1) - 1 = n
    <3>1. n <= m
      BY <1>1
    <3>2. f[n] = g[n]
      BY <1>7, <3>1
    <3> HIDE DEF T, m
    <3> QED
      BY <1>1, <3>2
  <2> HIDE DEF T, m
  <2>2. ys[Len(ys) - (n + 1) + 1] = xs[m - (n + 1) + 1]
    <3>1. m - (n + 1) + 1 \in 1..m /\ Len(ys) - (n + 1) + 1 = (m - (n + 1) + 1) + 1
      BY <1>1, <2>1
    <3>2. ys[(m - (n + 1) + 1) + 1] = xs[m - (n + 1) + 1]
      BY <1>1, <3>1, Zenon
    <3> QED
      BY <3>1, <3>2
  <2>3. f[n + 1] = xs[m - (n + 1) + 1] \o IF n + 1 = 1 THEN <<>> ELSE <<Comma>> \o f[n]
    BY <1>4, <2>1, Zenon
  <2>4. g[n + 1] = ys[Len(ys) - (n + 1) + 1] \o IF n + 1 = 1 THEN <<>> ELSE <<Comma>> \o g[n]
    BY <1>5, <2>1, Zenon
  <2> QED
    BY <2>1, <2>2, <2>3, <2>4
<1>8. f[m] = g[m]
  <2>1. Nat \subseteq T
    <3> HIDE DEF T
    <3> QED
      BY <1>6, <1>7, Induction
  <2> QED
    BY <1>1, <2>1
<1>9. g[m + 1] = x \o IF m + 1 = 1 THEN <<>> ELSE <<Comma>> \o f[m]
  <2>1. m + 1 \in 1..Len(ys) /\ Len(ys) - (m + 1) + 1 = 1 /\ (m + 1) - 1 = m
    BY <1>1
  <2>2. g[m + 1] =
          ys[Len(ys) - (m + 1) + 1]
            \o IF m + 1 = 1 THEN <<>> ELSE <<Comma>> \o g[(m + 1) - 1]
    <3> HIDE DEF m, T
    <3> QED
      BY <1>5, <2>1, Zenon
  <2> QED
    BY <1>1, <1>8, <2>1, <2>2
<1>10. xs = <<>> <=> m + 1 = 1
  BY <1>1
<1>11. f[m] \in Seq(G) /\ (xs = <<>> => f[m] = <<>>)
  <2>1. f[m] \in Seq(G)
    <3>1. m \in 0..m
      BY <1>1
    <3> HIDE DEF m, T
    <3> QED
      BY <1>4, <3>1
  <2> QED
    BY <1>4, <2>1
<1> QED
  BY <1>2, <1>3, <1>9, <1>10, <1>11 DEF ys

\* f[n] prints the values nested less than n deep, up to m.
IsPrinter(f, m) ==
  f = [n \in 0..m |-> [v \in IF n = 0 THEN {} ELSE Values(DOMAIN f[n - 1])
                         |-> Printing(f[n - 1], v)]]

LEMMA PrinterOneMore ==
  ASSUME NEW m \in Nat, NEW f, IsPrinter(f, m)
  PROVE  \E g : IsPrinter(g, m + 1)
<1> DEFINE L(p, n) == [v \in IF n = 0 THEN {} ELSE Values(DOMAIN p) |-> Printing(p, v)]
           g == [n \in 0..m + 1 |-> IF n <= m THEN f[n] ELSE L(f[m], n)]
<1>1. \A p, q : L(p, 0) = L(q, 0)
  OBVIOUS
<1>2. \A n \in 0..m : f[n] = L(f[n - 1], n)
  BY DEF IsPrinter
<1> HIDE DEF L
<1>3. ASSUME NEW n \in 0..m + 1 PROVE g[n] = L(g[n - 1], n)
  <2>1. CASE n = 0
    <3>1. g[0] = f[0] /\ f[0] = L(f[0 - 1], 0)
      BY <1>2
    <3> QED
      BY <1>1, <2>1, <3>1
  <2>2. CASE n \in 1..m
    <3>1. g[n] = f[n] /\ g[n - 1] = f[n - 1] /\ f[n] = L(f[n - 1], n)
      BY <1>2, <2>2
    <3> QED
      BY <3>1
  <2>3. CASE n = m + 1
    <3>1. g[n] = L(f[m], n) /\ g[n - 1] = f[m]
      BY <2>3
    <3> QED
      BY <3>1
  <2> QED
    BY <2>1, <2>2, <2>3
<1>4. g = [n \in 0..m + 1 |-> g[n]]
  OBVIOUS
<1> HIDE DEF g
<1>5. g = [n \in 0..m + 1 |-> L(g[n - 1], n)]
  BY <1>3, <1>4
<1>6. IsPrinter(g, m + 1)
  BY <1>5 DEF IsPrinter, L
<1> QED
  BY <1>6

\* The printer prints what its calls make of the parts.
LEMMA PrinterFacts ==
  /\ DOMAIN Printed[0] = {}
  /\ \A n \in 0..MaxDepth :
       /\ DOMAIN Printed[n + 1] = Values(DOMAIN Printed[n])
       /\ \A v \in Values(DOMAIN Printed[n]) : Printed[n + 1][v] = Printing(Printed[n], v)
<1> DEFINE T == {m \in Nat : \E f : IsPrinter(f, m)}
           print == CHOOSE f : IsPrinter(f, MaxDepth + 1)
<1>1. 0 \in T
  <2> DEFINE f == [n \in 0..0 |-> [v \in {} |-> <<>>]]
  <2>1. f = [n \in 0..0 |-> [v \in IF n = 0 THEN {} ELSE Values(DOMAIN f[n - 1])
                               |-> Printing(f[n - 1], v)]]
    OBVIOUS
  <2> HIDE DEF f
  <2>2. IsPrinter(f, 0)
    BY <2>1 DEF IsPrinter
  <2> QED
    BY <2>2
<1>2. ASSUME NEW m \in Nat, m \in T PROVE m + 1 \in T
  BY <1>2, PrinterOneMore
<1>3. Nat \subseteq T
  <2> HIDE DEF T
  <2> QED
    BY <1>1, <1>2, Induction
<1>4. MaxDepth + 1 \in Nat
  BY JsonAssumption
<1>5. IsPrinter(print, MaxDepth + 1)
  BY <1>3, <1>4
<1>6. Printed = print
  BY DEF Printed, IsPrinter
<1> HIDE DEF print
<1>7. ASSUME NEW n \in 0..MaxDepth + 1
      PROVE  Printed[n] = [v \in IF n = 0 THEN {} ELSE Values(DOMAIN Printed[n - 1])
                            |-> Printing(Printed[n - 1], v)]
  BY <1>5, <1>6 DEF IsPrinter
<1>8. 0 \in 0..MaxDepth + 1 /\ \A n \in 0..MaxDepth : /\ n + 1 \in 0..MaxDepth + 1
                                                      /\ n + 1 # 0 /\ (n + 1) - 1 = n
  BY JsonAssumption
<1>9. DOMAIN Printed[0] = {}
  BY <1>7, <1>8
<1>10. ASSUME NEW n \in 0..MaxDepth
       PROVE  Printed[n + 1] = [v \in Values(DOMAIN Printed[n]) |-> Printing(Printed[n], v)]
  BY <1>7, <1>8
<1> QED
  BY <1>9, <1>10

\* The lexemes from the i-th to the j-th add that much to the plain text.
Adds(s, P, i, j, text) == text \in Seq(Glyphs(s)) /\ P[j] = P[i - 1] \o text

\* Punctuation means itself.
LEMMA PunctuationMeant ==
  ASSUME NEW s
  PROVE  \A c \in {BeginObject, EndObject, BeginArray, EndArray, Colon, Comma} :
           Meant(c) = c /\ c # Space /\ c \in Glyphs(s)
<1>1. \A c \in {BeginObject, EndObject, BeginArray, EndArray, Colon, Comma} :
        c \notin Strings \cup Scalars
  BY JsonAssumption
<1>2. \A c \in {BeginObject, EndObject, BeginArray, EndArray, Colon, Comma} : c \in Glyphs(s)
  BY DEF Glyphs
<1>3. \A c \in {BeginObject, EndObject, BeginArray, EndArray, Colon, Comma} : c # Space
  BY DEF BeginObject, EndObject, BeginArray, EndArray, Colon, Comma, Space
<1> QED
  BY <1>1, <1>2, <1>3 DEF Meant

\* Spaces add nothing,
LEMMA SpacesAdd ==
  ASSUME NEW s, Len(s) \in Nat, NEW P, IsPlain(P, s), NEW i \in 1..Len(s) + 1,
         NEW j \in 0..Len(s), i <= j + 1, Blank(s, i, j)
  PROVE  Adds(s, P, i, j, <<>>)
<1> DEFINE X == Seq(Glyphs(s))
           T == {n \in Nat : i + n - 1 <= j => P[i + n - 1] = P[i - 1]}
<1>1. /\ P \in [0..Len(s) -> X]
      /\ \A n \in 1..Len(s) : P[n] = P[n - 1] \o IF s[n] = Space THEN <<>> ELSE <<Meant(s[n])>>
  BY DEF IsPlain
<1>2. 0 \in T
  <2>1. i + 0 - 1 = i - 1
    OBVIOUS
  <2> QED
    BY <2>1
<1>3. ASSUME NEW n \in Nat, n \in T PROVE n + 1 \in T
  <2> SUFFICES ASSUME i + (n + 1) - 1 <= j PROVE P[i + (n + 1) - 1] = P[i - 1]
    OBVIOUS
  <2> DEFINE k == i + n
  <2>1. k \in 1..Len(s) /\ k \in i..j /\ i + (n + 1) - 1 = k /\ k - 1 = i + n - 1
    OBVIOUS
  <2>2. P[k - 1] = P[i - 1]
    BY <1>3, <2>1
  <2>3. s[k] = Space
    BY <2>1 DEF Blank
  <2> HIDE DEF k, X
  <2>4. P[k] = P[k - 1] \o <<>>
    BY <1>1, <2>1, <2>3
  <2>5. P[k - 1] \in X
    BY <1>1, <2>1
  <2>6. P[k] = P[k - 1]
    BY <2>4, <2>5, ConcatEmptySeq DEF X
  <2> QED
    BY <2>1, <2>2, <2>6
<1>4. Nat \subseteq T
  <2> HIDE DEF T
  <2> QED
    BY <1>2, <1>3, Induction
<1>5. j + 1 - i \in Nat /\ i + (j + 1 - i) - 1 = j
  OBVIOUS
<1>6. P[j] = P[i - 1]
  <2>1. j + 1 - i \in T
    BY <1>4, <1>5
  <2> QED
    BY <1>5, <2>1
<1>7. i - 1 \in 0..Len(s) /\ <<>> \in X
  OBVIOUS
<1>8. P[i - 1] \in X
  <2> HIDE DEF X
  <2> QED
    BY <1>1, <1>7
<1>9. P[i - 1] \o <<>> = P[i - 1]
  BY <1>8, ConcatEmptySeq
<1> QED
  BY <1>6, <1>7, <1>9 DEF Adds

\* a lexeme adds its meaning,
LEMMA LexemeAdds ==
  ASSUME NEW s, Len(s) \in Nat, NEW P, IsPlain(P, s), NEW k \in 1..Len(s), s[k] # Space
  PROVE  Adds(s, P, k, k, <<Meant(s[k])>>) /\ Meant(s[k]) \in Glyphs(s)
<1>1. P[k] = P[k - 1] \o <<Meant(s[k])>>
  BY DEF IsPlain
<1>2. Meant(s[k]) \in Glyphs(s)
  BY DEF Glyphs
<1> QED
  BY <1>1, <1>2 DEF Adds

\* and what follows adds to what comes before.
LEMMA BothAdd ==
  ASSUME NEW s, Len(s) \in Nat, NEW P, IsPlain(P, s), NEW i \in 1..Len(s) + 1,
         NEW j \in 0..Len(s), NEW k, NEW a, NEW b,
         Adds(s, P, i, j, a), Adds(s, P, j + 1, k, b)
  PROVE  Adds(s, P, i, k, a \o b)
<1>1. i - 1 \in 0..Len(s) /\ (j + 1) - 1 = j
  OBVIOUS
<1>2. P[i - 1] \in Seq(Glyphs(s))
  BY <1>1 DEF IsPlain
<1>3. /\ a \in Seq(Glyphs(s)) /\ P[j] = P[i - 1] \o a
      /\ b \in Seq(Glyphs(s)) /\ P[k] = P[j] \o b
  BY <1>1 DEF Adds
<1>4. P[k] = P[i - 1] \o (a \o b)
  <2> DEFINE X == Seq(Glyphs(s))
             p == P[i - 1]
  <2>1. \A x, y, z \in X : (x \o y) \o z = x \o (y \o z)
    BY ConcatAssociative
  <2>2. p \in X /\ a \in X /\ b \in X /\ P[k] = (p \o a) \o b
    BY <1>2, <1>3
  <2> HIDE DEF X, p
  <2>3. P[k] = p \o (a \o b)
    BY <2>1, <2>2, Zenon
  <2> QED
    BY <2>3 DEF p
<1>5. a \o b \in Seq(Glyphs(s))
  BY <1>3
<1> QED
  BY <1>4, <1>5 DEF Adds

\* The texts of a list, and its first.
TextsOf(f, xs) == [n \in DOMAIN xs |-> f[xs[n]]]
Others(f, xs) == IF xs = <<>> THEN <<>> ELSE <<Comma>> \o Separated(TextsOf(f, xs))

IsTexts(f, X, G) == f \in [X -> Seq(G)] /\ Comma \in G

FirstOfTexts(f, X) ==
  \A x \in X, xs \in Seq(X) : Separated(TextsOf(f, <<x>> \o xs)) = f[x] \o Others(f, xs)

LEMMA TextsFacts ==
  ASSUME NEW G, NEW X, NEW f, IsTexts(f, X, G)
  PROVE  FirstOfTexts(f, X)
<1> SUFFICES ASSUME NEW x \in X, NEW xs \in Seq(X)
             PROVE  Separated(TextsOf(f, <<x>> \o xs)) = f[x] \o Others(f, xs)
  BY DEF FirstOfTexts
<1> DEFINE S == Seq(G)
           ys == <<x>> \o xs
           m == Len(xs)
<1>0. f \in [X -> Seq(G)] /\ Comma \in G
  BY DEF IsTexts
<1>1. /\ m \in Nat /\ DOMAIN xs = 1..m /\ \A n \in 1..m : xs[n] \in X
      /\ ys \in Seq(X) /\ DOMAIN ys = 1..m + 1 /\ ys[1] = x /\ \A n \in 1..m : ys[n + 1] = xs[n]
  BY Prepended
<1> HIDE DEF ys, m, S
<1>2. /\ TextsOf(f, xs) \in Seq(S) /\ Len(TextsOf(f, xs)) = m
      /\ \A n \in 1..m : TextsOf(f, xs)[n] = f[xs[n]]
  BY <1>0, <1>1 DEF TextsOf, S
<1>3. /\ TextsOf(f, ys) \in Seq(S) /\ Len(TextsOf(f, ys)) = m + 1
      /\ \A n \in 1..m + 1 : TextsOf(f, ys)[n] = f[ys[n]]
  <2>1. \A n \in 1..m + 1 : ys[n] \in X
    BY <1>1
  <2> QED
    BY <1>0, <1>1, <2>1 DEF TextsOf, S
<1>4. f[x] \in S
  BY <1>0 DEF S
<1> DEFINE zs == <<f[x]>> \o TextsOf(f, xs)
<1>5. /\ zs \in Seq(S) /\ Len(zs) = m + 1 /\ zs[1] = f[x]
      /\ \A n \in 1..m : zs[n + 1] = f[xs[n]]
  BY <1>1, <1>2, <1>4, Prepended
<1> HIDE DEF zs
<1>6. \A n \in 1..m + 1 : TextsOf(f, ys)[n] = zs[n]
  <2> SUFFICES ASSUME NEW n \in 1..m + 1 PROVE TextsOf(f, ys)[n] = zs[n]
    OBVIOUS
  <2>1. CASE n = 1
    BY <1>1, <1>3, <1>5, <2>1
  <2>2. CASE n # 1
    <3>1. n - 1 \in 1..m /\ (n - 1) + 1 = n
      BY <1>1, <2>2
    <3>2. ys[n] = xs[n - 1] /\ zs[n] = f[xs[n - 1]]
      BY <1>1, <1>5, <3>1
    <3> QED
      BY <1>3, <3>2
  <2> QED
    BY <2>1, <2>2
<1>7. TextsOf(f, ys) = zs
  BY <1>3, <1>5, <1>6, SeqEqual
<1>8. xs = <<>> <=> TextsOf(f, xs) = <<>>
  BY <1>1, <1>2
<1>9. Separated(zs) =
        f[x] \o IF TextsOf(f, xs) = <<>> THEN <<>> ELSE <<Comma>> \o Separated(TextsOf(f, xs))
  BY <1>0, <1>2, <1>4, SeparatedFacts DEF S, zs
<1> QED
  BY <1>7, <1>8, <1>9 DEF ys, Others

\* How many brackets may still be opened in a part, and one more.
Left(q) == MaxDepth + 1 - q.depth

\* The values that are printed by n with what the text contains; the items of lists of
\* them; and an item's text.
Printable(s, n) == {v \in DOMAIN Printed[n] : Printed[n][v] \in Seq(Glyphs(s))}

Entries(s, kind, n) ==
  IF kind = "elements" THEN Printable(s, n) ELSE (Names \cap Glyphs(s)) \X Printable(s, n)

ItemText(s, kind, n) ==
  [x \in Entries(s, kind, n) |-> IF kind = "elements" THEN Printed[n][x]
                               ELSE <<x[1], Colon>> \o Printed[n][x[2]]]

LEMMA ItemTextType ==
  ASSUME NEW s, NEW kind, NEW n
  PROVE  ItemText(s, kind, n) \in [Entries(s, kind, n) -> Seq(Glyphs(s))]
<1>1. CASE kind = "elements"
  BY <1>1 DEF ItemText, Entries, Printable
<1>2. CASE kind # "elements"
  <2> SUFFICES ASSUME NEW x \in Entries(s, kind, n)
               PROVE  <<x[1], Colon>> \o Printed[n][x[2]] \in Seq(Glyphs(s))
    BY <1>2 DEF ItemText
  <2>1. x[1] \in Glyphs(s) /\ Colon \in Glyphs(s) /\ Printed[n][x[2]] \in Seq(Glyphs(s))
    BY <1>2, PunctuationMeant DEF Entries, Printable
  <2>2. <<x[1], Colon>> \in Seq(Glyphs(s))
    BY <2>1
  <2> QED
    BY <2>1, <2>2
<1> QED
  BY <1>1, <1>2

LEMMA ListText ==
  ASSUME NEW s, NEW kind, NEW n
  PROVE  FirstOfTexts(ItemText(s, kind, n), Entries(s, kind, n))
<1>1. IsTexts(ItemText(s, kind, n), Entries(s, kind, n), Glyphs(s))
  BY ItemTextType, PunctuationMeant DEF IsTexts
<1> QED
  BY <1>1, TextsFacts, Zenon

\* What is printed of a part's meaning is what the part adds to the plain text.
SaysValue(s, P, q, x) ==
  x \in Printable(s, Left(q)) /\ Adds(s, P, q.from, q.to, Printed[Left(q)][x])

SaysList(s, P, q, xs) ==
  /\ xs \in Seq(Entries(s, q.kind, Left(q))) /\ xs # <<>>
  /\ Adds(s, P, q.from, q.to, Separated(TextsOf(ItemText(s, q.kind, Left(q)), xs)))

Says(s, P, q) ==
  \A x \in Meanings(s)[q] : IF q.kind = "value" THEN SaysValue(s, P, q, x) ELSE SaysList(s, P, q, x)

\* The hypothesis of the induction.
Told(s, P, q) == \A p \in Parts(s) : Extent(s, p) < Extent(s, q) => Says(s, P, p)

\* An item up to a cut, and the rest of the list after it.
LEMMA ListSays ==
  ASSUME NEW s, Len(s) \in Nat, NEW P, IsPlain(P, s), NEW q \in Parts(s), q.kind # "value",
         Told(s, P, q), NEW r \in Parts(s), r.kind = q.kind, r.from = q.from, r.to = q.to,
         r.depth = q.depth, NEW k \in Cuts(s, q), NEW x \in Entries(s, q.kind, Left(q)),
         Adds(s, P, q.from, k - 1, ItemText(s, q.kind, Left(q))[x]),
         NEW xs \in After(Meanings(s), r, k)
  PROVE  SaysList(s, P, q, <<x>> \o xs)
<1> DEFINE X == Entries(s, q.kind, Left(q))
           f == ItemText(s, q.kind, Left(q))
           G == Glyphs(s)
<1>1. /\ q.from \in 1..Len(s) + 1 /\ q.to \in 0..Len(s) /\ k \in q.from..q.to + 1
      /\ k = q.to + 1 \/ s[k] = Comma
  BY PartFacts DEF Cuts
<1>2. f \in [X -> Seq(G)] /\ Comma \in G /\ x \in X
  BY ItemTextType, PunctuationMeant
<1> HIDE DEF X, f, G
<1>t. ASSUME xs \in Seq(X)
      PROVE  Separated(TextsOf(f, <<x>> \o xs)) = f[x] \o Others(f, xs)
  <2>1. FirstOfTexts(f, X)
    BY ListText DEF X, f
  <2> QED
    BY <1>2, <1>t, <2>1 DEF FirstOfTexts
<1>3. CASE k = q.to + 1
  <2>1. xs = <<>> /\ k - 1 = q.to
    BY <1>1, <1>3 DEF After
  <2>2. xs \in Seq(X)
    BY <2>1
  <2>3. Separated(TextsOf(f, <<x>> \o xs)) = f[x] \o <<>> /\ f[x] \in Seq(G)
    <3>1. f[x] \in Seq(G)
      BY <1>2
    <3>2. Others(f, xs) = <<>>
      BY <2>1 DEF Others
    <3> QED
      BY <1>t, <2>2, <3>1, <3>2
  <2>4. f[x] \o <<>> = f[x]
    BY <2>3, ConcatEmptySeq
  <2>5. <<x>> \o xs \in Seq(X) /\ <<x>> \o xs # <<>>
    BY <2>1 DEF X
  <2> QED
    BY <2>1, <2>3, <2>4, <2>5 DEF SaysList, X, f
<1>4. CASE k # q.to + 1
  <2> DEFINE rest == Separated(TextsOf(f, xs))
             u == [r EXCEPT !.from = k + 1]
  <2>1. k \in 1..Len(s) /\ k <= q.to /\ s[k] = Comma /\ k + 1 \in 1..Len(s) + 1
    BY <1>1, <1>4
  <2>2. u \in Parts(s) /\ u.from = k + 1 /\ u.to = q.to /\ u.kind = q.kind /\ u.depth = q.depth
    BY <2>1 DEF Parts
  <2>3. xs \in Meanings(s)[u]
    BY <1>4 DEF After
  <2> HIDE DEF u, rest
  <2>4. Extent(s, u) < Extent(s, q)
    BY <1>1, <2>1, <2>2 DEF Extent
  <2>5. SaysList(s, P, u, xs)
    BY <2>2, <2>3, <2>4 DEF Told, Says
  <2>6. Left(u) = Left(q)
    BY <2>2 DEF Left
  <2>7. xs \in Seq(X) /\ xs # <<>> /\ Adds(s, P, k + 1, q.to, rest)
    BY <2>2, <2>5, <2>6 DEF SaysList, X, f, rest
  <2>8. Adds(s, P, k, k, <<Comma>>)
    BY <2>1, LexemeAdds, PunctuationMeant
  <2>9. Adds(s, P, k, q.to, <<Comma>> \o rest)
    BY <2>1, <2>7, <2>8, BothAdd
  <2>10. Adds(s, P, q.from, q.to, f[x] \o (<<Comma>> \o rest))
    <3>1. k - 1 \in 0..Len(s) /\ (k - 1) + 1 = k
      BY <2>1
    <3> QED
      BY <1>1, <2>9, <3>1, BothAdd DEF f
  <2>11. Separated(TextsOf(f, <<x>> \o xs)) = f[x] \o (<<Comma>> \o rest)
    <3>1. Others(f, xs) = <<Comma>> \o rest
      BY <2>7 DEF Others, rest
    <3> QED
      BY <1>t, <2>7, <3>1
  <2>12. <<x>> \o xs \in Seq(X) /\ <<x>> \o xs # <<>>
    BY <2>7, Prepended DEF X
  <2> QED
    BY <2>10, <2>11, <2>12 DEF SaysList, X, f
<1> QED
  BY <1>3, <1>4

\* Spaces around what is said change nothing.
LEMMA AddsAmidSpaces ==
  ASSUME NEW s, Len(s) \in Nat, NEW P, IsPlain(P, s), NEW i \in 1..Len(s) + 1,
         NEW a \in 0..Len(s), NEW b \in 0..Len(s), NEW j \in 0..Len(s), NEW text,
         i <= a + 1, Blank(s, i, a), Adds(s, P, a + 1, b, text), b <= j, Blank(s, b + 1, j)
  PROVE  Adds(s, P, i, j, text)
<1>1. Adds(s, P, i, a, <<>>)
  BY SpacesAdd
<1>2. Adds(s, P, b + 1, j, <<>>)
  <2>1. b + 1 \in 1..Len(s) + 1 /\ b + 1 <= j + 1
    OBVIOUS
  <2> QED
    BY <2>1, SpacesAdd
<1>3. Adds(s, P, i, b, <<>> \o text)
  BY <1>1, BothAdd
<1>4. Adds(s, P, i, j, (<<>> \o text) \o <<>>)
  BY <1>2, <1>3, BothAdd
<1>5. (<<>> \o text) \o <<>> = text
  <2>1. text \in Seq(Glyphs(s))
    BY DEF Adds
  <2> QED
    BY <2>1, ConcatEmptySeq
<1> QED
  BY <1>4, <1>5

LEMMA TwoInARow ==
  ASSUME NEW S, NEW a \in S, NEW b \in S
  PROVE  <<a>> \o <<b>> = <<a, b>>
<1>1. <<a, b>> \in Seq(S) /\ Len(<<a, b>>) = 2 /\ <<a, b>>[1] = a /\ <<a, b>>[2] = b
  OBVIOUS
<1>2. <<b>> \in Seq(S) /\ Len(<<b>>) = 1 /\ <<b>>[1] = b
  OBVIOUS
<1> DEFINE two == <<a>> \o <<b>>
<1>3. /\ two \in Seq(S) /\ Len(two) = 2 /\ two[1] = a /\ two[2] = b
  <2>1. \A n \in 1..1 : two[n + 1] = <<b>>[n]
    BY <1>2, Prepended
  <2>2. two[2] = b
    BY <1>2, <2>1
  <2> QED
    BY <1>2, <2>2, Prepended
<1> HIDE DEF two
<1>4. \A n \in 1..2 : two[n] = <<a, b>>[n]
  BY <1>1, <1>3
<1>5. two = <<a, b>>
  BY <1>1, <1>3, <1>4, SeqEqual
<1> QED
  BY <1>5 DEF two

LEMMA NothingSeparated == Separated(<<>>) = <<>>
<1>1. <<>> \in Seq(Seq({Comma})) /\ <<>> \in Seq({Comma})
  OBVIOUS
<1> QED
  BY <1>1, SeparatedFacts

\* The array loop.
LEMMA ElementsSay ==
  ASSUME NEW s, Len(s) \in Nat, NEW P, IsPlain(P, s), NEW q \in Parts(s),
         q.kind = "elements", Told(s, P, q)
  PROVE  Says(s, P, q)
<1> DEFINE M == Meanings(s)
<1> SUFFICES ASSUME NEW x \in M[q] PROVE SaysList(s, P, q, x)
  BY DEF Says
<1>1. IsElements(M, s, q, x)
  <2>1. M[q] = ElementsMean(M, s, q)
    BY MeaningFacts, Zenon DEF Means
  <2> QED
    BY <2>1, ElementsMeanIs
<1>2. PICK k \in Cuts(s, q) : \E v \in M[Part("value", q.from, k - 1, q.depth)] :
                               \E vs \in After(M, q, k) : x = <<v>> \o vs
  BY <1>1 DEF IsElements
<1>3. PICK v \in M[Part("value", q.from, k - 1, q.depth)], vs \in After(M, q, k) : x = <<v>> \o vs
  BY <1>2
<1> DEFINE u == Part("value", q.from, k - 1, q.depth)
<1>4. /\ q.from \in 1..Len(s) + 1 /\ q.to \in 0..Len(s) /\ q.depth \in 0..MaxDepth + 1
  BY PartFacts
<1>5. k - 1 \in 0..Len(s) /\ k - 1 <= q.to /\ q.from <= q.from
  BY <1>4 DEF Cuts
<1>6. u \in Parts(s) /\ Extent(s, u) < Extent(s, q)
  BY <1>4, <1>5, SmallerPart
<1>7. u.kind = "value" /\ u.from = q.from /\ u.to = k - 1 /\ Left(u) = Left(q)
  BY DEF Part, Left
<1>8. v \in M[u]
  BY <1>3
<1> HIDE DEF u, M
<1>9. SaysValue(s, P, u, v)
  BY <1>6, <1>7, <1>8 DEF Told, Says, M
<1>10. v \in Printable(s, Left(q)) /\ Adds(s, P, q.from, k - 1, Printed[Left(q)][v])
  BY <1>7, <1>9 DEF SaysValue
<1>11. v \in Entries(s, q.kind, Left(q)) /\ ItemText(s, q.kind, Left(q))[v] = Printed[Left(q)][v]
  BY <1>10 DEF Entries, ItemText
<1> QED
  BY <1>3, <1>10, <1>11, ListSays DEF M

\* The object loop.
LEMMA MembersSay ==
  ASSUME NEW s, Len(s) \in Nat, NEW P, IsPlain(P, s), NEW q \in Parts(s),
         q.kind = "members", Told(s, P, q)
  PROVE  Says(s, P, q)
<1> DEFINE M == Meanings(s)
<1> SUFFICES ASSUME NEW x \in M[q] PROVE SaysList(s, P, q, x)
  BY DEF Says
<1>1. IsMembers(M, s, q, x)
  <2>1. M[q] = MembersMean(M, s, q)
    BY MeaningFacts, Zenon DEF Means
  <2> QED
    BY <2>1, MembersMeanIs
<1>2. PICK i \in Keys(s, q) : \E c \in Colons(s, q, i), k \in Cuts(s, q) :
        \E v \in M[Part("value", c + 1, k - 1, q.depth)], ms \in After(M, Used(s, q, i), k) :
          x = <<<<Meaning[s[i]], v>>>> \o ms
  BY <1>1 DEF IsMembers
<1>3. PICK c \in Colons(s, q, i), k \in Cuts(s, q) :
        \E v \in M[Part("value", c + 1, k - 1, q.depth)], ms \in After(M, Used(s, q, i), k) :
          x = <<<<Meaning[s[i]], v>>>> \o ms
  BY <1>2
<1>4. PICK v \in M[Part("value", c + 1, k - 1, q.depth)], ms \in After(M, Used(s, q, i), k) :
        x = <<<<Meaning[s[i]], v>>>> \o ms
  BY <1>3
<1> DEFINE u == Part("value", c + 1, k - 1, q.depth)
           r == Used(s, q, i)
           key == Meaning[s[i]]
<1>5. /\ q.from \in 1..Len(s) + 1 /\ q.to \in 0..Len(s) /\ q.depth \in 0..MaxDepth + 1
  BY PartFacts
<1>6. /\ i \in q.from..q.to /\ s[i] # Space /\ Blank(s, q.from, i - 1) /\ s[i] \in Strings
      /\ c \in i + 1..q.to /\ s[c] = Colon /\ Blank(s, i + 1, c - 1)
  BY DEF Keys, Starts, Colons, Reads
<1>7. k - 1 \in 0..Len(s) /\ k - 1 <= q.to
  BY <1>5 DEF Cuts
<1>8. c + 1 \in 1..Len(s) + 1 /\ q.from < c + 1 /\ q.from <= c + 1
  BY <1>5, <1>6
<1>9. u \in Parts(s) /\ Extent(s, u) < Extent(s, q)
  BY <1>5, <1>7, <1>8, SmallerPart
<1>10. u.kind = "value" /\ u.from = c + 1 /\ u.to = k - 1 /\ Left(u) = Left(q)
  BY DEF Part, Left
<1>11. /\ r \in Parts(s) /\ r.kind = q.kind /\ r.from = q.from /\ r.to = q.to
       /\ r.depth = q.depth /\ key \in Names
  <2>1. key \in Names
    BY <1>6 DEF Names
  <2> QED
    BY <2>1 DEF Parts, Used
<1>12. v \in M[u] /\ ms \in After(M, r, k) /\ x = <<<<key, v>>>> \o ms
  BY <1>4
<1>13. Adds(s, P, i, i, <<key>>) /\ key \in Glyphs(s)
  <2>1. i \in 1..Len(s) /\ Meant(s[i]) = key
    BY <1>5, <1>6 DEF Meant
  <2> QED
    BY <1>6, <2>1, LexemeAdds
<1> HIDE DEF u, M, r, key
<1>14. SaysValue(s, P, u, v)
  BY <1>9, <1>10, <1>12 DEF Told, Says, M
<1> DEFINE n == Left(q)
           text == Printed[n][v]
<1>15. v \in Printable(s, n) /\ Adds(s, P, c + 1, k - 1, text) /\ text \in Seq(Glyphs(s))
  BY <1>10, <1>14 DEF SaysValue, Printable
<1>16. Adds(s, P, c, c, <<Colon>>) /\ Colon \in Glyphs(s)
  <2>1. c \in 1..Len(s)
    BY <1>5, <1>6
  <2> QED
    BY <1>6, <2>1, LexemeAdds, PunctuationMeant
<1> HIDE DEF n, text
<1>17. Adds(s, P, i + 1, c, <<Colon>>)
  <2>1. /\ i + 1 \in 1..Len(s) + 1 /\ c - 1 \in 0..Len(s) /\ c \in 0..Len(s)
        /\ i + 1 <= (c - 1) + 1 /\ (c - 1) + 1 = c /\ c <= c /\ Blank(s, c + 1, c)
    BY <1>5, <1>6 DEF Blank
  <2> QED
    BY <1>6, <1>16, <2>1, AddsAmidSpaces
<1>18. Adds(s, P, i, k - 1, (<<key>> \o <<Colon>>) \o text)
  <2>1. i \in 1..Len(s) + 1 /\ i \in 0..Len(s) /\ c \in 0..Len(s)
    BY <1>5, <1>6
  <2>2. Adds(s, P, i, c, <<key>> \o <<Colon>>)
    BY <1>13, <1>17, <2>1, BothAdd
  <2> QED
    BY <1>15, <2>1, <2>2, BothAdd
<1>19. Adds(s, P, q.from, k - 1, <<key, Colon>> \o text)
  <2>1. /\ i - 1 \in 0..Len(s) /\ q.from <= (i - 1) + 1 /\ (i - 1) + 1 = i
        /\ k - 1 <= k - 1 /\ Blank(s, (k - 1) + 1, k - 1)
    BY <1>5, <1>6, <1>7 DEF Blank
  <2>2. <<key>> \o <<Colon>> = <<key, Colon>>
    BY <1>13, <1>16, TwoInARow
  <2> QED
    BY <1>5, <1>6, <1>7, <1>18, <2>1, <2>2, AddsAmidSpaces
<1>20. <<key, v>> \in Entries(s, q.kind, n)
  BY <1>11, <1>13, <1>15 DEF Entries
<1>21. ItemText(s, q.kind, n)[<<key, v>>] = <<key, Colon>> \o text
  BY <1>20 DEF ItemText, text
<1> QED
  BY <1>11, <1>12, <1>19, <1>20, <1>21, ListSays DEF M, n

\* What is between brackets, with them.
LEMMA BracketsSay ==
  ASSUME NEW s, Len(s) \in Nat, NEW P, IsPlain(P, s), NEW q \in Parts(s), q.kind = "value",
         q.depth <= MaxDepth, Told(s, P, q), NEW kind \in {"elements", "members"},
         NEW vs \in Bracketed(Meanings(s), s, q, Open(kind), Close(kind), kind),
         NEW n, n = MaxDepth - q.depth
  PROVE  /\ vs \in Seq(Entries(s, kind, n))
         /\ Adds(s, P, q.from, q.to,
                 <<Open(kind)>> \o Separated(TextsOf(ItemText(s, kind, n), vs)) \o <<Close(kind)>>)
<1> DEFINE text == Separated(TextsOf(ItemText(s, kind, n), vs))
           X == Entries(s, kind, n)
<1>1. PICK i \in Starts(s, q), j \in Stops(s, q) :
        /\ s[i] = Open(kind) /\ s[j] = Close(kind)
        /\ vs \in IF Blank(s, i + 1, j - 1) THEN {<<>>}
                  ELSE Meanings(s)[Part(kind, i + 1, j - 1, q.depth + 1)]
  BY BracketedIs
<1>2. /\ q.from \in 1..Len(s) + 1 /\ q.to \in 0..Len(s) /\ q.depth \in Nat
      /\ q.depth + 1 \in 0..MaxDepth + 1
  BY PartFacts, JsonAssumption
<1>3. /\ i \in q.from..q.to /\ s[i] # Space /\ Blank(s, q.from, i - 1)
      /\ j \in q.from..q.to /\ s[j] # Space /\ Blank(s, j + 1, q.to)
  BY DEF Starts, Stops
<1>4. /\ Meant(s[i]) = Open(kind) /\ Meant(s[j]) = Close(kind) /\ Open(kind) # Close(kind)
  <2>1. Open(kind) # Close(kind)
    BY DEF Open, Close, BeginObject, BeginArray, EndObject, EndArray
  <2> QED
    BY <1>1, <2>1, PunctuationMeant DEF Open, Close
<1>5. i < j
  <2>1. i # j
    BY <1>1, <1>4
  <2>2. ~(j < i)
    BY <1>2, <1>3 DEF Blank
  <2> QED
    BY <1>2, <1>3, <2>1, <2>2
<1>6. /\ i \in 1..Len(s) /\ j \in 1..Len(s) /\ i + 1 \in 1..Len(s) + 1 /\ j - 1 \in 0..Len(s)
      /\ (j - 1) + 1 = j /\ i + 1 <= (j - 1) + 1
  BY <1>2, <1>3, <1>5
<1>7. vs \in Seq(X) /\ Adds(s, P, i + 1, j - 1, text)
  <2>1. CASE Blank(s, i + 1, j - 1)
    <3>1. vs = <<>>
      BY <1>1, <2>1
    <3>2. text = <<>>
      BY <3>1, NothingSeparated DEF TextsOf
    <3>3. Adds(s, P, i + 1, j - 1, <<>>)
      BY <1>6, <2>1, SpacesAdd
    <3> HIDE DEF text
    <3> QED
      BY <3>1, <3>2, <3>3
  <2>2. CASE ~Blank(s, i + 1, j - 1)
    <3> DEFINE u == Part(kind, i + 1, j - 1, q.depth + 1)
    <3>1. vs \in Meanings(s)[u]
      BY <1>1, <2>2
    <3>2. u.kind = kind /\ u.from = i + 1 /\ u.to = j - 1 /\ u.depth = q.depth + 1
      BY DEF Part
    <3>3. u \in Parts(s) /\ Extent(s, u) < Extent(s, q)
      <4>1. q.from <= i + 1 /\ j - 1 <= q.to /\ q.from < i + 1
        BY <1>2, <1>3
      <4> QED
        BY <1>2, <1>6, <4>1, SmallerPart
    <3> HIDE DEF u
    <3>4. SaysList(s, P, u, vs)
      BY <3>1, <3>2, <3>3 DEF Told, Says
    <3>5. Left(u) = n
      BY <1>2, <3>2, JsonAssumption DEF Left
    <3> QED
      BY <3>2, <3>4, <3>5 DEF SaysList
  <2> QED
    BY <2>1, <2>2
<1> HIDE DEF text, X
<1>8. Adds(s, P, i, i, <<Open(kind)>>) /\ Adds(s, P, j, j, <<Close(kind)>>)
  BY <1>3, <1>4, <1>6, LexemeAdds
<1>9. Adds(s, P, i, j, <<Open(kind)>> \o text \o <<Close(kind)>>)
  <2>1. i \in 1..Len(s) + 1 /\ i \in 0..Len(s)
    BY <1>6
  <2>2. Adds(s, P, i, j - 1, <<Open(kind)>> \o text)
    BY <1>7, <1>8, <2>1, BothAdd
  <2>3. Adds(s, P, (j - 1) + 1, j, <<Close(kind)>>)
    BY <1>6, <1>8
  <2> QED
    BY <1>6, <2>1, <2>2, <2>3, BothAdd
<1>10. Adds(s, P, q.from, q.to, <<Open(kind)>> \o text \o <<Close(kind)>>)
  <2>1. /\ i - 1 \in 0..Len(s) /\ (i - 1) + 1 = i /\ q.from <= (i - 1) + 1
        /\ j \in 0..Len(s) /\ j <= q.to
    BY <1>2, <1>3, <1>6
  <2>2. Adds(s, P, (i - 1) + 1, j, <<Open(kind)>> \o text \o <<Close(kind)>>)
    BY <1>9, <2>1
  <2> QED
    BY <1>2, <1>3, <2>1, <2>2, AddsAmidSpaces
<1> QED
  BY <1>7, <1>10 DEF text, X

\* A lexeme alone is said,
LEMMA AtomSays ==
  ASSUME NEW s, Len(s) \in Nat, NEW P, IsPlain(P, s), NEW q \in Parts(s), NEW x, IsAtom(s, q, x)
  PROVE  \E m \in {Meaning[t] : t \in Strings \cup Scalars} :
           x = Atom(m) /\ m \in Glyphs(s) /\ Adds(s, P, q.from, q.to, <<m>>)
<1>1. PICK i \in Starts(s, q) \cap Stops(s, q) :
        Reads(s[i], Strings \cup Scalars) /\ x = Atom(Meaning[s[i]])
  BY DEF IsAtom
<1>2. q.from \in 1..Len(s) + 1 /\ q.to \in 0..Len(s)
  BY PartFacts
<1>3. /\ i \in q.from..q.to /\ s[i] # Space /\ Blank(s, q.from, i - 1) /\ Blank(s, i + 1, q.to)
      /\ s[i] \in Strings \cup Scalars
  BY <1>1 DEF Starts, Stops, Reads
<1>4. /\ i \in 1..Len(s) /\ i \in 0..Len(s) /\ i - 1 \in 0..Len(s) /\ (i - 1) + 1 = i
      /\ q.from <= (i - 1) + 1 /\ i <= q.to
  BY <1>2, <1>3
<1>5. Meant(s[i]) = Meaning[s[i]]
  BY <1>3 DEF Meant
<1>6. Adds(s, P, (i - 1) + 1, i, <<Meaning[s[i]]>>) /\ Meaning[s[i]] \in Glyphs(s)
  BY <1>3, <1>4, <1>5, LexemeAdds
<1>7. Adds(s, P, q.from, q.to, <<Meaning[s[i]]>>)
  BY <1>2, <1>3, <1>4, <1>6, AddsAmidSpaces
<1> QED
  BY <1>1, <1>3, <1>6, <1>7

\* the lists are printed from the same texts,
LEMMA PrintingLists ==
  ASSUME NEW s, NEW n
  PROVE  /\ \A vs \in Seq(Entries(s, "elements", n)) :
              ItemTexts(Printed[n], vs) = TextsOf(ItemText(s, "elements", n), vs)
         /\ \A vs \in Seq(Entries(s, "members", n)) :
              MemberTexts(Printed[n], vs) = TextsOf(ItemText(s, "members", n), vs)
<1>1. ASSUME NEW vs \in Seq(Entries(s, "elements", n))
      PROVE  ItemTexts(Printed[n], vs) = TextsOf(ItemText(s, "elements", n), vs)
  <2>1. \A k \in DOMAIN vs : ItemText(s, "elements", n)[vs[k]] = Printed[n][vs[k]]
    <3> SUFFICES ASSUME NEW k \in DOMAIN vs
                 PROVE  ItemText(s, "elements", n)[vs[k]] = Printed[n][vs[k]]
      OBVIOUS
    <3>1. vs[k] \in Entries(s, "elements", n)
      OBVIOUS
    <3> QED
      BY <3>1 DEF ItemText
  <2> QED
    BY <2>1 DEF ItemTexts, TextsOf
<1>2. ASSUME NEW vs \in Seq(Entries(s, "members", n))
      PROVE  MemberTexts(Printed[n], vs) = TextsOf(ItemText(s, "members", n), vs)
  <2>1. \A k \in DOMAIN vs :
          ItemText(s, "members", n)[vs[k]] = <<vs[k][1], Colon>> \o Printed[n][vs[k][2]]
    <3> SUFFICES ASSUME NEW k \in DOMAIN vs
                 PROVE  ItemText(s, "members", n)[vs[k]]
                          = <<vs[k][1], Colon>> \o Printed[n][vs[k][2]]
      OBVIOUS
    <3>1. vs[k] \in Entries(s, "members", n)
      OBVIOUS
    <3> QED
      BY <3>1 DEF ItemText
  <2> QED
    BY <2>1 DEF MemberTexts, TextsOf
<1> QED
  BY <1>1, <1>2

\* and so a value is said.
LEMMA ValueSays ==
  ASSUME NEW s, Len(s) \in Nat, NEW P, IsPlain(P, s), NEW q \in Parts(s),
         q.kind = "value", Told(s, P, q)
  PROVE  Says(s, P, q)
<1> DEFINE M == Meanings(s)
           n == MaxDepth - q.depth
           B(kind) == Bracketed(M, s, q, Open(kind), Close(kind), kind)
<1> SUFFICES ASSUME NEW x \in M[q] PROVE SaysValue(s, P, q, x)
  BY DEF Says
<1>1. /\ Open("elements") = BeginArray /\ Close("elements") = EndArray
      /\ Open("members") = BeginObject /\ Close("members") = EndObject
  BY DEF Open, Close
<1>2. /\ ~(q.depth > MaxDepth)
      /\ \/ IsAtom(s, q, x)
         \/ \E vs \in B("elements") : x = Array(vs)
         \/ \E vs \in B("members") : x = Object(vs)
  <2>1. M[q] = ValueMeans(M, s, q)
    BY MeaningFacts, Zenon DEF Means
  <2>2. ~(q.depth > MaxDepth)
    BY <2>1, Zenon DEF ValueMeans
  <2> DEFINE Atoms == {Atom(Meaning[s[i]]) :
                         i \in {i \in Starts(s, q) \cap Stops(s, q) :
                                 Reads(s[i], Strings \cup Scalars)}}
  <2>3. M[q] = Atoms \cup {Array(vs) : vs \in B("elements")}
                     \cup {Object(vs) : vs \in B("members")}
    BY <1>1, <2>1, <2>2, Zenon DEF ValueMeans
  <2>4. x \in Atoms => IsAtom(s, q, x)
    BY DEF IsAtom
  <2> HIDE DEF Atoms, B, M
  <2>5. \/ x \in Atoms
        \/ \E vs \in B("elements") : x = Array(vs)
        \/ \E vs \in B("members") : x = Object(vs)
    BY <2>3
  <2> QED
    BY <2>2, <2>4, <2>5
<1>3. q.depth <= MaxDepth /\ n \in 0..MaxDepth /\ Left(q) = n + 1
  BY <1>2, PartFacts, JsonAssumption DEF Left
<1> DEFINE print == Printed[n]
           V == Values(DOMAIN print)
<1>4. DOMAIN Printed[Left(q)] = V /\ \A v \in V : Printed[Left(q)][v] = Printing(print, v)
  BY <1>3, PrinterFacts
<1>5. Printable(s, n) \subseteq DOMAIN print
  BY DEF Printable
<1> HIDE DEF n, print, M, B
<1>6. ASSUME x \in V, Adds(s, P, q.from, q.to, Printing(print, x)) PROVE SaysValue(s, P, q, x)
  <2>1. Printing(print, x) \in Seq(Glyphs(s))
    BY <1>6 DEF Adds
  <2> HIDE DEF V
  <2> QED
    BY <1>4, <1>6, <2>1 DEF SaysValue, Printable
<1>7. CASE IsAtom(s, q, x)
  <2>1. PICK m \in {Meaning[t] : t \in Strings \cup Scalars} :
          x = Atom(m) /\ Adds(s, P, q.from, q.to, <<m>>)
    BY <1>7, AtomSays
  <2>2. x \in V
    BY <2>1 DEF Values, Atom
  <2>3. Printing(print, x) = <<m>>
    BY <2>1 DEF Printing, Atom
  <2> QED
    BY <1>6, <2>1, <2>2, <2>3
<1>8. CASE \E vs \in B("elements") : x = Array(vs)
  <2>1. PICK vs \in B("elements") : x = Array(vs)
    BY <1>8
  <2> DEFINE text == Separated(TextsOf(ItemText(s, "elements", n), vs))
  <2>2. /\ vs \in Seq(Entries(s, "elements", n))
        /\ Adds(s, P, q.from, q.to, <<BeginArray>> \o text \o <<EndArray>>)
    BY <1>1, <1>3, BracketsSay DEF B, M, n
  <2>3. x \in V
    <3>1. vs \in Seq(DOMAIN print)
      BY <1>5, <2>2, SeqMonotonic DEF Entries
    <3> QED
      BY <2>1, <3>1 DEF Values, Array
  <2>4. text = Separated(ItemTexts(print, vs))
    BY <2>2, PrintingLists DEF print
  <2> HIDE DEF text
  <2>5. Printing(print, x) = <<BeginArray>> \o text \o <<EndArray>>
    BY <2>1, <2>4 DEF Printing, Array
  <2> QED
    BY <1>6, <2>2, <2>3, <2>5
<1>9. CASE \E vs \in B("members") : x = Object(vs)
  <2>1. PICK vs \in B("members") : x = Object(vs)
    BY <1>9
  <2> DEFINE text == Separated(TextsOf(ItemText(s, "members", n), vs))
  <2>2. /\ vs \in Seq(Entries(s, "members", n))
        /\ Adds(s, P, q.from, q.to, <<BeginObject>> \o text \o <<EndObject>>)
    BY <1>1, <1>3, BracketsSay DEF B, M, n
  <2>3. x \in V
    <3>1. Entries(s, "members", n) \subseteq Names \X DOMAIN print
      BY <1>5 DEF Entries
    <3>2. vs \in Seq(Names \X DOMAIN print)
      BY <2>2, <3>1, SeqMonotonic
    <3> QED
      BY <2>1, <3>2 DEF Values, Object
  <2>4. text = Separated(MemberTexts(print, vs))
    BY <2>2, PrintingLists DEF print
  <2> HIDE DEF text
  <2>5. Printing(print, x) = <<BeginObject>> \o text \o <<EndObject>>
    BY <2>1, <2>4 DEF Printing, Object
  <2> QED
    BY <1>6, <2>2, <2>3, <2>5
<1> QED
  BY <1>2, <1>7, <1>8, <1>9

\* The printer says every part of a text.
LEMMA AllSaid ==
  ASSUME NEW s, Len(s) \in Nat, NEW P, IsPlain(P, s), NEW q \in Parts(s)
  PROVE  Says(s, P, q)
<1> DEFINE T == {n \in Nat : \A p \in Within(s, n) : Says(s, P, p)}
<1>1. 0 \in T
  BY ExtentFacts DEF Within
<1>2. ASSUME NEW n \in Nat, n \in T PROVE n + 1 \in T
  <2> SUFFICES ASSUME NEW p \in Within(s, n + 1) PROVE Says(s, P, p)
    OBVIOUS
  <2>1. p \in Parts(s) /\ Extent(s, p) < n + 1
    BY DEF Within
  <2>2. Told(s, P, p)
    <3> SUFFICES ASSUME NEW u \in Parts(s), Extent(s, u) < Extent(s, p) PROVE Says(s, P, u)
      BY DEF Told
    <3>1. Extent(s, u) \in Nat /\ Extent(s, p) \in Nat
      BY <2>1, ExtentFacts
    <3>2. u \in Within(s, n)
      BY <2>1, <3>1 DEF Within
    <3> QED
      BY <1>2, <3>2
  <2> QED
    BY <2>1, <2>2, PartFacts, ValueSays, ElementsSay, MembersSay
<1>3. Nat \subseteq T
  <2> HIDE DEF T
  <2> QED
    BY <1>1, <1>2, Induction
<1>4. 4 * Len(s) + 4 \in Nat /\ q \in Within(s, 4 * Len(s) + 4)
  BY ExtentFacts DEF Within
<1> QED
  BY <1>3, <1>4

\* For a text of any length, any lexemes and any limit on nesting: what strictJSON returns is
\* printed by JSON.stringify as the text was, spaces and spelling apart (jws.js:23-25,
\* index.js:70-71, encoding.js:49-79).
THEOREM ValuesSayTheirTexts ==
  ASSUME NEW s, Len(s) \in Nat
  PROVE  SaysTheText(s)
<1> DEFINE q == Part("value", 1, Len(s), 0)
<1>1. PICK P : IsPlain(P, s) /\ Plain(s) = P[Len(s)]
  BY PlainExists
<1>2. /\ q \in Parts(s) /\ q.kind = "value" /\ q.from = 1 /\ q.to = Len(s)
      /\ Left(q) = MaxDepth + 1
  BY JsonAssumption DEF Part, Parts, Left
<1>3. StrictJSON(s) = Meanings(s)[q]
  BY TextsMeanWhatTheySay DEF MeansWhatItSays
<1> HIDE DEF q
<1>4. ASSUME NEW v \in StrictJSON(s) PROVE Stringify(v) = Plain(s)
  <2>1. SaysValue(s, P, q, v)
    BY <1>1, <1>2, <1>3, AllSaid DEF Says
  <2>2. Stringify(v) \in Seq(Glyphs(s)) /\ P[Len(s)] = P[0] \o Stringify(v)
    <3>1. 1 - 1 = 0
      OBVIOUS
    <3> QED
      BY <1>2, <2>1, <3>1 DEF SaysValue, Adds, Stringify
  <2>3. P[0] = <<>>
    BY <1>1 DEF IsPlain
  <2> QED
    BY <1>1, <2>2, <2>3, ConcatEmptySeq
<1> QED
  BY <1>4 DEF SaysTheText
=============================================================================
