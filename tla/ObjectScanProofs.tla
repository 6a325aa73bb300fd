------------------------- MODULE ObjectScanProofs -------------------------
(***************************************************************************)
(* Proofs about ObjectScan: a scan visits exactly the references of its    *)
(* object, in slots inside it, and compute_class_size is tight, for every  *)
(* width of the bitmap words and every number of fields, elements, static  *)
(* fields and vtable entries.                                              *)
(***************************************************************************)
EXTENDS ObjectScan, FiniteSetTheorems, FunctionTheorems, WellFoundedInduction,
        TLAPS

(***************************************************************************)
(* Numbers and their bits                                                  *)
(***************************************************************************)
\* A set of natural numbers has a least member, and is all of them if it has
\* 0 and the successors of its members.  An induction over numbers is an
\* argument about the set of those for which a statement holds.
LEMMA LeastNat ==
    ASSUME NEW S \in SUBSET Nat, S # {}
    PROVE  \E x \in S : \A y \in S : x <= y
  <1> DEFINE R == OpToRel(<, Nat)
  <1>1. IsWellFoundedOn(R, Nat)
    BY NatLessThanWellFounded
  <1>2. \A x, y \in Nat : x < y => <<x, y>> \in R
    BY DEF OpToRel
  <1> HIDE DEF R
  <1>3. PICK x \in S : \A y \in S : ~(<<y, x>> \in R)
    BY <1>1, WFMin
  <1>4. \A y \in S : ~(y < x)
    BY <1>2, <1>3, Zenon
  <1> QED BY <1>4

LEMMA SetInduction ==
    ASSUME NEW S \in SUBSET Nat, 0 \in S, \A n \in S : n + 1 \in S
    PROVE  S = Nat
  <1> SUFFICES ASSUME Nat \ S # {}
               PROVE  FALSE
    OBVIOUS
  <1>1. PICK x \in Nat \ S : \A y \in Nat \ S : x <= y
    BY LeastNat
  <1>2. x # 0 /\ x - 1 \in Nat /\ x - 1 \in S
    BY <1>1
  <1> QED BY <1>1, <1>2

\* The least upper bound of a set of numbers is its maximum.
LEMMA MaxIs ==
    ASSUME NEW S \in SUBSET Nat, NEW x \in S, \A y \in S : y <= x
    PROVE  Max(S) = x
  <1>1. \A z \in S : (\A y \in S : z >= y) => z = x
    OBVIOUS
  <1> QED BY <1>1 DEF Max

LEMMA MaxExists ==
    ASSUME NEW S \in SUBSET Nat, S # {}, NEW n \in Nat, \A y \in S : y <= n
    PROVE  Max(S) \in S /\ \A y \in S : y <= Max(S)
  <1> DEFINE T == {m \in Nat : \A y \in S : y <= m}
  <1>1. PICK m \in T : \A k \in T : m <= k
    <2>1. n \in T /\ T \in SUBSET Nat
      OBVIOUS
    <2> HIDE DEF T
    <2> QED BY <2>1, LeastNat
  <1>2. m \in S
    <2> SUFFICES ASSUME m \notin S
                 PROVE  FALSE
      OBVIOUS
    <2>1. \A y \in S : y <= m - 1
      BY <1>1
    <2>2. m - 1 \in T
      <3>1. PICK y \in S : y <= m - 1
        BY <2>1
      <3> QED BY <1>1, <2>1, <3>1
    <2> QED BY <1>1, <2>2
  <1>3. Max(S) = m
    BY <1>1, <1>2, MaxIs
  <1> QED BY <1>1, <1>2, <1>3

\* Powers of two count subsets.
LEMMA Subsets ==
    ASSUME NEW n \in Nat
    PROVE  /\ IsFiniteSet(SUBSET (1 .. n)) /\ Cardinality(SUBSET (1 .. n)) = 2 ^ n
           /\ 2 ^ n \in Nat /\ 2 ^ n > 0
  <1> DEFINE A == SUBSET (1 .. n)
  <1>1. IsFiniteSet(1 .. n) /\ Cardinality(1 .. n) = n
    BY FS_Interval
  <1>2. IsFiniteSet(A) /\ Cardinality(A) = 2 ^ n
    BY <1>1, FS_SUBSET
  <1>3. {} \in A
    OBVIOUS
  <1> HIDE DEF A
  <1>4. Cardinality(A) \in Nat /\ Cardinality(A) # 0
    BY <1>2, <1>3, FS_CardinalityType, FS_EmptySet
  <1> QED BY <1>2, <1>4 DEF A

LEMMA PowerStep ==
    ASSUME NEW n \in Nat
    PROVE  2 ^ (n + 1) = 2 * 2 ^ n
  <1> DEFINE A == SUBSET (1 .. n)
             B == SUBSET (1 .. n + 1)
             f == [a \in A |-> a \cup {n + 1}]
             C == {a \cup {n + 1} : a \in A}
  <1>1. IsFiniteSet(A) /\ Cardinality(A) = 2 ^ n /\ Cardinality(B) = 2 ^ (n + 1)
    <2>1. n + 1 \in Nat
      OBVIOUS
    <2>2. IsFiniteSet(A) /\ Cardinality(A) = 2 ^ n
      BY Subsets
    <2>3. Cardinality(B) = 2 ^ (n + 1)
      BY <2>1, Subsets
    <2> QED BY <2>2, <2>3
  <1>2. f \in Bijection(A, C)
    <2>1. f \in [A -> C]
      OBVIOUS
    <2>2. \A a, b \in A : f[a] = f[b] => a = b
      OBVIOUS
    <2>3. \A c \in C : \E a \in A : f[a] = c
      OBVIOUS
    <2> HIDE DEF A, C, f
    <2> QED BY <2>1, <2>2, <2>3 DEF Bijection, Injection, Surjection, IsInjective
  <1>3. B = A \cup C
    <2>1. ASSUME NEW b \in B
          PROVE  b \in A \cup C
      <3>1. CASE n + 1 \in b
        <4>1. b \ {n + 1} \in A /\ b = (b \ {n + 1}) \cup {n + 1}
          BY <3>1
        <4> QED BY <4>1
      <3>2. CASE n + 1 \notin b
        BY <3>2
      <3> QED BY <3>1, <3>2
    <2>2. ASSUME NEW b \in A \cup C
          PROVE  b \in B
      OBVIOUS
    <2> QED BY <2>1, <2>2
  <1>4. A \cap C = {}
    OBVIOUS
  <1> HIDE DEF A, B, C, f
  <1>5. IsFiniteSet(C) /\ Cardinality(C) = Cardinality(A)
    BY <1>1, <1>2, FS_Bijection DEF ExistsBijection
  <1>6. Cardinality(B) = Cardinality(A) + Cardinality(C) - Cardinality(A \cap C)
    BY <1>1, <1>3, <1>5, FS_Union
  <1>7. Cardinality(A \cap C) = 0
    BY <1>4, FS_EmptySet
  <1> QED BY <1>1, <1>5, <1>6, <1>7, Subsets

\* Quotients and remainders are known by what they are.
LEMMA QuotientIs ==
    ASSUME NEW n \in Nat, NEW p \in Nat, p > 0, NEW q \in Nat, NEW r \in Nat,
           r < p, n = p * q + r
    PROVE  n \div p = q /\ n % p = r
  OBVIOUS

LEMMA Quotient ==
    ASSUME NEW n \in Nat, NEW p \in Nat, p > 0
    PROVE  \E q \in Nat, r \in Nat : /\ r < p /\ n = p * q + r
                                     /\ n \div p = q /\ n % p = r
  OBVIOUS

\* A bit of half a number is the next one of the number.
LEMMA BitOfHalf ==
    ASSUME NEW n \in Nat, NEW b \in Nat
    PROVE  /\ Bit(n, 0) = n % 2 /\ Bit(n, b) \in {0, 1} /\ Bit(0, b) = 0
           /\ n \div 2 \in Nat /\ Bit(n \div 2, b) = Bit(n, b + 1)
  <1>1. PICK p : p = 2 ^ b
    OBVIOUS
  <1>2. p \in Nat /\ p > 0 /\ 2 ^ (b + 1) = 2 * p
    BY <1>1, Subsets, PowerStep
  <1>3. PICK q \in Nat, r \in Nat : r < 2 * p /\ n = (2 * p) * q + r /\ n \div (2 * p) = q
    BY <1>2, Quotient
  <1>4. (n \div 2) \div p = q
    <2>1. PICK y \in Nat : y = p * q
      BY <1>2
    <2>2. n = 2 * y + r
      BY <1>2, <1>3, <2>1
    <2>3. n \div 2 = y + r \div 2 /\ r \div 2 \in Nat /\ r \div 2 < p
      BY <1>2, <1>3, <2>1, <2>2
    <2>4. PICK h \in Nat : h = r \div 2
      BY <2>3
    <2>5. n \div 2 = p * q + h /\ h < p /\ n \div 2 \in Nat
      BY <2>1, <2>3, <2>4
    <2> QED BY <1>2, <2>5, QuotientIs
  <1>5. n \div p \in Nat /\ 0 \div p = 0
    <2>1. PICK u \in Nat, v \in Nat : n \div p = u
      BY <1>2, Quotient
    <2>2. 0 = p * 0 + 0
      BY <1>2
    <2> QED BY <1>2, <2>1, <2>2, QuotientIs
  <1>6. n \div 1 = n /\ 2 ^ 0 = 1
    OBVIOUS
  <1> QED BY <1>1, <1>2, <1>3, <1>4, <1>5, <1>6 DEF Bit

\* Every set of bits is that of a number.
LEMMA BitsExist ==
    ASSUME NEW k \in Nat, NEW S
    PROVE  \E n \in 0 .. 2 ^ k - 1 : \A b \in 0 .. k - 1 : Bit(n, b) = 1 <=> b \in S
  <1> DEFINE Has(j, T) == \E n \in 0 .. 2 ^ j - 1 :
                              \A b \in 0 .. j - 1 : Bit(n, b) = 1 <=> b \in T
             All == {j \in Nat : \A T \in SUBSET Nat : Has(j, T)}
  <1>1. 0 \in All
    <2>1. 2 ^ 0 = 1 /\ 0 \in 0 .. 0
      OBVIOUS
    <2> QED BY <2>1
  <1>2. ASSUME NEW j \in All
        PROVE  j + 1 \in All
    <2> SUFFICES ASSUME NEW T \in SUBSET Nat
                 PROVE  Has(j + 1, T)
      OBVIOUS
    <2> DEFINE U == {b \in Nat : b + 1 \in T}
    <2>1. PICK n \in 0 .. 2 ^ j - 1 : \A b \in 0 .. j - 1 : Bit(n, b) = 1 <=> b \in U
      OBVIOUS
    <2>2. PICK p : p = 2 ^ j /\ p \in Nat /\ p > 0 /\ 2 ^ (j + 1) = 2 * p
      BY Subsets, PowerStep
    <2>3. PICK m \in 0 .. 2 * p - 1 : m \div 2 = n /\ (m % 2 = 1 <=> 0 \in T)
      <3>1. CASE 0 \in T
        <4>1. 2 * n + 1 \in 0 .. 2 * p - 1 /\ (2 * n + 1) \div 2 = n
                /\ (2 * n + 1) % 2 = 1
          BY <2>1, <2>2
        <4> QED BY <3>1, <4>1
      <3>2. CASE 0 \notin T
        <4>1. 2 * n \in 0 .. 2 * p - 1 /\ (2 * n) \div 2 = n /\ (2 * n) % 2 = 0
          BY <2>1, <2>2
        <4> QED BY <3>2, <4>1
      <3> QED BY <3>1, <3>2
    <2>4. ASSUME NEW b \in 0 .. j
          PROVE  Bit(m, b) = 1 <=> b \in T
      <3> m \in Nat
        BY <2>2
      <3>1. CASE b = 0
        <4>1. Bit(m, 0) = m % 2
          BY BitOfHalf
        <4> QED BY <2>3, <3>1, <4>1
      <3>2. CASE b # 0
        <4>1. b - 1 \in 0 .. j - 1 /\ b - 1 \in Nat /\ (b - 1) + 1 = b
          BY <3>2
        <4>2. Bit(m, b) = Bit(n, b - 1)
          <5>1. Bit(m \div 2, b - 1) = Bit(m, (b - 1) + 1)
            BY <4>1, BitOfHalf
          <5> QED BY <2>3, <4>1, <5>1
        <4>3. Bit(n, b - 1) = 1 <=> b - 1 \in U
          BY <2>1, <4>1
        <4> QED BY <4>1, <4>2, <4>3
      <3> QED BY <3>1, <3>2
    <2>5. m \in 0 .. 2 ^ (j + 1) - 1 /\ (j + 1) - 1 = j
      BY <2>2
    <2> QED BY <2>4, <2>5
  <1>3. All = Nat
    <2> HIDE DEF All
    <2> QED BY <1>1, <1>2, SetInduction DEF All
  <1>4. Has(k, S \cap Nat)
    BY <1>3
  <1> QED BY <1>4

\* The words of a bitmap have the bits they stand for.
LEMMA WordBitsAre ==
    ASSUME NEW refs, NEW i \in Nat
    PROVE  /\ BitmapWord(refs, i) \in 0 .. 2 ^ WordBits - 1
           /\ \A b \in 0 .. WordBits - 1 :
                Bit(BitmapWord(refs, i), b) = 1 <=> i * WordBits + b \in refs
  <1>1. WordBits \in Nat
    BY ShapesAssumption
  <1> DEFINE S == {b \in Nat : i * WordBits + b \in refs}
             Good(n) == \A b \in 0 .. WordBits - 1 :
                            Bit(n, b) = 1 <=> i * WordBits + b \in refs
  <1>2. \E n \in 0 .. 2 ^ WordBits - 1 : Good(n)
    <2>1. PICK n \in 0 .. 2 ^ WordBits - 1 :
              \A b \in 0 .. WordBits - 1 : Bit(n, b) = 1 <=> b \in S
      BY <1>1, BitsExist
    <2>2. \A b \in 0 .. WordBits - 1 : b \in S <=> i * WordBits + b \in refs
      BY <1>1
    <2> QED BY <2>1, <2>2
  <1>3. BitmapWord(refs, i) = CHOOSE n \in 0 .. 2 ^ WordBits - 1 : Good(n)
    BY DEF BitmapWord
  <1> HIDE DEF Good
  <1>4. BitmapWord(refs, i) \in 0 .. 2 ^ WordBits - 1 /\ Good(BitmapWord(refs, i))
    BY <1>2, <1>3
  <1> QED BY <1>4 DEF Good

(***************************************************************************)
(* Sizes                                                                   *)
(***************************************************************************)
\* What the class linker says of a class, as far as sizes depend on it.
Statics == [StaticKinds -> Nat]

\* A minimum is known by what it is.
LEMMA MinIs ==
    ASSUME NEW S \in SUBSET Int, NEW x \in S, \A y \in S : x <= y
    PROVE  Min(S) = x
  <1>1. \A z \in S : (\A y \in S : z <= y) => z = x
    OBVIOUS
  <1> QED BY <1>1 DEF Min

LEMMA MinOfTwo ==
    ASSUME NEW a \in Nat, NEW b \in Nat
    PROVE  Min({a, b}) = IF a <= b THEN a ELSE b
  <1>1. CASE a <= b
    <2>1. Min({a, b}) = a
      BY <1>1, MinIs
    <2> QED BY <1>1, <2>1
  <1>2. CASE ~(a <= b)
    <2>1. Min({a, b}) = b
      BY <1>2, MinIs
    <2> QED BY <1>2, <2>1
  <1> QED BY <1>1, <1>2

\* The vtable ends at a multiple of four.
LEMMA VTableEnds ==
    ASSUME NEW v \in Nat, NEW p \in {4, 8}
    PROVE  /\ VTableEnd(v, p) \in Nat /\ VTableEnd(v, p) % 4 = 0
           /\ VTableEnd(v, p) >= SizeOfClass + 4 + p * (1 + v)
  <1>1. CASE p = 4
    <2>1. VTableEnd(v, p) = 124 + 4 + v * 4
      BY <1>1 DEF VTableEnd, align_up, SizeOfClass
    <2> QED BY <1>1, <2>1 DEF SizeOfClass
  <1>2. CASE p = 8
    <2>1. VTableEnd(v, p) = 128 + 8 + v * 8
      BY <1>2 DEF VTableEnd, align_up, SizeOfClass
    <2> QED BY <1>2, <2>1 DEF SizeOfClass
  <1> QED BY <1>1, <1>2

ClassEnd(embedded, v, p) == IF embedded THEN VTableEnd(v, p) ELSE SizeOfClass

LEMMA ClassEnds ==
    ASSUME NEW e, NEW v \in Nat, NEW p \in {4, 8}
    PROVE  ClassEnd(e, v, p) \in Nat /\ ClassEnd(e, v, p) % 4 = 0
  <1>1. CASE e
    BY <1>1, VTableEnds DEF ClassEnd
  <1>2. CASE ~e
    BY <1>2 DEF ClassEnd, SizeOfClass
  <1> QED BY <1>1, <1>2

\* The gap before the first static field of eight bytes.
Gap(refs, n64) == IF refs % 8 # 0 /\ n64 > 0 THEN 8 - (refs % 8) ELSE 0

\* No more fields are moved into the gap than there are and than fit, and no
\* choice of fields fills more of it.
LEMMA ShuffleBest ==
    ASSUME NEW gap \in {0, 4}, NEW n32 \in Nat, NEW n16 \in Nat, NEW n8 \in Nat
    PROVE  LET m == Shuffle(gap, n32, n16, n8)
           IN  /\ m[1] \in 0 .. n32 /\ m[2] \in 0 .. n16 /\ m[3] \in 0 .. n8
               /\ 4 * m[1] + 2 * m[2] + m[3] <= gap
               /\ \A i \in 0 .. n32 : \A j \in 0 .. n16 : \A k \in 0 .. n8 :
                    4 * i + 2 * j + k <= gap =>
                      4 * i + 2 * j + k <= 4 * m[1] + 2 * m[2] + m[3]
  <1> DEFINE m32 == Min({gap \div 4, n32})
             m16 == Min({(gap - 4 * m32) \div 2, n16})
             m8  == Min({gap - 4 * m32 - 2 * m16, n8})
  <1>1. Shuffle(gap, n32, n16, n8) = <<m32, m16, m8>>
    BY DEF Shuffle
  <1>2. /\ m32 = (IF gap \div 4 <= n32 THEN gap \div 4 ELSE n32) /\ m32 \in Nat
        /\ 4 * m32 <= gap
    <2>1. gap \div 4 \in Nat
      OBVIOUS
    <2>2. m32 = IF gap \div 4 <= n32 THEN gap \div 4 ELSE n32
      BY <2>1, MinOfTwo
    <2> HIDE DEF m32
    <2> QED BY <2>1, <2>2
  <1> HIDE DEF m32
  <1>3. /\ m16 = (IF (gap - 4 * m32) \div 2 <= n16 THEN (gap - 4 * m32) \div 2
                                                   ELSE n16)
        /\ m16 \in Nat /\ 2 * m16 <= gap - 4 * m32
    <2>1. (gap - 4 * m32) \div 2 \in Nat
      BY <1>2
    <2>2. m16 = IF (gap - 4 * m32) \div 2 <= n16 THEN (gap - 4 * m32) \div 2 ELSE n16
      BY <2>1, MinOfTwo
    <2> HIDE DEF m16
    <2> QED BY <1>2, <2>1, <2>2
  <1> HIDE DEF m16
  <1>4. m8 = IF gap - 4 * m32 - 2 * m16 <= n8 THEN gap - 4 * m32 - 2 * m16 ELSE n8
    <2>1. gap - 4 * m32 - 2 * m16 \in Nat
      BY <1>2, <1>3
    <2> QED BY <2>1, MinOfTwo
  <1> HIDE DEF m8
  <1>5. /\ m32 \in 0 .. n32 /\ m16 \in 0 .. n16 /\ m8 \in 0 .. n8
        /\ 4 * m32 + 2 * m16 + m8 <= gap
    BY <1>2, <1>3, <1>4
  <1>6. ASSUME NEW i \in 0 .. n32, NEW j \in 0 .. n16, NEW k \in 0 .. n8,
               4 * i + 2 * j + k <= gap
        PROVE  4 * i + 2 * j + k <= 4 * m32 + 2 * m16 + m8
    BY <1>2, <1>3, <1>4, <1>6
  <1> QED BY <1>1, <1>5, <1>6

\* How many bytes of the gap are used.
Moved(gap, n32, n16, n8) ==
    LET m == Shuffle(gap, n32, n16, n8) IN 4 * m[1] + 2 * m[2] + m[3]

\* The size of a class whose references end at r and that leaves waste unused.
Layout(r, waste, s) ==
    r + waste + s["n8"] + 2 * s["n16"] + 4 * s["n32"] + 8 * s["n64"]

\* The layout of a class without its bitmap: the vtable, the references, the
\* gap with what was moved into it, and the rest.
LEMMA ClassLayout ==
    ASSUME NEW e, NEW v \in Nat, NEW p \in {4, 8}, NEW s \in Statics,
           NEW r, r = ClassEnd(e, v, p) + 4 * s["ref"],
           NEW g, g = Gap(r, s["n64"]),
           NEW k, k = Moved(g, s["n32"], s["n16"], s["n8"])
    PROVE  /\ r \in Nat /\ r % 4 = 0 /\ g \in {0, 4} /\ k \in 0 .. g
           /\ compute_class_size(e, v, s, 0, p) = Layout(r, g - k, s)
  <1>1. /\ s["ref"] \in Nat /\ s["n8"] \in Nat /\ s["n16"] \in Nat
        /\ s["n32"] \in Nat /\ s["n64"] \in Nat
    BY DEF Statics, StaticKinds
  <1>2. r \in Nat /\ r % 4 = 0
    <2>1. ClassEnd(e, v, p) \in Nat /\ ClassEnd(e, v, p) % 4 = 0
      BY ClassEnds
    <2> QED BY <1>1, <2>1
  <1>3. g \in {0, 4}
    BY <1>1, <1>2 DEF Gap
  <1>4. PICK m : m = Shuffle(g, s["n32"], s["n16"], s["n8"])
    OBVIOUS
  <1>5. /\ m[1] \in 0 .. s["n32"] /\ m[2] \in 0 .. s["n16"] /\ m[3] \in 0 .. s["n8"]
        /\ 4 * m[1] + 2 * m[2] + m[3] <= g
    BY <1>1, <1>3, <1>4, ShuffleBest
  <1>6. PICK a, b, c : a = m[1] /\ b = m[2] /\ c = m[3]
    OBVIOUS
  <1>7. k = 4 * a + 2 * b + c
    BY <1>4, <1>6 DEF Moved
  <1>8. /\ a \in 0 .. s["n32"] /\ b \in 0 .. s["n16"] /\ c \in 0 .. s["n8"]
        /\ 4 * a + 2 * b + c <= g
    BY <1>5, <1>6
  <1>9. k \in 0 .. g
    BY <1>1, <1>3, <1>7, <1>8
  <1>10. compute_class_size(e, v, s, 0, p) =
          r + g + (s["n8"] - c) + 2 * (s["n16"] - b) + 4 * (s["n32"] - a)
            + 8 * s["n64"]
    <2>1. r = (IF e THEN VTableEnd(v, p) ELSE SizeOfClass)
                + s["ref"] * ART_HEAP_REFERENCE_SIZE
      <3>1. ClassEnd(e, v, p) \in Nat
        BY ClassEnds
      <3> QED BY <1>1, <3>1 DEF ClassEnd, ART_HEAP_REFERENCE_SIZE
    <2> QED BY <1>4, <1>6, <2>1 DEF compute_class_size, Gap
  <1>11. r + g + (s["n8"] - c) + 2 * (s["n16"] - b) + 4 * (s["n32"] - a)
            + 8 * s["n64"]
         = Layout(r, g - k, s)
    <2>1. r \in Int /\ g \in Int /\ a \in Int /\ b \in Int /\ c \in Int
      BY <1>2, <1>3, <1>8
    <2>2. PICK n8, n16, n32, n64 : /\ n8 = s["n8"] /\ n16 = s["n16"]
                                   /\ n32 = s["n32"] /\ n64 = s["n64"]
      OBVIOUS
    <2>3. n8 \in Int /\ n16 \in Int /\ n32 \in Int /\ n64 \in Int
      BY <1>1, <2>2
    <2>4. r + g + (n8 - c) + 2 * (n16 - b) + 4 * (n32 - a) + 8 * n64
            = r + (g - (4 * a + 2 * b + c)) + n8 + 2 * n16 + 4 * n32 + 8 * n64
      BY <2>1, <2>3
    <2> QED BY <1>7, <2>2, <2>4 DEF Layout
  <1> QED BY <1>2, <1>3, <1>9, <1>10, <1>11

\* Without static fields a class ends with its vtable.
LEMMA NoStaticsSize ==
    ASSUME NEW e, NEW v \in Nat, NEW p \in {4, 8}
    PROVE  compute_class_size(e, v, NoStatics, 0, p) = ClassEnd(e, v, p)
  <1>1. /\ NoStatics \in Statics /\ NoStatics["ref"] = 0 /\ NoStatics["n8"] = 0
        /\ NoStatics["n16"] = 0 /\ NoStatics["n32"] = 0 /\ NoStatics["n64"] = 0
    BY DEF NoStatics, Statics, StaticKinds
  <1>2. PICK c : c = ClassEnd(e, v, p) + 4 * NoStatics["ref"]
    OBVIOUS
  <1>3. c \in Nat /\ c = ClassEnd(e, v, p)
    BY <1>1, <1>2, ClassEnds
  <1>4. PICK g : g = Gap(c, NoStatics["n64"])
    OBVIOUS
  <1>5. g = 0
    BY <1>1, <1>4 DEF Gap
  <1>6. PICK k : k = Moved(g, NoStatics["n32"], NoStatics["n16"], NoStatics["n8"])
    OBVIOUS
  <1>7. /\ k \in 0 .. g
        /\ compute_class_size(e, v, NoStatics, 0, p) = Layout(c, g - k, NoStatics)
    BY <1>1, <1>2, <1>4, <1>6, ClassLayout
  <1> QED BY <1>1, <1>3, <1>5, <1>7 DEF Layout

\* The bitmap comes last.
LEMMA BitmapLast ==
    ASSUME NEW e, NEW v \in Nat, NEW p \in {4, 8}, NEW s \in Statics,
           NEW b \in Nat
    PROVE  /\ compute_class_size(e, v, s, b, p) \in Int
           /\ compute_class_size(e, v, s, b, p) - 4 * b
                >= ClassEnd(e, v, p) + 4 * s["ref"]
  <1>1. PICK r : r = ClassEnd(e, v, p) + 4 * s["ref"]
    OBVIOUS
  <1>2. PICK n : n = compute_class_size(e, v, s, 0, p)
    OBVIOUS
  <1>3. r \in Nat /\ n \in Nat /\ n >= r
    <2>1. PICK g : g = Gap(r, s["n64"])
      OBVIOUS
    <2>2. PICK k : k = Moved(g, s["n32"], s["n16"], s["n8"])
      OBVIOUS
    <2>3. /\ r \in Nat /\ g \in {0, 4} /\ k \in 0 .. g
          /\ n = Layout(r, g - k, s)
      BY <1>1, <1>2, <2>1, <2>2, ClassLayout
    <2>4. /\ s["n8"] \in Nat /\ s["n16"] \in Nat /\ s["n32"] \in Nat
          /\ s["n64"] \in Nat
      BY DEF Statics, StaticKinds
    <2> QED BY <2>3, <2>4 DEF Layout
  <1>4. compute_class_size(e, v, s, b, p) =
          IF b > 0 THEN align_up(n, 4) + 4 * b ELSE n
    BY <1>2 DEF compute_class_size
  <1>5. align_up(n, 4) \in Int /\ align_up(n, 4) >= n
    BY <1>3 DEF align_up
  <1> QED BY <1>1, <1>3, <1>4, <1>5

\* What is left of the gap is the least that any choice of fields would leave.
Left(gap, n32, n16, n8) ==
    LET fills == {t \in (0 .. n32) \X (0 .. n16) \X (0 .. n8) :
                    4 * t[1] + 2 * t[2] + t[3] <= gap}
    IN  {gap - (4 * t[1] + 2 * t[2] + t[3]) : t \in fills}

LEMMA LeastWaste ==
    ASSUME NEW gap \in {0, 4}, NEW n32 \in Nat, NEW n16 \in Nat, NEW n8 \in Nat
    PROVE  Min(Left(gap, n32, n16, n8)) = gap - Moved(gap, n32, n16, n8)
  <1> DEFINE fills == {t \in (0 .. n32) \X (0 .. n16) \X (0 .. n8) :
                         4 * t[1] + 2 * t[2] + t[3] <= gap}
             left  == {gap - (4 * t[1] + 2 * t[2] + t[3]) : t \in fills}
  <1>1. PICK m : m = Shuffle(gap, n32, n16, n8)
    OBVIOUS
  <1>2. /\ m[1] \in 0 .. n32 /\ m[2] \in 0 .. n16 /\ m[3] \in 0 .. n8
        /\ 4 * m[1] + 2 * m[2] + m[3] <= gap
        /\ \A i \in 0 .. n32 : \A j \in 0 .. n16 : \A k \in 0 .. n8 :
             4 * i + 2 * j + k <= gap =>
               4 * i + 2 * j + k <= 4 * m[1] + 2 * m[2] + m[3]
    BY <1>1, ShuffleBest
  <1>3. PICK k : k = Moved(gap, n32, n16, n8)
    OBVIOUS
  <1>4. k = 4 * m[1] + 2 * m[2] + m[3] /\ k \in Int
    BY <1>1, <1>2, <1>3 DEF Moved
  <1>5. gap - k \in left
    <2>1. <<m[1], m[2], m[3]>> \in fills
      BY <1>2
    <2> QED BY <1>4, <2>1
  <1>6. ASSUME NEW y \in left
        PROVE  y \in Int /\ gap - k <= y
    <2>1. PICK t \in fills : y = gap - (4 * t[1] + 2 * t[2] + t[3])
      OBVIOUS
    <2>2. /\ t[1] \in 0 .. n32 /\ t[2] \in 0 .. n16 /\ t[3] \in 0 .. n8
          /\ 4 * t[1] + 2 * t[2] + t[3] <= gap
      BY <2>1
    <2>3. 4 * t[1] + 2 * t[2] + t[3] <= k
      BY <1>2, <1>4, <2>2
    <2>4. PICK x : x = 4 * t[1] + 2 * t[2] + t[3]
      OBVIOUS
    <2>5. x \in Int /\ x <= k /\ y = gap - x
      BY <2>1, <2>2, <2>3, <2>4
    <2> QED BY <1>4, <2>5
  <1>7. left \in SUBSET Int
    BY <1>6
  <1>8. Min(left) = gap - k
    <2> HIDE DEF left
    <2> QED BY <1>5, <1>6, <1>7, MinIs
  <1> QED BY <1>3, <1>8 DEF Left

(***************************************************************************)
(* The object being scanned                                                *)
(***************************************************************************)
\* Instances with reference fields, and class objects among them.
FieldShape ==
    /\ obj.flags \in FieldFlags \cup {{"Class"}} /\ "refs" \in DOMAIN obj
    /\ obj.refs \in SUBSET (0 .. MaxFields + 7) /\ obj.refs # {}

ArrayShape ==
    /\ obj.flags = {"ObjectArray"} /\ "refs" \notin DOMAIN obj
    /\ obj.component = "Not" /\ obj.length \in Nat

PlainShape ==
    /\ obj.flags \in {{"NoReferenceFields", "PrimitiveArray"},
                      {"NoReferenceFields", "String"}}
    /\ "refs" \notin DOMAIN obj
    /\ get_object_size(obj) >= 4

\* A class object is what the class linker makes.
ClassShape ==
    "Class" \in obj.flags =>
        /\ obj.flags = {"Class"} /\ obj.statics \in Statics /\ obj.vtable \in Nat
        /\ obj.ptr_size \in {4, 8} /\ obj.bitmap \in Nat /\ obj.status \in 0 .. 15
        /\ "refs" \in DOMAIN obj /\ obj.refs = 0 .. 7

Shape == (FieldShape \/ ArrayShape \/ PlainShape) /\ ClassShape

LEMMA InitShape == Init => Shape
  <1> SUFFICES ASSUME Init
               PROVE  Shape
    OBVIOUS
  <1>1. CASE obj \in FieldObjects
    <2>1. PICK flags \in FieldFlags, refs \in (SUBSET (0 .. MaxFields - 1)) \ {{}} :
              \E nulls : obj = [flags |-> flags, refs |-> refs, nulls |-> nulls]
      <3> DEFINE Some(flags, refs) == {[flags |-> flags, refs |-> refs,
                                        nulls |-> nulls] : nulls \in FewNulls(refs)}
      <3>1. PICK flags \in FieldFlags, refs \in (SUBSET (0 .. MaxFields - 1)) \ {{}} :
                obj \in Some(flags, refs)
        <4>1. FieldObjects = UNION {Some(flags, refs) : flags \in FieldFlags,
                                      refs \in (SUBSET (0 .. MaxFields - 1)) \ {{}}}
          BY DEF FieldObjects
        <4> HIDE DEF Some
        <4> QED BY <1>1, <4>1
      <3> QED BY <3>1
    <2>2. "Class" \notin flags
      BY <2>1 DEF FieldFlags, kClassFlagReference
    <2>3. "refs" \in DOMAIN obj /\ obj.refs = refs /\ obj.flags = flags
      BY <2>1
    <2>4. refs \in SUBSET (0 .. MaxFields + 7)
      BY ShapesAssumption
    <2> QED BY <2>1, <2>2, <2>3, <2>4 DEF Shape, ClassShape, FieldShape
  <1>2. CASE obj \in ArrayObjects
    <2> DEFINE RefArrays == UNION {{[flags |-> {"ObjectArray"}, length |-> n,
                                     component |-> "Not", nulls |-> nulls] :
                                      nulls \in SUBSET (0 .. n - 1)} :
                                    n \in 0 .. MaxLength}
               PrimArrays == {[flags |-> {"NoReferenceFields", "PrimitiveArray"},
                               length |-> n, component |-> c, nulls |-> {}] :
                                 n \in 0 .. MaxLength,
                                 c \in {"Byte", "Char", "Int", "Double"}}
    <2>1. ArrayObjects = RefArrays \cup PrimArrays
      BY DEF ArrayObjects
    <2>2. CASE obj \in RefArrays
      <3>1. PICK n \in 0 .. MaxLength :
                \E nulls : obj = [flags |-> {"ObjectArray"}, length |-> n,
                                  component |-> "Not", nulls |-> nulls]
        BY <2>2
      <3>2. /\ "refs" \notin DOMAIN obj /\ obj.flags = {"ObjectArray"}
            /\ obj.length \in Nat /\ obj.component = "Not"
        BY <3>1, ShapesAssumption
      <3> QED BY <3>2 DEF Shape, ClassShape, ArrayShape
    <2>3. CASE obj \in PrimArrays
      <3>1. PICK n \in 0 .. MaxLength, c \in {"Byte", "Char", "Int", "Double"} :
                obj = [flags |-> {"NoReferenceFields", "PrimitiveArray"},
                       length |-> n, component |-> c, nulls |-> {}]
        BY <2>3
      <3>2. /\ "refs" \notin DOMAIN obj /\ obj.component = c /\ obj.length \in Nat
            /\ obj.flags = {"NoReferenceFields", "PrimitiveArray"}
        BY <3>1, ShapesAssumption
      <3>3. get_object_size(obj) = array_size_of(obj)
        BY <3>2 DEF get_object_size
      <3>4. array_size_of(obj) >= 4
        BY <3>1, <3>2
        DEF array_size_of, data_offset, align_up, FirstElement, component_size_shift
      <3> QED BY <3>2, <3>3, <3>4 DEF Shape, ClassShape, PlainShape
    <2> HIDE DEF RefArrays, PrimArrays
    <2> QED BY <1>2, <2>1, <2>2, <2>3
  <1>3. CASE obj \in StringObjects
    <2>1. PICK c \in 0 .. 2 * MaxLength + 1 :
              obj = [flags |-> {"NoReferenceFields", "String"}, count |-> c, nulls |-> {}]
      BY <1>3 DEF StringObjects
    <2>2. /\ "refs" \notin DOMAIN obj /\ obj.flags = {"NoReferenceFields", "String"}
          /\ obj.count \in Nat
      BY <2>1, ShapesAssumption
    <2>3. get_object_size(obj) = string_size_of(obj)
      BY <2>2 DEF get_object_size
    <2>4. string_size_of(obj) >= 4
      BY <2>2 DEF string_size_of, align_up, SizeOfString, MIN_ALIGNMENT
    <2> QED BY <2>2, <2>3, <2>4 DEF Shape, ClassShape, PlainShape
  <1>4. CASE obj \in ClassObjects
    <2>1. /\ \A n \in 0 .. MaxStatics : n \in Nat
          /\ \A n \in 0 .. MaxVTable : n \in Nat
          /\ \A p \in PointerSizes : p \in {4, 8}
          /\ \A n \in NotReady .. VisiblyInitialized : n \in 0 .. 15
          /\ \A n \in 0 .. 1 : n \in Nat
          /\ Resolved \in 0 .. 15 /\ 0 \in Nat
      BY ShapesAssumption DEF Resolved, NotReady, VisiblyInitialized
    <2>2. /\ [StaticKinds -> 0 .. MaxStatics] \subseteq Statics
          /\ [k \in StaticKinds |-> 1] \in Statics
      BY <2>1 DEF Statics
    <2>3. PICK kind, s, sn, st, v, p, m :
              /\ obj = ClassObject(kind, s, sn, st, v, p, m)
              /\ s \in Statics /\ st \in 0 .. 15 /\ v \in Nat /\ p \in {4, 8}
              /\ m \in Nat
      <3>1. CASE obj \in {ClassObject("class", s, {}, Resolved, v, p, m) :
                            s \in [StaticKinds -> 0 .. MaxStatics],
                            v \in 0 .. MaxVTable, p \in PointerSizes, m \in 0 .. 1}
        BY <2>1, <2>2, <3>1
      <3>2. CASE obj \in {ClassObject("interface", s, {}, Resolved, 0, p, 0) :
                            s \in [StaticKinds -> 0 .. MaxStatics],
                            p \in PointerSizes}
        BY <2>1, <2>2, <3>2
      <3>3. CASE obj \in {ClassObject(kind, [k \in StaticKinds |-> 1], sn, st, 0, p,
                                      0) :
                            kind \in {"class", "abstract", "interface", "array",
                                      "primitive"},
                            sn \in {{}, {0}}, st \in NotReady .. VisiblyInitialized,
                            p \in PointerSizes}
        BY <2>1, <2>2, <3>3
      <3> QED BY <1>4, <3>1, <3>2, <3>3 DEF ClassObjects
    <2>4. ClassShape /\ obj.flags = {"Class"}
      BY <2>3 DEF ClassShape, ClassObject
    <2>5. 0 .. 7 \in SUBSET (0 .. MaxFields + 7) /\ 0 .. 7 # {}
      BY ShapesAssumption
    <2> QED BY <2>4, <2>5 DEF Shape, FieldShape, ClassShape
  <1> QED BY <1>1, <1>2, <1>3, <1>4 DEF Init

\* reference_instance_offsets is read as it was written: the words in hand
\* have a bit for every reference field.
LEMMA BitmapRead ==
    ASSUME FieldShape
    PROVE  /\ bitmap_num_words \in Nat /\ bitmap_num_words >= 1
           /\ \A f \in obj.refs : f < bitmap_num_words * WordBits
           /\ \A i \in 0 .. bitmap_num_words - 1 :
                (IF HasOverflowBitmap THEN BitmapWord(obj.refs, i)
                 ELSE reference_instance_offsets(obj.refs)) = BitmapWord(obj.refs, i)
  <1>1. /\ WordBits \in Nat /\ WordBits > 1 /\ MaxFields \in Nat
        /\ \A f \in 0 .. MaxFields + 7 : f \div WordBits + 1 < 2 ^ (WordBits - 1)
    BY ShapesAssumption
  <1>2. PICK m : m = Max(obj.refs)
    OBVIOUS
  <1>3. m \in obj.refs /\ m \in 0 .. MaxFields + 7 /\ \A f \in obj.refs : f <= m
    <2>1. obj.refs \in SUBSET Nat /\ MaxFields + 7 \in Nat
            /\ \A f \in obj.refs : f <= MaxFields + 7
      BY <1>1 DEF FieldShape
    <2> QED BY <1>2, <2>1, MaxExists DEF FieldShape
  <1>4. PICK p : p = 2 ^ (WordBits - 1)
    OBVIOUS
  <1>5. p \in Nat /\ p > 0
    <2>1. WordBits - 1 \in Nat
      BY <1>1
    <2> QED BY <1>4, <2>1, Subsets
  <1>6. CASE m >= WordBits - 1
    <2>1. PICK n : n = m \div WordBits + 1
      OBVIOUS
    <2>2. n \in Nat /\ n >= 1 /\ n < p /\ m < n * WordBits
      <3>1. PICK q \in Nat, r \in Nat : /\ r < WordBits /\ m = WordBits * q + r
                                        /\ m \div WordBits = q
        BY <1>1, <1>3, Quotient
      <3>2. n = q + 1 /\ m < WordBits * (q + 1)
        BY <1>1, <2>1, <3>1
      <3>3. n < p
        BY <1>1, <1>3, <1>4, <2>1
      <3> QED BY <1>1, <3>2, <3>3
    <2>3. reference_instance_offsets(obj.refs) = p + n
      BY <1>2, <1>4, <1>6, <2>1 DEF reference_instance_offsets, IsSlow, NumWords
    <2>4. (p + n) \div p = 1 /\ (p + n) % p = n
      <3>1. p + n = p * 1 + n /\ p + n \in Nat /\ 1 \in Nat
        BY <1>5, <2>2
      <3> QED BY <1>5, <2>2, <3>1, QuotientIs
    <2>5. HasOverflowBitmap /\ bitmap_num_words = n
      BY <1>4, <2>3, <2>4 DEF HasOverflowBitmap, bitmap_num_words
    <2>6. \A f \in obj.refs : f < n * WordBits
      BY <1>1, <1>3, <2>2 DEF FieldShape
    <2> QED BY <2>2, <2>5, <2>6
  <1>7. CASE ~(m >= WordBits - 1)
    <2>1. reference_instance_offsets(obj.refs) = BitmapWord(obj.refs, 0)
      BY <1>2, <1>7 DEF reference_instance_offsets, IsSlow
    <2>2. WordBits - 1 \notin obj.refs /\ 0 * WordBits + (WordBits - 1) = WordBits - 1
      BY <1>1, <1>3, <1>7
    <2>3. Bit(BitmapWord(obj.refs, 0), WordBits - 1) # 1
      BY <1>1, <2>2, WordBitsAre
    <2>4. ~HasOverflowBitmap
      BY <1>4, <2>1, <2>3 DEF HasOverflowBitmap, Bit
    <2>5. bitmap_num_words = 1
      BY <2>4 DEF bitmap_num_words
    <2>6. \A f \in obj.refs : f < 1 * WordBits
      BY <1>1, <1>3, <1>7 DEF FieldShape
    <2> QED BY <2>1, <2>4, <2>5, <2>6
  <1> QED BY <1>3, <1>6, <1>7

(***************************************************************************)
(* The scan                                                                *)
(***************************************************************************)
FieldsBelow(n) == {8 + 4 * f : f \in {g \in obj.refs \ obj.nulls : g < n}}
ElementsBelow(n) == {12 + 4 * i : i \in (0 .. n - 1) \ obj.nulls}
StaticSlot(i) == get_first_reference_static_fields_offset(obj)
                   + i * ART_HEAP_REFERENCE_SIZE
StaticsBelow(n) == {StaticSlot(i) : i \in (0 .. n - 1) \ obj.static_nulls}
AllStatics == IF Linked THEN StaticsBelow(obj.statics["ref"]) ELSE {}

\* Slots are visited in ascending order, hence once.
Ascending ==
    /\ visited \in Seq(Nat)
    /\ \A i, j \in 1 .. Len(visited) : i < j => visited[i] < visited[j]

\* The field that visit_one_word is at, the fields from there to the end of
\* the word, and the bits of ref_offsets that are left and stand for them.
Field == (field_offset - 8) \div 4
Rest == (index + 1) * WordBits - Field
InWord ==
    /\ field_offset = 8 + 4 * Field /\ Field \in Nat /\ Rest \in Nat
    /\ ref_offsets \in 0 .. 2 ^ Rest - 1
    /\ \A b \in 0 .. Rest - 1 : Bit(ref_offsets, b) = 1 <=> Field + b \in obj.refs

\* Where the scan is.
Control ==
    /\ pc \in {"klass", "dispatch", "fields", "bits", "statics", "upcall", "array",
               "done"}
    /\ pc \in {"klass", "dispatch"} => index = 0
    /\ pc \in {"fields", "bits", "statics", "upcall"} => FieldShape
    /\ pc = "fields" => index \in 0 .. bitmap_num_words
    /\ pc = "bits" => index \in 0 .. bitmap_num_words - 1 /\ InWord
    /\ pc = "statics" => Linked /\ index \in 0 .. obj.statics["ref"]
    /\ pc = "array" => ArrayShape /\ index \in 0 .. obj.length

\* The slots visited are those of the references before the place in hand.
Reported ==
    /\ pc = "klass" => Visited = {}
    /\ pc = "dispatch" => Visited = {0}
    /\ pc = "fields" => Visited = {0} \cup FieldsBelow(index * WordBits)
    /\ pc = "bits" => Visited = {0} \cup FieldsBelow(Field)
    /\ pc = "statics" => Visited = {0} \cup FieldSlots \cup StaticsBelow(index)
    /\ pc = "array" => Visited = {0} \cup ElementsBelow(index)
    /\ pc \in {"upcall", "done"} =>
         Visited = {0} \cup FieldSlots \cup ElementSlots \cup AllStatics

Inv == Shape /\ Ascending /\ Control /\ Reported


\* visit_slot with a slot beyond those visited.
LEMMA VisitNext ==
    ASSUME Ascending, NEW slot \in Nat, \A s \in Visited : s < slot,
           NEW x, NEW nulls, visit_slot(slot, x \in nulls)
    PROVE  /\ Ascending'
           /\ Visited' = Visited \cup (IF x \in nulls THEN {} ELSE {slot})
  <1>1. visited \in Seq(Nat) /\ Len(visited) \in Nat
    BY DEF Ascending
  <1>2. \A i \in 1 .. Len(visited) : visited[i] \in Visited /\ visited[i] \in Nat
    BY <1>1 DEF Visited
  <1>3. CASE x \in nulls
    BY <1>3 DEF visit_slot, Ascending, Visited
  <1>4. CASE x \notin nulls
    <2>1. visited' = Append(visited, slot)
      BY <1>4 DEF visit_slot
    <2>2. /\ visited' \in Seq(Nat) /\ Len(visited') = Len(visited) + 1
          /\ \A i \in 1 .. Len(visited) : visited'[i] = visited[i]
          /\ visited'[Len(visited) + 1] = slot
      BY <1>1, <2>1
    <2>3. ASSUME NEW i \in 1 .. Len(visited'), NEW j \in 1 .. Len(visited'), i < j
          PROVE  visited'[i] < visited'[j]
      <3>1. i \in 1 .. Len(visited)
        BY <1>1, <2>2, <2>3
      <3>2. CASE j = Len(visited) + 1
        BY <1>2, <2>2, <3>1, <3>2
      <3>3. CASE j # Len(visited) + 1
        <4>1. j \in 1 .. Len(visited)
          BY <1>1, <2>2, <3>3
        <4> QED BY <2>2, <2>3, <3>1, <4>1 DEF Ascending
      <3> QED BY <3>2, <3>3
    <2>4. Visited' = Visited \cup {slot}
      <3>1. 1 .. Len(visited') = (1 .. Len(visited)) \cup {Len(visited) + 1}
        BY <1>1, <2>2
      <3> QED BY <2>2, <3>1 DEF Visited
    <2> QED BY <1>4, <2>2, <2>3, <2>4 DEF Ascending
  <1> QED BY <1>3, <1>4

\* The object is not written, so what is said of it alone stays.
LEMMA ShapeStays ==
    ASSUME Shape, [Next]_vars
    PROVE  /\ obj' = obj /\ Shape'
           /\ FieldShape' = FieldShape /\ ArrayShape' = ArrayShape
           /\ Linked' = Linked /\ bitmap_num_words' = bitmap_num_words
           /\ FieldSlots' = FieldSlots /\ ElementSlots' = ElementSlots
           /\ AllStatics' = AllStatics
           /\ \A n : /\ FieldsBelow(n)' = FieldsBelow(n)
                     /\ ElementsBelow(n)' = ElementsBelow(n)
                     /\ StaticsBelow(n)' = StaticsBelow(n)
  <1>1. obj' = obj
    BY DEF Next, vars, VisitKlass, Dispatch, StartWord, VisitBit, NextWord, FieldsDone,
           VisitStatic, StaticsDone, Upcall, VisitElement, EndOfArray, Terminated
  <1>2. FieldShape' = FieldShape /\ ArrayShape' = ArrayShape
    BY <1>1 DEF FieldShape, ArrayShape
  <1>3. PlainShape' = PlainShape /\ ClassShape' = ClassShape /\ Linked' = Linked
    BY <1>1 DEF PlainShape, ClassShape, Linked
  <1>4. bitmap_num_words' = bitmap_num_words
    BY <1>1 DEF bitmap_num_words, HasOverflowBitmap
  <1>5. FieldSlots' = FieldSlots /\ ElementSlots' = ElementSlots
    BY <1>1 DEF FieldSlots, ElementSlots
  <1>6. \A n : /\ FieldsBelow(n)' = FieldsBelow(n)
               /\ ElementsBelow(n)' = ElementsBelow(n)
               /\ StaticsBelow(n)' = StaticsBelow(n)
    BY <1>1 DEF FieldsBelow, ElementsBelow, StaticsBelow, StaticSlot
  <1>7. AllStatics' = AllStatics
    BY <1>1, <1>3, <1>6 DEF AllStatics
  <1> QED BY <1>1, <1>2, <1>3, <1>4, <1>5, <1>6, <1>7 DEF Shape

LEMMA VisitKlassStep ==
    ASSUME Inv, VisitKlass, [Next]_vars
    PROVE  Inv'
  <1>1. visited' = <<0>> /\ pc' = "dispatch" /\ index' = 0
    BY DEF VisitKlass, Inv, Control
  <1>2. visited' \in Seq(Nat) /\ Len(visited') = 1 /\ visited'[1] = 0
    BY <1>1
  <1>3. Ascending'
    BY <1>2 DEF Ascending
  <1>4. Visited' = {0}
    BY <1>2 DEF Visited
  <1>5. Control' /\ Reported'
    BY <1>1, <1>4 DEF Control, Reported
  <1> QED BY <1>3, <1>5, ShapeStays DEF Inv

LEMMA DispatchStep ==
    ASSUME Inv, Dispatch, [Next]_vars
    PROVE  Inv'
  <1>1. pc = "dispatch" /\ pc' = Route(obj.flags) /\ index' = 0 /\ visited' = visited
    BY DEF Dispatch, Inv, Control
  <1>2. Ascending' /\ Visited' = {0}
    BY <1>1 DEF Inv, Ascending, Visited, Reported
  <1>3. CASE FieldShape
    <2>1. Route(obj.flags) = "fields"
      <3>1. obj.flags \in {{}, {"Record"}, {"Class"}, {"DexCache"}, {"ClassLoader"}}
                            \cup {{f} : f \in kClassFlagReference}
        BY <1>3 DEF FieldShape, FieldFlags
      <3>2. CASE obj.flags \in {{}, {"Record"}, {"Class"}, {"DexCache"},
                                {"ClassLoader"}}
        BY <3>2 DEF Route, kClassFlagReference
      <3>3. CASE obj.flags \in {{f} : f \in kClassFlagReference}
        BY <3>3 DEF Route, kClassFlagReference
      <3> QED BY <3>1, <3>2, <3>3
    <2>2. FieldsBelow(0) = {} /\ 0 * WordBits = 0
      BY <1>3, ShapesAssumption DEF FieldsBelow, FieldShape
    <2>3. FieldShape' /\ 0 \in 0 .. bitmap_num_words'
      <3>1. FieldShape' /\ bitmap_num_words' = bitmap_num_words
        BY <1>3, ShapeStays DEF Inv
      <3>2. bitmap_num_words \in Nat
        BY <1>3, BitmapRead
      <3> QED BY <3>1, <3>2
    <2>4. FieldsBelow(index * WordBits)' = {}
      BY <1>1, <2>2, ShapeStays DEF Inv, FieldsBelow
    <2>5. Control' /\ Reported'
      BY <1>1, <1>2, <2>1, <2>3, <2>4 DEF Control, Reported
    <2> QED BY <1>2, <2>5, ShapeStays DEF Inv
  <1>4. CASE ArrayShape
    <2>1. Route(obj.flags) = "array"
      BY <1>4 DEF Route, ArrayShape, kClassFlagReference
    <2>2. ElementsBelow(0) = {}
      BY DEF ElementsBelow
    <2>3. ArrayShape' /\ index' \in 0 .. obj'.length
      BY <1>1, <1>4, ShapeStays DEF Inv, ArrayShape
    <2>4. ElementsBelow(index)' = {}
      BY <1>1, <2>2, ShapeStays DEF Inv, ElementsBelow
    <2>5. Control' /\ Reported'
      BY <1>1, <1>2, <2>1, <2>3, <2>4 DEF Control, Reported
    <2> QED BY <1>2, <2>5, ShapeStays DEF Inv
  <1>5. CASE PlainShape
    <2>1. Route(obj.flags) = "done"
      BY <1>5 DEF Route, PlainShape, kClassFlagReference
    <2>2. FieldSlots = {} /\ ElementSlots = {} /\ AllStatics = {}
      BY <1>5 DEF PlainShape, FieldSlots, ElementSlots, AllStatics, Linked
    <2>3. FieldSlots' = {} /\ ElementSlots' = {} /\ AllStatics' = {}
      BY <2>2, ShapeStays DEF Inv
    <2>4. Control' /\ Reported'
      BY <1>1, <1>2, <2>1, <2>3 DEF Control, Reported
    <2> QED BY <1>2, <2>4, ShapeStays DEF Inv
  <1> QED BY <1>3, <1>4, <1>5 DEF Inv, Shape

LEMMA StartWordStep ==
    ASSUME Inv, StartWord, [Next]_vars
    PROVE  Inv'
  <1>1. /\ pc = "fields" /\ pc' = "bits" /\ index' = index /\ visited' = visited
        /\ index < bitmap_num_words /\ field_offset' = WordStart(index)
        /\ ref_offsets' = IF HasOverflowBitmap THEN BitmapWord(obj.refs, index)
                          ELSE reference_instance_offsets(obj.refs)
    BY DEF StartWord
  <1>2. FieldShape /\ bitmap_num_words \in Nat /\ index \in 0 .. bitmap_num_words - 1
    <2>1. FieldShape /\ index \in 0 .. bitmap_num_words
      BY <1>1 DEF Inv, Control
    <2>2. bitmap_num_words \in Nat
      BY <2>1, BitmapRead
    <2> QED BY <1>1, <2>1, <2>2
  <1>3. WordBits \in Nat /\ index \in Nat
    BY <1>2, ShapesAssumption
  <1>4. PICK at \in Nat : at = index * WordBits
    BY <1>3
  <1>5. field_offset' = 8 + 4 * at
    BY <1>1, <1>3, <1>4 DEF WordStart, OBJECT_HEADER_SIZE, ART_HEAP_REFERENCE_SIZE
  <1>6. Field' = at /\ Rest' = WordBits
    <2>1. Field' = at
      BY <1>5 DEF Field
    <2>2. (index + 1) * WordBits = at + WordBits
      BY <1>3, <1>4
    <2> QED BY <1>1, <1>3, <2>1, <2>2 DEF Rest
  <1>7. ref_offsets' = BitmapWord(obj.refs, index)
    BY <1>1, <1>2, BitmapRead
  <1>8. InWord'
    <2>1. ref_offsets' \in 0 .. 2 ^ WordBits - 1
      BY <1>3, <1>7, WordBitsAre
    <2>2. \A b \in 0 .. WordBits - 1 : Bit(ref_offsets', b) = 1 <=> at + b \in obj.refs
      BY <1>3, <1>4, <1>7, WordBitsAre
    <2>3. obj' = obj
      BY ShapeStays DEF Inv
    <2> QED BY <1>3, <1>5, <1>6, <2>1, <2>2, <2>3 DEF InWord
  <1>9. Ascending' /\ Visited' = {0} \cup FieldsBelow(at)
    BY <1>1, <1>4 DEF Inv, Ascending, Visited, Reported
  <1>10. FieldShape' /\ index' \in 0 .. bitmap_num_words' - 1
    BY <1>1, <1>2, ShapeStays DEF Inv
  <1>11. FieldsBelow(Field)' = FieldsBelow(at)
    BY <1>6, ShapeStays DEF Inv, FieldsBelow
  <1>12. Control' /\ Reported'
    BY <1>1, <1>8, <1>9, <1>10, <1>11 DEF Control, Reported
  <1> QED BY <1>9, <1>12, ShapeStays DEF Inv

LEMMA VisitBitStep ==
    ASSUME Inv, VisitBit, [Next]_vars
    PROVE  Inv'
  <1>1. /\ pc = "bits" /\ pc' = "bits" /\ index' = index /\ ref_offsets # 0
        /\ ref_offsets' = ref_offsets \div 2 /\ field_offset' = field_offset + 4
        /\ IF ref_offsets % 2 = 1
             THEN visit_slot(field_offset, (field_offset - 8) \div 4 \in obj.nulls)
             ELSE visited' = visited
    BY DEF VisitBit, OBJECT_HEADER_SIZE, ART_HEAP_REFERENCE_SIZE
  <1>2. /\ FieldShape /\ index \in 0 .. bitmap_num_words - 1 /\ InWord
        /\ Visited = {0} \cup FieldsBelow(Field) /\ Ascending
    BY <1>1 DEF Inv, Control, Reported
  <1>3. WordBits \in Nat /\ index \in Nat
    BY <1>2, ShapesAssumption, BitmapRead
  <1>4. PICK at \in Nat, rest \in Nat : at = Field /\ rest = Rest
    BY <1>2 DEF InWord
  <1>5. /\ field_offset = 8 + 4 * at /\ ref_offsets \in 0 .. 2 ^ rest - 1
        /\ \A b \in 0 .. rest - 1 : Bit(ref_offsets, b) = 1 <=> at + b \in obj.refs
    BY <1>2, <1>4 DEF InWord
  <1>6. rest > 0 /\ rest - 1 \in Nat /\ (rest - 1) + 1 = rest
    <2>1. CASE rest = 0
      <3>1. 2 ^ 0 = 1
        OBVIOUS
      <3> QED BY <1>1, <1>5, <2>1, <3>1
    <2> QED BY <2>1
  <1>7. Field' = at + 1 /\ Rest' = rest - 1 /\ field_offset' = 8 + 4 * (at + 1)
    <2>1. field_offset' = 8 + 4 * (at + 1)
      BY <1>1, <1>5
    <2>2. Field' = at + 1
      BY <2>1 DEF Field
    <2>3. PICK w \in Nat : w = (index + 1) * WordBits
      BY <1>3
    <2> QED BY <1>1, <1>4, <2>1, <2>2, <2>3 DEF Rest
  <1>8. ref_offsets \in Nat
    <2>1. 2 ^ rest \in Nat
      BY Subsets
    <2> QED BY <1>5, <2>1
  <1>9. ref_offsets' \in 0 .. 2 ^ (rest - 1) - 1
    <2>1. PICK p \in Nat : p = 2 ^ (rest - 1) /\ 2 ^ rest = 2 * p
      BY <1>6, Subsets, PowerStep
    <2> QED BY <1>1, <1>5, <2>1
  <1>10. ASSUME NEW b \in 0 .. (rest - 1) - 1
         PROVE  Bit(ref_offsets', b) = 1 <=> (at + 1) + b \in obj.refs
    <2>1. Bit(ref_offsets', b) = Bit(ref_offsets, b + 1)
      BY <1>1, <1>8, BitOfHalf
    <2>2. b + 1 \in 0 .. rest - 1 /\ at + (b + 1) = (at + 1) + b
      BY <1>6
    <2> QED BY <1>5, <2>1, <2>2
  <1>11. InWord'
    <2>1. obj' = obj
      BY ShapeStays DEF Inv
    <2> QED BY <1>6, <1>7, <1>9, <1>10, <2>1 DEF InWord
  <1>12. ref_offsets % 2 = 1 <=> at \in obj.refs
    <2>1. Bit(ref_offsets, 0) = ref_offsets % 2
      BY <1>8, BitOfHalf
    <2>2. 0 \in 0 .. rest - 1 /\ at + 0 = at
      BY <1>6
    <2> QED BY <1>5, <2>1, <2>2
  <1>13. FieldsBelow(at + 1) = FieldsBelow(at) \cup
             (IF at \in obj.refs \ obj.nulls THEN {8 + 4 * at} ELSE {})
    <2>1. \A g \in obj.refs : g < at + 1 <=> g < at \/ g = at
      <3>1. \A g \in obj.refs : g \in Nat
        BY <1>2, ShapesAssumption DEF FieldShape
      <3> QED BY <3>1
    <2> QED BY <2>1 DEF FieldsBelow
  <1>14. \A s \in Visited : s < 8 + 4 * at
    <2>1. \A g \in obj.refs : g \in Nat
      BY <1>2, ShapesAssumption DEF FieldShape
    <2>2. \A s \in FieldsBelow(at) : s < 8 + 4 * at
      BY <2>1 DEF FieldsBelow
    <2> QED BY <1>2, <1>4, <2>2
  <1>15. Ascending' /\ Visited' = {0} \cup FieldsBelow(at + 1)
    <2>1. CASE ref_offsets % 2 = 1
      <3>1. (field_offset - 8) \div 4 = at
        BY <1>4 DEF Field
      <3>2. visit_slot(8 + 4 * at, at \in obj.nulls)
        BY <1>1, <1>5, <2>1, <3>1
      <3>3. /\ Ascending'
            /\ Visited' = Visited \cup (IF at \in obj.nulls THEN {} ELSE {8 + 4 * at})
        <4>1. 8 + 4 * at \in Nat
          OBVIOUS
        <4> QED BY <1>2, <1>14, <3>2, <4>1, VisitNext
      <3> QED BY <1>2, <1>4, <1>12, <1>13, <2>1, <3>3
    <2>2. CASE ref_offsets % 2 # 1
      <3>1. visited' = visited
        BY <1>1, <2>2
      <3>2. Ascending' /\ Visited' = Visited
        BY <1>2, <3>1 DEF Ascending, Visited
      <3> QED BY <1>2, <1>4, <1>12, <1>13, <2>2, <3>2
    <2> QED BY <2>1, <2>2
  <1>16. FieldShape' /\ index' \in 0 .. bitmap_num_words' - 1
    BY <1>1, <1>2, ShapeStays DEF Inv
  <1>17. FieldsBelow(Field)' = FieldsBelow(at + 1)
    BY <1>7, ShapeStays DEF Inv, FieldsBelow
  <1>18. Control' /\ Reported'
    BY <1>1, <1>11, <1>15, <1>16, <1>17 DEF Control, Reported
  <1> QED BY <1>15, <1>18, ShapeStays DEF Inv

LEMMA NextWordStep ==
    ASSUME Inv, NextWord, [Next]_vars
    PROVE  Inv'
  <1>1. /\ pc = "bits" /\ pc' = "fields" /\ index' = index + 1 /\ ref_offsets = 0
        /\ visited' = visited
    BY DEF NextWord
  <1>2. /\ FieldShape /\ index \in 0 .. bitmap_num_words - 1 /\ InWord
        /\ Visited = {0} \cup FieldsBelow(Field) /\ Ascending
    BY <1>1 DEF Inv, Control, Reported
  <1>3. WordBits \in Nat /\ index \in Nat /\ bitmap_num_words \in Nat
    BY <1>2, ShapesAssumption, BitmapRead
  <1>4. PICK at \in Nat, end \in Nat : at = Field /\ end = (index + 1) * WordBits
    BY <1>2, <1>3 DEF InWord
  <1>5. at <= end /\ \A b \in 0 .. (end - at) - 1 : at + b \notin obj.refs
    <2>1. Rest = end - at /\ end - at \in Nat
      BY <1>2, <1>4 DEF InWord, Rest
    <2>2. ASSUME NEW b \in 0 .. (end - at) - 1
          PROVE  at + b \notin obj.refs
      <3>1. Bit(0, b) = 0
        BY <2>1, BitOfHalf
      <3> QED BY <1>1, <1>2, <1>4, <2>1, <3>1 DEF InWord
    <2> QED BY <2>1, <2>2
  <1>6. FieldsBelow(end) = FieldsBelow(at)
    <2>1. \A g \in obj.refs : g \in Nat
      BY <1>2, ShapesAssumption DEF FieldShape
    <2>2. ASSUME NEW g \in obj.refs
          PROVE  g < end <=> g < at
      <3>1. CASE g >= at /\ g < end
        <4>1. g - at \in 0 .. (end - at) - 1 /\ at + (g - at) = g
          BY <2>1, <3>1
        <4> QED BY <1>5, <4>1
      <3> QED BY <1>5, <2>1, <3>1
    <2> QED BY <2>2 DEF FieldsBelow
  <1>7. Ascending' /\ Visited' = {0} \cup FieldsBelow(end)
    BY <1>1, <1>2, <1>4, <1>6 DEF Ascending, Visited
  <1>8. FieldShape' /\ index' \in 0 .. bitmap_num_words'
    <2>1. FieldShape' /\ bitmap_num_words' = bitmap_num_words
      BY <1>2, ShapeStays DEF Inv
    <2> QED BY <1>1, <1>2, <1>3, <2>1
  <1>9. FieldsBelow(index * WordBits)' = FieldsBelow(end)
    BY <1>1, <1>4, ShapeStays DEF Inv, FieldsBelow
  <1>10. Control' /\ Reported'
    BY <1>1, <1>7, <1>8, <1>9 DEF Control, Reported
  <1> QED BY <1>7, <1>10, ShapeStays DEF Inv

LEMMA FieldsDoneStep ==
    ASSUME Inv, FieldsDone, [Next]_vars
    PROVE  Inv'
  <1>1. /\ pc = "fields" /\ index = bitmap_num_words /\ index' = 0
        /\ pc' = IF obj.flags = {"Class"} /\ is_resolved(obj)
                   THEN "statics" ELSE "upcall"
        /\ visited' = visited
    BY DEF FieldsDone
  <1>2. /\ FieldShape /\ Visited = {0} \cup FieldsBelow(index * WordBits)
        /\ Ascending /\ ClassShape
    BY <1>1 DEF Inv, Control, Reported, Shape
  <1>3. FieldsBelow(index * WordBits) = FieldSlots
    <2>1. \A f \in obj.refs : f < index * WordBits
      BY <1>1, <1>2, BitmapRead
    <2> QED BY <1>2, <2>1 DEF FieldsBelow, FieldSlots, FieldShape
  <1>4. Ascending' /\ Visited' = {0} \cup FieldSlots
    BY <1>1, <1>2, <1>3 DEF Ascending, Visited
  <1>5. Linked <=> obj.flags = {"Class"} /\ is_resolved(obj)
    <2>1. CASE "Class" \in obj.flags
      <3>1. obj.flags = {"Class"} /\ obj.status \in 0 .. 15
        BY <1>2, <2>1 DEF ClassShape
      <3> QED BY <3>1 DEF Linked, is_resolved, Resolved, ErrorResolved
    <2>2. CASE "Class" \notin obj.flags
      BY <2>2 DEF Linked
    <2> QED BY <2>1, <2>2
  <1>6. /\ FieldShape' /\ Linked' = Linked /\ FieldSlots' = FieldSlots
        /\ ElementSlots' = ElementSlots /\ AllStatics' = AllStatics
        /\ StaticsBelow(0)' = StaticsBelow(0) /\ obj' = obj
    BY <1>2, ShapeStays DEF Inv
  <1>7. CASE Linked
    <2>1. pc' = "statics"
      BY <1>1, <1>5, <1>7
    <2>2. StaticsBelow(index)' = {}
      BY <1>1 DEF StaticsBelow
    <2>3. obj.statics["ref"] \in Nat
      BY <1>2, <1>7 DEF Linked, ClassShape, Statics, StaticKinds
    <2>4. Control'
      BY <1>1, <1>6, <1>7, <2>1, <2>3 DEF Control
    <2>5. Reported'
      BY <1>4, <1>6, <2>1, <2>2 DEF Reported
    <2> QED BY <1>4, <2>4, <2>5, ShapeStays DEF Inv
  <1>8. CASE ~Linked
    <2>1. pc' = "upcall"
      BY <1>1, <1>5, <1>8
    <2>2. ElementSlots = {} /\ AllStatics = {}
      BY <1>2, <1>8
      DEF ElementSlots, AllStatics, FieldShape, FieldFlags, kClassFlagReference
    <2>3. Control'
      BY <1>6, <2>1 DEF Control
    <2>4. Reported'
      BY <1>4, <1>6, <2>1, <2>2 DEF Reported
    <2> QED BY <1>4, <2>3, <2>4, ShapeStays DEF Inv
  <1> QED BY <1>7, <1>8

\* The references among the static fields begin behind the class and behind
\* its vtable, and end before its bitmap.
LEMMA StaticsPlaced ==
    ASSUME ClassShape, "Class" \in obj.flags
    PROVE  LET first == get_first_reference_static_fields_offset(obj)
               n     == obj.statics["ref"]
               size  == get_object_size(obj)
           IN  /\ first \in Nat /\ n \in Nat /\ size \in Int
               /\ first >= SizeOfClass
               /\ is_instantiable(obj) =>
                    first >= SizeOfClass + 4 + obj.ptr_size * (1 + obj.vtable)
               /\ first + 4 * n <= size - 4 * obj.bitmap
  <1>1. PICK e, v, p, s, b : /\ e = is_instantiable(obj) /\ v = obj.vtable
                             /\ p = obj.ptr_size /\ s = obj.statics
                             /\ b = obj.bitmap
    OBVIOUS
  <1>2. /\ v \in Nat /\ p \in {4, 8} /\ s \in Statics /\ b \in Nat
        /\ obj.flags = {"Class"} /\ s["ref"] \in Nat
    <2>1. s \in Statics
      BY <1>1 DEF ClassShape
    <2> QED BY <1>1, <2>1 DEF ClassShape, Statics, StaticKinds
  <1>3. PICK c : c = ClassEnd(e, v, p)
    OBVIOUS
  <1>4. /\ c \in Nat /\ c >= SizeOfClass
        /\ e => c >= SizeOfClass + 4 + p * (1 + v)
    <2>1. CASE e
      <3>1. c = VTableEnd(v, p)
        BY <1>3, <2>1 DEF ClassEnd
      <3>2. /\ VTableEnd(v, p) \in Nat
            /\ VTableEnd(v, p) >= SizeOfClass + 4 + p * (1 + v)
        BY <1>2, VTableEnds
      <3>3. PICK y \in Nat : y = p * (1 + v)
        BY <1>2
      <3>4. c \in Nat /\ c >= SizeOfClass + 4 + y
        BY <3>1, <3>2, <3>3
      <3> QED BY <3>3, <3>4 DEF SizeOfClass
    <2>2. CASE ~e
      BY <1>3, <2>2 DEF ClassEnd, SizeOfClass
    <2> QED BY <2>1, <2>2
  <1>5. get_first_reference_static_fields_offset(obj) = c
    <2>1. compute_class_size(TRUE, v, NoStatics, 0, p) = ClassEnd(TRUE, v, p)
      BY <1>2, NoStaticsSize
    <2>2. CASE e
      BY <1>1, <1>3, <2>1, <2>2
      DEF get_first_reference_static_fields_offset, should_have_embedded_vtable,
          ClassEnd
    <2>3. CASE ~e
      BY <1>1, <1>3, <2>3
      DEF get_first_reference_static_fields_offset, should_have_embedded_vtable,
          ClassEnd
    <2> QED BY <2>2, <2>3
  <1>6. PICK n : n = get_object_size(obj)
    OBVIOUS
  <1>7. n = compute_class_size(e, v, s, b, p)
    BY <1>1, <1>2, <1>6 DEF get_object_size, should_have_embedded_vtable
  <1>8. n \in Int /\ n - 4 * b >= c + 4 * s["ref"]
    BY <1>2, <1>3, <1>7, BitmapLast
  <1> QED BY <1>1, <1>2, <1>4, <1>5, <1>6, <1>8

LEMMA VisitStaticStep ==
    ASSUME Inv, VisitStatic, [Next]_vars
    PROVE  Inv'
  <1>1. /\ pc = "statics" /\ pc' = "statics" /\ index' = index + 1
        /\ index < obj.statics["ref"]
        /\ visit_slot(StaticSlot(index), index \in obj.static_nulls)
    BY DEF VisitStatic, StaticSlot
  <1>2. /\ FieldShape /\ Linked /\ index \in 0 .. obj.statics["ref"] /\ Ascending
        /\ Visited = {0} \cup FieldSlots \cup StaticsBelow(index) /\ ClassShape
    BY <1>1 DEF Inv, Control, Reported, Shape
  <1>3. "Class" \in obj.flags
    BY <1>2 DEF Linked
  <1>4. PICK first, n : /\ first = get_first_reference_static_fields_offset(obj)
                        /\ n = obj.statics["ref"]
    OBVIOUS
  <1>5. first \in Nat /\ n \in Nat /\ first >= 120
    BY <1>2, <1>3, <1>4, StaticsPlaced DEF SizeOfClass
  <1>6. \A i : StaticSlot(i) = first + i * 4
    BY <1>4 DEF StaticSlot, ART_HEAP_REFERENCE_SIZE
  <1>7. index \in Nat /\ index + 1 \in 0 .. n /\ StaticSlot(index) \in Nat
    BY <1>1, <1>2, <1>4, <1>5, <1>6
  <1>8. \A s \in Visited : s < StaticSlot(index)
    <2>1. \A s \in FieldSlots : s < 120
      BY <1>2, <1>3 DEF FieldSlots, ClassShape
    <2>2. ASSUME NEW s \in StaticsBelow(index)
          PROVE  s < StaticSlot(index)
      <3>1. PICK i \in 0 .. index - 1 : s = first + i * 4
        BY <1>6 DEF StaticsBelow
      <3> QED BY <1>5, <1>6, <1>7, <3>1
    <2>3. 0 < StaticSlot(index) /\ \A s \in FieldSlots : s < StaticSlot(index)
      <3>1. \A s \in FieldSlots : s \in Nat
        BY <1>2, <1>3 DEF FieldSlots, ClassShape
      <3> QED BY <1>5, <1>6, <1>7, <2>1, <3>1
    <2> QED BY <1>2, <2>2, <2>3
  <1>9. /\ Ascending'
        /\ Visited' = Visited \cup
             (IF index \in obj.static_nulls THEN {} ELSE {StaticSlot(index)})
    BY <1>1, <1>2, <1>7, <1>8, VisitNext
  <1>10. StaticsBelow(index + 1) = StaticsBelow(index) \cup
             (IF index \in obj.static_nulls THEN {} ELSE {StaticSlot(index)})
    <2>1. 0 .. (index + 1) - 1 = (0 .. index - 1) \cup {index}
      BY <1>7
    <2> HIDE DEF StaticSlot
    <2> QED BY <2>1 DEF StaticsBelow
  <1>11. /\ FieldShape' /\ Linked' /\ obj' = obj /\ FieldSlots' = FieldSlots
         /\ StaticsBelow(index)' = StaticsBelow(index + 1)
    BY <1>1, <1>2, ShapeStays DEF Inv, StaticsBelow, StaticSlot
  <1>12. Control'
    BY <1>1, <1>4, <1>7, <1>11 DEF Control
  <1>13. Reported'
    BY <1>1, <1>2, <1>9, <1>10, <1>11 DEF Reported
  <1> QED BY <1>9, <1>12, <1>13, ShapeStays DEF Inv

LEMMA StaticsDoneStep ==
    ASSUME Inv, StaticsDone, [Next]_vars
    PROVE  Inv'
  <1>1. /\ pc = "statics" /\ pc' = "upcall" /\ index = obj.statics["ref"]
        /\ visited' = visited
    BY DEF StaticsDone
  <1>2. /\ FieldShape /\ Linked /\ Ascending
        /\ Visited = {0} \cup FieldSlots \cup StaticsBelow(index)
    BY <1>1 DEF Inv, Control, Reported
  <1>3. AllStatics = StaticsBelow(index) /\ ElementSlots = {}
    BY <1>1, <1>2
    DEF AllStatics, ElementSlots, FieldShape, FieldFlags, kClassFlagReference
  <1>4. Ascending' /\ Visited' = {0} \cup FieldSlots \cup ElementSlots \cup AllStatics
    BY <1>1, <1>2, <1>3 DEF Ascending, Visited
  <1>5. /\ FieldShape' /\ FieldSlots' = FieldSlots /\ ElementSlots' = ElementSlots
        /\ AllStatics' = AllStatics
    BY <1>2, ShapeStays DEF Inv
  <1>6. Control'
    BY <1>1, <1>5 DEF Control
  <1>7. Reported'
    BY <1>1, <1>4, <1>5 DEF Reported
  <1> QED BY <1>4, <1>6, <1>7, ShapeStays DEF Inv

LEMMA UpcallStep ==
    ASSUME Inv, Upcall, [Next]_vars
    PROVE  Inv'
  <1>1. pc = "upcall" /\ pc' = "done" /\ visited' = visited
    BY DEF Upcall
  <1>2. Ascending' /\ Visited' = {0} \cup FieldSlots \cup ElementSlots \cup AllStatics
    BY <1>1 DEF Inv, Ascending, Visited, Reported
  <1>3. /\ FieldSlots' = FieldSlots /\ ElementSlots' = ElementSlots
        /\ AllStatics' = AllStatics
    BY ShapeStays DEF Inv
  <1>4. Control' /\ Reported'
    BY <1>1, <1>2, <1>3 DEF Control, Reported
  <1> QED BY <1>2, <1>4, ShapeStays DEF Inv

LEMMA VisitElementStep ==
    ASSUME Inv, VisitElement, [Next]_vars
    PROVE  Inv'
  <1>1. /\ pc = "array" /\ pc' = "array" /\ index' = index + 1 /\ index < obj.length
        /\ visit_slot(offset_of_element(index), index \in obj.nulls)
    BY DEF VisitElement
  <1>2. /\ ArrayShape /\ index \in 0 .. obj.length /\ Ascending
        /\ Visited = {0} \cup ElementsBelow(index)
    BY <1>1 DEF Inv, Control, Reported
  <1>3. index \in Nat /\ index + 1 \in 0 .. obj.length
    BY <1>1, <1>2 DEF ArrayShape
  <1>4. offset_of_element(index) = 12 + 4 * index /\ 12 + 4 * index \in Nat
    BY <1>3 DEF offset_of_element, data_offset, align_up, FirstElement,
                ART_HEAP_REFERENCE_SIZE
  <1>5. \A s \in Visited : s < 12 + 4 * index
    BY <1>2, <1>3 DEF ElementsBelow
  <1>6. /\ Ascending'
        /\ Visited' = Visited \cup
             (IF index \in obj.nulls THEN {} ELSE {12 + 4 * index})
    BY <1>1, <1>2, <1>4, <1>5, VisitNext
  <1>7. ElementsBelow(index + 1) = ElementsBelow(index) \cup
             (IF index \in obj.nulls THEN {} ELSE {12 + 4 * index})
    <2>1. 0 .. (index + 1) - 1 = (0 .. index - 1) \cup {index}
      BY <1>3
    <2> QED BY <2>1 DEF ElementsBelow
  <1>8. /\ ArrayShape' /\ obj' = obj
        /\ ElementsBelow(index)' = ElementsBelow(index + 1)
    BY <1>1, <1>2, ShapeStays DEF Inv, ElementsBelow
  <1>9. Control' /\ Reported'
    BY <1>1, <1>2, <1>3, <1>6, <1>7, <1>8 DEF Control, Reported
  <1> QED BY <1>6, <1>9, ShapeStays DEF Inv

LEMMA EndOfArrayStep ==
    ASSUME Inv, EndOfArray, [Next]_vars
    PROVE  Inv'
  <1>1. pc = "array" /\ pc' = "done" /\ index = obj.length /\ visited' = visited
    BY DEF EndOfArray
  <1>2. ArrayShape /\ Ascending /\ Visited = {0} \cup ElementsBelow(index)
    BY <1>1 DEF Inv, Control, Reported
  <1>3. FieldSlots = {} /\ ElementSlots = ElementsBelow(index) /\ AllStatics = {}
    BY <1>1, <1>2
    DEF ArrayShape, FieldSlots, ElementSlots, ElementsBelow, AllStatics, Linked
  <1>4. Ascending' /\ Visited' = {0} \cup FieldSlots \cup ElementSlots \cup AllStatics
    BY <1>1, <1>2, <1>3 DEF Ascending, Visited
  <1>5. /\ FieldSlots' = FieldSlots /\ ElementSlots' = ElementSlots
        /\ AllStatics' = AllStatics
    BY ShapeStays DEF Inv
  <1>6. Control' /\ Reported'
    BY <1>1, <1>4, <1>5 DEF Control, Reported
  <1> QED BY <1>4, <1>6, ShapeStays DEF Inv

LEMMA InitInv == Init => Inv
  <1> SUFFICES ASSUME Init
               PROVE  Inv
    OBVIOUS
  <1>1. visited = <<>> /\ pc = "klass" /\ index = 0
    BY DEF Init
  <1>2. Ascending /\ Visited = {}
    BY <1>1 DEF Ascending, Visited
  <1>3. Control /\ Reported
    BY <1>1, <1>2 DEF Control, Reported
  <1> QED BY <1>2, <1>3, InitShape DEF Inv

LEMMA NextInv == Inv /\ [Next]_vars => Inv'
  <1> SUFFICES ASSUME Inv, [Next]_vars
               PROVE  Inv'
    OBVIOUS
  <1>1. CASE UNCHANGED vars
    <2>1. /\ obj' = obj /\ pc' = pc /\ index' = index /\ field_offset' = field_offset
          /\ ref_offsets' = ref_offsets /\ visited' = visited
      BY <1>1 DEF vars
    <2>2. Ascending' /\ Visited' = Visited /\ Field' = Field
      BY <2>1 DEF Inv, Ascending, Visited, Field
    <2>3. (InWord)' = InWord
      BY <2>1 DEF InWord, Field, Rest
    <2>4. Control'
      BY <2>1, <2>3, ShapeStays DEF Inv, Control
    <2>5. Reported'
      <3>1. /\ FieldsBelow(index * WordBits)' = FieldsBelow(index * WordBits)
            /\ FieldsBelow(Field)' = FieldsBelow(Field)
            /\ StaticsBelow(index)' = StaticsBelow(index)
            /\ ElementsBelow(index)' = ElementsBelow(index)
        BY <2>1, <2>2 DEF FieldsBelow, StaticsBelow, ElementsBelow, StaticSlot
      <3> QED BY <2>1, <2>2, <3>1, ShapeStays DEF Inv, Reported
    <2> QED BY <2>2, <2>4, <2>5, ShapeStays DEF Inv
  <1> QED BY <1>1, VisitKlassStep, DispatchStep, StartWordStep, VisitBitStep,
             NextWordStep, FieldsDoneStep, VisitStaticStep, StaticsDoneStep, UpcallStep,
             VisitElementStep, EndOfArrayStep DEF Next, Terminated

(***************************************************************************)
(* The theorems                                                            *)
(***************************************************************************)
\* At every moment scan_object has visited, in ascending order, the slots of
\* the references before the field, the static field or the element it is at,
\* and what is left in ref_offsets stands for the fields after it.
THEOREM Invariant == Spec => []Inv
  BY InitInv, NextInv, PTL DEF Spec

\* compute_class_size leaves as little unused in the gap before the 64-bit
\* static fields as any choice of smaller ones would.
THEOREM ClassSizesTight == Spec => []ClassSizeIsTight
  <1>1. Inv => ClassSizeIsTight
    <2> SUFFICES ASSUME Inv, "Class" \in obj.flags
                 PROVE  ClassSizeIsTight
      BY DEF ClassSizeIsTight
    <2>1. PICK e, v, p, s : /\ e = is_instantiable(obj) /\ v = obj.vtable
                            /\ p = obj.ptr_size /\ s = obj.statics
      OBVIOUS
    <2>2. v \in Nat /\ p \in {4, 8} /\ s \in Statics
      BY <2>1 DEF Inv, Shape, ClassShape
    <2>3. /\ s["ref"] \in Nat /\ s["n8"] \in Nat /\ s["n16"] \in Nat
          /\ s["n32"] \in Nat /\ s["n64"] \in Nat
      BY <2>2 DEF Statics, StaticKinds
    <2>4. PICK r : r = ClassEnd(e, v, p) + 4 * s["ref"]
      OBVIOUS
    <2>5. PICK g : g = Gap(r, s["n64"])
      OBVIOUS
    <2>6. PICK k : k = Moved(g, s["n32"], s["n16"], s["n8"])
      OBVIOUS
    <2>7. /\ r \in Nat /\ r % 4 = 0 /\ g \in {0, 4} /\ k \in 0 .. g
          /\ compute_class_size(e, v, s, 0, p) = Layout(r, g - k, s)
      BY <2>2, <2>4, <2>5, <2>6, ClassLayout
    <2>8. r = compute_class_size(e, v, NoStatics, 0, p) + 4 * s["ref"]
      BY <2>2, <2>4, NoStaticsSize
    <2>9. g = IF s["n64"] > 0 THEN align_up(r, 8) - r ELSE 0
      BY <2>3, <2>5, <2>7 DEF Gap, align_up
    <2>10. Min(Left(g, s["n32"], s["n16"], s["n8"])) = g - k
      <3>1. g \in {0, 4}
        BY <2>7
      <3>2. PICK a, b, c : a = s["n32"] /\ b = s["n16"] /\ c = s["n8"]
        OBVIOUS
      <3>3. a \in Nat /\ b \in Nat /\ c \in Nat
        BY <2>3, <3>2
      <3>4. Min(Left(g, a, b, c)) = g - Moved(g, a, b, c)
        BY <3>1, <3>3, LeastWaste
      <3> QED BY <2>6, <3>2, <3>4
    <2> QED BY <2>1, <2>7, <2>8, <2>9, <2>10 DEF ClassSizeIsTight, Layout, Left
  <1> QED BY <1>1, Invariant, PTL

\* The slots visited are of four kinds.
LEMMA VisitedAre ==
    ASSUME Inv
    PROVE  Visited \subseteq {0} \cup FieldSlots \cup ElementSlots \cup AllStatics
  <1>1. \A n : "refs" \in DOMAIN obj => FieldsBelow(n) \subseteq FieldSlots
    BY DEF FieldsBelow, FieldSlots
  <1>2. FieldShape => "refs" \in DOMAIN obj
    BY DEF FieldShape
  <1>3. pc \in {"fields", "bits"} =>
            Visited \subseteq {0} \cup FieldSlots
    BY <1>1, <1>2 DEF Inv, Control, Reported
  <1>4. pc = "statics" => StaticsBelow(index) \subseteq AllStatics
    <2> SUFFICES ASSUME pc = "statics"
                 PROVE  StaticsBelow(index) \subseteq AllStatics
      OBVIOUS
    <2>1. Linked /\ index \in 0 .. obj.statics["ref"]
      BY DEF Inv, Control
    <2>2. obj.statics["ref"] \in Nat
      BY <2>1 DEF Inv, Shape, Linked, ClassShape, Statics, StaticKinds
    <2>3. 0 .. index - 1 \subseteq 0 .. obj.statics["ref"] - 1
      BY <2>1, <2>2
    <2> QED BY <2>1, <2>3 DEF AllStatics, StaticsBelow
  <1>5. pc = "array" => ElementsBelow(index) \subseteq ElementSlots
    <2> SUFFICES ASSUME pc = "array"
                 PROVE  ElementsBelow(index) \subseteq ElementSlots
      OBVIOUS
    <2>1. ArrayShape /\ index \in 0 .. obj.length
      BY DEF Inv, Control
    <2>2. 0 .. index - 1 \subseteq 0 .. obj.length - 1
      BY <2>1 DEF ArrayShape
    <2> QED BY <2>1, <2>2 DEF ArrayShape, ElementsBelow, ElementSlots
  <1> QED BY <1>3, <1>4, <1>5 DEF Inv, Control, Reported

\* In a class object the slots from SizeOfClass on are those of the static
\* fields, in other objects there are none.
LEMMA StaticsApart ==
    ASSUME Shape
    PROVE  /\ \A s \in {0} \cup FieldSlots \cup ElementSlots :
                "Class" \in obj.flags => s < SizeOfClass
           /\ \A s \in AllStatics :
                /\ "Class" \in obj.flags /\ s \in Nat /\ s >= SizeOfClass
                /\ \E i \in 0 .. obj.statics["ref"] - 1 : s = StaticSlot(i)
  <1>1. ASSUME NEW s \in {0} \cup FieldSlots \cup ElementSlots, "Class" \in obj.flags
        PROVE  s < SizeOfClass
    <2>1. obj.flags = {"Class"} /\ obj.refs = 0 .. 7
      BY <1>1 DEF Shape, ClassShape
    <2> QED BY <1>1, <2>1 DEF FieldSlots, ElementSlots, SizeOfClass
  <1>2. ASSUME NEW s \in AllStatics
        PROVE  /\ "Class" \in obj.flags /\ s \in Nat /\ s >= SizeOfClass
               /\ \E i \in 0 .. obj.statics["ref"] - 1 : s = StaticSlot(i)
    <2>1. Linked /\ s \in StaticsBelow(obj.statics["ref"])
      BY <1>2 DEF AllStatics
    <2>2. "Class" \in obj.flags
      BY <2>1 DEF Linked
    <2>3. PICK i \in 0 .. obj.statics["ref"] - 1 : s = StaticSlot(i)
      BY <2>1 DEF StaticsBelow
    <2>4. PICK first, n : /\ first = get_first_reference_static_fields_offset(obj)
                          /\ n = obj.statics["ref"]
      OBVIOUS
    <2>5. first \in Nat /\ n \in Nat /\ first >= SizeOfClass
      BY <2>2, <2>4, StaticsPlaced DEF Shape
    <2>6. s = first + i * 4
      BY <2>3, <2>4 DEF StaticSlot, ART_HEAP_REFERENCE_SIZE
    <2>7. i \in Nat
      BY <2>3, <2>4, <2>5
    <2>8. s \in Nat /\ s >= first
      BY <2>5, <2>6, <2>7
    <2>9. s >= SizeOfClass
      BY <2>5, <2>8 DEF SizeOfClass
    <2> QED BY <2>2, <2>3, <2>8, <2>9
  <1> QED BY <1>1, <1>2

\* No slot that scan_object visits sticks out of the object or runs into the
\* vtable or the bitmap of a class, and static fields are visited in classes
\* that stay: get_object_size, compute_class_size,
\* get_first_reference_static_fields_offset and the bitmaps agree.
THEOREM SlotsStayInside == Spec => []SlotsInside
  <1>1. Inv => SlotsInside
    <2> SUFFICES ASSUME Inv
                 PROVE  SlotsInside
      OBVIOUS
    <2>1. Shape /\ ClassShape
      BY DEF Inv, Shape
    <2>2. PICK size : size = get_object_size(obj)
      OBVIOUS
    <2>3. ASSUME NEW s \in AllStatics
          PROVE  /\ s + 4 <= size - 4 * obj.bitmap /\ s + 4 <= size
                 /\ is_instantiable(obj) =>
                      s >= SizeOfClass + 4 + obj.ptr_size * (1 + obj.vtable)
      <3>1. "Class" \in obj.flags
        BY <2>1, <2>3, StaticsApart
      <3>2. PICK first, n, m, v :
                /\ first = get_first_reference_static_fields_offset(obj)
                /\ n = obj.statics["ref"] /\ m = obj.bitmap
                /\ v = SizeOfClass + 4 + obj.ptr_size * (1 + obj.vtable)
        OBVIOUS
      <3>3. /\ first \in Nat /\ n \in Nat /\ size \in Int
            /\ is_instantiable(obj) => first >= v
            /\ first + 4 * n <= size - 4 * m
        BY <2>1, <2>2, <3>1, <3>2, StaticsPlaced
      <3>4. m \in Nat /\ v \in Int
        <4>1. m \in Nat /\ obj.vtable \in Nat /\ obj.ptr_size \in {4, 8}
          BY <2>1, <3>1, <3>2 DEF ClassShape
        <4> QED BY <3>2, <4>1 DEF SizeOfClass
      <3>5. PICK i \in 0 .. n - 1 : s = first + i * 4
        <4>1. \E i \in 0 .. obj.statics["ref"] - 1 : s = StaticSlot(i)
          BY <2>1, <2>3, StaticsApart
        <4> QED BY <3>2, <4>1 DEF StaticSlot, ART_HEAP_REFERENCE_SIZE
      <3>6. s + 4 <= size - 4 * m /\ s + 4 <= size /\ s >= first /\ s \in Int
        BY <3>3, <3>4, <3>5
      <3>7. is_instantiable(obj) => s >= v
        BY <3>3, <3>4, <3>6
      <3> QED BY <3>2, <3>6, <3>7
    <2>4. ASSUME NEW s \in {0} \cup FieldSlots \cup ElementSlots
          PROVE  s + 4 <= size
      <3>1. CASE "Class" \in obj.flags
        <4>1. /\ obj.flags = {"Class"} /\ obj.refs = 0 .. 7
              /\ obj.bitmap \in Nat
          BY <2>1, <3>1 DEF ClassShape
        <4>2. s <= 36 /\ s \in Int
          BY <2>4, <4>1 DEF FieldSlots, ElementSlots
        <4>3. PICK first, n, m :
                /\ first = get_first_reference_static_fields_offset(obj)
                /\ n = obj.statics["ref"] /\ m = obj.bitmap
          OBVIOUS
        <4>4. /\ first \in Nat /\ n \in Nat /\ size \in Int /\ first >= 120
              /\ first + 4 * n <= size - 4 * m
          BY <2>1, <2>2, <3>1, <4>3, StaticsPlaced DEF SizeOfClass
        <4> QED BY <4>1, <4>2, <4>3, <4>4
      <3>2. CASE FieldShape /\ "Class" \notin obj.flags
        <4>1. size = 8 + 4 * (Max(obj.refs) + 1) /\ ElementSlots = {}
          BY <2>2, <3>2 DEF FieldShape, FieldFlags, kClassFlagReference,
                            get_object_size, OBJECT_HEADER_SIZE, ElementSlots
        <4>2. PICK m \in Nat : m = Max(obj.refs) /\ \A f \in obj.refs : f <= m
          <5>1. obj.refs \in SUBSET Nat /\ obj.refs # {} /\ MaxFields + 7 \in Nat
                  /\ \A f \in obj.refs : f <= MaxFields + 7
            BY <3>2, ShapesAssumption DEF FieldShape
          <5> QED BY <5>1, MaxExists
        <4>3. \A f \in obj.refs : f \in Nat
          BY <3>2, ShapesAssumption DEF FieldShape
        <4>4. \A t \in FieldSlots : t + 4 <= size
          BY <4>1, <4>2, <4>3 DEF FieldSlots
        <4> QED BY <2>4, <4>1, <4>2, <4>4
      <3>3. CASE ArrayShape
        <4>1. size = 12 + 4 * obj.length /\ FieldSlots = {} /\ obj.length \in Nat
          BY <2>2, <3>3 DEF ArrayShape, get_object_size, array_size_of, data_offset,
                            align_up, FirstElement, component_size_shift, FieldSlots
        <4>2. \A t \in ElementSlots : t + 4 <= size
          BY <4>1 DEF ElementSlots
        <4> QED BY <2>4, <4>1, <4>2
      <3>4. CASE PlainShape
        BY <2>2, <2>4, <3>4 DEF PlainShape, FieldSlots, ElementSlots
      <3> QED BY <2>1, <3>1, <3>2, <3>3, <3>4 DEF Shape
    <2>5. \A s \in Visited : s + 4 <= size
      BY <2>3, <2>4, VisitedAre
    <2>6. StaticSlots \subseteq AllStatics
      <3> SUFFICES ASSUME NEW s \in StaticSlots
                   PROVE  s \in AllStatics
        OBVIOUS
      <3>1. s \in Visited /\ "Class" \in obj.flags /\ s >= SizeOfClass
        BY DEF StaticSlots
      <3>2. s \in {0} \cup FieldSlots \cup ElementSlots => s < SizeOfClass /\ s \in Nat
        <4>1. Visited \subseteq Nat
          BY DEF Inv, Ascending, Visited
        <4> QED BY <2>1, <3>1, <4>1, StaticsApart
      <3> QED BY <3>1, <3>2, VisitedAre DEF SizeOfClass
    <2>7. pc = "statics" => ~is_temp(obj)
      <3> SUFFICES ASSUME pc = "statics"
                   PROVE  ~is_temp(obj)
        OBVIOUS
      <3>1. obj.status \in {2} \cup 7 .. 15
        BY DEF Inv, Control, Linked
      <3> QED BY <3>1 DEF is_temp, Resolving, ErrorResolved
    <2> QED BY <2>2, <2>3, <2>5, <2>6, <2>7 DEF SlotsInside
  <1> QED BY <1>1, Invariant, PTL

\* A finished scan_object has visited every reference of the object once and
\* nothing else, whatever the bitmaps, nulls, arrays and statics.
THEOREM ScansAreExact == Spec => []ScanIsExact
  <1>1. Inv => ScanIsExact
    <2> SUFFICES ASSUME Inv, pc = "done"
                 PROVE  ScanIsExact
      BY DEF ScanIsExact
    <2>1. /\ Visited = {0} \cup FieldSlots \cup ElementSlots \cup AllStatics
          /\ Shape /\ ClassShape /\ Ascending
      BY DEF Inv, Reported, Shape
    <2>2. Cardinality(Visited) = Len(visited)
      <3>1. /\ visited \in Seq(Nat) /\ Len(visited) \in Nat
            /\ DOMAIN visited = 1 .. Len(visited)
        BY <2>1 DEF Ascending
      <3>2. visited \in [1 .. Len(visited) -> Visited]
        BY <3>1 DEF Visited
      <3>3. ASSUME NEW i \in 1 .. Len(visited), NEW j \in 1 .. Len(visited),
                   visited[i] = visited[j]
            PROVE  i = j
        <4>1. visited[i] \in Nat
          BY <3>1
        <4>2. ~(i < j) /\ ~(j < i)
          BY <2>1, <3>3, <4>1 DEF Ascending
        <4> QED BY <3>1, <4>2
      <3>4. visited \in Bijection(1 .. Len(visited), Visited)
        BY <3>2, <3>3 DEF Bijection, Injection, Surjection, IsInjective, Visited
      <3>5. /\ IsFiniteSet(1 .. Len(visited))
            /\ Cardinality(1 .. Len(visited)) = Len(visited)
        BY <3>1, FS_Interval
      <3> QED BY <3>4, <3>5, FS_Bijection DEF ExistsBijection
    <2>3. StaticSlots = AllStatics
      <3>1. StaticSlots = {s \in Visited : "Class" \in obj.flags /\ s >= SizeOfClass}
        BY DEF StaticSlots
      <3>2. Visited \subseteq Nat
        BY <2>1 DEF Ascending, Visited
      <3>3. \A s \in {0} \cup FieldSlots \cup ElementSlots :
                "Class" \in obj.flags => ~(s >= SizeOfClass)
        <4>1. \A s \in {0} \cup FieldSlots \cup ElementSlots :
                  s \in Nat /\ ("Class" \in obj.flags => s < SizeOfClass)
          BY <2>1, <3>2, StaticsApart
        <4> QED BY <4>1 DEF SizeOfClass
      <3>4. \A s \in AllStatics : "Class" \in obj.flags /\ s >= SizeOfClass
        BY <2>1, StaticsApart
      <3> QED BY <2>1, <3>1, <3>3, <3>4
    <2>4. Visited \ StaticSlots = {0} \cup FieldSlots \cup ElementSlots
      <3>1. \A s \in {0} \cup FieldSlots \cup ElementSlots : s \notin AllStatics
        <4>1. \A s \in {0} \cup FieldSlots \cup ElementSlots :
                  "Class" \in obj.flags => s < SizeOfClass
          BY <2>1, StaticsApart
        <4>2. \A s \in AllStatics : "Class" \in obj.flags /\ s \in Nat /\ s >= SizeOfClass
          BY <2>1, StaticsApart
        <4> QED BY <4>1, <4>2 DEF SizeOfClass
      <3> QED BY <2>1, <2>3, <3>1
    <2>5. Cardinality(StaticSlots) = NumStatics
      <3>1. CASE Linked
        <4> DEFINE I == (0 .. obj.statics["ref"] - 1) \ obj.static_nulls
                   f == [i \in I |-> StaticSlot(i)]
        <4>1. PICK first, n : /\ first = get_first_reference_static_fields_offset(obj)
                              /\ n = obj.statics["ref"]
          OBVIOUS
        <4>2. first \in Nat /\ n \in Nat
          BY <2>1, <3>1, <4>1, StaticsPlaced DEF Linked
        <4>3. \A i \in I : StaticSlot(i) = first + i * 4 /\ i \in Nat
          BY <4>1, <4>2 DEF StaticSlot, ART_HEAP_REFERENCE_SIZE
        <4>4. AllStatics = {StaticSlot(i) : i \in I}
          BY <3>1 DEF AllStatics, StaticsBelow
        <4>5. f \in Bijection(I, AllStatics)
          <5>1. f \in [I -> AllStatics]
            BY <4>4
          <5>2. \A i, j \in I : f[i] = f[j] => i = j
            BY <4>2, <4>3
          <5>3. \A s \in AllStatics : \E i \in I : f[i] = s
            BY <4>4
          <5> HIDE DEF I, f
          <5> QED BY <5>1, <5>2, <5>3 DEF Bijection, Injection, Surjection, IsInjective
        <4>6. IsFiniteSet(I)
          <5>1. IsFiniteSet(0 .. n - 1)
            BY <4>2, FS_Interval
          <5> QED BY <4>1, <5>1, FS_Difference
        <4>7. NumStatics = Cardinality(I)
          BY <3>1 DEF NumStatics
        <4> HIDE DEF I, f
        <4> QED BY <2>3, <4>5, <4>6, <4>7, FS_Bijection DEF ExistsBijection
      <3>2. CASE ~Linked
        BY <2>3, <3>2, FS_EmptySet DEF AllStatics, NumStatics
      <3> QED BY <3>1, <3>2
    <2> QED BY <2>2, <2>4, <2>5 DEF ScanIsExact
  <1> QED BY <1>1, Invariant, PTL
=============================================================================
