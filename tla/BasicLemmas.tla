------------------------------ MODULE BasicLemmas ------------------------------
(***************************************************************************)
(* Facts that the other proofs cite: induction on the natural numbers, and *)
(* words and the arithmetic of Alu, for every width of a word.             *)
(***************************************************************************)
EXTENDS Alu, FiniteSetTheorems, WellFoundedInduction, TLAPS

-----------------------------------------------------------------------------
(* Induction over sets: the property of numbers to be shown is given as    *)
(* the set of those that have it.  The recursive definitions of the model  *)
(* are unfolded with it.                                                   *)

\* A set of natural numbers has a least element.
LEMMA LeastNatural ==
    ASSUME NEW T \in SUBSET Nat, T # {}
    PROVE  \E n \in T : \A m \in T : n <= m
<1>1. PICK n \in T : \A m \in T : <<m, n>> \notin OpToRel(<, Nat)
  BY WFMin, NatLessThanWellFounded, Zenon
<1>2. \A m \in T : ~(m < n)
  BY <1>1 DEF OpToRel
<1>. QED  BY <1>2

\* A set that has 0 and with each number the next has all natural numbers.
LEMMA InductionFromZero ==
    ASSUME NEW S, 0 \in S, \A n \in Nat : n \in S => n + 1 \in S
    PROVE  Nat \subseteq S
<1>. DEFINE T == Nat \ S
<1>. SUFFICES ASSUME T # {} PROVE FALSE
  OBVIOUS
<1>1. PICK n \in T : \A m \in T : n <= m
  BY LeastNatural
<1>2. n - 1 \in Nat /\ n - 1 \in S
  BY <1>1
<1>. QED  BY <1>2

\* The same within an interval.
LEMMA InductionUpTo ==
    ASSUME NEW first \in Int, NEW last \in Int, NEW S, first \in S,
           \A n \in first .. (last - 1) : n \in S => n + 1 \in S
    PROVE  first .. last \subseteq S
<1>. DEFINE R == {k \in Nat : first + k <= last => first + k \in S}
<1>1. 0 \in R
  OBVIOUS
<1>2. \A k \in Nat : k \in R => k + 1 \in R
  <2>. SUFFICES ASSUME NEW k \in Nat, k \in R, first + (k + 1) <= last
                PROVE  first + (k + 1) \in S
    OBVIOUS
  <2>1. first + k \in S /\ first + k \in first .. (last - 1)
    OBVIOUS
  <2>. QED  BY <2>1
<1>. HIDE DEF R
<1>3. Nat \subseteq R
  BY <1>1, <1>2, InductionFromZero
<1>4. ASSUME NEW i \in first .. last PROVE i \in S
  <2>1. i - first \in R
    BY <1>3
  <2>. QED  BY <2>1 DEF R
<1>. QED  BY <1>4

\* f is defined by recursion along an interval.
Recursive(f, first, last, S, init, step) ==
    /\ f \in [first .. last -> S]
    /\ first <= last => f[first] = init
    /\ \A k \in (first + 1) .. last : f[k] = step[k][f[k - 1]]

\* There is such a function.
LEMMA Recursion ==
    ASSUME NEW first \in Int, NEW last \in Int, NEW S, NEW init \in S,
           NEW step \in [(first + 1) .. last -> [S -> S]]
    PROVE  \E f : Recursive(f, first, last, S, init, step)
<1>. DEFINE Upto(m, f) == /\ f[first] = init
                          /\ \A k \in (first + 1) .. m : f[k] = step[k][f[k - 1]]
            N == {m \in first .. last : \E f \in [first .. m -> S] : Upto(m, f)}
<1>1. CASE last < first
  <2>1. first .. last = {} /\ (first + 1) .. last = {}
    BY <1>1
  <2>2. [i \in first .. last |-> init] \in [first .. last -> S]
    OBVIOUS
  <2>. QED  BY <1>1, <2>1, <2>2 DEF Recursive
<1>2. CASE first <= last
  <2>1. first \in N
    <3>. DEFINE f == [i \in first .. first |-> init]
    <3>1. f \in [first .. first -> S] /\ f[first] = init
      OBVIOUS
    <3>2. (first + 1) .. first = {}
      OBVIOUS
    <3>. HIDE DEF f
    <3>. QED  BY <1>2, <3>1, <3>2
  <2>2. ASSUME NEW m \in first .. (last - 1), m \in N PROVE m + 1 \in N
    <3>1. PICK f \in [first .. m -> S] : Upto(m, f)
      BY <2>2
    <3>. DEFINE h == [i \in first .. (m + 1) |-> IF i = m + 1 THEN step[m + 1][f[m]] ELSE f[i]]
    <3>2. m \in first .. m /\ m + 1 \in (first + 1) .. last /\ m + 1 \in first .. (m + 1)
          /\ m + 1 \in first .. last
      OBVIOUS
    <3>3. step[m + 1][f[m]] \in S
      <4>1. f[m] \in S /\ step[m + 1] \in [S -> S]
        BY <3>2
      <4>. QED  BY <4>1
    <3>4. \A i \in first .. (m + 1) : i # m + 1 => i \in first .. m
      OBVIOUS
    <3>5. h \in [first .. (m + 1) -> S]
      BY <3>3, <3>4
    <3>6. h[m + 1] = step[m + 1][f[m]] /\ \A i \in first .. m : h[i] = f[i]
      BY <3>2
    <3>. HIDE DEF h
    <3>7. h[first] = init
      BY <3>1, <3>2, <3>6
    <3>8. ASSUME NEW k \in (first + 1) .. (m + 1) PROVE h[k] = step[k][h[k - 1]]
      <4>1. k - 1 \in first .. m
        OBVIOUS
      <4>2. CASE k = m + 1
        <5>1. k - 1 = m
          BY <4>2
        <5>. QED  BY <3>6, <4>1, <4>2, <5>1
      <4>3. CASE k # m + 1
        <5>1. k \in (first + 1) .. m /\ k \in first .. m
          BY <4>3
        <5>. QED  BY <3>1, <3>6, <4>1, <5>1
      <4>. QED  BY <4>2, <4>3
    <3>9. Upto(m + 1, h)
      BY <3>7, <3>8
    <3>. QED  BY <3>2, <3>5, <3>9
  <2>. HIDE DEF N
  <2>3. first .. last \subseteq N
    BY <2>1, <2>2, InductionUpTo, Zenon
  <2>4. last \in N
    BY <1>2, <2>3
  <2>5. PICK f \in [first .. last -> S] : Upto(last, f)
    BY <2>4 DEF N
  <2>6. Recursive(f, first, last, S, init, step)
    BY <2>5 DEF Recursive
  <2>. QED  BY <2>6
<1>. QED  BY <1>1, <1>2

-----------------------------------------------------------------------------
(* Words and arithmetic.                                                   *)

\* Words are integers.
LEMMA WordInt == Word \subseteq Int /\ Unsigned \subseteq Int
BY IsaAssumption DEF Word, Unsigned, U32_MAX, IsaAssumption

\* The conversions of isa.py give words, whatever integer they get.
LEMMA Conversions ==
    ASSUME NEW v \in Int
    PROVE  /\ to_u32(v) \in Unsigned
           /\ to_i32(v) \in Word
BY IsaAssumption, SMT DEF IsaAssumption, to_u32, to_i32, Unsigned, Word, U32_MAX

-----------------------------------------------------------------------------
(* The bits of a word and their weights.                                   *)

\* The weights of the bits, and past the last one the number of words.
Pow == [i \in 0 .. WORD_BITS |-> 2^i]

\* The weights are positive and double; the last is the number of words.
LEMMA Powers ==
    /\ WORD_BITS \in Nat \ {0}
    /\ Pow \in [0 .. WORD_BITS -> Nat \ {0}]
    /\ Pow[0] = 1
    /\ \A i \in BitPositions : Pow[i + 1] = 2 * Pow[i]
    /\ SIGN_BIT = Pow[WORD_BITS - 1] /\ Pow[WORD_BITS] = 2 * SIGN_BIT
<1>1. WORD_BITS \in Nat \ {0}
  BY IsaAssumption DEF IsaAssumption
<1>2. \A i \in 0 .. WORD_BITS : Pow[i] = 2^i
  BY DEF Pow
<1>3. Pow[0] = 1
  <2>1. 0 \in 0 .. WORD_BITS
    BY <1>1
  <2>. QED  BY <1>2, <2>1, BitsAssumption DEF BitsAssumption
<1>4. ASSUME NEW i \in BitPositions PROVE Pow[i + 1] = 2 * Pow[i]
  <2>1. i \in 0 .. WORD_BITS /\ i + 1 \in 0 .. WORD_BITS
    BY <1>1 DEF BitPositions
  <2>2. 2^(i + 1) = 2 * 2^i
    BY BitsAssumption DEF BitsAssumption
  <2>. QED  BY <1>2, <2>1, <2>2
<1>. DEFINE S == {i \in 0 .. WORD_BITS : Pow[i] \in Nat \ {0}}
<1>5. 0 .. WORD_BITS \subseteq S
  <2>1. 0 \in S
    BY <1>1, <1>3
  <2>2. ASSUME NEW n \in 0 .. (WORD_BITS - 1), n \in S PROVE n + 1 \in S
    <3>1. n \in BitPositions /\ n + 1 \in 0 .. WORD_BITS
      BY <1>1 DEF BitPositions
    <3>2. Pow[n + 1] = 2 * Pow[n] /\ Pow[n] \in Nat \ {0}
      BY <1>4, <2>2, <3>1
    <3>. QED  BY <3>1, <3>2
  <2>. HIDE DEF S
  <2>3. 0 \in Int /\ WORD_BITS \in Int
    BY <1>1
  <2>. QED  BY <2>1, <2>2, <2>3, InductionUpTo, Zenon
<1>6. Pow \in [0 .. WORD_BITS -> Nat \ {0}]
  <2>1. \A i \in 0 .. WORD_BITS : Pow[i] \in Nat \ {0}
    BY <1>5
  <2>2. Pow = [i \in 0 .. WORD_BITS |-> Pow[i]]
    BY DEF Pow
  <2>. QED  BY <2>1, <2>2
<1>7. SIGN_BIT = Pow[WORD_BITS - 1]
  <2>1. WORD_BITS - 1 \in 0 .. WORD_BITS
    BY <1>1
  <2>. QED  BY <1>2, <2>1, BitsAssumption DEF BitsAssumption
<1>8. Pow[WORD_BITS] = 2 * SIGN_BIT
  <2>1. WORD_BITS - 1 \in BitPositions /\ (WORD_BITS - 1) + 1 = WORD_BITS
    BY <1>1 DEF BitPositions
  <2>. QED  BY <1>4, <1>7, <2>1
<1>. QED  BY <1>1, <1>3, <1>4, <1>6, <1>7, <1>8

\* g adds up the weights of the bits in S, from the lowest on.
AddsUp(S, g) ==
    /\ g \in [0 .. WORD_BITS -> Int]
    /\ g[0] = 0
    /\ \A i \in BitPositions : g[i + 1] = g[i] + (IF i \in S THEN Pow[i] ELSE 0)

\* There is such a sum, whatever S is.
LEMMA SumExists ==
    ASSUME NEW S
    PROVE  \E g : AddsUp(S, g)
<1>. DEFINE Upto(n, g) ==
                /\ g \in [0 .. n -> Int] /\ g[0] = 0
                /\ \A i \in 0 .. (n - 1) : g[i + 1] = g[i] + (IF i \in S THEN Pow[i] ELSE 0)
            N == {n \in 0 .. WORD_BITS : \E g : Upto(n, g)}
<1>1. 0 \in N
  <2>1. Upto(0, [i \in 0 .. 0 |-> 0])
    OBVIOUS
  <2>2. 0 \in 0 .. WORD_BITS
    BY Powers
  <2>. QED  BY <2>1, <2>2
<1>2. ASSUME NEW n \in 0 .. (WORD_BITS - 1), n \in N PROVE n + 1 \in N
  <2>1. PICK g : Upto(n, g)
    BY <1>2
  <2>2. n \in 0 .. WORD_BITS /\ n + 1 \in 0 .. WORD_BITS /\ Pow[n] \in Int
    BY Powers
  <2>. DEFINE h == [i \in 0 .. (n + 1) |->
                       IF i = n + 1 THEN g[n] + (IF n \in S THEN Pow[n] ELSE 0) ELSE g[i]]
  <2>3. \A i \in 0 .. n : g[i] \in Int /\ h[i] = g[i]
    BY <2>1
  <2>4. h[n + 1] = h[n] + (IF n \in S THEN Pow[n] ELSE 0) /\ h[n + 1] \in Int
    <3>1. n \in 0 .. n /\ n + 1 \in 0 .. (n + 1) /\ n # n + 1
      OBVIOUS
    <3>2. h[n + 1] = g[n] + (IF n \in S THEN Pow[n] ELSE 0)
      BY <3>1
    <3>3. h[n] = g[n] /\ g[n] \in Int
      BY <2>3, <3>1
    <3>. HIDE DEF h
    <3>. QED  BY <2>2, <3>2, <3>3
  <2>5. h \in [0 .. (n + 1) -> Int]
    BY <2>3, <2>4
  <2>6. ASSUME NEW i \in 0 .. ((n + 1) - 1)
        PROVE  h[i + 1] = h[i] + (IF i \in S THEN Pow[i] ELSE 0)
    <3>1. CASE i = n
      BY <3>1, <2>4
    <3>2. CASE i # n
      <4>1. i \in 0 .. (n - 1) /\ i \in 0 .. n /\ i + 1 \in 0 .. n
        BY <3>2
      <4>. HIDE DEF h
      <4>. QED  BY <4>1, <2>1, <2>3
    <3>. QED  BY <3>1, <3>2
  <2>7. h[0] = 0
    BY <2>1, <2>3
  <2>. HIDE DEF h
  <2>8. Upto(n + 1, h)
    BY <2>5, <2>6, <2>7
  <2>. QED  BY <2>2, <2>8
<1>3. 0 .. WORD_BITS \subseteq N
  <2>1. 0 \in Int /\ WORD_BITS \in Int
    BY Powers
  <2>. HIDE DEF N
  <2>. QED  BY <1>1, <1>2, <2>1, InductionUpTo, Zenon
<1>4. WORD_BITS \in N
  <2>1. WORD_BITS \in 0 .. WORD_BITS
    BY Powers
  <2>. HIDE DEF N
  <2>. QED  BY <1>3, <2>1
<1>. QED  BY <1>4 DEF AddsUp, BitPositions

\* The sum of the weights of S.
SumOf(S) == CHOOSE g : AddsUp(S, g)

\* SumOf adds up the weights.
LEMMA Sums ==
    ASSUME NEW S
    PROVE  /\ SumOf(S) \in [0 .. WORD_BITS -> Int]
           /\ SumOf(S)[0] = 0
           /\ \A i \in BitPositions :
                 SumOf(S)[i + 1] = SumOf(S)[i] + (IF i \in S THEN Pow[i] ELSE 0)
<1>1. AddsUp(S, SumOf(S))
  BY SumExists DEF SumOf
<1>. QED  BY <1>1 DEF AddsUp

\* Induction over the bits, from the lowest on.
LEMMA BitInduction ==
    ASSUME NEW T, 0 \in T, \A i \in BitPositions : i \in T => i + 1 \in T
    PROVE  0 .. WORD_BITS \subseteq T
<1>1. 0 \in Int /\ WORD_BITS \in Int
  BY Powers
<1>. QED  BY <1>1, InductionUpTo, Zenon DEF BitPositions

\* The sum of the lowest bits is less than the weight of the next.
LEMMA SumBounds ==
    ASSUME NEW S
    PROVE  \A i \in 0 .. WORD_BITS : SumOf(S)[i] \in 0 .. (Pow[i] - 1)
<1>. DEFINE g == SumOf(S)
            T == {i \in 0 .. WORD_BITS : g[i] \in 0 .. (Pow[i] - 1)}
<1>. HIDE DEF g
<1>1. 0 \in T
  <2>1. 0 \in 0 .. WORD_BITS /\ g[0] = 0 /\ Pow[0] = 1
    BY Powers, Sums DEF g
  <2>. QED  BY <2>1
<1>2. ASSUME NEW i \in BitPositions, i \in T PROVE i + 1 \in T
  <2>1. i \in 0 .. WORD_BITS /\ i + 1 \in 0 .. WORD_BITS
    BY Powers DEF BitPositions
  <2>2. g[i + 1] = g[i] + (IF i \in S THEN Pow[i] ELSE 0) /\ Pow[i + 1] = 2 * Pow[i]
    BY Powers, Sums DEF g
  <2>3. Pow[i] \in Nat \ {0} /\ g[i] \in 0 .. (Pow[i] - 1)
    BY <1>2, <2>1, Powers
  <2>4. g[i + 1] \in 0 .. (Pow[i + 1] - 1)
    BY <2>2, <2>3
  <2>. QED  BY <2>1, <2>4
<1>. HIDE DEF T
<1>3. 0 .. WORD_BITS \subseteq T
  BY <1>1, <1>2, BitInduction, Zenon
<1>. QED  BY <1>3 DEF T, g

\* A bit can be taken off a sum.
LEMMA TakeOff ==
    ASSUME NEW S, NEW x \in S, x \in BitPositions
    PROVE  SumOf(S)[WORD_BITS] = Pow[x] + SumOf(S \ {x})[WORD_BITS]
<1>. DEFINE g == SumOf(S)
            h == SumOf(S \ {x})
            T == {i \in 0 .. WORD_BITS : g[i] = h[i] + (IF i > x THEN Pow[x] ELSE 0)}
<1>1. g[0] = 0 /\ h[0] = 0 /\ \A i \in 0 .. WORD_BITS : h[i] \in Int /\ Pow[i] \in Int
  BY Sums, Powers
<1>2. ASSUME NEW i \in BitPositions
      PROVE  /\ g[i + 1] = g[i] + (IF i \in S THEN Pow[i] ELSE 0)
             /\ h[i + 1] = h[i] + (IF i \in S /\ i # x THEN Pow[i] ELSE 0)
  <2>1. i \in S \ {x} <=> i \in S /\ i # x
    OBVIOUS
  <2>. QED  BY <2>1, Sums
<1>. HIDE DEF g, h
<1>3. x \in Nat /\ x \in 0 .. WORD_BITS /\ x < WORD_BITS
  BY Powers DEF BitPositions
<1>4. 0 \in T
  <2>1. 0 \in 0 .. WORD_BITS
    BY Powers
  <2>. QED  BY <1>1, <1>3, <2>1
<1>5. ASSUME NEW i \in BitPositions, i \in T PROVE i + 1 \in T
  <2>1. i \in 0 .. WORD_BITS /\ i + 1 \in 0 .. WORD_BITS /\ i \in Nat
    BY Powers DEF BitPositions
  <2>2. h[i] \in Int /\ Pow[i] \in Int /\ Pow[x] \in Int
    BY <1>1, <1>3, <2>1
  <2>3. g[i] = h[i] + (IF i > x THEN Pow[x] ELSE 0)
    BY <1>5
  <2>4. CASE i = x
    BY <1>2, <1>3, <2>1, <2>2, <2>3, <2>4
  <2>5. CASE i # x
    <3>1. i + 1 > x <=> i > x
      BY <1>3, <2>1, <2>5
    <3>2. h[i + 1] = h[i] + (IF i \in S THEN Pow[i] ELSE 0)
      BY <1>2, <2>5
    <3>3. g[i + 1] = g[i] + (IF i \in S THEN Pow[i] ELSE 0)
      BY <1>2
    <3>4. g[i + 1] = h[i + 1] + (IF i + 1 > x THEN Pow[x] ELSE 0)
      BY <2>2, <2>3, <3>1, <3>2, <3>3
    <3>. QED  BY <2>1, <3>4
  <2>. QED  BY <2>4, <2>5
<1>. HIDE DEF T
<1>6. 0 .. WORD_BITS \subseteq T
  BY <1>4, <1>5, BitInduction, Zenon
<1>7. WORD_BITS \in T /\ WORD_BITS \in 0 .. WORD_BITS
  BY <1>6, Powers
<1>. QED  BY <1>1, <1>3, <1>7 DEF T, g, h

\* No bits make zero.
LEMMA SumOfNone == SumOf({})[WORD_BITS] = 0
<1>. DEFINE g == SumOf({})
            T == {i \in 0 .. WORD_BITS : g[i] = 0}
<1>1. g[0] = 0 /\ \A i \in BitPositions : g[i + 1] = g[i] + 0
  BY Sums
<1>. HIDE DEF g
<1>2. 0 \in T
  <2>1. 0 \in 0 .. WORD_BITS
    BY Powers
  <2>. QED  BY <1>1, <2>1
<1>3. ASSUME NEW i \in BitPositions, i \in T PROVE i + 1 \in T
  BY <1>1, <1>3, Powers DEF BitPositions
<1>. HIDE DEF T
<1>4. 0 .. WORD_BITS \subseteq T
  BY <1>2, <1>3, BitInduction, Zenon
<1>. QED  BY <1>4, Powers DEF T, g

\* The fold of Isa over a set of bits, in whatever order it takes them, is
\* their sum.
LEMMA FromBitsIsSum ==
    ASSUME NEW B \in SUBSET BitPositions
    PROVE  FromBits(B) = SumOf(B)[WORD_BITS]
<1>. DEFINE chosen(s) == CHOOSE x \in s : TRUE
            g == [s \in SUBSET B |-> SumOf(s)[WORD_BITS]]
<1>1. ASSUME NEW s \in SUBSET B, s # {}
      PROVE  /\ chosen(s) \in s /\ s \ {chosen(s)} \in SUBSET B
             /\ chosen(s) \in BitPositions
             /\ 2^chosen(s) = Pow[chosen(s)] /\ 2^chosen(s) \in Int
  <2>1. chosen(s) \in s
    BY <1>1
  <2>. HIDE DEF chosen
  <2>2. chosen(s) \in BitPositions /\ chosen(s) \in 0 .. WORD_BITS
    <3>1. chosen(s) \in BitPositions
      BY <2>1
    <3>. QED  BY <3>1, Powers DEF BitPositions
  <2>3. 2^chosen(s) = Pow[chosen(s)]
    BY <2>2 DEF Pow
  <2>. QED  BY <2>1, <2>2, <2>3, Powers
<1>2. ASSUME NEW s \in SUBSET B
      PROVE  g[s] = IF s = {} THEN 0 ELSE 2^chosen(s) + g[s \ {chosen(s)}]
  <2>1. CASE s = {}
    BY <2>1, SumOfNone
  <2>2. CASE s # {}
    <3>. HIDE DEF chosen
    <3>. QED  BY <2>2, <1>1, TakeOff
  <2>. QED  BY <2>1, <2>2
<1>3. g = [s \in SUBSET B |-> IF s = {} THEN 0 ELSE 2^chosen(s) + g[s \ {chosen(s)}]]
  <2>. HIDE DEF chosen
  <2>. QED  BY <1>2
<1>. DEFINE f == CHOOSE h : h = [s \in SUBSET B |->
                                    IF s = {} THEN 0 ELSE 2^chosen(s) + h[s \ {chosen(s)}]]
<1>4. f = [s \in SUBSET B |-> IF s = {} THEN 0 ELSE 2^chosen(s) + f[s \ {chosen(s)}]]
  <2>. HIDE DEF g, chosen
  <2>. QED  BY <1>3
<1>5. FromBits(B) = f[B]
  BY DEF FromBits, MapThenSumSet, MapThenFoldSet
<1>. HIDE DEF chosen, f
<1>6. ASSUME NEW s \in SUBSET B
      PROVE  f[s] = IF s = {} THEN 0 ELSE 2^chosen(s) + f[s \ {chosen(s)}]
  BY <1>4
<1>7. IsFiniteSet(B)
  <2>1. IsFiniteSet(BitPositions)
    BY Powers, FS_Interval DEF BitPositions
  <2>. QED  BY <2>1, FS_Subset
<1>. DEFINE Wrong == {Cardinality(s) : s \in {t \in SUBSET B : f[t] # g[t]}}
<1>. HIDE DEF g
<1>8. Wrong = {}
  <2>. SUFFICES ASSUME Wrong # {} PROVE FALSE
    OBVIOUS
  <2>1. Wrong \subseteq Nat
    BY <1>7, FS_Subset, FS_CardinalityType
  <2>2. PICK n \in Wrong : \A m \in Wrong : n <= m
    BY <2>1, LeastNatural
  <2>3. PICK s \in SUBSET B : f[s] # g[s] /\ Cardinality(s) = n
    BY <2>2
  <2>4. s # {}
    BY <1>2, <1>6, <2>3
  <2>. DEFINE t == s \ {chosen(s)}
  <2>5. t \in SUBSET B /\ f[t] # g[t]
    BY <1>1, <1>2, <1>6, <2>3, <2>4
  <2>6. Cardinality(t) = n - 1
    BY <1>1, <1>7, <2>3, <2>4, FS_Subset, FS_RemoveElement
  <2>7. n - 1 \in Wrong
    BY <2>5, <2>6
  <2>. QED  BY <2>1, <2>2, <2>7
<1>9. f[B] = g[B]
  BY <1>8
<1>. QED  BY <1>5, <1>9 DEF g

\* Any set of bits makes an unsigned word.
LEMMA FromBitsRange ==
    ASSUME NEW B \in SUBSET BitPositions
    PROVE  FromBits(B) \in Unsigned
<1>1. FromBits(B) = SumOf(B)[WORD_BITS]
  BY FromBitsIsSum
<1>2. WORD_BITS \in 0 .. WORD_BITS
  BY Powers
<1>. QED  BY <1>1, <1>2, SumBounds, Powers DEF Unsigned, U32_MAX

\* Any set of bits makes an integer.
LEMMA FromBitsInt ==
    ASSUME NEW B \in SUBSET BitPositions
    PROVE  FromBits(B) \in Int
BY FromBitsRange, WordInt

-----------------------------------------------------------------------------
(* The operations leave words and flags.                                   *)

\* The quotient of two words is an integer.
LEMMA QuotientInt ==
    ASSUME NEW dest \in Word, NEW src \in Word, src # 0
    PROVE  Quotient(dest, src) \in Int
<1>1. Magnitude(dest) \in Nat /\ Magnitude(src) \in Nat /\ Magnitude(src) > 0
  BY IsaAssumption DEF Magnitude, Word, IsaAssumption
<1>2. Magnitude(dest) \div Magnitude(src) \in Int
  BY <1>1
<1>. QED  BY <1>2 DEF Quotient

\* A two-operand operation leaves a word.
LEMMA AluResultType ==
    ASSUME NEW opcode \in AluOps, NEW dest \in Word, NEW src \in Word,
           ~DividesByZero(opcode, src)
    PROVE  AluResult(opcode, dest, src) \in Word
<1>. dest \in Int /\ src \in Int
  BY IsaAssumption DEF Word, IsaAssumption
<1>1. CASE opcode \in {"ADD", "SUB", "CMP", "MUL"}
  <2>1. dest + src \in Int /\ dest - src \in Int /\ dest * src \in Int
    OBVIOUS
  <2>. QED  BY <1>1, <2>1, Conversions DEF AluResult
<1>2. CASE opcode \in {"DIV", "MOD"}
  <2>1. Quotient(dest, src) \in Int
    BY <1>2, QuotientInt DEF DividesByZero
  <2>2. dest - src * Quotient(dest, src) \in Int
    BY <2>1
  <2>. QED  BY <1>2, <2>1, <2>2, Conversions DEF AluResult
<1>3. CASE opcode \in {"AND", "OR", "XOR"}
  <2>1. Bits(dest) \in SUBSET BitPositions /\ Bits(src) \in SUBSET BitPositions
    BY DEF Bits
  <2>2. /\ Bits(dest) \cap Bits(src) \in SUBSET BitPositions
        /\ Bits(dest) \cup Bits(src) \in SUBSET BitPositions
        /\ (Bits(dest) \cup Bits(src)) \ (Bits(dest) \cap Bits(src)) \in SUBSET BitPositions
    BY <2>1
  <2>. QED  BY <1>3, <2>2, FromBitsInt, Conversions DEF AluResult
<1>4. CASE opcode \in {"SHL", "SHR"}
  <2>1. ShiftLeft(dest, src) \in Word
    BY FromBitsInt, Conversions DEF ShiftLeft
  <2>2. ShiftRight(dest, src) \in Word
    BY FromBitsInt, Conversions DEF ShiftRight
  <2>. QED  BY <1>4, <2>1, <2>2 DEF AluResult
<1>. QED  BY <1>1, <1>2, <1>3, <1>4 DEF AluOps

\* MOVE and NOT leave four booleans in the flags.
LEMMA NzFlagsType ==
    ASSUME NEW v \in Int
    PROVE  NzFlags(v) \in Flags
BY DEF NzFlags, Flags

\* So does a two-operand operation.
LEMMA AluFlagsType ==
    ASSUME NEW opcode \in AluOps, NEW dest \in Word, NEW src \in Word,
           ~DividesByZero(opcode, src)
    PROVE  AluFlags(opcode, dest, src) \in Flags
<1>1. AluResult(opcode, dest, src) \in Int
  BY AluResultType, IsaAssumption DEF Word, IsaAssumption
<1>2. AddFlags(dest, src) \in Flags /\ SubFlags(dest, src) \in Flags
  BY DEF AddFlags, SubFlags, Flags
<1>3. NzFlags(AluResult(opcode, dest, src)) \in Flags
  BY <1>1, NzFlagsType
<1>. QED  BY <1>2, <1>3 DEF AluFlags, AluOps

\* NEG and NOT leave a word, and NEG flags.
LEMMA UnaryType ==
    ASSUME NEW v \in Int
    PROVE  NegResult(v) \in Word /\ NotResult(v) \in Word /\ NegFlags(v) \in Flags
<1>1. 0 - v \in Int /\ -v - 1 \in Int
  OBVIOUS
<1>2. NegResult(v) \in Word /\ NotResult(v) \in Word
  BY <1>1, Conversions DEF NegResult, NotResult
<1>. QED  BY <1>2 DEF NegFlags, Flags

\* Any word popped by IRET unpacks to flags.
LEMMA FlagsOfType == ASSUME NEW w PROVE FlagsOf(w) \in Flags
BY DEF FlagsOf, Flags
=============================================================================
