------------------------------ MODULE AluProofs ------------------------------
(***************************************************************************)
(* The laws of the arithmetic, for every width of a word.                  *)
(***************************************************************************)
EXTENDS AluLaws, BasicLemmas

\* Every operation leaves a word and four flags behind.
THEOREM AluTypeCorrect == AluSpec => []AluTypeOK
<1>1. AluInit => AluTypeOK
  <2>1. NzFlags(1) \in Flags
    BY NzFlagsType
  <2>. QED  BY <2>1 DEF AluInit, AluTypeOK
<1>2. AluTypeOK /\ [AluNext]_aluVars => AluTypeOK'
  <2>1. SUFFICES ASSUME AluTypeOK, [AluNext]_aluVars PROVE AluTypeOK'
    OBVIOUS
  <2>2. dest \in Word /\ src \in Word /\ dest \in Int
    BY <2>1, WordInt DEF AluTypeOK
  <2>3. ASSUME NEW opcode \in AluOps, TwoOperands(opcode) PROVE AluTypeOK'
    BY <2>2, <2>3, AluResultType, AluFlagsType DEF TwoOperands, AluTypeOK
  <2>4. CASE Negate
    BY <2>2, <2>4, UnaryType DEF Negate, AluTypeOK
  <2>5. CASE Complement
    <3>1. dest' \in Word
      BY <2>2, <2>5, UnaryType DEF Complement
    <3>2. NzFlags(dest') \in Flags
      BY <3>1, WordInt, NzFlagsType
    <3>. QED  BY <2>2, <2>5, <3>1, <3>2 DEF Complement, AluTypeOK
  <2>6. CASE UNCHANGED aluVars
    BY <2>1, <2>6 DEF AluTypeOK, aluVars
  <2>. QED  BY <2>1, <2>3, <2>4, <2>5, <2>6 DEF AluNext
<1>. QED  BY <1>1, <1>2, PTL DEF AluSpec

-----------------------------------------------------------------------------
\* Reduction leaves a word alone and brings back a value that is off by less
\* than a whole turn.
LEMMA Reduction ==
    ASSUME NEW v \in Int, v >= -2 * SIGN_BIT, v < 2 * SIGN_BIT
    PROVE  /\ to_u32(v) = IF v < 0 THEN v + 2 * SIGN_BIT ELSE v
           /\ to_i32(v) = IF v < -SIGN_BIT THEN v + 2 * SIGN_BIT
                          ELSE IF v >= SIGN_BIT THEN v - 2 * SIGN_BIT ELSE v
<1>1. SIGN_BIT \in Nat /\ SIGN_BIT > 0
  BY IsaAssumption DEF IsaAssumption
<1>2. to_u32(v) = IF v < 0 THEN v + 2 * SIGN_BIT ELSE v
  <2>1. CASE v >= 0
    BY <1>1, <2>1 DEF to_u32
  <2>2. CASE v < 0
    BY <1>1, <2>2 DEF to_u32
  <2>. QED  BY <2>1, <2>2
<1>. QED  BY <1>1, <1>2 DEF to_i32

\* The bounds of two words, and the arithmetic that every law below uses.
LEMMA WordBounds ==
    ASSUME NEW x \in Word
    PROVE  /\ SIGN_BIT \in Nat /\ SIGN_BIT > 0
           /\ x \in Int /\ x >= -SIGN_BIT /\ x < SIGN_BIT
           /\ to_u32(x) \in Int /\ to_u32(x) >= 0 /\ to_u32(x) < 2 * SIGN_BIT
<1>1. SIGN_BIT \in Nat /\ SIGN_BIT > 0
  BY IsaAssumption DEF IsaAssumption
<1>2. x \in Int /\ x >= -SIGN_BIT /\ x < SIGN_BIT
  BY <1>1 DEF Word
<1>3. to_u32(x) \in Unsigned
  BY <1>2, Conversions
<1>. QED  BY <1>1, <1>2, <1>3 DEF Unsigned, U32_MAX

\* The flags of a subtraction, without the modulus.
LEMMA SubFlagsMeaning ==
    ASSUME NEW x \in Word, NEW y \in Word
    PROVE  /\ SubFlags(x, y).z <=> x = y
           /\ (SubFlags(x, y).n <=> SubFlags(x, y).v) <=> x >= y
           /\ SubFlags(x, y).v <=> x - y \notin Word
           /\ SubFlags(x, y).c <=> to_u32(x) - to_u32(y) \notin Unsigned
<1>. DEFINE d == x - y
            r == to_i32(d)
<1>1. /\ SubFlags(x, y).n <=> r < 0
      /\ SubFlags(x, y).z <=> r = 0
      /\ SubFlags(x, y).v <=> ~(x < 0 <=> y < 0) /\ ~(r < 0 <=> x < 0)
      /\ SubFlags(x, y).c <=> to_u32(x) < to_u32(y)
  BY Zenon DEF SubFlags
<1>2. d \in Int /\ d >= -2 * SIGN_BIT /\ d < 2 * SIGN_BIT
  BY WordBounds
<1>3. r = IF d < -SIGN_BIT THEN d + 2 * SIGN_BIT
          ELSE IF d >= SIGN_BIT THEN d - 2 * SIGN_BIT ELSE d
  <2>. HIDE DEF d
  <2>. QED  BY <1>2, Reduction
<1>4. r = 0 <=> x = y
  BY <1>3, WordBounds
<1>5. (r < 0 <=> (~(x < 0 <=> y < 0) /\ ~(r < 0 <=> x < 0))) <=> x >= y
  BY <1>3, WordBounds
<1>6. (~(x < 0 <=> y < 0) /\ ~(r < 0 <=> x < 0)) <=> d \notin Word
  BY <1>3, WordBounds DEF Word
<1>7. to_u32(x) < to_u32(y) <=> to_u32(x) - to_u32(y) \notin Unsigned
  BY WordBounds DEF Unsigned, U32_MAX
<1>. QED
  <2>. HIDE DEF r
  <2>. QED  BY <1>1, <1>4, <1>5, <1>6, <1>7, Zenon

\* After ADD, V and C say that the signed and the unsigned sum do not fit.
LEMMA AddFlagsMeaning ==
    ASSUME NEW x \in Word, NEW y \in Word
    PROVE  /\ AddFlags(x, y).v <=> x + y \notin Word
           /\ AddFlags(x, y).c <=> to_u32(x) + to_u32(y) \notin Unsigned
<1>. DEFINE d == x + y
            r == to_i32(d)
<1>1. /\ AddFlags(x, y).v <=> (x < 0 <=> y < 0) /\ ~(r < 0 <=> x < 0)
      /\ AddFlags(x, y).c <=> to_u32(x) + to_u32(y) > U32_MAX
  BY Zenon DEF AddFlags
<1>2. d \in Int /\ d >= -2 * SIGN_BIT /\ d < 2 * SIGN_BIT
  BY WordBounds
<1>3. r = IF d < -SIGN_BIT THEN d + 2 * SIGN_BIT
          ELSE IF d >= SIGN_BIT THEN d - 2 * SIGN_BIT ELSE d
  <2>. HIDE DEF d
  <2>. QED  BY <1>2, Reduction
<1>4. ((x < 0 <=> y < 0) /\ ~(r < 0 <=> x < 0)) <=> d \notin Word
  BY <1>3, WordBounds DEF Word
<1>5. to_u32(x) + to_u32(y) > U32_MAX <=> to_u32(x) + to_u32(y) \notin Unsigned
  BY WordBounds DEF Unsigned, U32_MAX
<1>. QED
  <2>. HIDE DEF r
  <2>. QED  BY <1>1, <1>4, <1>5, Zenon

\* After CMP the conditional jumps decide the order of any two words.
THEOREM ComparisonCorrect == AluSpec => []CompareDecides
<1>1. AluTypeOK => CompareDecides
  <2>1. SUFFICES ASSUME AluTypeOK PROVE CompareDecides
    OBVIOUS
  <2>2. dest \in Word /\ src \in Word /\ dest \in Int /\ src \in Int
    BY <2>1, WordInt DEF AluTypeOK
  <2>3. AluFlags("CMP", dest, src) = SubFlags(dest, src)
    BY DEF AluFlags
  <2>4. /\ SubFlags(dest, src).z <=> dest = src
        /\ (SubFlags(dest, src).n <=> SubFlags(dest, src).v) <=> dest >= src
    BY <2>2, SubFlagsMeaning
  <2>. DEFINE f == SubFlags(dest, src)
  <2>5. /\ Taken("JE", f) <=> f.z
        /\ Taken("JNE", f) <=> ~f.z
        /\ Taken("JL", f) <=> ~(f.n <=> f.v)
        /\ Taken("JLE", f) <=> f.z \/ ~(f.n <=> f.v)
        /\ Taken("JG", f) <=> ~f.z /\ (f.n <=> f.v)
        /\ Taken("JGE", f) <=> (f.n <=> f.v)
    BY DEF Taken
  <2>. QED  BY <2>2, <2>3, <2>4, <2>5 DEF CompareDecides
<1>. QED  BY <1>1, AluTypeCorrect, PTL

\* V and C tell, at every width, whether a sum or a difference fits.
THEOREM OverflowCorrect == AluSpec => []OverflowFlags
<1>1. AluTypeOK => OverflowFlags
  BY SubFlagsMeaning, AddFlagsMeaning DEF AluTypeOK, OverflowFlags
<1>. QED  BY <1>1, AluTypeCorrect, PTL

\* NEG sets the flags of a subtraction from zero.
LEMMA NegFlagsMeaning ==
    ASSUME NEW x \in Word
    PROVE  NegFlags(x) = SubFlags(0, x)
<1>. DEFINE r == to_i32(0 - x)
<1>1. r = IF x = -SIGN_BIT THEN -SIGN_BIT ELSE -x
  <2>1. 0 - x \in Int /\ 0 - x >= -2 * SIGN_BIT /\ 0 - x < 2 * SIGN_BIT
    BY WordBounds
  <2>. DEFINE d == 0 - x
  <2>2. to_i32(d) = IF d < -SIGN_BIT THEN d + 2 * SIGN_BIT
                    ELSE IF d >= SIGN_BIT THEN d - 2 * SIGN_BIT ELSE d
    <3>1. d \in Int /\ d >= -2 * SIGN_BIT /\ d < 2 * SIGN_BIT
      BY <2>1
    <3>. HIDE DEF d
    <3>. QED  BY <3>1, Reduction
  <2>. QED  BY <2>2, WordBounds
<1>2. to_u32(x) = (IF x < 0 THEN x + 2 * SIGN_BIT ELSE x) /\ to_u32(0) = 0
  <2>1. x >= -2 * SIGN_BIT /\ x < 2 * SIGN_BIT /\ 0 >= -2 * SIGN_BIT /\ 0 < 2 * SIGN_BIT
    BY WordBounds
  <2>. QED  BY <2>1, WordBounds, Reduction
<1>3. (x = -SIGN_BIT) = (~(0 < 0 <=> x < 0) /\ ~(r < 0 <=> 0 < 0))
  BY <1>1, WordBounds
<1>4. (x # 0) = (to_u32(0) < to_u32(x))
  BY <1>2, WordBounds
<1>. HIDE DEF r
<1>5. NegFlags(x) = [n |-> r < 0, z |-> r = 0, v |-> x = -SIGN_BIT, c |-> x # 0]
  BY Zenon DEF NegFlags, NegResult, r
<1>6. SubFlags(0, x) = [n |-> r < 0, z |-> r = 0,
                        v |-> ~(0 < 0 <=> x < 0) /\ ~(r < 0 <=> 0 < 0),
                        c |-> to_u32(0) < to_u32(x)]
  BY Zenon DEF SubFlags, r
<1>. QED  BY <1>3, <1>4, <1>5, <1>6, Zenon

\* NEG is a subtraction from zero at every width, the least word included.
THEOREM NegationCorrect == AluSpec => []NegIsSubtraction
<1>1. AluTypeOK => NegIsSubtraction
  BY NegFlagsMeaning DEF AluTypeOK, NegIsSubtraction, AluResult, AluFlags, NegResult
<1>. QED  BY <1>1, AluTypeCorrect, PTL

\* Division of natural numbers.
LEMMA NatDivision ==
    ASSUME NEW a \in Nat, NEW b \in Nat, b > 0
    PROVE  /\ a \div b \in Nat
           /\ b * (a \div b) <= a
           /\ a - b * (a \div b) < b
OBVIOUS

\* The truncated quotient, its product with the divisor and what is left.
LEMMA QuotientMeaning ==
    ASSUME NEW x \in Word, NEW y \in Word, y # 0
    PROVE  LET q == Quotient(x, y)
               rest == x - y * q
           IN /\ q \in Int /\ rest \in Int
              /\ q >= -SIGN_BIT /\ q <= SIGN_BIT
              /\ q = SIGN_BIT => x = -SIGN_BIT /\ y = -1
              /\ Magnitude(rest) < Magnitude(y)
              /\ rest = 0 \/ (rest < 0 <=> x < 0)
              /\ Magnitude(y * q) <= Magnitude(x)
<1>. DEFINE a == Magnitude(x)
            b == Magnitude(y)
            p == a \div b
            m == b * p
            q == Quotient(x, y)
<1>1. a \in Nat /\ b \in Nat /\ b > 0 /\ a <= SIGN_BIT /\ b <= SIGN_BIT
  BY WordBounds DEF Magnitude
<1>2. p \in Nat /\ m \in Nat /\ m <= a /\ a - m < b
  <2>. HIDE DEF a, b
  <2>1. a \div b \in Nat /\ b * (a \div b) <= a /\ a - b * (a \div b) < b
    BY <1>1, NatDivision
  <2>. QED  BY <1>1, <2>1
<1>3. p <= m
  <2>. HIDE DEF a, b, p
  <2>. QED  BY <1>1, <1>2
<1>4. q = IF x < 0 <=> y < 0 THEN p ELSE -p
  BY DEF Quotient
<1>5. y * q = IF x < 0 THEN -m ELSE m
  <2>1. CASE y > 0
    <3>1. b = y
      BY <2>1, WordBounds DEF Magnitude
    <3>2. q = IF x < 0 THEN -p ELSE p
      BY <1>4, <2>1, WordBounds
    <3>. HIDE DEF p, q
    <3>. QED  BY <1>2, <3>1, <3>2, WordBounds
  <2>2. CASE y < 0
    <3>1. b = -y
      BY <2>2, WordBounds DEF Magnitude
    <3>2. q = IF x < 0 THEN p ELSE -p
      BY <1>4, <2>2, WordBounds
    <3>. HIDE DEF p, q
    <3>. QED  BY <1>2, <3>1, <3>2, WordBounds
  <2>. QED  BY <2>1, <2>2, WordBounds
<1>6. q = SIGN_BIT => x = -SIGN_BIT /\ y = -1
  <2>1. SUFFICES ASSUME q = SIGN_BIT PROVE x = -SIGN_BIT /\ y = -1
    OBVIOUS
  <2>2. p = SIGN_BIT /\ (x < 0 <=> y < 0)
    <3>. HIDE DEF p, q
    <3>. QED  BY <1>2, <1>4, <2>1, WordBounds
  <2>3. a = SIGN_BIT /\ m = SIGN_BIT
    <3>. HIDE DEF a, m, p
    <3>. QED  BY <1>1, <1>2, <1>3, <2>2, WordBounds
  <2>4. x = -SIGN_BIT
    BY <2>3, WordBounds DEF Magnitude
  <2>5. b = 1
    <3>. HIDE DEF b, p
    <3>. QED  BY <1>1, <2>2, <2>3, WordBounds
  <2>. QED  BY <2>2, <2>4, <2>5, WordBounds DEF Magnitude
<1>7. q \in Int /\ q >= -SIGN_BIT /\ q <= SIGN_BIT
  <2>. HIDE DEF a, m, p, q
  <2>. QED  BY <1>1, <1>2, <1>3, <1>4, WordBounds
<1>8. a = IF x < 0 THEN -x ELSE x
  BY DEF Magnitude
<1>9. /\ x - y * q \in Int
      /\ Magnitude(x - y * q) < b
      /\ x - y * q = 0 \/ (x - y * q < 0 <=> x < 0)
      /\ Magnitude(y * q) <= a
  <2>. HIDE DEF a, b, m, q
  <2>. QED  BY <1>1, <1>2, <1>5, <1>8, WordBounds DEF Magnitude
<1>. QED  BY <1>6, <1>7, <1>9

\* Quotient and remainder make up the dividend at every width; MIN / -1 wraps.
THEOREM DivisionCorrect == AluSpec => []DivisionLaw
<1>1. AluTypeOK => DivisionLaw
  <2>1. SUFFICES ASSUME AluTypeOK, src # 0
                 PROVE  LET q == AluResult("DIV", dest, src)
                            r == AluResult("MOD", dest, src)
                        IN /\ to_i32(q * src + r) = dest
                           /\ Magnitude(r) < Magnitude(src)
                           /\ r = 0 \/ (r < 0 <=> dest < 0)
                           /\ Magnitude(q * src) <= Magnitude(dest)
    BY DEF DivisionLaw
  <2>2. dest \in Word /\ src \in Word
    BY <2>1 DEF AluTypeOK
  <2>. DEFINE true == Quotient(dest, src)
              rest == dest - src * true
              q == to_i32(true)
              r == to_i32(rest)
  <2>3. AluResult("DIV", dest, src) = q /\ AluResult("MOD", dest, src) = r
    BY DEF AluResult
  <2>4. /\ true \in Int /\ rest \in Int
        /\ true >= -SIGN_BIT /\ true <= SIGN_BIT
        /\ true = SIGN_BIT => dest = -SIGN_BIT /\ src = -1
        /\ Magnitude(rest) < Magnitude(src)
        /\ rest = 0 \/ (rest < 0 <=> dest < 0)
        /\ Magnitude(src * true) <= Magnitude(dest)
    BY <2>1, <2>2, QuotientMeaning
  <2>5. r = rest
    <3>1. rest > -SIGN_BIT /\ rest < SIGN_BIT
      <4>. HIDE DEF true, rest
      <4>. QED  BY <2>2, <2>4, WordBounds DEF Magnitude
    <3>. HIDE DEF true, rest
    <3>. QED  BY <2>2, <2>4, <3>1, WordBounds, Reduction
  <2>6. q = IF true = SIGN_BIT THEN -SIGN_BIT ELSE true
    <3>. HIDE DEF true
    <3>. QED  BY <2>2, <2>4, WordBounds, Reduction
  <2>7. q * src = IF true = SIGN_BIT THEN SIGN_BIT ELSE src * true
    <3>1. CASE true = SIGN_BIT
      <4>1. src = -1 /\ q = -SIGN_BIT
        BY <2>4, <2>6, <3>1
      <4>. QED  BY <3>1, <4>1, <2>2, WordBounds
    <3>2. CASE true # SIGN_BIT
      <4>1. q = true
        BY <2>6, <3>2
      <4>. HIDE DEF true, q
      <4>. QED  BY <2>2, <2>4, <3>2, <4>1, WordBounds
    <3>. QED  BY <3>1, <3>2
  <2>8. to_i32(q * src + r) = dest
    <3>1. CASE true = SIGN_BIT
      <4>1. src = -1 /\ dest = -SIGN_BIT
        BY <2>4, <3>1
      <4>2. rest = 0
        BY <2>2, <3>1, <4>1, WordBounds
      <4>3. q * src + r = SIGN_BIT
        <5>. HIDE DEF q, r, rest
        <5>. QED  BY <2>2, <2>5, <2>7, <3>1, <4>2, WordBounds
      <4>4. to_i32(SIGN_BIT) = -SIGN_BIT
        BY <2>2, WordBounds, Reduction
      <4>. QED  BY <4>1, <4>3, <4>4
    <3>2. CASE true # SIGN_BIT
      <4>1. q * src + r = dest
        <5>1. q * src = src * true /\ r = dest - src * true
          BY <2>5, <2>7, <3>2
        <5>2. src * true \in Int
          <6>. HIDE DEF true
          <6>. QED  BY <2>2, <2>4, WordBounds
        <5>. HIDE DEF true, q, r
        <5>. QED  BY <2>2, <5>1, <5>2, WordBounds
      <4>2. to_i32(dest) = dest
        BY <2>2, WordBounds, Reduction
      <4>. QED  BY <4>1, <4>2
    <3>. QED  BY <3>1, <3>2
  <2>9. Magnitude(q * src) <= Magnitude(dest)
    <3>1. CASE true = SIGN_BIT
      BY <2>2, <2>4, <2>7, <3>1, WordBounds DEF Magnitude
    <3>2. CASE true # SIGN_BIT
      BY <2>4, <2>7, <3>2
    <3>. QED  BY <3>1, <3>2
  <2>. QED  BY <2>3, <2>4, <2>5, <2>8, <2>9
<1>. QED  BY <1>1, AluTypeCorrect, PTL

-----------------------------------------------------------------------------
(* Arithmetic up to whole turns.                                           *)

\* The quotient of a number that is given with its quotient and remainder.
LEMMA DivisionOf ==
    ASSUME NEW d \in Nat \ {0}, NEW r \in 0 .. (d - 1), NEW n \in Int
    PROVE  (r + d * n) \div d = n /\ (r + d * n) % d = r
<1>. DEFINE x == r + d * n
            p == x \div d
            m == x % d
<1>1. x \in Int
  OBVIOUS
<1>2. p \in Int /\ m \in 0 .. (d - 1) /\ x = d * p + m
  <2>. HIDE DEF x
  <2>. QED  BY <1>1
<1>3. d * (p - n) = r - m
  <2>. HIDE DEF p, m
  <2>. QED  BY <1>2
<1>. HIDE DEF x, p, m
<1>4. p - n = 0
  <2>1. CASE p - n >= 1
    <3>1. d * (p - n) >= d
      BY <1>2, <2>1
    <3>. QED  BY <1>2, <1>3, <3>1
  <2>2. CASE p - n <= -1
    <3>1. d * (p - n) <= -d
      BY <1>2, <2>2
    <3>. QED  BY <1>2, <1>3, <3>1
  <2>. QED  BY <1>2, <2>1, <2>2
<1>5. p = n /\ m = r
  BY <1>2, <1>3, <1>4
<1>. QED  BY <1>5 DEF p, m, x

\* Whole turns do not change the word.
LEMMA WholeTurns ==
    ASSUME NEW x \in Int, NEW k \in Int
    PROVE  to_u32(x + 2 * SIGN_BIT * k) = to_u32(x)
<1>. DEFINE m == 2 * SIGN_BIT
            n == x \div m
            r == x % m
<1>1. m \in Nat \ {0}
  BY IsaAssumption DEF IsaAssumption
<1>. HIDE DEF m
<1>2. n \in Int /\ r \in 0 .. (m - 1) /\ x = r + m * n
  BY <1>1
<1>. HIDE DEF n, r
<1>3. x + m * k = r + m * (n + k)
  BY <1>1, <1>2
<1>4. (r + m * (n + k)) % m = r /\ (r + m * n) % m = r
  BY <1>1, <1>2, DivisionOf
<1>. QED  BY <1>2, <1>3, <1>4 DEF m, to_u32

\* The two conversions differ from the integer by whole turns.
LEMMA Reduces ==
    ASSUME NEW x \in Int
    PROVE  /\ to_u32(x) \in 0 .. (2 * SIGN_BIT - 1)
           /\ \E k \in Int : to_u32(x) = x + 2 * SIGN_BIT * k
           /\ to_i32(x) \in Int
           /\ to_u32(to_i32(x)) = to_u32(x)
<1>. DEFINE m == 2 * SIGN_BIT
            u == to_u32(x)
            n == x \div m
<1>1. m \in Nat \ {0}
  BY IsaAssumption DEF IsaAssumption
<1>2. u = x % m
  BY DEF to_u32
<1>3. to_i32(x) = IF u >= SIGN_BIT THEN u - m ELSE u
  BY DEF to_i32
<1>4. \A y \in 0 .. (m - 1) : to_u32(y) = y
  <2>. SUFFICES ASSUME NEW y \in 0 .. (m - 1) PROVE y % m = y
    BY DEF to_u32
  <2>. HIDE DEF m
  <2>. QED  BY <1>1
<1>5. \A y, k \in Int : to_u32(y + m * k) = to_u32(y)
  BY WholeTurns
<1>. HIDE DEF m, u
<1>6. u \in 0 .. (m - 1) /\ n \in Int /\ x = m * n + u
  BY <1>1, <1>2
<1>. HIDE DEF n
<1>7. u = x + m * (-n) /\ -n \in Int
  BY <1>1, <1>6
<1>8. to_u32(u) = u /\ u \in Int
  BY <1>1, <1>4, <1>6
<1>9. to_u32(to_i32(x)) = u /\ to_i32(x) \in Int
  <2>1. to_i32(x) = u \/ to_i32(x) = u + m * (-1)
    BY <1>1, <1>3, <1>8
  <2>2. u + m * (-1) \in Int /\ to_u32(u + m * (-1)) = to_u32(u)
    BY <1>1, <1>5, <1>8
  <2>. QED  BY <1>8, <2>1, <2>2
<1>. QED  BY <1>6, <1>7, <1>9 DEF m, u

\* Sums, differences and products may be reduced before or after.
LEMMA ReducesSums ==
    ASSUME NEW x \in Int, NEW y \in Int
    PROVE  /\ to_u32(x + y) = to_u32(to_u32(x) + to_u32(y))
           /\ to_u32(x - y) = to_u32(to_u32(x) - to_u32(y))
           /\ to_u32(x * y) = to_u32(to_u32(x) * y)
<1>. DEFINE m == 2 * SIGN_BIT
<1>1. m \in Nat
  BY IsaAssumption DEF IsaAssumption
<1>2. PICK k \in Int : to_u32(x) = x + m * k
  BY Reduces
<1>3. PICK l \in Int : to_u32(y) = y + m * l
  BY Reduces
<1>4. \A z, n \in Int : to_u32(z + m * n) = to_u32(z)
  BY WholeTurns
<1>. HIDE DEF m
<1>5. /\ to_u32(x) + to_u32(y) = (x + y) + m * (k + l)
      /\ to_u32(x) - to_u32(y) = (x - y) + m * (k - l)
      /\ to_u32(x) * y = x * y + m * (k * y)
      /\ k + l \in Int /\ k - l \in Int /\ k * y \in Int /\ x * y \in Int
      /\ x + y \in Int /\ x - y \in Int
  BY <1>1, <1>2, <1>3
<1>. QED  BY <1>4, <1>5

\* The signed word depends on the unsigned one only.
LEMMA SameWord ==
    ASSUME NEW x \in Int, NEW y \in Int, to_u32(x) = to_u32(y)
    PROVE  to_i32(x) = to_i32(y)
BY DEF to_i32

-----------------------------------------------------------------------------
(* The bits of an integer, and what sets of bits add up to.                *)

\* The sums are integers.
LEMMA SumInt == ASSUME NEW S PROVE \A i \in 0 .. WORD_BITS : SumOf(S)[i] \in Int
BY Sums

\* A weight past another: the weights multiply.
LEMMA PowersMultiply ==
    ASSUME NEW a \in Nat, NEW b \in Nat, a + b <= WORD_BITS
    PROVE  Pow[a + b] = Pow[a] * Pow[b]
<1>. DEFINE S == {i \in 0 .. b : Pow[a + i] = Pow[a] * Pow[i]}
<1>1. 0 \in S
  <2>1. a \in 0 .. WORD_BITS
    BY Powers
  <2>2. Pow[a] \in Nat
    BY <2>1, Powers
  <2>. QED  BY <2>2, Powers
<1>2. ASSUME NEW n \in 0 .. (b - 1), n \in S PROVE n + 1 \in S
  <2>1. /\ n \in BitPositions /\ a + n \in BitPositions /\ (a + n) + 1 = a + (n + 1)
        /\ a \in 0 .. WORD_BITS /\ n \in 0 .. WORD_BITS /\ n + 1 \in 0 .. b
    BY Powers DEF BitPositions
  <2>2. Pow[a + (n + 1)] = 2 * Pow[a + n] /\ Pow[n + 1] = 2 * Pow[n]
    BY <2>1, Powers
  <2>3. Pow[a] \in Nat /\ Pow[n] \in Nat /\ Pow[a + n] = Pow[a] * Pow[n]
    BY <1>2, <2>1, Powers
  <2>4. \A x, y \in Nat : 2 * (x * y) = x * (2 * y)
    OBVIOUS
  <2>5. Pow[a + (n + 1)] = Pow[a] * Pow[n + 1]
    BY <2>2, <2>3, <2>4
  <2>. QED  BY <2>1, <2>5
<1>. HIDE DEF S
<1>3. 0 .. b \subseteq S
  <2>1. 0 \in Int /\ b \in Int
    OBVIOUS
  <2>. QED  BY <1>1, <1>2, <2>1, InductionUpTo, Zenon
<1>. QED  BY <1>3 DEF S

\* Two sets of bits have together the sum of their union and their
\* intersection; what is in one only is the difference of these.
TotalsOfTwo(A, B) ==
    /\ SumOf(A \cup B)[WORD_BITS] + SumOf(A \cap B)[WORD_BITS]
         = SumOf(A)[WORD_BITS] + SumOf(B)[WORD_BITS]
    /\ SumOf((A \cup B) \ (A \cap B))[WORD_BITS]
         = SumOf(A \cup B)[WORD_BITS] - SumOf(A \cap B)[WORD_BITS]

\* It holds of any two sets.
LEMMA SumOfTwo ==
    ASSUME NEW A, NEW B
    PROVE  TotalsOfTwo(A, B)
<1>. DEFINE a == SumOf(A)
            b == SumOf(B)
            u == SumOf(A \cup B)
            n == SumOf(A \cap B)
            x == SumOf((A \cup B) \ (A \cap B))
            T == {i \in 0 .. WORD_BITS : u[i] + n[i] = a[i] + b[i] /\ x[i] = u[i] - n[i]}
<1>1. /\ a[0] = 0 /\ b[0] = 0 /\ u[0] = 0 /\ n[0] = 0 /\ x[0] = 0
      /\ \A i \in 0 .. WORD_BITS :
            a[i] \in Int /\ b[i] \in Int /\ u[i] \in Int /\ n[i] \in Int /\ x[i] \in Int
  <2>1. \A S : SumOf(S)[0] = 0 /\ \A i \in 0 .. WORD_BITS : SumOf(S)[i] \in Int
    BY Sums
  <2>. QED  BY <2>1, Zenon
<1>2. ASSUME NEW i \in BitPositions
      PROVE  /\ a[i + 1] = a[i] + (IF i \in A THEN Pow[i] ELSE 0)
             /\ b[i + 1] = b[i] + (IF i \in B THEN Pow[i] ELSE 0)
             /\ u[i + 1] = u[i] + (IF i \in A \/ i \in B THEN Pow[i] ELSE 0)
             /\ n[i + 1] = n[i] + (IF i \in A /\ i \in B THEN Pow[i] ELSE 0)
             /\ x[i + 1] = x[i] + (IF ~(i \in A <=> i \in B) THEN Pow[i] ELSE 0)
  <2>1. i \in A \cup B <=> i \in A \/ i \in B
    OBVIOUS
  <2>2. i \in A \cap B <=> i \in A /\ i \in B
    OBVIOUS
  <2>3. i \in (A \cup B) \ (A \cap B) <=> ~(i \in A <=> i \in B)
    OBVIOUS
  <2>. QED  BY <2>1, <2>2, <2>3, Sums
<1>. HIDE DEF a, b, u, n, x
<1>3. 0 \in T
  <2>1. 0 \in 0 .. WORD_BITS
    BY Powers
  <2>. QED  BY <1>1, <2>1
<1>4. ASSUME NEW i \in BitPositions, i \in T PROVE i + 1 \in T
  <2>1. i \in 0 .. WORD_BITS /\ i + 1 \in 0 .. WORD_BITS /\ Pow[i] \in Int
    BY Powers DEF BitPositions
  <2>2. a[i] \in Int /\ b[i] \in Int /\ u[i] \in Int /\ n[i] \in Int /\ x[i] \in Int
    BY <1>1, <2>1
  <2>3. u[i] + n[i] = a[i] + b[i] /\ x[i] = u[i] - n[i]
    BY <1>4
  <2>4. u[i + 1] + n[i + 1] = a[i + 1] + b[i + 1]
    BY <1>2, <2>1, <2>2, <2>3
  <2>5. x[i + 1] = u[i + 1] - n[i + 1]
    BY <1>2, <2>1, <2>2, <2>3
  <2>. QED  BY <2>1, <2>4, <2>5
<1>. HIDE DEF T
<1>5. 0 .. WORD_BITS \subseteq T
  BY <1>3, <1>4, BitInduction, Zenon
<1>6. WORD_BITS \in T
  BY <1>5, Powers
<1>. QED  BY <1>6 DEF TotalsOfTwo, T, a, b, u, n, x

\* The bits that are not in a set make up what is missing to all ones.
LEMMA SumOfRest ==
    ASSUME NEW A
    PROVE  \A i \in 0 .. WORD_BITS : SumOf(BitPositions \ A)[i] = Pow[i] - 1 - SumOf(A)[i]
<1>. DEFINE a == SumOf(A)
            r == SumOf(BitPositions \ A)
            T == {i \in 0 .. WORD_BITS : r[i] = Pow[i] - 1 - a[i]}
<1>1. /\ a[0] = 0 /\ r[0] = 0
      /\ \A i \in 0 .. WORD_BITS : a[i] \in Int /\ r[i] \in Int /\ Pow[i] \in Int
  BY Sums, Powers
<1>2. ASSUME NEW i \in BitPositions
      PROVE  /\ a[i + 1] = a[i] + (IF i \in A THEN Pow[i] ELSE 0)
             /\ r[i + 1] = r[i] + (IF i \in A THEN 0 ELSE Pow[i])
             /\ Pow[i + 1] = 2 * Pow[i]
  BY Sums, Powers
<1>. HIDE DEF a, r
<1>3. 0 \in T
  BY <1>1, Powers
<1>4. ASSUME NEW i \in BitPositions, i \in T PROVE i + 1 \in T
  <2>1. i \in 0 .. WORD_BITS /\ i + 1 \in 0 .. WORD_BITS
    BY Powers DEF BitPositions
  <2>2. a[i] \in Int /\ r[i] \in Int /\ Pow[i] \in Int /\ r[i] = Pow[i] - 1 - a[i]
    BY <1>1, <1>4, <2>1
  <2>3. r[i + 1] = Pow[i + 1] - 1 - a[i + 1]
    BY <1>2, <2>2
  <2>. QED  BY <2>1, <2>3
<1>. HIDE DEF T
<1>5. 0 .. WORD_BITS \subseteq T
  BY <1>3, <1>4, BitInduction, Zenon
<1>. QED  BY <1>5 DEF T, a, r

\* The bit in a sum: divided by its weight, the sum is odd for a bit of S.
LEMMA BitOfSum ==
    ASSUME NEW S, NEW j \in BitPositions
    PROVE  (SumOf(S)[WORD_BITS] \div Pow[j]) % 2 = 1 <=> j \in S
<1>. DEFINE g == SumOf(S)
            q == Pow[j]
            T == {i \in 0 .. WORD_BITS :
                    i > j => \E k \in Nat : g[i] = g[j] + (IF j \in S THEN q ELSE 0) + 2 * q * k}
<1>. HIDE DEF g
<1>1. j \in 0 .. WORD_BITS /\ j + 1 \in 0 .. WORD_BITS /\ j \in Nat
  BY Powers DEF BitPositions
<1>2. q \in Nat \ {0} /\ g[j] \in 0 .. (q - 1)
  BY <1>1, Powers, SumBounds DEF g
<1>3. 0 \in T
  <2>1. 0 \in 0 .. WORD_BITS
    BY Powers
  <2>. QED  BY <1>1, <2>1
<1>4. ASSUME NEW i \in BitPositions, i \in T PROVE i + 1 \in T
  <2>1. i \in 0 .. WORD_BITS /\ i + 1 \in 0 .. WORD_BITS /\ i \in Nat
    BY Powers DEF BitPositions
  <2>2. g[i + 1] = g[i] + (IF i \in S THEN Pow[i] ELSE 0) /\ g[i] \in Int /\ Pow[i] \in Nat
    <3>1. Pow[i] \in Nat
      BY <2>1, Powers
    <3>2. g[i] \in Int /\ g[i + 1] = g[i] + (IF i \in S THEN Pow[i] ELSE 0)
      <4>1. g \in [0 .. WORD_BITS -> Int]
        BY Sums DEF g
      <4>2. \A l \in BitPositions : g[l + 1] = g[l] + (IF l \in S THEN Pow[l] ELSE 0)
        BY Sums, Zenon DEF g
      <4>. QED  BY <2>1, <4>1, <4>2
    <3>. QED  BY <3>1, <3>2
  <2>3. CASE i < j
    BY <1>1, <2>1, <2>3
  <2>4. CASE i = j
    <3>1. g[i + 1] = g[j] + (IF j \in S THEN q ELSE 0) + 2 * q * 0
      BY <1>2, <2>2, <2>4
    <3>. HIDE DEF q
    <3>. QED  BY <2>1, <3>1
  <2>5. CASE i > j
    <3>1. PICK k \in Nat : g[i] = g[j] + (IF j \in S THEN q ELSE 0) + 2 * q * k
      BY <1>4, <2>5
    <3>2. PICK m \in Nat : Pow[i] = 2 * q * m
      <4>. DEFINE m == Pow[i - j - 1]
      <4>1. /\ i - j - 1 \in Nat /\ j + 1 \in Nat /\ (j + 1) + (i - j - 1) = i
            /\ (j + 1) + (i - j - 1) <= WORD_BITS /\ i - j - 1 \in 0 .. WORD_BITS
        <5>1. WORD_BITS \in Nat
          BY Powers
        <5>. QED  BY <5>1, <1>1, <2>1, <2>5
      <4>2. Pow[i] = Pow[j + 1] * m
        BY <4>1, PowersMultiply
      <4>3. Pow[j + 1] = 2 * q /\ m \in Nat
        BY <4>1, Powers
      <4>. HIDE DEF m
      <4>. QED  BY <4>2, <4>3
    <3>3. 2 * q * k + 2 * q * m = 2 * q * (k + m) /\ 2 * q * k \in Int /\ k + m \in Nat
      <4>. HIDE DEF q
      <4>. QED  BY <1>2
    <3>4. CASE i \in S
      <4>1. g[i + 1] = g[j] + (IF j \in S THEN q ELSE 0) + 2 * q * (k + m)
        <5>1. g[i + 1] = (g[j] + (IF j \in S THEN q ELSE 0) + 2 * q * k) + 2 * q * m
          BY <2>2, <3>1, <3>2, <3>4
        <5>. DEFINE x == 2 * q * k
                    y == 2 * q * m
                    z == 2 * q * (k + m)
                    e == IF j \in S THEN q ELSE 0
        <5>2. x \in Int /\ y \in Int /\ z = x + y /\ e \in Int /\ g[i + 1] = (g[j] + e + x) + y
          BY <1>2, <3>3, <5>1
        <5>. HIDE DEF x, y, z, e
        <5>3. g[i + 1] = g[j] + e + z
          BY <1>2, <5>2
        <5>. QED  BY <5>3 DEF z, e
      <4>. QED  BY <2>1, <3>3, <4>1
    <3>5. CASE i \notin S
      BY <2>1, <2>2, <3>1, <3>5
    <3>. QED  BY <3>4, <3>5
  <2>. QED  BY <1>1, <2>1, <2>3, <2>4, <2>5
<1>. HIDE DEF T
<1>5. 0 .. WORD_BITS \subseteq T
  BY <1>3, <1>4, BitInduction, Zenon
<1>6. WORD_BITS \in T /\ WORD_BITS > j
  BY <1>5, Powers DEF BitPositions
<1>7. PICK k \in Nat : g[WORD_BITS] = g[j] + (IF j \in S THEN q ELSE 0) + 2 * q * k
  BY <1>6 DEF T
<1>. HIDE DEF q
<1>8. \A n \in Int : (g[j] + q * n) \div q = n
  BY <1>2, DivisionOf
<1>9. CASE j \in S
  <2>1. g[WORD_BITS] = g[j] + q * (1 + 2 * k)
    BY <1>2, <1>7, <1>9
  <2>2. g[WORD_BITS] \div q = 1 + 2 * k
    BY <1>2, <1>8, <2>1
  <2>. QED  BY <1>9, <2>2 DEF g, q
<1>10. CASE j \notin S
  <2>1. g[WORD_BITS] = g[j] + q * (2 * k)
    BY <1>2, <1>7, <1>10
  <2>2. g[WORD_BITS] \div q = 2 * k
    BY <1>2, <1>8, <2>1
  <2>. QED  BY <1>10, <2>2 DEF g, q
<1>. QED  BY <1>9, <1>10

\* The word with the bits S has the bits S.
LEMMA BitsOfSum ==
    ASSUME NEW S \in SUBSET BitPositions, NEW v \in Int, to_u32(v) = SumOf(S)[WORD_BITS]
    PROVE  Bits(v) = S
<1>1. ASSUME NEW i \in BitPositions PROVE (to_u32(v) \div 2^i) % 2 = 1 <=> i \in S
  <2>1. 2^i = Pow[i]
    BY Powers DEF Pow, BitPositions
  <2>. QED  BY <2>1, BitOfSum
<1>. QED  BY <1>1 DEF Bits

\* The remainder by twice a number is the remainder by the number, and the
\* number once more where the quotient is odd.
LEMMA DoubleRemainder ==
    ASSUME NEW u \in Nat, NEW q \in Nat \ {0}
    PROVE  u % (2 * q) = (u % q) + (IF (u \div q) % 2 = 1 THEN q ELSE 0)
<1>. DEFINE r == u % q
            d == u \div q
            e == d \div 2
            b == d % 2
<1>1. r \in 0 .. (q - 1) /\ d \in Nat /\ u = q * d + r
  OBVIOUS
<1>. HIDE DEF r, d
<1>2. e \in Nat /\ b \in {0, 1} /\ d = 2 * e + b
  BY <1>1
<1>. HIDE DEF e, b
<1>3. CASE b = 0
  <2>1. u = r + (2 * q) * e
    BY <1>1, <1>2, <1>3
  <2>2. 2 * q \in Nat \ {0} /\ r \in 0 .. (2 * q - 1) /\ e \in Int
    BY <1>1, <1>2
  <2>3. u % (2 * q) = r
    BY <2>1, <2>2, DivisionOf
  <2>. QED  BY <1>1, <1>3, <2>3 DEF r, d, b
<1>4. CASE b = 1
  <2>1. u = (r + q) + (2 * q) * e
    BY <1>1, <1>2, <1>4
  <2>2. 2 * q \in Nat \ {0} /\ r + q \in 0 .. (2 * q - 1) /\ e \in Int
    BY <1>1, <1>2
  <2>3. u % (2 * q) = r + q
    BY <2>1, <2>2, DivisionOf
  <2>. QED  BY <1>4, <2>3 DEF r, d, b
<1>. QED  BY <1>2, <1>3, <1>4

\* The lowest bits of a word make up its remainder.
LEMMA SumOfBits ==
    ASSUME NEW v \in Int
    PROVE  /\ \A i \in 0 .. WORD_BITS : SumOf(Bits(v))[i] = to_u32(v) % Pow[i]
           /\ SumOf(Bits(v))[WORD_BITS] = to_u32(v)
           /\ Bits(v) \in SUBSET BitPositions
<1>. DEFINE u == to_u32(v)
            g == SumOf(Bits(v))
            T == {i \in 0 .. WORD_BITS : g[i] = u % Pow[i]}
<1>1. u \in Nat /\ u < Pow[WORD_BITS]
  BY Powers, IsaAssumption DEF IsaAssumption, to_u32
<1>2. g[0] = 0
  BY Sums
<1>3. ASSUME NEW i \in BitPositions
      PROVE  g[i + 1] = g[i] + (IF (u \div Pow[i]) % 2 = 1 THEN Pow[i] ELSE 0)
  <2>1. 2^i = Pow[i]
    BY Powers DEF Pow, BitPositions
  <2>2. i \in Bits(v) <=> (u \div Pow[i]) % 2 = 1
    BY <2>1 DEF Bits
  <2>. QED  BY <2>2, Sums
<1>. HIDE DEF u, g
<1>4. 0 \in T
  <2>1. 0 \in 0 .. WORD_BITS /\ Pow[0] = 1 /\ u % 1 = 0
    BY <1>1, Powers
  <2>. QED  BY <1>2, <2>1
<1>5. ASSUME NEW i \in BitPositions, i \in T PROVE i + 1 \in T
  <2>1. i \in 0 .. WORD_BITS /\ i + 1 \in 0 .. WORD_BITS
    BY Powers DEF BitPositions
  <2>2. Pow[i] \in Nat \ {0} /\ Pow[i + 1] = 2 * Pow[i] /\ g[i] = u % Pow[i]
    BY <1>5, <2>1, Powers
  <2>3. u % (2 * Pow[i]) = (u % Pow[i]) + (IF (u \div Pow[i]) % 2 = 1 THEN Pow[i] ELSE 0)
    BY <1>1, <2>2, DoubleRemainder
  <2>4. g[i + 1] = u % Pow[i + 1]
    BY <1>3, <2>2, <2>3
  <2>. QED  BY <2>1, <2>4
<1>. HIDE DEF T
<1>6. 0 .. WORD_BITS \subseteq T
  BY <1>4, <1>5, BitInduction, Zenon
<1>7. \A i \in 0 .. WORD_BITS : g[i] = u % Pow[i]
  BY <1>6 DEF T
<1>8. g[WORD_BITS] = u
  <2>1. WORD_BITS \in 0 .. WORD_BITS /\ Pow[WORD_BITS] \in Nat \ {0}
    BY Powers
  <2>. QED  BY <1>1, <1>7, <2>1
<1>. QED  BY <1>7, <1>8 DEF u, g, Bits

\* The bits of an integer make its unsigned word.
LEMMA FromBitsOf ==
    ASSUME NEW v \in Int
    PROVE  FromBits(Bits(v)) = to_u32(v)
BY SumOfBits, FromBitsIsSum

\* The sum of a set of bits of a word is a word without sign.
LEMMA SumReduced ==
    ASSUME NEW B \in SUBSET BitPositions
    PROVE  /\ SumOf(B)[WORD_BITS] \in Int
           /\ to_u32(SumOf(B)[WORD_BITS]) = SumOf(B)[WORD_BITS]
           /\ to_i32(FromBits(B)) \in Int
           /\ to_u32(to_i32(FromBits(B))) = SumOf(B)[WORD_BITS]
<1>. DEFINE g == SumOf(B)[WORD_BITS]
<1>1. FromBits(B) = g /\ g \in Unsigned
  BY FromBitsIsSum, FromBitsRange
<1>. HIDE DEF g
<1>2. g \in Int /\ to_u32(g) = g
  BY <1>1, IsaAssumption DEF IsaAssumption, Unsigned, U32_MAX, to_u32
<1>. QED  BY <1>1, <1>2, Reduces DEF g

\* NOT leaves the other bits.
LEMMA NotBits ==
    ASSUME NEW x \in Int
    PROVE  /\ NotResult(x) \in Int
           /\ to_u32(NotResult(x)) = 2 * SIGN_BIT - 1 - to_u32(x)
           /\ Bits(NotResult(x)) = BitPositions \ Bits(x)
<1>. DEFINE m == 2 * SIGN_BIT
            u == to_u32(x)
<1>1. m \in Nat \ {0} /\ u \in 0 .. (m - 1)
  BY IsaAssumption, Reduces DEF IsaAssumption
<1>2. PICK k \in Int : u = x + m * k
  BY Reduces
<1>3. -x - 1 \in Int /\ NotResult(x) \in Int /\ to_u32(NotResult(x)) = to_u32(-x - 1)
  BY Reduces DEF NotResult
<1>4. to_u32(m - 1 - u) = m - 1 - u
  <2>. DEFINE d == m - 1 - u
  <2>1. d \in 0 .. (m - 1)
    <3>. HIDE DEF m, u
    <3>. QED  BY <1>1
  <2>2. to_u32(d) = d % m
    BY DEF to_u32
  <2>3. d = m - 1 - u
    OBVIOUS
  <2>. HIDE DEF d, m, u
  <2>4. d % m = d
    BY <1>1, <2>1
  <2>. QED  BY <2>2, <2>3, <2>4
<1>5. to_u32(-x - 1) = to_u32(m - 1 - u)
  <2>1. to_u32((-x - 1) + m * (1 - k)) = to_u32(-x - 1)
    <3>1. 1 - k \in Int
      OBVIOUS
    <3>. QED  BY <1>3, <3>1, WholeTurns
  <2>2. (-x - 1) + m * (1 - k) = m - 1 - u
    <3>. HIDE DEF m, u
    <3>. QED  BY <1>1, <1>2
  <2>. QED  BY <2>1, <2>2
<1>6. to_u32(NotResult(x)) = m - 1 - u
  BY <1>3, <1>4, <1>5
<1>7. SumOf(BitPositions \ Bits(x))[WORD_BITS] = m - 1 - u
  <2>1. WORD_BITS \in 0 .. WORD_BITS /\ Pow[WORD_BITS] = m
    BY Powers
  <2>. QED  BY <2>1, SumOfRest, SumOfBits
<1>8. Bits(NotResult(x)) = BitPositions \ Bits(x)
  BY <1>3, <1>6, <1>7, BitsOfSum
<1>. QED  BY <1>3, <1>6, <1>8

\* All bits of -1 are ones.
LEMMA AllOnes == Bits(-1) = BitPositions
<1>1. Bits(0) = {}
  <2>1. to_u32(0) = SumOf({})[WORD_BITS]
    BY SumOfNone, IsaAssumption DEF IsaAssumption, to_u32
  <2>. QED  BY <2>1, BitsOfSum
<1>2. NotResult(0) = -1
  BY IsaAssumption DEF NotResult, IsaAssumption, to_i32, to_u32
<1>3. Bits(NotResult(0)) = BitPositions \ Bits(0)
  BY NotBits
<1>. QED  BY <1>1, <1>2, <1>3

\* The bitwise operations on any two words.
LEMMA BitwiseMeaning ==
    ASSUME dest \in Word, src \in Word
    PROVE  BitwiseLaws
<1>. DEFINE a == Bits(dest)
            b == Bits(src)
            sum(B) == SumOf(B)[WORD_BITS]
            con == AluResult("AND", dest, src)
            dis == AluResult("OR", dest, src)
            x == sum(a \cup b)
            y == sum(a \cap b)
<1>1. /\ dest \in Int /\ src \in Int /\ -1 \in Int
      /\ a \in SUBSET BitPositions /\ b \in SUBSET BitPositions
      /\ a \cup b \in SUBSET BitPositions /\ a \cap b \in SUBSET BitPositions
      /\ (a \cup b) \ (a \cap b) \in SUBSET BitPositions
  BY IsaAssumption DEF Word, IsaAssumption, Bits
<1>2. con = to_i32(FromBits(a \cap b)) /\ dis = to_i32(FromBits(a \cup b))
  BY DEF AluResult
<1>3. /\ con \in Int /\ to_u32(con) = y /\ y \in Int /\ to_u32(y) = y
      /\ dis \in Int /\ to_u32(dis) = x /\ x \in Int /\ to_u32(x) = x
  BY <1>1, <1>2, SumReduced
<1>4. x + y = to_u32(dest) + to_u32(src) /\ sum((a \cup b) \ (a \cap b)) = x - y
  <2>1. WORD_BITS \in 0 .. WORD_BITS
    BY Powers
  <2>2. sum(a) = to_u32(dest) /\ sum(b) = to_u32(src)
    BY <1>1, SumOfBits
  <2>3. /\ SumOf(a \cup b)[WORD_BITS] + SumOf(a \cap b)[WORD_BITS]
             = SumOf(a)[WORD_BITS] + SumOf(b)[WORD_BITS]
        /\ SumOf((a \cup b) \ (a \cap b))[WORD_BITS]
             = SumOf(a \cup b)[WORD_BITS] - SumOf(a \cap b)[WORD_BITS]
    <3>. HIDE DEF a, b
    <3>1. TotalsOfTwo(a, b)
      BY SumOfTwo
    <3>. QED  BY <3>1 DEF TotalsOfTwo
  <2>. QED  BY <2>2, <2>3
<1>5. to_i32(dis + con) = AluResult("ADD", dest, src)
  <2>1. to_u32(dis + con) = to_u32(x + y)
    <3>. HIDE DEF con, dis, x, y
    <3>. QED  BY <1>3, ReducesSums
  <2>2. to_u32(dest + src) = to_u32(to_u32(dest) + to_u32(src))
    BY <1>1, ReducesSums
  <2>3. to_u32(dis + con) = to_u32(dest + src) /\ dis + con \in Int /\ dest + src \in Int
    <3>. HIDE DEF con, dis, x, y
    <3>. QED  BY <1>1, <1>3, <1>4, <2>1, <2>2
  <2>4. AluResult("ADD", dest, src) = to_i32(dest + src)
    BY DEF AluResult
  <2>. HIDE DEF con, dis
  <2>. QED  BY <2>3, <2>4, SameWord
<1>6. AluResult("XOR", dest, src) = AluResult("SUB", dis, con)
  <2>1. to_u32(dis - con) = to_u32(x - y)
    <3>. HIDE DEF con, dis, x, y
    <3>. QED  BY <1>3, ReducesSums
  <2>2. FromBits((a \cup b) \ (a \cap b)) = x - y
    BY <1>1, <1>4, FromBitsIsSum
  <2>3. AluResult("XOR", dest, src) = to_i32(x - y)
    BY <2>2 DEF AluResult
  <2>4. AluResult("SUB", dis, con) = to_i32(dis - con)
    BY DEF AluResult
  <2>. HIDE DEF con, dis, x, y
  <2>5. x - y \in Int /\ dis - con \in Int
    BY <1>3
  <2>. QED  BY <2>1, <2>3, <2>4, <2>5, SameWord
<1>7. NotResult(dest) = AluResult("XOR", dest, -1)
  <2>1. (a \cup Bits(-1)) \ (a \cap Bits(-1)) = BitPositions \ a
    BY <1>1, AllOnes
  <2>2. AluResult("XOR", dest, -1) = to_i32(FromBits(BitPositions \ a))
    BY <2>1 DEF AluResult
  <2>3. Bits(NotResult(dest)) = BitPositions \ a /\ NotResult(dest) \in Int
    BY <1>1, NotBits
  <2>4. AluResult("XOR", dest, -1) = to_i32(to_u32(NotResult(dest)))
    BY <2>2, <2>3, FromBitsOf
  <2>5. to_u32(-dest - 1) \in Int /\ to_u32(NotResult(dest)) = to_u32(-dest - 1) /\ -dest - 1 \in Int
    BY <1>1, Reduces DEF NotResult
  <2>6. to_u32(to_u32(-dest - 1)) = to_u32(-dest - 1)
    <3>1. \A z \in Int : to_u32(to_u32(z)) = to_u32(z)
      BY IsaAssumption DEF IsaAssumption, to_u32
    <3>. QED  BY <2>5, <3>1
  <2>. QED  BY <2>4, <2>5, <2>6, SameWord DEF NotResult
<1>8. NotResult(con) = AluResult("OR", NotResult(dest), NotResult(src))
  <2>1. Bits(NotResult(dest)) = BitPositions \ a /\ Bits(NotResult(src)) = BitPositions \ b
    BY <1>1, NotBits
  <2>2. (BitPositions \ a) \cup (BitPositions \ b) = BitPositions \ (a \cap b)
    OBVIOUS
  <2>3. AluResult("OR", NotResult(dest), NotResult(src))
           = to_i32(FromBits(BitPositions \ (a \cap b)))
    BY <2>1, <2>2 DEF AluResult
  <2>4. Bits(con) = a \cap b
    BY <1>1, <1>3, BitsOfSum
  <2>5. FromBits(BitPositions \ (a \cap b)) = to_u32(NotResult(con)) /\ NotResult(con) \in Int
    BY <1>3, <2>4, NotBits, FromBitsOf
  <2>6. to_i32(to_u32(NotResult(con))) = NotResult(con)
    <3>. DEFINE w == -con - 1
    <3>1. w \in Int
      BY <1>3
    <3>. HIDE DEF w
    <3>2. to_u32(to_i32(w)) = to_u32(w) /\ to_u32(w) \in Int
      BY <3>1, Reduces
    <3>3. to_u32(to_u32(w)) = to_u32(w)
      BY <3>1, IsaAssumption DEF IsaAssumption, to_u32
    <3>4. to_i32(to_u32(w)) = to_i32(w)
      BY <3>1, <3>2, <3>3, SameWord
    <3>. QED  BY <3>2, <3>4 DEF NotResult, w
  <2>. QED  BY <2>3, <2>5, <2>6
<1>. QED  BY <1>5, <1>6, <1>7, <1>8 DEF BitwiseLaws

\* The bitwise operations agree with arithmetic at every width: the sum of AND
\* and OR, XOR as their difference, NOT and the law of De Morgan.
THEOREM BitwiseCorrect == AluSpec => []BitwiseLaws
<1>1. AluTypeOK => BitwiseLaws
  BY BitwiseMeaning DEF AluTypeOK
<1>. QED  BY <1>1, AluTypeCorrect, PTL

-----------------------------------------------------------------------------
(* Shifts.                                                                 *)

\* The bits moved up by c places.
LEMMA MovedUp ==
    ASSUME NEW a \in SUBSET BitPositions, NEW c \in BitPositions
    PROVE  LET up == {i \in BitPositions : i - c \in a}
           IN SumOf(up)[WORD_BITS] = Pow[c] * SumOf(a)[WORD_BITS - c]
<1>. DEFINE up == {i \in BitPositions : i - c \in a}
            g == SumOf(a)
            h == SumOf(up)
            T == {i \in 0 .. WORD_BITS : h[i] = IF i < c THEN 0 ELSE Pow[c] * g[i - c]}
<1>1. /\ h[0] = 0 /\ g[0] = 0
      /\ \A i \in BitPositions : h[i + 1] = h[i] + (IF i - c \in a THEN Pow[i] ELSE 0)
      /\ \A i \in BitPositions : g[i + 1] = g[i] + (IF i \in a THEN Pow[i] ELSE 0)
      /\ \A i \in 0 .. WORD_BITS : g[i] \in Int /\ Pow[i] \in Nat
  <2>1. \A i \in BitPositions : i \in up <=> i - c \in a
    OBVIOUS
  <2>2. \A i \in BitPositions : h[i + 1] = h[i] + (IF i \in up THEN Pow[i] ELSE 0)
    <3>. HIDE DEF up
    <3>. QED  BY Sums
  <2>3. h[0] = 0
    <3>. HIDE DEF up
    <3>. QED  BY Sums
  <2>4. /\ g[0] = 0
        /\ \A i \in BitPositions : g[i + 1] = g[i] + (IF i \in a THEN Pow[i] ELSE 0)
    BY Sums
  <2>5. \A i \in 0 .. WORD_BITS : g[i] \in Int /\ Pow[i] \in Nat
    BY Sums, Powers
  <2>. HIDE DEF g, h, up
  <2>. QED  BY <2>1, <2>2, <2>3, <2>4, <2>5
<1>. HIDE DEF g, h, up
<1>2. c \in Nat /\ c < WORD_BITS /\ c \in 0 .. WORD_BITS /\ WORD_BITS \in Nat /\ a \subseteq Nat
  BY Powers DEF BitPositions
<1>3. 0 \in T
  <2>1. 0 \in 0 .. WORD_BITS /\ Pow[c] * 0 = 0 /\ 0 - 0 = 0
    BY <1>1, <1>2
  <2>. QED  BY <1>1, <1>2, <2>1
<1>4. ASSUME NEW i \in BitPositions, i \in T PROVE i + 1 \in T
  <2>1. i \in 0 .. WORD_BITS /\ i + 1 \in 0 .. WORD_BITS /\ i \in Nat
    BY Powers DEF BitPositions
  <2>2. h[i] = IF i < c THEN 0 ELSE Pow[c] * g[i - c]
    BY <1>4
  <2>3. CASE i < c
    <3>1. i - c \notin a
      BY <1>2, <2>1, <2>3
    <3>2. h[i + 1] = 0
      BY <1>1, <2>2, <2>3, <3>1
    <3>3. CASE i + 1 < c
      BY <2>1, <3>2, <3>3
    <3>4. CASE i + 1 = c
      <4>1. (i + 1) - c = 0 /\ Pow[c] * 0 = 0
        BY <1>1, <1>2, <3>4
      <4>. QED  BY <1>1, <1>2, <2>1, <3>2, <3>4, <4>1
    <3>. QED  BY <1>2, <2>1, <2>3, <3>3, <3>4
  <2>4. CASE i >= c
    <3>1. /\ i - c \in BitPositions /\ i - c \in Nat /\ (i - c) + 1 = (i + 1) - c
          /\ c + (i - c) = i /\ i - c \in 0 .. WORD_BITS
      BY <1>2, <2>1, <2>4 DEF BitPositions
    <3>2. Pow[i] = Pow[c] * Pow[i - c]
      BY <1>2, <2>1, <3>1, PowersMultiply
    <3>3. g[(i + 1) - c] = g[i - c] + (IF i - c \in a THEN Pow[i - c] ELSE 0)
      BY <1>1, <3>1
    <3>4. h[i + 1] = Pow[c] * g[i - c] + (IF i - c \in a THEN Pow[c] * Pow[i - c] ELSE 0)
      <4>1. ~(i < c)
        BY <1>2, <2>1, <2>4
      <4>. QED  BY <1>1, <2>2, <4>1, <3>2
    <3>5. g[i - c] \in Int /\ Pow[i - c] \in Nat /\ Pow[c] \in Nat
      BY <1>1, <1>2, <3>1
    <3>6. \A p, x, y \in Int : p * (x + y) = p * x + p * y /\ p * (x + 0) = p * x + 0
      OBVIOUS
    <3>7. h[i + 1] = Pow[c] * g[(i + 1) - c]
      BY <3>3, <3>4, <3>5, <3>6
    <3>8. ~(i + 1 < c)
      BY <1>2, <2>1, <2>4
    <3>. QED  BY <2>1, <3>7, <3>8
  <2>. QED  BY <1>2, <2>1, <2>3, <2>4
<1>. HIDE DEF T
<1>5. 0 .. WORD_BITS \subseteq T
  BY <1>3, <1>4, BitInduction, Zenon
<1>6. WORD_BITS \in T /\ ~(WORD_BITS < c)
  BY <1>2, <1>5
<1>. QED  BY <1>6 DEF T, g, h, up

\* The bits moved down by c places.
LEMMA MovedDown ==
    ASSUME NEW a \in SUBSET BitPositions, NEW c \in BitPositions
    PROVE  LET down == {i \in BitPositions : i + c \in a}
           IN SumOf(a)[WORD_BITS] = SumOf(a)[c] + Pow[c] * SumOf(down)[WORD_BITS]
<1>. DEFINE down == {i \in BitPositions : i + c \in a}
            g == SumOf(a)
            h == SumOf(down)
            at(i) == IF i + c <= WORD_BITS THEN i + c ELSE WORD_BITS
            T == {i \in 0 .. WORD_BITS : g[at(i)] = g[c] + Pow[c] * h[i]}
<1>1. /\ h[0] = 0
      /\ \A i \in BitPositions : h[i + 1] = h[i] + (IF i + c \in a THEN Pow[i] ELSE 0)
      /\ \A i \in BitPositions : g[i + 1] = g[i] + (IF i \in a THEN Pow[i] ELSE 0)
      /\ \A i \in 0 .. WORD_BITS : g[i] \in Int /\ h[i] \in Int /\ Pow[i] \in Nat
  <2>1. \A i \in BitPositions : i \in down <=> i + c \in a
    OBVIOUS
  <2>2. /\ h[0] = 0
        /\ \A i \in BitPositions : h[i + 1] = h[i] + (IF i \in down THEN Pow[i] ELSE 0)
    <3>. HIDE DEF down
    <3>. QED  BY Sums
  <2>3. \A i \in BitPositions : g[i + 1] = g[i] + (IF i \in a THEN Pow[i] ELSE 0)
    BY Sums
  <2>4. \A i \in 0 .. WORD_BITS : g[i] \in Int /\ Pow[i] \in Nat
    BY Sums, Powers
  <2>5. \A i \in 0 .. WORD_BITS : h[i] \in Int
    BY SumInt
  <2>. HIDE DEF g, h, down
  <2>. QED  BY <2>1, <2>2, <2>3, <2>4, <2>5
<1>. HIDE DEF g, h, down
<1>2. c \in Nat /\ c < WORD_BITS /\ c \in 0 .. WORD_BITS /\ WORD_BITS \in Nat
  BY Powers DEF BitPositions
<1>3. 0 \in T
  <2>1. 0 \in 0 .. WORD_BITS /\ at(0) = c
    BY <1>2
  <2>2. g[c] = g[c] + Pow[c] * 0
    BY <1>1, <1>2
  <2>. QED  BY <1>1, <2>1, <2>2
<1>4. ASSUME NEW i \in BitPositions, i \in T PROVE i + 1 \in T
  <2>1. i \in 0 .. WORD_BITS /\ i + 1 \in 0 .. WORD_BITS /\ i \in Nat
    BY Powers DEF BitPositions
  <2>2. g[at(i)] = g[c] + Pow[c] * h[i]
    BY <1>4
  <2>3. g[c] \in Int /\ h[i] \in Int /\ Pow[i] \in Nat /\ Pow[c] \in Nat
    BY <1>1, <1>2, <2>1
  <2>4. CASE i + c < WORD_BITS
    <3>1. /\ i + c \in BitPositions /\ at(i) = i + c /\ at(i + 1) = (i + c) + 1
          /\ c + i = i + c /\ c + i <= WORD_BITS
      BY <1>2, <2>1, <2>4 DEF BitPositions
    <3>2. Pow[i + c] = Pow[c] * Pow[i]
      BY <1>2, <2>1, <3>1, PowersMultiply
    <3>3. g[at(i + 1)] = (g[c] + Pow[c] * h[i]) + (IF i + c \in a THEN Pow[c] * Pow[i] ELSE 0)
      BY <1>1, <2>2, <3>1, <3>2
    <3>4. h[i + 1] = h[i] + (IF i + c \in a THEN Pow[i] ELSE 0)
      BY <1>1
    <3>5. \A x, p, y, z \in Int : (x + p * y) + p * z = x + p * (y + z) /\ y + 0 = y
                                  /\ (x + p * y) + 0 = x + p * y
      OBVIOUS
    <3>. HIDE DEF at
    <3>6. g[at(i + 1)] = g[c] + Pow[c] * h[i + 1]
      BY <2>3, <3>3, <3>4, <3>5
    <3>. QED  BY <2>1, <3>6
  <2>5. CASE i + c >= WORD_BITS
    <3>1. i + c \notin a
      BY <1>2, <2>1, <2>5 DEF BitPositions
    <3>2. at(i + 1) = at(i)
      BY <1>2, <2>1, <2>5
    <3>3. h[i + 1] = h[i]
      BY <1>1, <2>3, <3>1
    <3>. HIDE DEF at
    <3>. QED  BY <2>1, <2>2, <3>2, <3>3
  <2>. QED  BY <1>2, <2>1, <2>4, <2>5
<1>. HIDE DEF T
<1>5. 0 .. WORD_BITS \subseteq T
  BY <1>3, <1>4, BitInduction, Zenon
<1>6. WORD_BITS \in T /\ at(WORD_BITS) = WORD_BITS
  BY <1>2, <1>5
<1>. QED  BY <1>6 DEF T, g, h, down

\* The shifts of any word, by the count in any word.
LEMMA ShiftMeaning ==
    ASSUME dest \in Word, src \in Word
    PROVE  ShiftLaws
<1>. DEFINE a == Bits(dest)
            c == ShiftCount(src)
            u == to_u32(dest)
            m == 2 * SIGN_BIT
            up == {i \in BitPositions : i - c \in a}
            down == {i \in BitPositions : i + c \in a}
<1>1. dest \in Int /\ src \in Int /\ a \in SUBSET BitPositions /\ u \in Nat
  BY IsaAssumption DEF Word, IsaAssumption, Bits, to_u32
<1>2. c \in BitPositions
  BY <1>1, Powers DEF ShiftCount, BitPositions
<1>3. /\ SumOf(a)[WORD_BITS] = u
      /\ \A i \in 0 .. WORD_BITS : SumOf(a)[i] = u % Pow[i]
  BY <1>1, SumOfBits
<1>4. up \in SUBSET BitPositions /\ down \in SUBSET BitPositions
  OBVIOUS
<1>5. ShiftLeft(dest, src) = to_i32(FromBits(up)) /\ ShiftRight(dest, src) = to_i32(FromBits(down))
  BY DEF ShiftLeft, ShiftRight
<1>6. SumOf(up)[WORD_BITS] = Pow[c] * SumOf(a)[WORD_BITS - c]
  <2>. HIDE DEF a, c
  <2>. QED  BY <1>1, <1>2, MovedUp
<1>7. SumOf(a)[WORD_BITS] = SumOf(a)[c] + Pow[c] * SumOf(down)[WORD_BITS]
  <2>. HIDE DEF a, c
  <2>. QED  BY <1>1, <1>2, MovedDown
<1>8. 2^(src % WORD_BITS) = Pow[c]
  BY <1>2, Powers DEF Pow, ShiftCount, BitPositions
<1>. HIDE DEF a, up, down, c, u
<1>9. /\ c \in Nat /\ WORD_BITS - c \in Nat /\ c + (WORD_BITS - c) = WORD_BITS
      /\ c \in 0 .. WORD_BITS /\ WORD_BITS - c \in 0 .. WORD_BITS
  BY <1>2, Powers DEF BitPositions
<1>10. Pow[c] \in Nat \ {0} /\ Pow[WORD_BITS - c] \in Nat \ {0}
  BY <1>9, Powers
<1>11. FromBits(up) = SumOf(up)[WORD_BITS] /\ FromBits(down) = SumOf(down)[WORD_BITS]
  BY <1>4, FromBitsIsSum
<1>12. SumOf(down)[WORD_BITS] \in Int /\ SumOf(up)[WORD_BITS] \in Int
  BY <1>4, SumReduced
<1>13. u \div Pow[c] = FromBits(down)
  <2>. DEFINE d == Pow[c]
              r == SumOf(a)[c]
              n == SumOf(down)[WORD_BITS]
  <2>1. d \in Nat \ {0} /\ n \in Int /\ r = u % d /\ u = r + d * n
    BY <1>3, <1>7, <1>9, <1>10, <1>12
  <2>. HIDE DEF d, r, n
  <2>2. r \in 0 .. (d - 1)
    BY <1>1, <2>1
  <2>3. u \div d = n
    BY <2>1, <2>2, DivisionOf
  <2>. QED  BY <2>3, <1>11 DEF d, n
<1>14. to_i32(FromBits(up)) = to_i32(dest * Pow[c])
  <2>. DEFINE p == Pow[c]
              q == Pow[WORD_BITS - c]
              k == u \div q
              r == u % q
  <2>1. p \in Nat /\ q \in Nat \ {0} /\ p * q = m
    BY <1>9, <1>10, PowersMultiply, Powers
  <2>2. FromBits(up) = p * r
    BY <1>3, <1>6, <1>9, <1>11
  <2>. HIDE DEF p, q, m
  <2>3. k \in Int /\ r \in Int /\ u = q * k + r
    BY <1>1, <2>1
  <2>. HIDE DEF k, r
  <2>4. u * p = p * r + m * k
    <3>1. u * p = p * r + (p * q) * k
      BY <1>1, <2>1, <2>3
    <3>. QED  BY <2>1, <3>1
  <2>5. p * r \in Int /\ u * p \in Int /\ dest * p \in Int /\ p \in Int
    BY <1>1, <2>1, <2>3
  <2>6. to_u32(u * p) = to_u32(p * r)
    BY <2>3, <2>4, <2>5, WholeTurns DEF m
  <2>7. to_u32(dest * p) = to_u32(u * p)
    BY <1>1, <2>5, ReducesSums DEF u
  <2>8. to_i32(p * r) = to_i32(dest * p)
    BY <2>5, <2>6, <2>7, SameWord
  <2>. QED  BY <2>2, <2>8 DEF p
<1>15. /\ AluResult("SHL", dest, src) = ShiftLeft(dest, src)
       /\ AluResult("SHR", dest, src) = ShiftRight(dest, src)
  BY DEF AluResult
<1>. QED  BY <1>5, <1>8, <1>13, <1>14, <1>15 DEF ShiftLaws, u

\* At every width SHL multiplies by a power of two and SHR divides the
\* unsigned word by one, the count taken modulo the width.
THEOREM ShiftsCorrect == AluSpec => []ShiftLaws
<1>1. AluTypeOK => ShiftLaws
  BY ShiftMeaning DEF AluTypeOK
<1>. QED  BY <1>1, AluTypeCorrect, PTL
=============================================================================
