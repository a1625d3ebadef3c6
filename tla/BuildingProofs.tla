---------------------------- MODULE BuildingProofs ----------------------------
(***************************************************************************)
(* What an AssemblyBuilder builds is the program that was added to it.     *)
(***************************************************************************)
EXTENDS Building, BinaryProofs

-----------------------------------------------------------------------------
(* Counting the instructions of a sequence of elements.                    *)

\* How many instructions precede the k-th element.
Count(elements, k) == Cardinality({j \in 1 .. (k - 1) : ~IsLabel(elements[j])})

\* The places of the instructions.
InstrPlaces(elements) == {k \in DOMAIN elements : ~IsLabel(elements[k])}

LEMMA CountStep ==
    ASSUME NEW elements, NEW k \in Nat \ {0}
    PROVE  /\ Count(elements, k) \in Nat /\ Count(elements, 1) = 0
           /\ Count(elements, k + 1) =
                 Count(elements, k) + IF IsLabel(elements[k]) THEN 0 ELSE 1
<1>. DEFINE C(m) == {j \in 1 .. (m - 1) : ~IsLabel(elements[j])}
<1>1. IsFiniteSet(C(k)) /\ Cardinality(C(k)) \in Nat
  <2>1. IsFiniteSet(1 .. (k - 1))
    BY FS_Interval
  <2>2. C(k) \subseteq 1 .. (k - 1)
    OBVIOUS
  <2>. HIDE DEF C
  <2>. QED  BY <2>1, <2>2, FS_Subset, FS_CardinalityType
<1>2. C(1) = {} /\ Cardinality({}) = 0
  BY FS_EmptySet
<1>3. CASE IsLabel(elements[k])
  <2>1. C(k + 1) = C(k)
    BY <1>3
  <2>. HIDE DEF C
  <2>. QED  BY <1>1, <1>2, <1>3, <2>1 DEF Count, C
<1>4. CASE ~IsLabel(elements[k])
  <2>1. C(k + 1) = C(k) \cup {k} /\ k \notin C(k)
    BY <1>4
  <2>. HIDE DEF C
  <2>2. Cardinality(C(k + 1)) = Cardinality(C(k)) + 1
    BY <1>1, <2>1, FS_AddElement
  <2>. QED  BY <1>1, <1>2, <1>4, <2>2 DEF Count, C
<1>. QED  BY <1>3, <1>4

\* An instruction before another one is counted by it.
LEMMA CountGrows ==
    ASSUME NEW elements, NEW k \in Nat \ {0}, NEW m \in Nat \ {0}, k < m, ~IsLabel(elements[k])
    PROVE  Count(elements, k) + 1 <= Count(elements, m)
<1>. DEFINE T == {i \in (k + 1) .. m : Count(elements, k) + 1 <= Count(elements, i)}
<1>1. k + 1 \in T
  BY CountStep
<1>2. ASSUME NEW i \in (k + 1) .. (m - 1), i \in T PROVE i + 1 \in T
  <2>1. i \in Nat \ {0} /\ i + 1 \in (k + 1) .. m
    OBVIOUS
  <2>2. /\ Count(elements, i) \in Nat /\ Count(elements, k) \in Nat
        /\ Count(elements, i + 1) = Count(elements, i) + IF IsLabel(elements[i]) THEN 0 ELSE 1
    BY <2>1, CountStep
  <2>3. Count(elements, i) <= Count(elements, i + 1)
    BY <2>2
  <2>4. Count(elements, k) + 1 <= Count(elements, i)
    BY <1>2
  <2>. QED  BY <2>1, <2>2, <2>3, <2>4
<1>3. k + 1 \in Int /\ m \in Int
  OBVIOUS
<1>. HIDE DEF T
<1>4. (k + 1) .. m \subseteq T
  BY <1>1, <1>2, <1>3, InductionUpTo, Zenon
<1>5. m \in T
  BY <1>4
<1>. QED  BY <1>5 DEF T

\* No two instructions are counted alike.
LEMMA CountIsInjective ==
    ASSUME NEW elements, NEW k \in Nat \ {0}, NEW m \in Nat \ {0},
           ~IsLabel(elements[k]), ~IsLabel(elements[m]),
           Count(elements, k) = Count(elements, m)
    PROVE  k = m
<1>1. Count(elements, k) \in Nat /\ Count(elements, m) \in Nat
  BY CountStep
<1>2. CASE k < m
  BY <1>1, <1>2, CountGrows
<1>3. CASE m < k
  BY <1>1, <1>3, CountGrows
<1>. QED  BY <1>2, <1>3

\* Elements that agree on the places of the labels are counted alike.
LEMMA CountAgrees ==
    ASSUME NEW a, NEW b, NEW k \in Nat,
           \A j \in 1 .. (k - 1) : IsLabel(a[j]) <=> IsLabel(b[j])
    PROVE  Count(a, k) = Count(b, k)
<1>1. {j \in 1 .. (k - 1) : ~IsLabel(a[j])} = {j \in 1 .. (k - 1) : ~IsLabel(b[j])}
  OBVIOUS
<1>. QED  BY <1>1 DEF Count

\* The instructions collected from the first m elements stand where they are
\* counted.
Collected(code, El, elements, m) ==
    /\ code \in Seq(El) /\ Len(code) = Count(elements, m + 1)
    /\ \A k \in 1 .. m : ~IsLabel(elements[k]) => code[Count(elements, k) + 1] = elements[k]
    /\ \A i \in 1 .. Len(code) :
          \E k \in 1 .. m : ~IsLabel(elements[k]) /\ i = Count(elements, k) + 1

LEMMA CollectNext ==
    ASSUME NEW El, NEW elements \in Seq(El), NEW m \in Nat, m + 1 \in 1 .. Len(elements),
           NEW code, Collected(code, El, elements, m)
    PROVE  Collected(IF IsLabel(elements[m + 1]) THEN code ELSE Append(code, elements[m + 1]),
                     El, elements, m + 1)
<1>. DEFINE e == elements[m + 1]
            C(k) == Count(elements, k)
<1>1. /\ code \in Seq(El) /\ Len(code) = C(m + 1)
      /\ \A k \in 1 .. m : ~IsLabel(elements[k]) => code[C(k) + 1] = elements[k]
      /\ \A i \in 1 .. Len(code) : \E k \in 1 .. m : ~IsLabel(elements[k]) /\ i = C(k) + 1
  BY DEF Collected
<1>2. e \in El
  OBVIOUS
<1>3. C(m + 1) \in Nat /\ C((m + 1) + 1) = C(m + 1) + IF IsLabel(e) THEN 0 ELSE 1
  BY CountStep
<1>4. ASSUME NEW k \in 1 .. m, ~IsLabel(elements[k]) PROVE C(k) + 1 \in 1 .. C(m + 1)
  <2>1. k \in Nat \ {0} /\ m + 1 \in Nat \ {0} /\ k < m + 1
    OBVIOUS
  <2>2. C(k) + 1 <= C(m + 1)
    BY <1>4, <2>1, CountGrows
  <2>3. C(k) \in Nat
    BY <2>1, CountStep
  <2>. HIDE DEF C
  <2>. QED  BY <1>3, <2>2, <2>3
<1>5. CASE IsLabel(e)
  <2>. HIDE DEF C, e
  <2>1. ASSUME NEW k \in 1 .. (m + 1), ~IsLabel(elements[k])
        PROVE  code[C(k) + 1] = elements[k]
    <3>1. k # m + 1
      BY <1>5, <2>1 DEF e
    <3>2. k \in 1 .. m
      BY <3>1
    <3>. QED  BY <1>1, <2>1, <3>2
  <2>2. ASSUME NEW i \in 1 .. Len(code)
        PROVE  \E k \in 1 .. (m + 1) : ~IsLabel(elements[k]) /\ i = C(k) + 1
    <3>1. PICK k \in 1 .. m : ~IsLabel(elements[k]) /\ i = C(k) + 1
      BY <1>1
    <3>. QED  BY <3>1
  <2>3. Len(code) = C((m + 1) + 1)
    BY <1>1, <1>3, <1>5
  <2>. QED  BY <1>1, <1>5, <2>1, <2>2, <2>3 DEF Collected, C, e
<1>6. CASE ~IsLabel(e)
  <2>. DEFINE next == Append(code, e)
  <2>1. /\ next \in Seq(El) /\ Len(next) = C(m + 1) + 1
        /\ \A i \in 1 .. C(m + 1) : next[i] = code[i]
        /\ next[C(m + 1) + 1] = e
    BY <1>1, <1>2, AppendParts
  <2>. HIDE DEF C, e, next
  <2>2. ASSUME NEW k \in 1 .. (m + 1), ~IsLabel(elements[k])
        PROVE  next[C(k) + 1] = elements[k]
    <3>1. CASE k = m + 1
      BY <2>1, <3>1 DEF e
    <3>2. CASE k # m + 1
      <4>1. k \in 1 .. m
        BY <3>2
      <4>2. C(k) + 1 \in 1 .. C(m + 1) /\ code[C(k) + 1] = elements[k]
        BY <1>1, <1>4, <2>2, <4>1
      <4>. QED  BY <2>1, <4>2
    <3>. QED  BY <3>1, <3>2
  <2>3. ASSUME NEW i \in 1 .. Len(next)
        PROVE  \E k \in 1 .. (m + 1) : ~IsLabel(elements[k]) /\ i = C(k) + 1
    <3>1. CASE i = C(m + 1) + 1
      <4>1. m + 1 \in 1 .. (m + 1) /\ ~IsLabel(elements[m + 1])
        BY <1>6 DEF e
      <4>. QED  BY <3>1, <4>1
    <3>2. CASE i # C(m + 1) + 1
      <4>1. i \in 1 .. Len(code)
        BY <1>1, <1>3, <2>1, <3>2
      <4>2. PICK k \in 1 .. m : ~IsLabel(elements[k]) /\ i = C(k) + 1
        BY <1>1, <4>1
      <4>. QED  BY <4>2
    <3>. QED  BY <3>1, <3>2
  <2>4. Len(next) = C((m + 1) + 1)
    BY <1>3, <1>6, <2>1
  <2>. QED  BY <1>6, <2>1, <2>2, <2>3, <2>4 DEF Collected, C, e, next
<1>. QED  BY <1>5, <1>6

LEMMA InstructionsAre ==
    ASSUME NEW El, NEW elements \in Seq(El)
    PROVE  Collected(InstructionsOf(elements), El, elements, Len(elements))
<1>. DEFINE n == Len(elements)
            Found(f) == f = [k \in 0 .. n |->
                               IF k = 0 THEN <<>>
                               ELSE IF IsLabel(elements[k]) THEN f[k - 1]
                               ELSE Append(f[k - 1], elements[k])]
            step == [k \in 1 .. n |-> [c \in Seq(El) |->
                       IF IsLabel(elements[k]) THEN c ELSE Append(c, elements[k])]]
            found == CHOOSE f : Found(f)
<1>0. n \in Nat /\ \A k \in 1 .. n : elements[k] \in El
  OBVIOUS
<1>1. \E f : Found(f)
  <2>. HIDE DEF n
  <2>1. ASSUME NEW k \in 1 .. n PROVE step[k] \in [Seq(El) -> Seq(El)]
    <3>1. elements[k] \in El
      BY <1>0
    <3>. QED  BY <3>1
  <2>2. step \in [(0 + 1) .. n -> [Seq(El) -> Seq(El)]] /\ <<>> \in Seq(El)
    BY <2>1
  <2>. HIDE DEF step
  <2>3. PICK f : Recursive(f, 0, n, Seq(El), <<>>, step)
    <3>1. 0 \in Int /\ n \in Int
      BY <1>0
    <3>. QED  BY <2>2, <3>1, Recursion
  <2>4. f \in [0 .. n -> Seq(El)] /\ f[0] = <<>>
    BY <1>0, <2>3 DEF Recursive
  <2>5. ASSUME NEW k \in 1 .. n
        PROVE  f[k] = IF IsLabel(elements[k]) THEN f[k - 1] ELSE Append(f[k - 1], elements[k])
    <3>1. k - 1 \in 0 .. n /\ f[k] = step[k][f[k - 1]]
      BY <1>0, <2>3 DEF Recursive
    <3>. QED  BY <2>4, <3>1 DEF step
  <2>6. Found(f)
    <3>1. ASSUME NEW k \in 0 .. n
          PROVE  f[k] = IF k = 0 THEN <<>>
                        ELSE IF IsLabel(elements[k]) THEN f[k - 1]
                        ELSE Append(f[k - 1], elements[k])
      <4>1. k # 0 => k \in 1 .. n
        BY <1>0
      <4>. QED  BY <2>4, <2>5, <4>1
    <3>2. f = [k \in 0 .. n |-> f[k]]
      BY <2>4
    <3>. QED  BY <3>1, <3>2
  <2>. QED  BY <2>6
<1>2. InstructionsOf(elements) = found[n]
  BY DEF InstructionsOf
<1>3. Found(found)
  <2>. HIDE DEF Found
  <2>. QED  BY <1>1
<1>. HIDE DEF found, n
<1>4. found[0] = <<>> /\ \A k \in 1 .. n : found[k] = IF IsLabel(elements[k]) THEN found[k - 1]
                                                      ELSE Append(found[k - 1], elements[k])
  <2>1. 0 \in 0 .. n /\ \A k \in 1 .. n : k \in 0 .. n /\ k # 0
    BY <1>0
  <2>. QED  BY <1>3, <2>1
<1>. HIDE DEF Found
<1>. DEFINE T == {m \in 0 .. n : Collected(found[m], El, elements, m)}
<1>5. 0 \in T
  <2>1. Count(elements, 0 + 1) = 0
    <3>1. 1 \in Nat \ {0} /\ 0 + 1 = 1
      OBVIOUS
    <3>. QED  BY <3>1, CountStep
  <2>2. Collected(<<>>, El, elements, 0)
    BY <2>1 DEF Collected
  <2>. QED  BY <1>0, <1>4, <2>2
<1>6. ASSUME NEW m \in 0 .. (n - 1), m \in T PROVE m + 1 \in T
  <2>1. m \in Nat /\ m + 1 \in 1 .. n /\ m + 1 \in 0 .. n /\ (m + 1) - 1 = m
    BY <1>0
  <2>2. found[m + 1] = IF IsLabel(elements[m + 1]) THEN found[m]
                       ELSE Append(found[m], elements[m + 1])
    BY <1>4, <2>1
  <2>3. Collected(found[m], El, elements, m)
    BY <1>6
  <2>4. Collected(found[m + 1], El, elements, m + 1)
    BY <2>1, <2>2, <2>3, CollectNext DEF n
  <2>. QED  BY <2>1, <2>4
<1>. HIDE DEF T
<1>7. 0 .. n \subseteq T
  <2>1. 0 \in Int /\ n \in Int
    BY <1>0
  <2>. QED  BY <1>5, <1>6, <2>1, InductionUpTo, Zenon
<1>8. n \in T
  <2>1. n \in 0 .. n
    BY <1>0
  <2>. QED  BY <1>7, <2>1
<1>. QED  BY <1>2, <1>8 DEF T, n

-----------------------------------------------------------------------------
(* Offsets.                                                                *)

\* The offsets of the elements of a program that begins at 0.
SizeOfElement(e) == IF IsLabel(e) THEN 0 ELSE Len(encode_instruction(e.instr))
AreOffsets(offset, elements) ==
    /\ offset[1] = 0
    /\ \A k \in 1 .. Len(elements) : offset[k + 1] = offset[k] + SizeOfElement(elements[k])

LEMMA OffsetsAre ==
    ASSUME NEW El, NEW elements \in Seq(El),
           \A k \in 1 .. Len(elements) : SizeOfElement(elements[k]) \in Nat
    PROVE  AreOffsets(ElementOffset(elements, 0), elements)
<1>. DEFINE n == Len(elements)
            Found(f) == f = [k \in 1 .. (n + 1) |->
                               IF k = 1 THEN 0
                               ELSE f[k - 1] + IF IsLabel(elements[k - 1]) THEN 0
                                               ELSE Len(encode_instruction(elements[k - 1].instr))]
            step == [k \in 2 .. (n + 1) |-> [o \in Nat |-> o + SizeOfElement(elements[k - 1])]]
            found == CHOOSE f : Found(f)
<1>0. n \in Nat /\ \A k \in 1 .. n : SizeOfElement(elements[k]) \in Nat
  OBVIOUS
<1>1. \E f : Found(f)
  <2>. HIDE DEF n
  <2>1. ASSUME NEW k \in 2 .. (n + 1) PROVE step[k] \in [Nat -> Nat]
    <3>1. k - 1 \in 1 .. n
      BY <1>0
    <3>2. SizeOfElement(elements[k - 1]) \in Nat
      BY <1>0, <3>1
    <3>. QED  BY <3>2
  <2>2. step \in [(1 + 1) .. (n + 1) -> [Nat -> Nat]] /\ 0 \in Nat
    <3>1. 1 + 1 = 2
      OBVIOUS
    <3>. QED  BY <2>1, <3>1
  <2>. HIDE DEF step
  <2>3. PICK f : Recursive(f, 1, n + 1, Nat, 0, step)
    <3>1. 1 \in Int /\ n + 1 \in Int
      BY <1>0
    <3>. QED  BY <2>2, <3>1, Recursion
  <2>4. f \in [1 .. (n + 1) -> Nat] /\ f[1] = 0
    BY <1>0, <2>3 DEF Recursive
  <2>5. ASSUME NEW k \in 2 .. (n + 1)
        PROVE  f[k] = f[k - 1] + SizeOfElement(elements[k - 1])
    <3>1. k - 1 \in 1 .. (n + 1) /\ k \in (1 + 1) .. (n + 1)
      BY <1>0
    <3>2. f[k] = step[k][f[k - 1]] /\ f[k - 1] \in Nat
      BY <2>3, <2>4, <3>1 DEF Recursive
    <3>. QED  BY <3>2 DEF step
  <2>6. Found(f)
    <3>1. ASSUME NEW k \in 1 .. (n + 1)
          PROVE  f[k] = IF k = 1 THEN 0
                        ELSE f[k - 1] + IF IsLabel(elements[k - 1]) THEN 0
                                        ELSE Len(encode_instruction(elements[k - 1].instr))
      <4>1. k # 1 => k \in 2 .. (n + 1)
        BY <1>0
      <4>. QED  BY <2>4, <2>5, <4>1 DEF SizeOfElement
    <3>2. f = [k \in 1 .. (n + 1) |-> f[k]]
      BY <2>4
    <3>. QED  BY <3>1, <3>2
  <2>. QED  BY <2>6
<1>2. ElementOffset(elements, 0) = found
  BY DEF ElementOffset
<1>3. Found(found)
  <2>. HIDE DEF Found
  <2>. QED  BY <1>1
<1>. HIDE DEF found, n
<1>4. found[1] = 0
  <2>1. 1 \in 1 .. (n + 1)
    BY <1>0
  <2>. QED  BY <1>3, <2>1
<1>5. ASSUME NEW k \in 1 .. n PROVE found[k + 1] = found[k] + SizeOfElement(elements[k])
  <2>1. k + 1 \in 1 .. (n + 1) /\ k + 1 # 1 /\ (k + 1) - 1 = k
    BY <1>0
  <2>2. found[k + 1] = found[(k + 1) - 1] +
            IF IsLabel(elements[(k + 1) - 1]) THEN 0
            ELSE Len(encode_instruction(elements[(k + 1) - 1].instr))
    BY <1>3, <2>1
  <2>. QED  BY <2>1, <2>2 DEF SizeOfElement
<1>. QED  BY <1>2, <1>4, <1>5 DEF AreOffsets, n

\* Elements of at most 14 bytes are placed within 14 times their number.
LEMMA OffsetBounds ==
    ASSUME NEW El, NEW elements \in Seq(El), NEW offset, AreOffsets(offset, elements),
           \A k \in 1 .. Len(elements) : SizeOfElement(elements[k]) \in 0 .. 14
    PROVE  \A k \in 1 .. (Len(elements) + 1) : offset[k] \in 0 .. (14 * Len(elements))
<1>. DEFINE n == Len(elements)
            T == {k \in 1 .. (n + 1) : offset[k] \in 0 .. (14 * (k - 1))}
<1>0. n \in Nat
  OBVIOUS
<1>1. /\ offset[1] = 0
      /\ \A k \in 1 .. n : offset[k + 1] = offset[k] + SizeOfElement(elements[k])
      /\ \A k \in 1 .. n : SizeOfElement(elements[k]) \in 0 .. 14
  BY DEF AreOffsets
<1>. HIDE DEF n
<1>2. 1 \in T
  BY <1>0, <1>1
<1>3. ASSUME NEW k \in 1 .. ((n + 1) - 1), k \in T PROVE k + 1 \in T
  <2>1. k \in 1 .. n /\ k + 1 \in 1 .. (n + 1) /\ (k + 1) - 1 = k
    BY <1>0
  <2>2. offset[k + 1] = offset[k] + SizeOfElement(elements[k])
        /\ SizeOfElement(elements[k]) \in 0 .. 14 /\ offset[k] \in 0 .. (14 * (k - 1))
    BY <1>1, <1>3, <2>1
  <2>3. ASSUME NEW o \in Int, NEW s \in Int, 0 <= o, o <= 14 * (k - 1), 0 <= s, s <= 14
        PROVE  o + s \in 0 .. (14 * k)
    <3>1. k \in Int /\ 14 * (k - 1) = (14 * k) - 14 /\ 14 * k \in Int
      BY <1>0
    <3>2. 0 <= o + s /\ o + s <= 14 * k /\ o + s \in Int
      BY <2>3, <3>1
    <3>. QED  BY <3>1, <3>2
  <2>4. /\ offset[k] \in Int /\ 0 <= offset[k] /\ offset[k] <= 14 * (k - 1)
        /\ SizeOfElement(elements[k]) \in Int
        /\ 0 <= SizeOfElement(elements[k]) /\ SizeOfElement(elements[k]) <= 14
    BY <2>1, <2>2
  <2>5. offset[k] + SizeOfElement(elements[k]) \in 0 .. (14 * k)
    BY <2>3, <2>4
  <2>6. offset[k + 1] \in 0 .. (14 * k)
    BY <2>2, <2>5
  <2>. QED  BY <2>1, <2>6
<1>4. 1 \in Int /\ n + 1 \in Int
  BY <1>0
<1>. HIDE DEF T
<1>5. 1 .. (n + 1) \subseteq T
  BY <1>2, <1>3, <1>4, InductionUpTo, Zenon
<1>6. ASSUME NEW k \in 1 .. (n + 1) PROVE offset[k] \in 0 .. (14 * n)
  <2>1. offset[k] \in 0 .. (14 * (k - 1))
    BY <1>5 DEF T
  <2>. QED  BY <1>0, <2>1
<1>. QED  BY <1>6 DEF n

-----------------------------------------------------------------------------
(* The length of an instruction.                                           *)

\* The kinds of its operands decide it.
LEMMA KindsDecideLength ==
    ASSUME NEW i \in EncodableInstruction, NEW j \in EncodableInstruction,
           Len(i.operands) = Len(j.operands),
           \A p \in 1 .. Len(i.operands) : i.operands[p].kind = j.operands[p].kind
    PROVE  Len(encode_instruction(i)) = Len(encode_instruction(j))
<1>. DEFINE n == Len(i.operands)
<1>1. i.operands \in Seq(Operand) /\ j.operands \in Seq(Operand) /\ n \in Nat
  BY DEF EncodableInstruction
<1>2. EncodedOperands(i) \in Seq(Seq(Byte)) /\ EncodedOperands(j) \in Seq(Seq(Byte))
  BY EncodedOperandsType
<1>3. PICK f : Joins(EncodedOperands(i), f)
  BY <1>2, JoinExists
<1>4. PICK g : Joins(EncodedOperands(j), g)
  BY <1>2, JoinExists
<1>5. /\ Len(EncodedOperands(i)) = n /\ Len(EncodedOperands(j)) = n
      /\ Len(encode_instruction(i)) = 2 + Len(f[n])
      /\ Len(encode_instruction(j)) = 2 + Len(g[n])
  BY <1>3, <1>4, InstructionBytes
<1>6. ASSUME NEW p \in 1 .. n
      PROVE  Len(EncodedOperands(i)[p]) = Len(EncodedOperands(j)[p])
  <2>1. i.operands[p] \in Operand /\ j.operands[p] \in Operand
    BY <1>1
  <2>2. EncodedOperands(i)[p] = encode_operand(i.operands[p])
        /\ EncodedOperands(j)[p] = encode_operand(j.operands[p])
    BY <1>1 DEF EncodedOperands
  <2>. QED  BY <2>1, <2>2, OperandLength
<1>7. /\ f[0] = <<>> /\ g[0] = <<>>
      /\ \A p \in 1 .. n : Len(f[p]) = Len(f[p - 1]) + Len(EncodedOperands(i)[p])
      /\ \A p \in 1 .. n : Len(g[p]) = Len(g[p - 1]) + Len(EncodedOperands(j)[p])
  <2>. HIDE DEF n
  <2>. DEFINE q == EncodedOperands(i)
              r == EncodedOperands(j)
  <2>0. q \in Seq(Seq(Byte)) /\ r \in Seq(Seq(Byte)) /\ Joins(q, f) /\ Joins(r, g)
        /\ Len(q) = n /\ Len(r) = n
    BY <1>2, <1>3, <1>4, <1>5
  <2>. HIDE DEF q, r
  <2>1. \A p \in 1 .. n : Len(f[p]) = Len(f[p - 1]) + Len(q[p])
    BY <2>0, JoinGrows
  <2>2. \A p \in 1 .. n : Len(g[p]) = Len(g[p - 1]) + Len(r[p])
    BY <2>0, JoinGrows
  <2>3. f[0] = <<>> /\ g[0] = <<>>
    BY <2>0 DEF Joins
  <2>. QED  BY <2>1, <2>2, <2>3 DEF q, r
<1>. HIDE DEF n
<1>. DEFINE T == {p \in 0 .. n : Len(f[p]) = Len(g[p])}
<1>8. 0 \in T
  BY <1>1, <1>7
<1>9. ASSUME NEW p \in 0 .. (n - 1), p \in T PROVE p + 1 \in T
  <2>1. p + 1 \in 1 .. n /\ p + 1 \in 0 .. n /\ (p + 1) - 1 = p
    BY <1>1
  <2>2. Len(f[p + 1]) = Len(f[p]) + Len(EncodedOperands(i)[p + 1])
        /\ Len(g[p + 1]) = Len(g[p]) + Len(EncodedOperands(j)[p + 1])
    BY <1>7, <2>1
  <2>. QED  BY <1>6, <1>9, <2>1, <2>2
<1>10. 0 \in Int /\ n \in Int
  BY <1>1
<1>. HIDE DEF T
<1>11. 0 .. n \subseteq T
  BY <1>8, <1>9, <1>10, InductionUpTo, Zenon
<1>12. Len(f[n]) = Len(g[n])
  <2>1. n \in 0 .. n
    BY <1>1
  <2>. QED  BY <1>11, <2>1 DEF T
<1>. QED  BY <1>5, <1>12

\* With two operands it is at most 14.
LEMMA ShortInstructions ==
    ASSUME NEW i \in EncodableInstruction, Len(i.operands) <= 2
    PROVE  Len(encode_instruction(i)) \in 0 .. 14
<1>. DEFINE n == Len(i.operands)
            q == EncodedOperands(i)
<1>1. i.operands \in Seq(Operand) /\ n \in Nat /\ n <= 2
  BY DEF EncodableInstruction
<1>2. q \in Seq(Seq(Byte))
  BY EncodedOperandsType
<1>3. PICK f : Joins(q, f)
  BY <1>2, JoinExists
<1>4. Len(q) = n /\ Len(encode_instruction(i)) = 2 + Len(f[n])
  BY <1>3, InstructionBytes
<1>5. ASSUME NEW p \in 1 .. n PROVE Len(q[p]) \in 0 .. 6
  <2>1. i.operands[p] \in Operand
    BY <1>1
  <2>2. q[p] = encode_operand(i.operands[p])
    BY <1>1 DEF EncodedOperands
  <2>3. Len(q[p]) = 1 + PayloadSize(i.operands[p].kind) /\ PayloadSize(i.operands[p].kind) \in 1 .. 5
    BY <2>1, <2>2, OperandLength, OperandBytes
  <2>. QED  BY <2>3
<1>6. f[0] = <<>> /\ \A p \in 1 .. n : Len(f[p]) = Len(f[p - 1]) + Len(q[p])
  <2>. HIDE DEF n, q
  <2>1. \A p \in 1 .. n : Len(f[p]) = Len(f[p - 1]) + Len(q[p])
    BY <1>2, <1>3, <1>4, JoinGrows
  <2>2. f[0] = <<>>
    BY <1>3 DEF Joins
  <2>. QED  BY <2>1, <2>2
<1>. HIDE DEF n, q
<1>7. Len(f[0]) = 0
  BY <1>6
<1>8. n >= 1 => Len(f[1]) \in 0 .. 6
  <2>. SUFFICES ASSUME n >= 1 PROVE Len(f[1]) \in 0 .. 6
    OBVIOUS
  <2>1. 1 \in 1 .. n /\ 1 - 1 = 0
    BY <1>1
  <2>2. Len(f[1]) = Len(f[0]) + Len(q[1])
    BY <1>6, <2>1
  <2>. QED  BY <1>5, <1>7, <2>1, <2>2
<1>9. n = 2 => Len(f[2]) \in 0 .. 12
  <2>. SUFFICES ASSUME n = 2 PROVE Len(f[2]) \in 0 .. 12
    OBVIOUS
  <2>1. 2 \in 1 .. n /\ 2 - 1 = 1
    BY <1>1
  <2>2. Len(f[2]) = Len(f[1]) + Len(q[2])
    BY <1>6, <2>1
  <2>3. Len(f[1]) \in 0 .. 6 /\ Len(q[2]) \in 0 .. 6
    BY <1>5, <1>8, <2>1
  <2>. DEFINE a == Len(f[1])
              b == Len(q[2])
  <2>4. a \in 0 .. 6 /\ b \in 0 .. 6 /\ Len(f[2]) = a + b
    BY <2>2, <2>3
  <2>. HIDE DEF a, b
  <2>. QED  BY <2>4
<1>10. n = 0 \/ n = 1 \/ n = 2
  BY <1>1
<1>11. Len(f[n]) \in 0 .. 12
  <2>1. CASE n = 0
    BY <1>7, <2>1
  <2>2. CASE n = 1
    BY <1>8, <2>2
  <2>3. CASE n = 2
    BY <1>9, <2>3
  <2>. QED  BY <1>10, <2>1, <2>2, <2>3
<1>. DEFINE size == Len(encode_instruction(i))
            rest == Len(f[n])
<1>12. size = 2 + rest /\ rest \in 0 .. 12
  BY <1>4, <1>11
<1>. HIDE DEF size, rest
<1>13. size \in 0 .. 14
  BY <1>12
<1>. QED  BY <1>13 DEF size

-----------------------------------------------------------------------------
(* References.                                                             *)

\* The references of one instruction, and of all instructions of a listing.
RefRecord == [instr : Nat, operand : Nat, label : Names]
RefSet(index, ops, places) ==
    {[instr |-> index, operand |-> p, label |-> ops[p].ref] : p \in {q \in places : IsRef(ops[q])}}
AllRefs(list) ==
    UNION {RefSet(Count(list, k) + 1, list[k].operands, DOMAIN list[k].operands) :
              k \in InstrPlaces(list)}

LEMMA RangeOfAppend ==
    ASSUME NEW S, NEW s \in Seq(S), NEW x \in S
    PROVE  Range(Append(s, x)) = Range(s) \cup {x}
<1>. DEFINE t == Append(s, x)
            n == Len(s)
<1>1. /\ n \in Nat /\ t \in Seq(S) /\ Len(t) = n + 1 /\ DOMAIN s = 1 .. n
      /\ \A i \in 1 .. n : t[i] = s[i]
      /\ t[n + 1] = x
  BY AppendParts
<1>. HIDE DEF t, n
<1>2. DOMAIN t = 1 .. (n + 1)
  BY <1>1
<1>3. ASSUME NEW y \in Range(t) PROVE y \in Range(s) \cup {x}
  <2>1. PICK i \in 1 .. (n + 1) : y = t[i]
    BY <1>2, <1>3 DEF Range
  <2>2. CASE i = n + 1
    BY <1>1, <2>1, <2>2
  <2>3. CASE i # n + 1
    <3>1. i \in 1 .. n
      BY <1>1, <2>3
    <3>. QED  BY <1>1, <2>1, <3>1 DEF Range
  <2>. QED  BY <2>2, <2>3
<1>4. ASSUME NEW y \in Range(s) PROVE y \in Range(t)
  <2>1. PICK i \in 1 .. n : y = s[i]
    BY <1>1, <1>4 DEF Range
  <2>2. i \in 1 .. (n + 1) /\ y = t[i]
    BY <1>1, <2>1
  <2>. QED  BY <1>2, <2>2 DEF Range
<1>5. x \in Range(t)
  <2>1. n + 1 \in 1 .. (n + 1)
    BY <1>1
  <2>. QED  BY <1>1, <1>2, <2>1 DEF Range
<1>. QED  BY <1>3, <1>4, <1>5 DEF t

LEMMA RangeOfJoin ==
    ASSUME NEW S, NEW s \in Seq(S), NEW t \in Seq(S)
    PROVE  Range(s \o t) = Range(s) \cup Range(t)
<1>. DEFINE u == s \o t
            n == Len(s)
            m == Len(t)
<1>1. /\ n \in Nat /\ m \in Nat /\ u \in Seq(S) /\ Len(u) = n + m
      /\ DOMAIN s = 1 .. n /\ DOMAIN t = 1 .. m
      /\ \A i \in 1 .. n : u[i] = s[i]
      /\ \A i \in 1 .. m : u[n + i] = t[i]
  BY Concatenation
<1>. HIDE DEF u, n, m
<1>2. DOMAIN u = 1 .. (n + m)
  BY <1>1
<1>3. ASSUME NEW y \in Range(u) PROVE y \in Range(s) \cup Range(t)
  <2>1. PICK i \in 1 .. (n + m) : y = u[i]
    BY <1>2, <1>3 DEF Range
  <2>2. CASE i <= n
    <3>1. i \in 1 .. n
      BY <2>2
    <3>. QED  BY <1>1, <2>1, <3>1 DEF Range
  <2>3. CASE ~(i <= n)
    <3>1. i - n \in 1 .. m /\ n + (i - n) = i
      BY <1>1, <2>3
    <3>2. y = t[i - n]
      BY <1>1, <2>1, <3>1
    <3>. QED  BY <1>1, <3>1, <3>2 DEF Range
  <2>. QED  BY <2>2, <2>3
<1>4. ASSUME NEW y \in Range(s) PROVE y \in Range(u)
  <2>1. PICK i \in 1 .. n : y = s[i]
    BY <1>1, <1>4 DEF Range
  <2>2. i \in 1 .. (n + m) /\ y = u[i]
    BY <1>1, <2>1
  <2>. QED  BY <1>2, <2>2 DEF Range
<1>5. ASSUME NEW y \in Range(t) PROVE y \in Range(u)
  <2>1. PICK i \in 1 .. m : y = t[i]
    BY <1>1, <1>5 DEF Range
  <2>2. n + i \in 1 .. (n + m) /\ y = u[n + i]
    BY <1>1, <2>1
  <2>. QED  BY <1>2, <2>2 DEF Range
<1>. QED  BY <1>3, <1>4, <1>5 DEF u

LEMMA OperandIsNoRef ==
    ASSUME NEW op \in Operand PROVE ~IsRef(op)
<1>1. "kind" \in DOMAIN op
  BY DEF Operand
<1>2. "kind" # "ref"
  OBVIOUS
<1>. QED  BY <1>1, <1>2 DEF IsRef

\* What add() remembers of the operands.
LEMMA RefsAre ==
    ASSUME NEW index \in Nat, NEW ops \in Seq(Operand \cup {Ref(name) : name \in Names})
    PROVE  /\ RefsOf(index, ops) \in Seq(RefRecord)
           /\ Range(RefsOf(index, ops)) = RefSet(index, ops, DOMAIN ops)
<1>. DEFINE n == Len(ops)
            rec(k) == [instr |-> index, operand |-> k, label |-> ops[k].ref]
            Found(f) == f = [k \in 0 .. n |->
                               IF k = 0 THEN <<>>
                               ELSE IF IsRef(ops[k])
                                 THEN Append(f[k - 1], [instr |-> index, operand |-> k,
                                                        label |-> ops[k].ref])
                               ELSE f[k - 1]]
            step == [k \in 1 .. n |-> [r \in Seq(RefRecord) |->
                       IF IsRef(ops[k]) THEN Append(r, rec(k)) ELSE r]]
            found == CHOOSE f : Found(f)
<1>0. n \in Nat /\ DOMAIN ops = 1 .. n
      /\ \A k \in 1 .. n : ops[k] \in Operand \cup {Ref(name) : name \in Names}
  OBVIOUS
<1>1. ASSUME NEW k \in 1 .. n, IsRef(ops[k]) PROVE rec(k) \in RefRecord
  <2>1. ops[k] \notin Operand
    BY <1>1, OperandIsNoRef
  <2>2. PICK name \in Names : ops[k] = Ref(name)
    BY <1>0, <2>1
  <2>3. ops[k].ref \in Names
    BY <2>2 DEF Ref
  <2>4. k \in Nat
    BY <1>0
  <2>. QED  BY <2>3, <2>4 DEF RefRecord
<1>. HIDE DEF n, rec
<1>2. \E f : Found(f)
  <2>1. ASSUME NEW k \in 1 .. n PROVE step[k] \in [Seq(RefRecord) -> Seq(RefRecord)]
    BY <1>1
  <2>2. step \in [(0 + 1) .. n -> [Seq(RefRecord) -> Seq(RefRecord)]] /\ <<>> \in Seq(RefRecord)
    BY <2>1
  <2>. HIDE DEF step
  <2>3. PICK f : Recursive(f, 0, n, Seq(RefRecord), <<>>, step)
    <3>1. 0 \in Int /\ n \in Int
      BY <1>0
    <3>. QED  BY <2>2, <3>1, Recursion
  <2>4. f \in [0 .. n -> Seq(RefRecord)] /\ f[0] = <<>>
    BY <1>0, <2>3 DEF Recursive
  <2>5. ASSUME NEW k \in 1 .. n
        PROVE  f[k] = IF IsRef(ops[k]) THEN Append(f[k - 1], rec(k)) ELSE f[k - 1]
    <3>1. k - 1 \in 0 .. n /\ f[k] = step[k][f[k - 1]]
      BY <1>0, <2>3 DEF Recursive
    <3>. QED  BY <2>4, <3>1 DEF step
  <2>6. Found(f)
    <3>1. ASSUME NEW k \in 0 .. n
          PROVE  f[k] = IF k = 0 THEN <<>>
                        ELSE IF IsRef(ops[k])
                          THEN Append(f[k - 1], [instr |-> index, operand |-> k,
                                                 label |-> ops[k].ref])
                        ELSE f[k - 1]
      <4>1. k # 0 => k \in 1 .. n
        BY <1>0
      <4>. QED  BY <2>4, <2>5, <4>1 DEF rec
    <3>2. f = [k \in 0 .. n |-> f[k]]
      BY <2>4
    <3>. QED  BY <3>1, <3>2
  <2>. QED  BY <2>6
<1>3. RefsOf(index, ops) = found[n]
  BY DEF RefsOf, n
<1>4. Found(found)
  <2>. HIDE DEF Found
  <2>. QED  BY <1>2
<1>. HIDE DEF found
<1>5. found[0] = <<>> /\ \A k \in 1 .. n : found[k] = IF IsRef(ops[k]) THEN Append(found[k - 1], rec(k))
                                                      ELSE found[k - 1]
  <2>1. 0 \in 0 .. n /\ \A k \in 1 .. n : k \in 0 .. n /\ k # 0
    BY <1>0
  <2>. QED  BY <1>4, <2>1 DEF rec
<1>. HIDE DEF Found
<1>. DEFINE Upto(m) == found[m] \in Seq(RefRecord) /\ Range(found[m]) = RefSet(index, ops, 1 .. m)
            T == {m \in 0 .. n : Upto(m)}
<1>6. 0 \in T
  <2>1. Range(<<>>) = {} /\ RefSet(index, ops, 1 .. 0) = {} /\ <<>> \in Seq(RefRecord)
    BY DEF Range, RefSet
  <2>2. found[0] = <<>> /\ 0 \in 0 .. n
    BY <1>0, <1>5
  <2>3. Range(found[0]) = RefSet(index, ops, 1 .. 0)
    BY <2>1, <2>2
  <2>4. found[0] \in Seq(RefRecord)
    BY <2>1, <2>2
  <2>. QED  BY <2>2, <2>3, <2>4
<1>7. ASSUME NEW m \in 0 .. (n - 1), m \in T PROVE m + 1 \in T
  <2>1. m + 1 \in 1 .. n /\ m + 1 \in 0 .. n /\ (m + 1) - 1 = m
        /\ 1 .. (m + 1) = (1 .. m) \cup {m + 1}
    BY <1>0
  <2>2. found[m + 1] = IF IsRef(ops[m + 1]) THEN Append(found[m], rec(m + 1)) ELSE found[m]
    BY <1>5, <2>1
  <2>3. found[m] \in Seq(RefRecord) /\ Range(found[m]) = RefSet(index, ops, 1 .. m)
    BY <1>7
  <2>4. CASE IsRef(ops[m + 1])
    <3>1. rec(m + 1) \in RefRecord
      BY <1>1, <2>1, <2>4
    <3>2. found[m + 1] \in Seq(RefRecord)
          /\ Range(found[m + 1]) = Range(found[m]) \cup {rec(m + 1)}
      BY <2>2, <2>3, <2>4, <3>1, RangeOfAppend
    <3>3. RefSet(index, ops, 1 .. (m + 1)) = RefSet(index, ops, 1 .. m) \cup {rec(m + 1)}
      BY <2>1, <2>4 DEF RefSet, rec
    <3>. QED  BY <2>1, <2>3, <3>2, <3>3
  <2>5. CASE ~IsRef(ops[m + 1])
    <3>1. RefSet(index, ops, 1 .. (m + 1)) = RefSet(index, ops, 1 .. m)
      BY <2>1, <2>5 DEF RefSet
    <3>. QED  BY <2>1, <2>2, <2>3, <2>5, <3>1
  <2>. QED  BY <2>4, <2>5
<1>8. 0 \in Int /\ n \in Int
  BY <1>0
<1>. HIDE DEF T
<1>9. 0 .. n \subseteq T
  BY <1>6, <1>7, <1>8, InductionUpTo, Zenon
<1>10. n \in T
  <2>1. n \in 0 .. n
    BY <1>0
  <2>. QED  BY <1>9, <2>1
<1>. QED  BY <1>0, <1>3, <1>10 DEF T

-----------------------------------------------------------------------------
(* The invariant.                                                          *)

\* What may be added, and the element that each becomes.
Listed == Pool \cup {Lbl(name) : name \in Names}
ElementOf(e) == IF IsLabel(e) THEN e ELSE [instr |-> Instruction(e.opcode, Placed(e.operands))]
Element == {ElementOf(e) : e \in Listed}

NoLabelTwice(list) ==
    \A j, k \in DOMAIN list : IsLabel(list[j]) /\ list[j] = list[k] => j = k

ListingOK == listing \in Seq(Listed) /\ Len(listing) <= MaxElements /\ NoLabelTwice(listing)

\* The builder holds the listing, with placeholders, and all its references.
BuilderOK ==
    /\ builder \in [elements : Seq(Element), refs : Seq(RefRecord), failed : {FALSE}]
    /\ builder.elements = [k \in DOMAIN listing |-> ElementOf(listing[k])]
    /\ Range(builder.refs) = AllRefs(listing)

BuiltOK ==
    \/ built = NotBuilt
    \/ \E entry_point \in EntryPoints, vectors \in VectorTables :
          built = [vectors |-> vectors, image |-> Build(builder, entry_point, <<>>, vectors)]

BuildingInv == ListingOK /\ BuilderOK /\ BuiltOK

\* Instructions and labels are told apart.
LEMMA LabelsAndInstructions ==
    /\ \A name : IsLabel(Lbl(name)) /\ Lbl(name).label = name
    /\ \A i \in Pool : ~IsLabel(i)
    /\ \A x : ~IsLabel([instr |-> x])
    /\ \A e \in Listed : IsLabel(ElementOf(e)) <=> IsLabel(e)
<1>1. \A name : IsLabel(Lbl(name)) /\ Lbl(name).label = name
  BY DEF IsLabel, Lbl
<1>2. ASSUME NEW i \in Pool PROVE ~IsLabel(i)
  <2>1. i \in [opcode : OpCode, operands : Seq(Operand \cup {Ref(name) : name \in Names})]
    BY BuildingAssumption
  <2>2. "opcode" \in DOMAIN i /\ "opcode" # "label"
    BY <2>1
  <2>. QED  BY <2>2 DEF IsLabel
<1>3. ASSUME NEW x PROVE ~IsLabel([instr |-> x])
  <2>1. "instr" \in DOMAIN [instr |-> x] /\ "instr" # "label"
    OBVIOUS
  <2>. QED  BY <2>1 DEF IsLabel
<1>4. \A e : IsLabel(ElementOf(e)) <=> IsLabel(e)
  BY <1>3 DEF ElementOf
<1>. QED  BY <1>1, <1>2, <1>3, <1>4

\* What one more element changes.
LEMMA OneMore ==
    ASSUME NEW S, NEW list \in Seq(S), NEW e \in S
    PROVE  /\ \A k \in 1 .. (Len(list) + 1) : Count(Append(list, e), k) = Count(list, k)
           /\ AllRefs(Append(list, e)) =
                 AllRefs(list) \cup
                    IF IsLabel(e) THEN {}
                    ELSE RefSet(Count(list, Len(list) + 1) + 1, e.operands, DOMAIN e.operands)
<1>. DEFINE n == Len(list)
            new == Append(list, e)
            RefsAt(l, k) == RefSet(Count(l, k) + 1, l[k].operands, DOMAIN l[k].operands)
<1>1. /\ n \in Nat /\ DOMAIN list = 1 .. n /\ DOMAIN new = 1 .. (n + 1)
      /\ \A i \in 1 .. n : new[i] = list[i]
      /\ new[n + 1] = e
  BY AppendParts
<1>. HIDE DEF n, new
<1>2. ASSUME NEW k \in 1 .. (n + 1) PROVE Count(new, k) = Count(list, k)
  <2>1. k \in Nat /\ \A j \in 1 .. (k - 1) : j \in 1 .. n
    BY <1>1
  <2>. QED  BY <1>1, <2>1, CountAgrees
<1>3. InstrPlaces(new) = InstrPlaces(list) \cup (IF IsLabel(e) THEN {} ELSE {n + 1})
  <2>1. 1 .. (n + 1) = (1 .. n) \cup {n + 1} /\ n + 1 \notin 1 .. n
    BY <1>1
  <2>. QED  BY <1>1, <2>1 DEF InstrPlaces
<1>4. \A k \in InstrPlaces(list) : RefsAt(new, k) = RefsAt(list, k)
  <2>. SUFFICES ASSUME NEW k \in InstrPlaces(list) PROVE RefsAt(new, k) = RefsAt(list, k)
    OBVIOUS
  <2>1. k \in 1 .. n /\ k \in 1 .. (n + 1)
    BY <1>1 DEF InstrPlaces
  <2>2. Count(new, k) = Count(list, k) /\ new[k] = list[k]
    BY <1>1, <1>2, <2>1
  <2>. QED  BY <2>2
<1>5. RefsAt(new, n + 1) = RefSet(Count(list, n + 1) + 1, e.operands, DOMAIN e.operands)
  <2>1. n + 1 \in 1 .. (n + 1)
    BY <1>1
  <2>. QED  BY <1>1, <1>2, <2>1
<1>. HIDE DEF RefsAt
<1>6. /\ \A x : x \in AllRefs(new) <=> \E k \in InstrPlaces(new) : x \in RefsAt(new, k)
      /\ \A x : x \in AllRefs(list) <=> \E k \in InstrPlaces(list) : x \in RefsAt(list, k)
  BY DEF AllRefs, RefsAt
<1>7. AllRefs(new) = AllRefs(list) \cup
          IF IsLabel(e) THEN {} ELSE RefSet(Count(list, n + 1) + 1, e.operands, DOMAIN e.operands)
  <2>1. CASE IsLabel(e)
    <3>1. InstrPlaces(new) = InstrPlaces(list)
      BY <1>3, <2>1
    <3>2. \A x : x \in AllRefs(new) <=> x \in AllRefs(list)
      BY <1>4, <1>6, <3>1
    <3>3. AllRefs(new) = AllRefs(list)
      BY <3>2
    <3>. QED  BY <2>1, <3>3
  <2>2. CASE ~IsLabel(e)
    <3>1. InstrPlaces(new) = InstrPlaces(list) \cup {n + 1}
      BY <1>3, <2>2
    <3>2. \A x : x \in AllRefs(new) <=> x \in AllRefs(list) \/ x \in RefsAt(new, n + 1)
      BY <1>4, <1>6, <3>1
    <3>3. AllRefs(new) = AllRefs(list) \cup RefsAt(new, n + 1)
      BY <3>2
    <3>. QED  BY <1>5, <2>2, <3>3
  <2>. QED  BY <2>1, <2>2
<1>. QED  BY <1>2, <1>7 DEF n, new

LEMMA BuildingInvInit == BuildingInit => BuildingInv
<1>. SUFFICES ASSUME BuildingInit PROVE BuildingInv
  OBVIOUS
<1>1. listing = <<>> /\ builder = EmptyBuilder /\ built = NotBuilt
  BY DEF BuildingInit
<1>2. ListingOK
  BY <1>1, BuildingAssumption DEF ListingOK, NoLabelTwice
<1>3. AllRefs(<<>>) = {} /\ Range(<<>>) = {}
  BY DEF AllRefs, InstrPlaces, Range
<1>4. <<>> = [k \in DOMAIN <<>> |-> ElementOf(<<>>[k])]
  OBVIOUS
<1>5. BuilderOK
  BY <1>1, <1>3, <1>4 DEF BuilderOK, EmptyBuilder
<1>. QED  BY <1>1, <1>2, <1>5 DEF BuildingInv, BuiltOK

\* The elements of the builder, by the listing.
LEMMA ElementsOf ==
    ASSUME ListingOK, BuilderOK
    PROVE  /\ builder.elements \in Seq(Element) /\ Len(builder.elements) = Len(listing)
           /\ \A k \in 1 .. Len(listing) :
                 /\ listing[k] \in Listed
                 /\ builder.elements[k] = ElementOf(listing[k])
                 /\ IsLabel(builder.elements[k]) <=> IsLabel(listing[k])
           /\ \A k \in 1 .. (Len(listing) + 1) :
                 Count(builder.elements, k) = Count(listing, k)
<1>. DEFINE n == Len(listing)
            elements == builder.elements
<1>1. n \in Nat /\ DOMAIN listing = 1 .. n /\ \A k \in 1 .. n : listing[k] \in Listed
  BY DEF ListingOK
<1>2. elements \in Seq(Element) /\ elements = [k \in 1 .. n |-> ElementOf(listing[k])]
  BY <1>1 DEF BuilderOK
<1>. HIDE DEF n, elements
<1>3. Len(elements) = n /\ \A k \in 1 .. n : elements[k] = ElementOf(listing[k])
  BY <1>1, <1>2
<1>4. \A k \in 1 .. n : IsLabel(elements[k]) <=> IsLabel(listing[k])
  BY <1>1, <1>3, LabelsAndInstructions
<1>5. ASSUME NEW k \in 1 .. (n + 1) PROVE Count(elements, k) = Count(listing, k)
  <2>1. k \in Nat /\ \A j \in 1 .. (k - 1) : j \in 1 .. n
    BY <1>1
  <2>. QED  BY <1>4, <2>1, CountAgrees
<1>. QED  BY <1>1, <1>2, <1>3, <1>4, <1>5 DEF n, elements

LEMMA HowManyInstructions ==
    ASSUME ListingOK, BuilderOK
    PROVE  HowMany(builder.elements) = Count(listing, Len(listing) + 1)
<1>. DEFINE n == Len(listing)
            elements == builder.elements
<1>1. n \in Nat /\ elements \in Seq(Element) /\ Len(elements) = n
      /\ Count(elements, n + 1) = Count(listing, n + 1)
  <2>1. n \in Nat /\ n + 1 \in 1 .. (n + 1)
    BY DEF ListingOK
  <2>. QED  BY <2>1, ElementsOf
<1>. HIDE DEF n, elements
<1>2. DOMAIN elements = 1 .. ((n + 1) - 1)
  BY <1>1
<1>3. HowMany(elements) = Count(elements, n + 1)
  BY <1>2 DEF HowMany, Count
<1>. QED  BY <1>1, <1>3 DEF n, elements

\* The listing, with one element more.
LEMMA OneMoreElement ==
    ASSUME ListingOK, BuilderOK, NEW e \in Listed
    PROVE  Append(builder.elements, ElementOf(e)) =
              [k \in DOMAIN Append(listing, e) |-> ElementOf(Append(listing, e)[k])]
<1>. DEFINE n == Len(listing)
            elements == builder.elements
            new == Append(listing, e)
            more == Append(elements, ElementOf(e))
<1>1. /\ listing \in Seq(Listed) /\ n \in Nat
      /\ elements \in Seq(Element) /\ Len(elements) = n
      /\ \A k \in 1 .. n : elements[k] = ElementOf(listing[k])
  BY ElementsOf DEF ListingOK
<1>2. ElementOf(e) \in Element
  BY DEF Element
<1>3. /\ new \in Seq(Listed) /\ Len(new) = n + 1 /\ DOMAIN new = 1 .. (n + 1)
      /\ \A k \in 1 .. n : new[k] = listing[k]
      /\ new[n + 1] = e
  BY <1>1, AppendParts
<1>4. /\ more \in Seq(Element) /\ Len(more) = n + 1
      /\ \A k \in 1 .. n : more[k] = elements[k]
      /\ more[n + 1] = ElementOf(e)
  BY <1>1, <1>2, AppendParts
<1>. HIDE DEF n, elements, new, more
<1>5. ASSUME NEW k \in 1 .. (n + 1) PROVE more[k] = ElementOf(new[k])
  <2>1. CASE k = n + 1
    BY <1>3, <1>4, <2>1
  <2>2. CASE k # n + 1
    <3>1. k \in 1 .. n
      BY <1>1, <2>2
    <3>. QED  BY <1>1, <1>3, <1>4, <3>1
  <2>. QED  BY <2>1, <2>2
<1>6. more = [k \in 1 .. (n + 1) |-> more[k]]
  BY <1>1, <1>4
<1>7. more = [k \in DOMAIN new |-> ElementOf(new[k])]
  BY <1>3, <1>5, <1>6
<1>. QED  BY <1>7 DEF more, new, elements

LEMMA AddInstructionStep ==
    ASSUME BuildingInv, AddInstruction
    PROVE  BuildingInv'
<1>1. PICK i \in Pool : /\ listing' = Append(listing, i)
                        /\ builder' = Add(builder, i.opcode, i.operands)
  BY DEF AddInstruction
<1>2. Len(listing) < MaxElements /\ built' = NotBuilt
  BY DEF AddInstruction
<1>3. ListingOK /\ BuilderOK /\ i \in Listed /\ ~IsLabel(i)
      /\ listing \in Seq(Listed) /\ Len(listing) \in Nat
  BY LabelsAndInstructions DEF BuildingInv, Listed, ListingOK
<1>. DEFINE n == Len(listing)
            index == Count(listing, n + 1) + 1
            el == [instr |-> Instruction(i.opcode, Placed(i.operands))]
<1>4. el = ElementOf(i) /\ el \in Element
  BY <1>3 DEF ElementOf, Element
<1>5. builder' = [builder EXCEPT !.elements = Append(@, el),
                                 !.refs = @ \o RefsOf(index, i.operands)]
  <2>1. HowMany(builder.elements) + 1 = index
    BY <1>3, HowManyInstructions
  <2>. HIDE DEF index
  <2>. QED  BY <1>1, <2>1 DEF Add
<1>6. index \in Nat
  <2>1. n + 1 \in Nat \ {0}
    BY <1>3
  <2>2. Count(listing, n + 1) \in Nat
    BY <2>1, CountStep
  <2>. QED  BY <2>2
<1>. HIDE DEF index, el
<1>7. i.operands \in Seq(Operand \cup {Ref(name) : name \in Names})
  BY BuildingAssumption
<1>8. /\ RefsOf(index, i.operands) \in Seq(RefRecord)
      /\ Range(RefsOf(index, i.operands)) = RefSet(index, i.operands, DOMAIN i.operands)
  BY <1>6, <1>7, RefsAre
<1>9. builder \in [elements : Seq(Element), refs : Seq(RefRecord), failed : {FALSE}]
      /\ Range(builder.refs) = AllRefs(listing)
  BY <1>3 DEF BuilderOK
<1>10. /\ builder'.elements = Append(builder.elements, el)
       /\ builder'.refs = builder.refs \o RefsOf(index, i.operands)
       /\ builder' \in [elements : Seq(Element), refs : Seq(RefRecord), failed : {FALSE}]
  <2>1. /\ builder.elements \in Seq(Element) /\ builder.refs \in Seq(RefRecord)
        /\ Append(builder.elements, el) \in Seq(Element)
        /\ builder.refs \o RefsOf(index, i.operands) \in Seq(RefRecord)
    BY <1>4, <1>8, <1>9, AppendParts, Concatenation
  <2>. QED  BY <1>5, <1>9, <2>1
<1>11. builder'.elements = [k \in DOMAIN listing' |-> ElementOf(listing'[k])]
  BY <1>1, <1>3, <1>4, <1>10, OneMoreElement
<1>12. Range(builder'.refs) = AllRefs(listing')
  <2>1. Range(builder'.refs) =
            AllRefs(listing) \cup RefSet(index, i.operands, DOMAIN i.operands)
    BY <1>8, <1>9, <1>10, RangeOfJoin
  <2>2. AllRefs(Append(listing, i)) =
            AllRefs(listing) \cup RefSet(index, i.operands, DOMAIN i.operands)
    BY <1>3, OneMore DEF index
  <2>. QED  BY <1>1, <2>1, <2>2
<1>13. ListingOK'
  <2>1. listing' \in Seq(Listed) /\ Len(listing') = n + 1
        /\ (\A k \in 1 .. n : listing'[k] = listing[k]) /\ listing'[n + 1] = i
    BY <1>1, <1>3, AppendParts
  <2>2. n + 1 <= MaxElements
    BY <1>2, <1>3, BuildingAssumption
  <2>3. NoLabelTwice(listing')
    <3>. SUFFICES ASSUME NEW j \in DOMAIN listing', NEW k \in DOMAIN listing',
                         IsLabel(listing'[j]), listing'[j] = listing'[k]
                  PROVE  j = k
      BY DEF NoLabelTwice
    <3>1. j # n + 1 /\ k # n + 1
      BY <1>3, <2>1
    <3>2. DOMAIN listing' = 1 .. (n + 1) /\ DOMAIN listing = 1 .. n
      BY <1>3, <2>1
    <3>3. j \in 1 .. n /\ k \in 1 .. n
      BY <1>3, <3>1, <3>2
    <3>4. IsLabel(listing[j]) /\ listing[j] = listing[k]
      BY <2>1, <3>3
    <3>. QED  BY <1>3, <3>2, <3>3, <3>4 DEF ListingOK, NoLabelTwice
  <2>. QED  BY <2>1, <2>2, <2>3 DEF ListingOK
<1>14. BuilderOK' /\ BuiltOK'
  BY <1>2, <1>10, <1>11, <1>12 DEF BuilderOK, BuiltOK
<1>. QED  BY <1>13, <1>14 DEF BuildingInv

LEMMA AddLabelStep ==
    ASSUME BuildingInv, AddLabel
    PROVE  BuildingInv'
<1>1. PICK name \in Names : /\ ~Label(builder, name).failed
                            /\ listing' = Append(listing, Lbl(name))
                            /\ builder' = Label(builder, name)
  BY DEF AddLabel
<1>. DEFINE n == Len(listing)
            e == Lbl(name)
<1>2. Len(listing) < MaxElements /\ built' = NotBuilt
  BY DEF AddLabel
<1>3. /\ ListingOK /\ BuilderOK /\ listing \in Seq(Listed) /\ n \in Nat
      /\ e \in Listed /\ IsLabel(e) /\ e.label = name
  BY LabelsAndInstructions DEF BuildingInv, Listed, ListingOK
<1>4. builder \in [elements : Seq(Element), refs : Seq(RefRecord), failed : {FALSE}]
      /\ Range(builder.refs) = AllRefs(listing)
  BY <1>3 DEF BuilderOK
<1>5. name \notin LabelsOf(builder.elements)
      /\ builder' = [builder EXCEPT !.elements = Append(@, e)]
  BY <1>1, <1>4 DEF Label, Lbl
<1>. HIDE DEF e, n
<1>6. ElementOf(e) = e /\ e \in Element
  BY <1>3 DEF ElementOf, Element
<1>7. /\ builder'.elements = Append(builder.elements, e) /\ builder'.refs = builder.refs
      /\ builder' \in [elements : Seq(Element), refs : Seq(RefRecord), failed : {FALSE}]
  <2>1. builder.elements \in Seq(Element) /\ Append(builder.elements, e) \in Seq(Element)
    BY <1>4, <1>6, AppendParts
  <2>. QED  BY <1>4, <1>5, <2>1
<1>8. builder'.elements = [k \in DOMAIN listing' |-> ElementOf(listing'[k])]
  BY <1>1, <1>3, <1>6, <1>7, OneMoreElement DEF e
<1>9. Range(builder'.refs) = AllRefs(listing')
  <2>1. AllRefs(Append(listing, e)) = AllRefs(listing)
    BY <1>3, OneMore
  <2>. QED  BY <1>1, <1>4, <1>7, <2>1 DEF e
<1>10. ListingOK'
  <2>1. listing' \in Seq(Listed) /\ Len(listing') = n + 1
        /\ (\A k \in 1 .. n : listing'[k] = listing[k]) /\ listing'[n + 1] = e
    BY <1>1, <1>3, AppendParts DEF e, n
  <2>2. n + 1 <= MaxElements
    BY <1>2, <1>3, BuildingAssumption DEF n
  <2>3. DOMAIN listing' = 1 .. (n + 1) /\ DOMAIN listing = 1 .. n
    BY <1>3, <2>1 DEF n
  <2>4. \A k \in 1 .. n : listing[k] # e
    <3>. SUFFICES ASSUME NEW k \in 1 .. n, listing[k] = e PROVE FALSE
      OBVIOUS
    <3>1. builder.elements[k] = e /\ k \in DOMAIN builder.elements
      BY <1>3, <1>6, ElementsOf DEF n
    <3>2. name \in LabelsOf(builder.elements)
      BY <1>3, <3>1 DEF LabelsOf
    <3>. QED  BY <1>5, <3>2
  <2>5. NoLabelTwice(listing')
    <3>. SUFFICES ASSUME NEW j \in 1 .. (n + 1), NEW k \in 1 .. (n + 1),
                         IsLabel(listing'[j]), listing'[j] = listing'[k]
                  PROVE  j = k
      BY <2>3 DEF NoLabelTwice
    <3>1. CASE j = n + 1 /\ k = n + 1
      BY <3>1
    <3>2. CASE j = n + 1 /\ k # n + 1
      <4>1. k \in 1 .. n
        BY <1>3, <3>2
      <4>. QED  BY <2>1, <2>4, <3>2, <4>1
    <3>3. CASE j # n + 1 /\ k = n + 1
      <4>1. j \in 1 .. n
        BY <1>3, <3>3
      <4>. QED  BY <2>1, <2>4, <3>3, <4>1
    <3>4. CASE j # n + 1 /\ k # n + 1
      <4>1. j \in 1 .. n /\ k \in 1 .. n
        BY <1>3, <3>4
      <4>2. IsLabel(listing[j]) /\ listing[j] = listing[k]
        BY <2>1, <4>1
      <4>. QED  BY <1>3, <2>3, <4>1, <4>2 DEF ListingOK, NoLabelTwice
    <3>. QED  BY <3>1, <3>2, <3>3, <3>4
  <2>. QED  BY <2>1, <2>2, <2>5 DEF ListingOK
<1>11. BuilderOK' /\ BuiltOK'
  BY <1>2, <1>7, <1>8, <1>9 DEF BuilderOK, BuiltOK
<1>. QED  BY <1>10, <1>11 DEF BuildingInv

LEMMA BuildingInvStep == BuildingInv /\ [BuildingNext]_buildingVars => BuildingInv'
<1>. SUFFICES ASSUME BuildingInv, [BuildingNext]_buildingVars PROVE BuildingInv'
  OBVIOUS
<1>1. CASE AddInstruction
  BY <1>1, AddInstructionStep
<1>2. CASE AddLabel
  BY <1>2, AddLabelStep
<1>3. CASE BuildImage
  BY <1>3 DEF BuildImage, BuildingInv, ListingOK, BuilderOK, BuiltOK
<1>4. CASE UNCHANGED buildingVars
  BY <1>4 DEF buildingVars, BuildingInv, ListingOK, BuilderOK, BuiltOK
<1>. QED  BY <1>1, <1>2, <1>3, <1>4 DEF BuildingNext

-----------------------------------------------------------------------------
(* What build() makes of the builder.                                      *)

\* With a placeholder for each label an instruction can be encoded.
LEMMA PlacedIsEncodable ==
    ASSUME NEW e \in Pool
    PROVE  /\ Instruction(e.opcode, Placed(e.operands)) \in EncodableInstruction
           /\ Len(Placed(e.operands)) <= 2
<1>. DEFINE ops == e.operands
            n == Len(ops)
<1>1. e.opcode \in OpCode /\ ops \in Seq(Operand \cup {Ref(name) : name \in Names}) /\ n <= 2
  BY BuildingAssumption
<1>2. n \in Nat /\ DOMAIN ops = 1 .. n
      /\ \A p \in 1 .. n : ops[p] \in Operand \cup {Ref(name) : name \in Names}
  BY <1>1
<1>. HIDE DEF n, ops
<1>3. abs(0) \in Operand
  <2>1. 0 \in Unsigned
    BY IsaAssumption DEF IsaAssumption, Unsigned, U32_MAX
  <2>. QED  BY <2>1 DEF abs, Operand
<1>4. ASSUME NEW p \in 1 .. n PROVE (IF IsRef(ops[p]) THEN abs(0) ELSE ops[p]) \in Operand
  <2>1. ~IsRef(ops[p]) => ops[p] \in Operand
    BY <1>2 DEF IsRef, Ref
  <2>. QED  BY <1>3, <2>1
<1>5. Placed(ops) = [p \in 1 .. n |-> IF IsRef(ops[p]) THEN abs(0) ELSE ops[p]]
  BY <1>2 DEF Placed
<1>6. Placed(ops) \in Seq(Operand) /\ Len(Placed(ops)) = n
  BY <1>2, <1>4, <1>5
<1>7. Len(Placed(ops)) <= 2 /\ Len(Placed(ops)) <= 255
  BY <1>1, <1>2, <1>6
<1>. QED  BY <1>1, <1>6, <1>7 DEF ops, Instruction, EncodableInstruction

\* The elements take from 0 to 14 bytes each.
LEMMA SizesOfElements ==
    ASSUME ListingOK, BuilderOK
    PROVE  \A k \in 1 .. Len(builder.elements) : SizeOfElement(builder.elements[k]) \in 0 .. 14
<1>. SUFFICES ASSUME NEW k \in 1 .. Len(builder.elements)
              PROVE  SizeOfElement(builder.elements[k]) \in 0 .. 14
  OBVIOUS
<1>1. /\ listing[k] \in Listed /\ builder.elements[k] = ElementOf(listing[k])
      /\ IsLabel(builder.elements[k]) <=> IsLabel(listing[k])
  BY ElementsOf
<1>2. CASE IsLabel(listing[k])
  <2>1. 0 \in 0 .. 14
    OBVIOUS
  <2>. QED  BY <1>1, <1>2, <2>1 DEF SizeOfElement
<1>3. CASE ~IsLabel(listing[k])
  <2>1. listing[k] \in Pool
    BY <1>1, <1>3, LabelsAndInstructions DEF Listed
  <2>2. Instruction(listing[k].opcode, Placed(listing[k].operands)) \in EncodableInstruction
        /\ Len(Placed(listing[k].operands)) <= 2
    BY <2>1, PlacedIsEncodable
  <2>3. builder.elements[k].instr = Instruction(listing[k].opcode, Placed(listing[k].operands))
    BY <1>1, <1>3 DEF ElementOf
  <2>. DEFINE i == builder.elements[k].instr
  <2>4. i \in EncodableInstruction /\ Len(i.operands) <= 2
    BY <2>2, <2>3 DEF Instruction
  <2>. HIDE DEF i
  <2>5. Len(encode_instruction(i)) \in 0 .. 14
    BY <2>4, ShortInstructions
  <2>. QED  BY <1>1, <1>3, <2>5 DEF SizeOfElement, i
<1>. QED  BY <1>2, <1>3

\* An instruction of the listing, its labels resolved.
Resolved(e, labels) ==
    Instruction(e.opcode,
                [p \in DOMAIN e.operands |->
                    IF IsRef(e.operands[p]) THEN abs(labels[e.operands[p].ref])
                    ELSE e.operands[p]])
ArePatched(is, labels) ==
    /\ is = [i \in 1 .. Count(listing, Len(listing) + 1) |-> is[i]]
    /\ \A k \in InstrPlaces(listing) :
          /\ Count(listing, k) + 1 \in 1 .. Count(listing, Len(listing) + 1)
          /\ is[Count(listing, k) + 1] = Resolved(listing[k], labels)
    /\ \A i \in 1 .. Count(listing, Len(listing) + 1) :
          \E k \in InstrPlaces(listing) : i = Count(listing, k) + 1

\* The references that concern one operand.
LEMMA RefsOfOperand ==
    ASSUME ListingOK, BuilderOK, NEW k \in InstrPlaces(listing), NEW p \in DOMAIN listing[k].operands
    PROVE  /\ \A r \in DOMAIN builder.refs :
                 builder.refs[r].instr = Count(listing, k) + 1 /\ builder.refs[r].operand = p
                 => IsRef(listing[k].operands[p])
                    /\ builder.refs[r].label = listing[k].operands[p].ref
           /\ IsRef(listing[k].operands[p])
              => \E r \in DOMAIN builder.refs :
                    builder.refs[r].instr = Count(listing, k) + 1 /\ builder.refs[r].operand = p
<1>1. k \in Nat \ {0} /\ ~IsLabel(listing[k])
  BY DEF InstrPlaces, ListingOK
<1>2. Range(builder.refs) = AllRefs(listing)
  BY DEF BuilderOK
<1>3. ASSUME NEW r \in DOMAIN builder.refs,
             builder.refs[r].instr = Count(listing, k) + 1, builder.refs[r].operand = p
      PROVE  IsRef(listing[k].operands[p]) /\ builder.refs[r].label = listing[k].operands[p].ref
  <2>1. builder.refs[r] \in AllRefs(listing)
    BY <1>2 DEF Range
  <2>2. PICK m \in InstrPlaces(listing) :
             builder.refs[r] \in RefSet(Count(listing, m) + 1, listing[m].operands,
                                        DOMAIN listing[m].operands)
    BY <2>1 DEF AllRefs
  <2>3. PICK q \in DOMAIN listing[m].operands :
             /\ IsRef(listing[m].operands[q])
             /\ builder.refs[r] = [instr |-> Count(listing, m) + 1, operand |-> q,
                                   label |-> listing[m].operands[q].ref]
    BY <2>2 DEF RefSet
  <2>4. m \in Nat \ {0} /\ ~IsLabel(listing[m])
    BY DEF InstrPlaces, ListingOK
  <2>5. q = p /\ Count(listing, m) + 1 = Count(listing, k) + 1
    BY <1>3, <2>3
  <2>6. Count(listing, m) = Count(listing, k)
    <3>1. Count(listing, m) \in Nat /\ Count(listing, k) \in Nat
      BY <1>1, <2>4, CountStep
    <3>. QED  BY <2>5, <3>1
  <2>7. m = k
    BY <1>1, <2>4, <2>6, CountIsInjective
  <2>. QED  BY <2>3, <2>5, <2>7
<1>4. ASSUME IsRef(listing[k].operands[p])
      PROVE  \E r \in DOMAIN builder.refs :
                builder.refs[r].instr = Count(listing, k) + 1 /\ builder.refs[r].operand = p
  <2>. DEFINE rec == [instr |-> Count(listing, k) + 1, operand |-> p,
                      label |-> listing[k].operands[p].ref]
  <2>1. rec \in RefSet(Count(listing, k) + 1, listing[k].operands, DOMAIN listing[k].operands)
    BY <1>4 DEF RefSet
  <2>2. rec \in AllRefs(listing)
    BY <2>1 DEF AllRefs
  <2>3. rec.instr = Count(listing, k) + 1 /\ rec.operand = p
    OBVIOUS
  <2>. HIDE DEF rec
  <2>4. PICK r \in DOMAIN builder.refs : builder.refs[r] = rec
    BY <1>2, <2>2 DEF Range
  <2>. QED  BY <2>3, <2>4
<1>. QED  BY <1>3, <1>4

\* Patching resolves every reference, and nothing else.
LEMMA PatchedAre ==
    ASSUME ListingOK, BuilderOK, NEW labels
    PROVE  ArePatched(Patched(builder, labels), labels)
<1>. DEFINE code == InstructionsOf(builder.elements)
            n == Len(listing)
            count == Count(listing, n + 1)
            is == Patched(builder, labels)
            PatchOf(i, k) == {r \in DOMAIN builder.refs :
                                  builder.refs[r].instr = i /\ builder.refs[r].operand = k}
            Operand1(i, k) == IF PatchOf(i, k) = {} THEN code[i].instr.operands[k]
                              ELSE abs(labels[builder.refs[CHOOSE r \in PatchOf(i, k) : TRUE].label])
<1>1. /\ builder.elements \in Seq(Element) /\ Len(builder.elements) = n /\ n \in Nat
      /\ \A k \in 1 .. n : /\ listing[k] \in Listed
                           /\ builder.elements[k] = ElementOf(listing[k])
                           /\ IsLabel(builder.elements[k]) <=> IsLabel(listing[k])
      /\ \A k \in 1 .. (n + 1) : Count(builder.elements, k) = Count(listing, k)
      /\ DOMAIN listing = 1 .. n
  BY ElementsOf DEF ListingOK
<1>2. Collected(code, Element, builder.elements, n)
  BY <1>1, InstructionsAre
<1>3. count \in Nat
  <2>1. n + 1 \in Nat \ {0}
    BY <1>1
  <2>2. Count(listing, n + 1) \in Nat
    BY <2>1, CountStep
  <2>. QED  BY <2>2
<1>4. code \in Seq(Element) /\ Len(code) = count /\ DOMAIN code = 1 .. count
  <2>1. n + 1 \in 1 .. (n + 1)
    BY <1>1
  <2>2. code \in Seq(Element) /\ Len(code) = Count(builder.elements, n + 1)
    BY <1>2 DEF Collected
  <2>3. Len(code) = count
    BY <1>1, <2>1, <2>2
  <2>. HIDE DEF code, count
  <2>. QED  BY <2>2, <2>3
<1>5. is = [i \in DOMAIN code |->
               Instruction(code[i].instr.opcode,
                           [k \in DOMAIN code[i].instr.operands |-> Operand1(i, k)])]
  BY DEF Patched
<1>. HIDE DEF is, code, n, count, Operand1
<1>6. is = [i \in 1 .. count |-> is[i]]
  BY <1>4, <1>5
<1>7. ASSUME NEW k \in InstrPlaces(listing)
      PROVE  Count(listing, k) + 1 \in 1 .. count
  <2>1. k \in 1 .. n /\ ~IsLabel(listing[k]) /\ k \in Nat \ {0} /\ n + 1 \in Nat \ {0} /\ k < n + 1
    BY <1>1 DEF InstrPlaces
  <2>2. Count(listing, k) \in Nat /\ Count(listing, k) + 1 <= count
    BY <2>1, CountStep, CountGrows DEF count
  <2>. QED  BY <1>3, <2>2
<1>8. ASSUME NEW k \in InstrPlaces(listing)
      PROVE  is[Count(listing, k) + 1] = Resolved(listing[k], labels)
  <2>. DEFINE i == Count(listing, k) + 1
              ops == listing[k].operands
  <2>1. k \in 1 .. n /\ ~IsLabel(listing[k]) /\ k \in 1 .. (n + 1)
    BY <1>1 DEF InstrPlaces
  <2>2. code[i] = builder.elements[k]
    <3>1. Count(builder.elements, k) = Count(listing, k) /\ ~IsLabel(builder.elements[k])
      BY <1>1, <2>1
    <3>2. code[Count(builder.elements, k) + 1] = builder.elements[k]
      BY <1>2, <2>1, <3>1 DEF Collected
    <3>. QED  BY <3>1, <3>2
  <2>3. code[i].instr = Instruction(listing[k].opcode, Placed(ops))
    <3>1. ElementOf(listing[k]) = [instr |-> Instruction(listing[k].opcode, Placed(ops))]
      BY <2>1 DEF ElementOf
    <3>2. code[i] = ElementOf(listing[k])
      BY <1>1, <2>1, <2>2
    <3>. HIDE DEF i, ops
    <3>. QED  BY <3>1, <3>2
  <2>4. code[i].instr.opcode = listing[k].opcode /\ code[i].instr.operands = Placed(ops)
    BY <2>3 DEF Instruction
  <2>5. i \in 1 .. count
    BY <1>7
  <2>6. \A p \in DOMAIN ops :
            /\ \A r \in DOMAIN builder.refs :
                  builder.refs[r].instr = i /\ builder.refs[r].operand = p
                  => IsRef(ops[p]) /\ builder.refs[r].label = ops[p].ref
            /\ IsRef(ops[p]) => \E r \in DOMAIN builder.refs :
                                   builder.refs[r].instr = i /\ builder.refs[r].operand = p
    BY RefsOfOperand
  <2>. HIDE DEF i, ops
  <2>7. DOMAIN Placed(ops) = DOMAIN ops
    BY DEF Placed
  <2>8. ASSUME NEW p \in DOMAIN ops
        PROVE  Operand1(i, p) = IF IsRef(ops[p]) THEN abs(labels[ops[p].ref]) ELSE ops[p]
    <3>1. CASE IsRef(ops[p])
      <4>1. PatchOf(i, p) # {}
        BY <2>6, <3>1
      <4>2. \A r \in PatchOf(i, p) : builder.refs[r].label = ops[p].ref
        BY <2>6
      <4>. HIDE DEF PatchOf
      <4>3. (CHOOSE r \in PatchOf(i, p) : TRUE) \in PatchOf(i, p)
        BY <4>1
      <4>. QED  BY <3>1, <4>1, <4>2, <4>3 DEF Operand1
    <3>2. CASE ~IsRef(ops[p])
      <4>1. PatchOf(i, p) = {}
        BY <2>6, <3>2
      <4>2. Placed(ops)[p] = ops[p]
        BY <3>2 DEF Placed
      <4>. HIDE DEF PatchOf
      <4>. QED  BY <2>4, <3>2, <4>1, <4>2 DEF Operand1
    <3>. QED  BY <3>1, <3>2
  <2>9. is[i] = Instruction(listing[k].opcode, [p \in DOMAIN ops |-> Operand1(i, p)])
    BY <1>4, <1>5, <2>4, <2>5, <2>7
  <2>10. [p \in DOMAIN ops |-> Operand1(i, p)] =
         [p \in DOMAIN ops |-> IF IsRef(ops[p]) THEN abs(labels[ops[p].ref]) ELSE ops[p]]
    BY <2>8
  <2>. QED  BY <2>9, <2>10 DEF Resolved, i, ops
<1>9. ASSUME NEW i \in 1 .. count
      PROVE  \E k \in InstrPlaces(listing) : i = Count(listing, k) + 1
  <2>1. PICK k \in 1 .. n : ~IsLabel(builder.elements[k]) /\ i = Count(builder.elements, k) + 1
    BY <1>2, <1>4 DEF Collected
  <2>2. k \in 1 .. (n + 1) /\ Count(builder.elements, k) = Count(listing, k) /\ ~IsLabel(listing[k])
    BY <1>1, <2>1
  <2>3. k \in InstrPlaces(listing)
    BY <1>1, <2>2 DEF InstrPlaces
  <2>. QED  BY <2>1, <2>2, <2>3
<1>. QED  BY <1>6, <1>7, <1>8, <1>9 DEF ArePatched, is, n, count

-----------------------------------------------------------------------------
(* The labels of a program that begins at 0.                               *)

Offset == ElementOffset(builder.elements, 0)
Labels == LabelOffsets(builder.elements, 0)

\* Every element has an offset, and a label that of its own element.
LEMMA LabelsAre ==
    ASSUME ListingOK, BuilderOK
    PROVE  /\ AreOffsets(Offset, builder.elements)
           /\ \A k \in 1 .. (Len(listing) + 1) : Offset[k] \in Unsigned
           /\ \A name \in LabelsOf(builder.elements) :
                 \E k \in 1 .. Len(listing) : listing[k] = Lbl(name)
           /\ \A k \in 1 .. Len(listing) : \A name :
                 listing[k] = Lbl(name) =>
                    /\ (CHOOSE j \in DOMAIN listing : listing[j] = Lbl(name)) = k
                    /\ Labels[name] = Offset[k]
<1>. DEFINE n == Len(listing)
            elements == builder.elements
<1>1. /\ elements \in Seq(Element) /\ Len(elements) = n /\ n \in Nat /\ n <= MaxElements
      /\ \A k \in 1 .. n : /\ listing[k] \in Listed
                           /\ elements[k] = ElementOf(listing[k])
                           /\ IsLabel(elements[k]) <=> IsLabel(listing[k])
      /\ DOMAIN listing = 1 .. n /\ DOMAIN elements = 1 .. n
      /\ NoLabelTwice(listing)
  BY ElementsOf DEF ListingOK
<1>2. \A k \in 1 .. Len(elements) : SizeOfElement(elements[k]) \in 0 .. 14
  BY SizesOfElements
<1>. HIDE DEF n, elements
<1>3. AreOffsets(Offset, elements)
  <2>1. \A k \in 1 .. Len(elements) : SizeOfElement(elements[k]) \in Nat
    BY <1>2
  <2>2. AreOffsets(ElementOffset(elements, 0), elements)
    BY <1>1, <2>1, OffsetsAre
  <2>. QED  BY <2>2 DEF Offset, elements
<1>4. \A k \in 1 .. (n + 1) : Offset[k] \in Unsigned
  <2>1. \A k \in 1 .. (Len(elements) + 1) : Offset[k] \in 0 .. (14 * Len(elements))
    BY <1>1, <1>2, <1>3, OffsetBounds
  <2>2. 14 * n <= U32_MAX /\ U32_MAX \in Int
    BY <1>1, BuildingAssumption, IsaAssumption DEF IsaAssumption, U32_MAX
  <2>3. 0 .. (14 * n) \subseteq Unsigned
    BY <1>1, <2>2 DEF Unsigned
  <2>. QED  BY <1>1, <2>1, <2>3
\* An element is a label just when its line is.
<1>5. ASSUME NEW k \in 1 .. n, NEW name
      PROVE  elements[k] = [label |-> name] <=> listing[k] = Lbl(name)
  <2>1. IsLabel(Lbl(name)) /\ Lbl(name) = [label |-> name]
    BY LabelsAndInstructions DEF Lbl
  <2>2. CASE IsLabel(listing[k])
    BY <1>1, <2>1, <2>2 DEF ElementOf
  <2>3. CASE ~IsLabel(listing[k])
    BY <1>1, <2>1, <2>3
  <2>. QED  BY <2>2, <2>3
<1>6. ASSUME NEW name \in LabelsOf(elements)
      PROVE  \E k \in 1 .. n : listing[k] = Lbl(name)
  <2>1. PICK k \in 1 .. n : IsLabel(elements[k]) /\ elements[k].label = name
    BY <1>1 DEF LabelsOf
  <2>2. elements[k] = listing[k] /\ listing[k] \in Listed /\ IsLabel(listing[k])
    BY <1>1, <2>1 DEF ElementOf
  <2>3. PICK other : listing[k] = Lbl(other)
    BY <2>2, LabelsAndInstructions DEF Listed
  <2>4. other = name
    BY <2>1, <2>2, <2>3, LabelsAndInstructions
  <2>. QED  BY <2>3, <2>4
<1>7. ASSUME NEW k \in 1 .. n, NEW name, listing[k] = Lbl(name)
      PROVE  /\ (CHOOSE j \in DOMAIN listing : listing[j] = Lbl(name)) = k
             /\ Labels[name] = Offset[k]
  <2>1. \A j \in 1 .. n : listing[j] = Lbl(name) => j = k
    BY <1>1, <1>7, LabelsAndInstructions DEF NoLabelTwice
  <2>2. \A j \in 1 .. n : elements[j] = [label |-> name] => j = k
    BY <1>5, <2>1
  <2>3. elements[k] = [label |-> name]
    BY <1>5, <1>7
  <2>4. (CHOOSE j \in DOMAIN listing : listing[j] = Lbl(name)) = k
    BY <1>1, <1>7, <2>1
  <2>5. (CHOOSE j \in DOMAIN elements : elements[j] = [label |-> name]) = k
    BY <1>1, <2>2, <2>3
  <2>6. name \in LabelsOf(elements)
    <3>1. IsLabel(elements[k]) /\ elements[k].label = name
      BY <2>3 DEF IsLabel
    <3>. QED  BY <1>1, <3>1 DEF LabelsOf
  <2>7. Labels = [other \in LabelsOf(elements) |->
                     Offset[CHOOSE j \in DOMAIN elements : elements[j] = [label |-> other]]]
    BY DEF Labels, Offset, LabelOffsets, elements
  <2>. QED  BY <2>4, <2>5, <2>6, <2>7
<1>. QED  BY <1>3, <1>4, <1>6, <1>7 DEF n, elements

\* An instruction with its labels resolved is as long as with placeholders.
LEMMA ResolvedIsEncodable ==
    ASSUME NEW e \in Pool, NEW labels,
           \A p \in DOMAIN e.operands : IsRef(e.operands[p]) => labels[e.operands[p].ref] \in Unsigned
    PROVE  /\ Resolved(e, labels) \in EncodableInstruction
           /\ Len(encode_instruction(Resolved(e, labels))) = SizeOfElement(ElementOf(e))
<1>. DEFINE ops == e.operands
            n == Len(ops)
            placed == Placed(ops)
            resolved == [p \in DOMAIN ops |-> IF IsRef(ops[p]) THEN abs(labels[ops[p].ref])
                                              ELSE ops[p]]
            i == Instruction(e.opcode, resolved)
            j == Instruction(e.opcode, placed)
<1>1. e.opcode \in OpCode /\ ops \in Seq(Operand \cup {Ref(name) : name \in Names}) /\ n <= 2
      /\ ~IsLabel(e)
  BY BuildingAssumption, LabelsAndInstructions
<1>2. n \in Nat /\ DOMAIN ops = 1 .. n
      /\ \A p \in 1 .. n : ops[p] \in Operand \cup {Ref(name) : name \in Names}
  BY <1>1
<1>3. j \in EncodableInstruction
  BY PlacedIsEncodable
<1>4. Resolved(e, labels) = i
  BY DEF Resolved
<1>5. \A p \in DOMAIN ops : IsRef(ops[p]) => labels[ops[p].ref] \in Unsigned
  OBVIOUS
<1>6. SizeOfElement(ElementOf(e)) = Len(encode_instruction(j))
  <2>1. ElementOf(e) = [instr |-> j]
    BY <1>1 DEF ElementOf
  <2>2. ~IsLabel([instr |-> j])
    BY LabelsAndInstructions
  <2>. QED  BY <2>1, <2>2 DEF SizeOfElement
<1>. HIDE DEF n, ops
<1>7. ASSUME NEW p \in 1 .. n
      PROVE  resolved[p] \in Operand /\ resolved[p].kind = placed[p].kind
  <2>1. CASE IsRef(ops[p])
    <3>1. resolved[p] = abs(labels[ops[p].ref]) /\ placed[p] = abs(0)
      BY <1>2, <2>1 DEF Placed
    <3>2. labels[ops[p].ref] \in Unsigned
      BY <1>2, <1>5, <2>1
    <3>. QED  BY <3>1, <3>2 DEF abs, Operand
  <2>2. CASE ~IsRef(ops[p])
    <3>1. resolved[p] = ops[p] /\ placed[p] = ops[p]
      BY <1>2, <2>2 DEF Placed
    <3>2. ops[p] \in Operand
      BY <1>2, <2>2 DEF IsRef, Ref
    <3>. QED  BY <3>1, <3>2
  <2>. QED  BY <2>1, <2>2
<1>8. Len(placed) = n
  <2>1. placed = [p \in 1 .. n |-> placed[p]]
    BY <1>2 DEF Placed
  <2>. HIDE DEF placed
  <2>. QED  BY <1>2, <2>1
<1>9. resolved \in Seq(Operand) /\ Len(resolved) = n
  <2>1. resolved = [p \in 1 .. n |-> resolved[p]]
    BY <1>2
  <2>. HIDE DEF resolved
  <2>. QED  BY <1>2, <1>7, <2>1
<1>. HIDE DEF resolved, placed
<1>10. i.opcode = e.opcode /\ i.operands = resolved /\ j.operands = placed
  BY DEF Instruction
<1>11. i \in EncodableInstruction
  <2>1. Len(resolved) <= 255
    BY <1>1, <1>2, <1>9
  <2>. QED  BY <1>1, <1>9, <2>1 DEF EncodableInstruction, Instruction
<1>. HIDE DEF i, j
<1>12. \A p \in 1 .. Len(i.operands) : i.operands[p].kind = j.operands[p].kind
  BY <1>7, <1>9, <1>10
<1>13. Len(encode_instruction(i)) = Len(encode_instruction(j))
  BY <1>3, <1>8, <1>9, <1>10, <1>11, <1>12, KindsDecideLength
<1>. QED  BY <1>4, <1>6, <1>11, <1>13

-----------------------------------------------------------------------------
(* The code of the image.                                                  *)

\* The sweep meets the elements at their offsets, and finds the instructions
\* there with their labels resolved; every label that is referred to stands
\* somewhere.
Assembled(code) ==
    /\ Len(Sweep(code)) = 1 + Count(listing, Len(listing) + 1)
    /\ Last(Sweep(code)) = Len(code)
    /\ \A k \in 1 .. (Len(listing) + 1) : Sweep(code)[1 + Count(listing, k)] = Offset[k]
    /\ \A k \in InstrPlaces(listing) :
          decode_instruction(code, Offset[k]).instr = Resolved(listing[k], Labels)
    /\ \A k \in InstrPlaces(listing) : \A p \in DOMAIN listing[k].operands :
          IsRef(listing[k].operands[p]) =>
              \E m \in 1 .. Len(listing) : listing[m] = Lbl(listing[k].operands[p].ref)

LEMMA CodeIsAssembled ==
    ASSUME ListingOK, BuilderOK, NEW vectors, Defined(builder, vectors)
    PROVE  Assembled(encode_program(Patched(builder, Labels)))
<1>. DEFINE n == Len(listing)
            C(k) == Count(listing, k)
            count == C(n + 1)
            is == Patched(builder, Labels)
            code == encode_program(is)
            sweep == Sweep(code)
<1>1. /\ Len(builder.elements) = n /\ n \in Nat /\ DOMAIN listing = 1 .. n
      /\ \A k \in 1 .. n : listing[k] \in Listed /\ builder.elements[k] = ElementOf(listing[k])
  BY ElementsOf DEF ListingOK
<1>2. /\ AreOffsets(Offset, builder.elements)
      /\ \A k \in 1 .. (n + 1) : Offset[k] \in Unsigned
      /\ \A name \in LabelsOf(builder.elements) : \E k \in 1 .. n : listing[k] = Lbl(name)
      /\ \A k \in 1 .. n : \A name : listing[k] = Lbl(name) => Labels[name] = Offset[k]
  BY LabelsAre
<1>3. ArePatched(is, Labels)
  BY PatchedAre
<1>4. /\ is = [i \in 1 .. count |-> is[i]]
      /\ \A k \in InstrPlaces(listing) :
            C(k) + 1 \in 1 .. count /\ is[C(k) + 1] = Resolved(listing[k], Labels)
      /\ \A i \in 1 .. count : \E k \in InstrPlaces(listing) : i = C(k) + 1
  BY <1>3 DEF ArePatched
<1>5. \A k \in 1 .. (n + 1) :
         /\ C(k) \in Nat /\ C(1) = 0
         /\ C(k + 1) = C(k) + IF IsLabel(listing[k]) THEN 0 ELSE 1
  <2>1. \A k \in 1 .. (n + 1) : k \in Nat \ {0}
    OBVIOUS
  <2>. QED  BY <2>1, CountStep
<1>6. count \in Nat
  <2>1. n + 1 \in 1 .. (n + 1)
    BY <1>1
  <2>. HIDE DEF C
  <2>. QED  BY <1>5, <2>1
<1>. HIDE DEF n, C, count, is
<1>7. \A k \in InstrPlaces(listing) :
         k \in 1 .. n /\ ~IsLabel(listing[k]) /\ listing[k] \in Pool
  BY <1>1, LabelsAndInstructions DEF InstrPlaces, Listed
\* A label that is referred to is defined.
<1>8. ASSUME NEW k \in InstrPlaces(listing), NEW p \in DOMAIN listing[k].operands,
             IsRef(listing[k].operands[p])
      PROVE  \E m \in 1 .. n : listing[m] = Lbl(listing[k].operands[p].ref)
  <2>1. PICK r \in DOMAIN builder.refs :
             builder.refs[r].instr = Count(listing, k) + 1 /\ builder.refs[r].operand = p
    BY <1>8, RefsOfOperand
  <2>2. builder.refs[r].label = listing[k].operands[p].ref
    BY <2>1, RefsOfOperand
  <2>3. builder.refs[r].label \in LabelsOf(builder.elements)
    BY DEF Defined
  <2>. QED  BY <1>2, <2>2, <2>3
<1>9. ASSUME NEW k \in InstrPlaces(listing)
      PROVE  /\ Resolved(listing[k], Labels) \in EncodableInstruction
             /\ Len(encode_instruction(Resolved(listing[k], Labels)))
                   = SizeOfElement(builder.elements[k])
  <2>. DEFINE e == listing[k]
  <2>1. e \in Pool /\ k \in 1 .. n /\ builder.elements[k] = ElementOf(e)
    BY <1>1, <1>7
  <2>2. ASSUME NEW p \in DOMAIN e.operands, IsRef(e.operands[p])
        PROVE  Labels[e.operands[p].ref] \in Unsigned
    <3>1. PICK m \in 1 .. n : listing[m] = Lbl(e.operands[p].ref)
      BY <1>8, <2>2
    <3>2. m \in 1 .. (n + 1) /\ Labels[e.operands[p].ref] = Offset[m]
      BY <1>1, <1>2, <3>1
    <3>. QED  BY <1>2, <3>2
  <2>. HIDE DEF e
  <2>3. /\ Resolved(e, Labels) \in EncodableInstruction
        /\ Len(encode_instruction(Resolved(e, Labels))) = SizeOfElement(ElementOf(e))
    BY <2>1, <2>2, ResolvedIsEncodable
  <2>. QED  BY <2>1, <2>3 DEF e
<1>10. is \in Seq(EncodableInstruction) /\ Len(is) = count
  <2>1. \A i \in 1 .. count : is[i] \in EncodableInstruction
    BY <1>4, <1>9
  <2>. QED  BY <1>4, <1>6, <2>1
<1>11. CodeReads(is, code, sweep)
  BY <1>10, CodeRoundTrip
<1>. HIDE DEF code, sweep
<1>12. /\ sweep \in Seq(Nat) /\ Len(sweep) = count + 1
       /\ sweep[1] = 0 /\ Last(sweep) = Len(code)
       /\ \A i \in 1 .. count :
             /\ sweep[i + 1] = sweep[i] + Len(encode_instruction(is[i]))
             /\ decode_instruction(code, sweep[i]).instr = is[i]
  <2>1. ASSUME NEW i \in 1 .. count
        PROVE  /\ sweep[i + 1] = sweep[i] + Len(encode_instruction(is[i]))
               /\ decode_instruction(code, sweep[i]) =
                     [ok |-> TRUE, instr |-> is[i], next |-> sweep[i + 1]]
    BY <1>10, <1>11 DEF CodeReads
  <2>2. /\ sweep \in Seq(Nat) /\ Len(sweep) = count + 1
        /\ sweep[1] = 0 /\ Last(sweep) = Len(code)
    BY <1>10, <1>11 DEF CodeReads
  <2>3. ASSUME NEW i \in 1 .. count PROVE decode_instruction(code, sweep[i]).instr = is[i]
    <3>. DEFINE found == [ok |-> TRUE, instr |-> is[i], next |-> sweep[i + 1]]
    <3>1. found.instr = is[i]
      OBVIOUS
    <3>2. decode_instruction(code, sweep[i]) = found
      BY <2>1
    <3>. HIDE DEF found
    <3>. QED  BY <3>1, <3>2
  <2>. QED  BY <2>1, <2>2, <2>3
<1>. DEFINE T == {k \in 1 .. (n + 1) : sweep[1 + C(k)] = Offset[k]}
<1>13. 1 \in T
  <2>1. 1 \in 1 .. (n + 1)
    BY <1>1
  <2>2. C(1) = 0 /\ 1 + 0 = 1
    BY <1>5, <2>1
  <2>3. Offset[1] = 0
    BY <1>2 DEF AreOffsets
  <2>. QED  BY <1>12, <2>1, <2>2, <2>3
<1>14. ASSUME NEW k \in 1 .. ((n + 1) - 1), k \in T PROVE k + 1 \in T
  <2>1. k \in 1 .. n /\ k + 1 \in 1 .. (n + 1) /\ k \in 1 .. (n + 1)
    BY <1>1
  <2>2. C(k) \in Nat /\ C(k + 1) = C(k) + IF IsLabel(listing[k]) THEN 0 ELSE 1
    BY <1>5, <2>1
  <2>3. Offset[k + 1] = Offset[k] + SizeOfElement(builder.elements[k])
    BY <1>1, <1>2, <2>1 DEF AreOffsets
  <2>4. sweep[1 + C(k)] = Offset[k] /\ Offset[k] \in Nat
    BY <1>2, <1>14, <2>1 DEF Unsigned
  <2>5. CASE IsLabel(listing[k])
    <3>1. C(k + 1) = C(k)
      BY <2>2, <2>5
    <3>2. SizeOfElement(builder.elements[k]) = 0
      BY <1>1, <2>1, <2>5 DEF ElementOf, SizeOfElement
    <3>3. Offset[k + 1] = Offset[k]
      BY <2>3, <2>4, <3>2
    <3>. QED  BY <2>1, <2>4, <3>1, <3>3
  <2>6. CASE ~IsLabel(listing[k])
    <3>1. k \in InstrPlaces(listing)
      BY <1>1, <2>1, <2>6 DEF InstrPlaces
    <3>2. C(k) + 1 \in 1 .. count /\ is[C(k) + 1] = Resolved(listing[k], Labels)
      BY <1>4, <3>1
    <3>3. sweep[(C(k) + 1) + 1] = sweep[C(k) + 1] + Len(encode_instruction(is[C(k) + 1]))
      BY <1>12, <3>2
    <3>4. Len(encode_instruction(is[C(k) + 1])) = SizeOfElement(builder.elements[k])
      BY <1>9, <3>1, <3>2
    <3>5. C(k) + 1 = 1 + C(k) /\ (C(k) + 1) + 1 = 1 + C(k + 1)
      BY <2>2, <2>6
    <3>6. sweep[1 + C(k + 1)] = Offset[k + 1]
      BY <2>3, <2>4, <3>3, <3>4, <3>5
    <3>. QED  BY <2>1, <3>6
  <2>. QED  BY <2>5, <2>6
<1>15. 1 \in Int /\ n + 1 \in Int
  BY <1>1
<1>. HIDE DEF T
<1>16. 1 .. (n + 1) \subseteq T
  BY <1>13, <1>14, <1>15, InductionUpTo, Zenon
<1>17. \A k \in 1 .. (n + 1) : sweep[1 + C(k)] = Offset[k]
  BY <1>16 DEF T
<1>18. ASSUME NEW k \in InstrPlaces(listing)
       PROVE  decode_instruction(code, Offset[k]).instr = Resolved(listing[k], Labels)
  <2>1. C(k) + 1 \in 1 .. count /\ is[C(k) + 1] = Resolved(listing[k], Labels)
    BY <1>4
  <2>2. k \in 1 .. (n + 1) /\ C(k) \in Nat
    <3>1. k \in 1 .. (n + 1)
      BY <1>1, <1>7
    <3>. QED  BY <1>5, <3>1
  <2>3. sweep[C(k) + 1] = Offset[k]
    <3>1. C(k) + 1 = 1 + C(k)
      BY <2>2
    <3>. QED  BY <1>17, <2>2, <3>1
  <2>. QED  BY <1>12, <2>1, <2>3
<1>19. Len(sweep) = 1 + count
  BY <1>6, <1>12
<1>. QED
  BY <1>8, <1>12, <1>17, <1>18, <1>19 DEF Assembled, n, C, count, code, sweep, is

\* Build from the entry point 0.
LEMMA WhatIsBuilt ==
    ASSUME BuildingInv, EntryPoints = {0}, IsBuilt
    PROVE  /\ Assembled(Code)
           /\ \A i \in DOMAIN built.vectors :
                 built.image.interrupt_vectors[i] =
                     IF IsRef(built.vectors[i]) THEN Labels[built.vectors[i].ref]
                     ELSE built.vectors[i].value
           /\ \A i \in DOMAIN built.vectors :
                 IsRef(built.vectors[i]) =>
                    \E m \in 1 .. Len(listing) : listing[m] = Lbl(built.vectors[i].ref)
<1>1. ListingOK /\ BuilderOK /\ BuiltOK
  BY DEF BuildingInv
<1>2. built # NotBuilt
  <2>1. NotBuilt.image.ok = FALSE
    BY DEF NotBuilt, Malformed
  <2>. QED  BY <2>1 DEF IsBuilt
<1>3. PICK vectors \in VectorTables :
           built = [vectors |-> vectors, image |-> Build(builder, 0, <<>>, vectors)]
  BY <1>1, <1>2 DEF BuiltOK
<1>4. built.vectors = vectors /\ built.image = Build(builder, 0, <<>>, vectors)
  BY <1>3
<1>5. Defined(builder, vectors)
  <2>. SUFFICES ASSUME ~Defined(builder, vectors) PROVE FALSE
    OBVIOUS
  <2>1. built.image = Malformed
    BY <1>4 DEF Build
  <2>. QED  BY <2>1 DEF IsBuilt, Malformed
<1>6. builder.failed = FALSE
  BY <1>1 DEF BuilderOK
<1>7. /\ Code = encode_program(Patched(builder, Labels))
      /\ built.image.interrupt_vectors =
            [i \in DOMAIN vectors |-> IF IsRef(vectors[i]) THEN Labels[vectors[i].ref]
                                      ELSE vectors[i].value]
  BY <1>4, <1>5, <1>6 DEF Build, Code, Labels
<1>8. Assembled(Code)
  BY <1>1, <1>5, <1>7, CodeIsAssembled
<1>9. ASSUME NEW i \in DOMAIN vectors, IsRef(vectors[i])
      PROVE  \E m \in 1 .. Len(listing) : listing[m] = Lbl(vectors[i].ref)
  <2>1. vectors[i].ref \in LabelsOf(builder.elements)
    BY <1>5, <1>9 DEF Defined
  <2>. QED  BY <1>1, <2>1, LabelsAre
<1>. QED  BY <1>4, <1>7, <1>8, <1>9

\* The place of a label in the sweep is its offset.
LEMMA PlaceOfLabel ==
    ASSUME BuildingInv, Assembled(Code), NEW name,
           \E m \in 1 .. Len(listing) : listing[m] = Lbl(name)
    PROVE  Place(name) = Labels[name]
<1>1. ListingOK /\ BuilderOK
  BY DEF BuildingInv
<1>2. PICK m \in 1 .. Len(listing) : listing[m] = Lbl(name)
  OBVIOUS
<1>3. (CHOOSE j \in DOMAIN listing : listing[j] = Lbl(name)) = m /\ Labels[name] = Offset[m]
  BY <1>1, <1>2, LabelsAre
<1>4. m \in 1 .. (Len(listing) + 1)
  BY <1>1 DEF ListingOK
<1>5. At(m) = Offset[m]
  <2>1. Sweep(Code)[1 + Count(listing, m)] = Offset[m]
    BY <1>4 DEF Assembled
  <2>. QED  BY <2>1 DEF At, Before, Count
<1>. QED  BY <1>3, <1>5 DEF Place

LEMMA InvBuildsTheListing == BuildingInv /\ EntryPoints = {0} => BuildsTheListing
<1>. SUFFICES ASSUME BuildingInv, EntryPoints = {0}, IsBuilt
              PROVE  /\ Len(Sweep(Code)) = 1 + Before(Len(listing) + 1)
                     /\ Last(Sweep(Code)) = Len(Code)
                     /\ \A k \in {j \in DOMAIN listing : ~IsLabel(listing[j])} :
                           decode_instruction(Code, At(k)).instr =
                               Instruction(listing[k].opcode,
                                           [p \in DOMAIN listing[k].operands |->
                                                Decoded(listing[k].operands[p])])
  BY DEF BuildsTheListing
<1>1. Assembled(Code)
  BY WhatIsBuilt
<1>2. Len(Sweep(Code)) = 1 + Before(Len(listing) + 1) /\ Last(Sweep(Code)) = Len(Code)
  BY <1>1 DEF Assembled, Before, Count
<1>3. ASSUME NEW k \in InstrPlaces(listing)
      PROVE  decode_instruction(Code, At(k)).instr =
                 Instruction(listing[k].opcode,
                             [p \in DOMAIN listing[k].operands |-> Decoded(listing[k].operands[p])])
  <2>1. At(k) = Offset[k]
    <3>1. k \in 1 .. (Len(listing) + 1)
      BY DEF InstrPlaces, BuildingInv, ListingOK
    <3>2. Sweep(Code)[1 + Count(listing, k)] = Offset[k]
      BY <1>1, <3>1 DEF Assembled
    <3>. QED  BY <3>2 DEF At, Before, Count
  <2>2. decode_instruction(Code, Offset[k]).instr = Resolved(listing[k], Labels)
    BY <1>1 DEF Assembled
  <2>3. ASSUME NEW p \in DOMAIN listing[k].operands
        PROVE  (IF IsRef(listing[k].operands[p]) THEN abs(Labels[listing[k].operands[p].ref])
                ELSE listing[k].operands[p]) = Decoded(listing[k].operands[p])
    <3>1. CASE IsRef(listing[k].operands[p])
      <4>1. \E m \in 1 .. Len(listing) : listing[m] = Lbl(listing[k].operands[p].ref)
        BY <1>1, <3>1 DEF Assembled
      <4>2. Place(listing[k].operands[p].ref) = Labels[listing[k].operands[p].ref]
        BY <1>1, <4>1, PlaceOfLabel
      <4>. QED  BY <3>1, <4>2 DEF Decoded
    <3>2. CASE ~IsRef(listing[k].operands[p])
      BY <3>2 DEF Decoded
    <3>. QED  BY <3>1, <3>2
  <2>. QED  BY <2>1, <2>2, <2>3 DEF Resolved
<1>. QED  BY <1>2, <1>3 DEF InstrPlaces

LEMMA InvVectorsAreHandlers == BuildingInv /\ EntryPoints = {0} => VectorsAreHandlers
<1>. SUFFICES ASSUME BuildingInv, EntryPoints = {0}, IsBuilt, NEW i \in DOMAIN built.vectors
              PROVE  built.image.interrupt_vectors[i] =
                         IF IsRef(built.vectors[i]) THEN Place(built.vectors[i].ref)
                         ELSE built.vectors[i].value
  BY DEF VectorsAreHandlers
<1>1. IsRef(built.vectors[i]) => Place(built.vectors[i].ref) = Labels[built.vectors[i].ref]
  BY WhatIsBuilt, PlaceOfLabel
<1>. QED  BY <1>1, WhatIsBuilt

-----------------------------------------------------------------------------
(* Theorems.  Those about the code are for programs that begin at 0, as    *)
(* all that compile() builds do (compiler.py:81).                          *)

\* The invariant: the builder is the listing, with a placeholder at each
\* reference and the references beside it.
THEOREM BuilderHoldsTheListing == BuildingSpec => []BuildingInv
<1>. QED  BY BuildingInvInit, BuildingInvStep, PTL DEF BuildingSpec

\* A linear sweep of the built code finds the instructions that were added, in
\* their order, each reference resolved to the place of its label
\* (assembly.py:40-87).
THEOREM ListingIsBuilt ==
    ASSUME EntryPoints = {0}
    PROVE  BuildingSpec => []BuildsTheListing
<1>1. BuildingInv => BuildsTheListing
  BY InvBuildsTheListing
<1>. QED  BY <1>1, BuilderHoldsTheListing, PTL

\* An interrupt vector given by name is the place of its handler
\* (assembly.py:59-68).
THEOREM HandlersAreFound ==
    ASSUME EntryPoints = {0}
    PROVE  BuildingSpec => []VectorsAreHandlers
<1>1. BuildingInv => VectorsAreHandlers
  BY InvVectorsAreHandlers
<1>. QED  BY <1>1, BuilderHoldsTheListing, PTL
=============================================================================
