------------------------------ MODULE BinaryProofs ------------------------------
(***************************************************************************)
(* The file of an image can be read back, and no other file can be taken   *)
(* for it; code can be decoded, and a sweep finds its instructions.        *)
(***************************************************************************)
EXTENDS Binary, BasicLemmas

-----------------------------------------------------------------------------
(* Sequences of words.                                                     *)

\* FlattenSeq unfolds along any function that satisfies its recursion.
LEMMA FlattenUnfolds ==
    ASSUME NEW seqs, Len(seqs) # 0,
           NEW g, g = [i \in 1 .. Len(seqs) |-> IF i = 1 THEN seqs[i] ELSE g[i - 1] \o seqs[i]]
    PROVE  \E f : /\ f = [i \in 1 .. Len(seqs) |->
                             IF i = 1 THEN seqs[i] ELSE f[i - 1] \o seqs[i]]
                  /\ FlattenSeq(seqs) = f[Len(seqs)]
<1>. DEFINE f == CHOOSE h : h = [i \in 1 .. Len(seqs) |->
                                    IF i = 1 THEN seqs[i] ELSE h[i - 1] \o seqs[i]]
<1>1. FlattenSeq(seqs) = f[Len(seqs)]
  BY DEF FlattenSeq
<1>2. f = [i \in 1 .. Len(seqs) |-> IF i = 1 THEN seqs[i] ELSE f[i - 1] \o seqs[i]]
  OBVIOUS
<1>. HIDE DEF f
<1>. QED  BY <1>1, <1>2

\* The concatenation of two sequences.
LEMMA Concatenation ==
    ASSUME NEW S, NEW a \in Seq(S), NEW b \in Seq(S)
    PROVE  /\ a \o b \in Seq(S)
           /\ Len(a) \in Nat /\ Len(b) \in Nat /\ Len(a \o b) = Len(a) + Len(b)
           /\ \A j \in 1 .. Len(a) : (a \o b)[j] = a[j]
           /\ \A j \in 1 .. Len(b) : (a \o b)[Len(a) + j] = b[j]
OBVIOUS

\* A sequence made of the elements of two is their concatenation.
LEMMA Glue ==
    ASSUME NEW S, NEW a \in Seq(S), NEW b \in Seq(S), NEW c \in Seq(S),
           Len(c) = Len(a) + Len(b),
           \A j \in 1 .. Len(a) : c[j] = a[j],
           \A j \in 1 .. Len(b) : c[Len(a) + j] = b[j]
    PROVE  c = a \o b
<1>1. /\ a \o b \in Seq(S) /\ Len(a) \in Nat /\ Len(b) \in Nat
      /\ Len(a \o b) = Len(a) + Len(b)
  BY Concatenation
<1>2. ASSUME NEW j \in 1 .. Len(c) PROVE c[j] = (a \o b)[j]
  <2>1. CASE j <= Len(a)
    <3>1. j \in 1 .. Len(a)
      BY <1>1, <2>1
    <3>. QED  BY <3>1, Concatenation
  <2>2. CASE j > Len(a)
    <3>1. j - Len(a) \in 1 .. Len(b) /\ j = Len(a) + (j - Len(a))
      BY <1>1, <2>2
    <3>2. c[Len(a) + (j - Len(a))] = b[j - Len(a)]
      BY <3>1
    <3>3. (a \o b)[Len(a) + (j - Len(a))] = b[j - Len(a)]
      BY <3>1, Concatenation
    <3>. QED  BY <3>1, <3>2, <3>3
  <2>. QED  BY <1>1, <2>1, <2>2
<1>. QED  BY <1>1, <1>2

\* The place of a byte in its field.
LEMMA FieldPlace ==
    ASSUME NEW l \in Nat, NEW k \in 1 .. 4
    PROVE  ((4 * l + k) - 1) \div 4 = l /\ ((4 * l + k) - 1) % 4 = k - 1
OBVIOUS

\* The flattening of four-byte fields: the k-th byte of the i-th field is the
\* byte at 4(i - 1) + k.
LEMMA FlattenWords ==
    ASSUME NEW S, NEW n \in Nat, NEW q \in [1 .. n -> Seq(S)],
           \A i \in 1 .. n : Len(q[i]) = 4
    PROVE  /\ FlattenSeq(q) \in Seq(S)
           /\ Len(FlattenSeq(q)) = 4 * n
           /\ \A i \in 1 .. n, k \in 1 .. 4 : FlattenSeq(q)[4 * (i - 1) + k] = q[i][k]
<1>. DEFINE part(i) == [j \in 1 .. (4 * i) |-> q[(j - 1) \div 4 + 1][((j - 1) % 4) + 1]]
            g == [i \in 1 .. n |-> part(i)]
<1>1. Len(q) = n /\ q \in Seq(Seq(S))
  OBVIOUS
<1>2. ASSUME NEW i \in 1 .. n, NEW k \in 1 .. 4 PROVE q[i][k] \in S
  BY <1>2
<1>3. ASSUME NEW i \in 1 .. n
      PROVE  /\ part(i) \in Seq(S) /\ Len(part(i)) = 4 * i
             /\ \A l \in 1 .. i, k \in 1 .. 4 : part(i)[4 * (l - 1) + k] = q[l][k]
  <2>1. ASSUME NEW j \in 1 .. (4 * i)
        PROVE  (j - 1) \div 4 + 1 \in 1 .. n /\ ((j - 1) % 4) + 1 \in 1 .. 4
    BY <2>1
  <2>2. \A j \in 1 .. (4 * i) : q[(j - 1) \div 4 + 1][((j - 1) % 4) + 1] \in S
    BY <1>2, <2>1
  <2>3. part(i) \in Seq(S) /\ Len(part(i)) = 4 * i
    BY <2>2
  <2>4. ASSUME NEW l \in 1 .. i, NEW k \in 1 .. 4
        PROVE  part(i)[4 * (l - 1) + k] = q[l][k]
    <3>1. 4 * (l - 1) + k \in 1 .. (4 * i)
      OBVIOUS
    <3>2. ((4 * (l - 1) + k) - 1) \div 4 + 1 = l /\ (((4 * (l - 1) + k) - 1) % 4) + 1 = k
      OBVIOUS
    <3>. QED  BY <3>1, <3>2
  <2>. QED  BY <2>3, <2>4
<1>4. part(1) = q[1] \/ n = 0
  <2>. SUFFICES ASSUME n # 0 PROVE part(1) = q[1]
    OBVIOUS
  <2>1. 1 \in 1 .. n /\ q[1] \in Seq(S) /\ Len(q[1]) = 4
    OBVIOUS
  <2>2. ASSUME NEW k \in 1 .. 4 PROVE part(1)[k] = q[1][k]
    <3>1. k \in 1 .. (4 * 1)
      OBVIOUS
    <3>2. ((4 * 0 + k) - 1) \div 4 = 0 /\ ((4 * 0 + k) - 1) % 4 = k - 1
      BY FieldPlace
    <3>3. (4 * 0 + k) - 1 = k - 1 /\ 0 + 1 = 1 /\ (k - 1) + 1 = k
      OBVIOUS
    <3>. QED  BY <3>1, <3>2, <3>3
  <2>3. part(1) \in Seq(S) /\ Len(part(1)) = 4
    BY <1>3, <2>1
  <2>. HIDE DEF part
  <2>. QED  BY <2>1, <2>2, <2>3
<1>5. ASSUME NEW i \in 1 .. n, i # 1 PROVE part(i) = part(i - 1) \o q[i]
  <2>1. i - 1 \in 1 .. n
    BY <1>5
  <2>2. /\ part(i) \in Seq(S) /\ Len(part(i)) = 4 * i
        /\ part(i - 1) \in Seq(S) /\ Len(part(i - 1)) = 4 * (i - 1)
        /\ q[i] \in Seq(S) /\ Len(q[i]) = 4
    BY <1>3, <2>1
  <2>3. ASSUME NEW j \in 1 .. (4 * (i - 1)) PROVE part(i)[j] = part(i - 1)[j]
    <3>1. j \in 1 .. (4 * i)
      OBVIOUS
    <3>. QED  BY <3>1
  <2>4. ASSUME NEW k \in 1 .. 4 PROVE part(i)[4 * (i - 1) + k] = q[i][k]
    <3>1. i \in 1 .. i
      OBVIOUS
    <3>. HIDE DEF part
    <3>. QED  BY <1>3, <3>1, Zenon
  <2>. DEFINE a == part(i - 1)
              b == q[i]
              c == part(i)
  <2>5. /\ a \in Seq(S) /\ b \in Seq(S) /\ c \in Seq(S)
        /\ Len(a) = 4 * (i - 1) /\ Len(b) = 4 /\ Len(c) = Len(a) + Len(b)
    <3>1. 4 * i = 4 * (i - 1) + 4
      OBVIOUS
    <3>. HIDE DEF part
    <3>. QED  BY <2>2, <3>1
  <2>6. /\ \A j \in 1 .. Len(a) : c[j] = a[j]
        /\ \A j \in 1 .. Len(b) : c[Len(a) + j] = b[j]
    <3>. HIDE DEF part
    <3>. QED  BY <2>3, <2>4, <2>5
  <2>. HIDE DEF a, b, c
  <2>7. c = a \o b
    BY <2>5, <2>6, Glue
  <2>. QED  BY <2>7 DEF a, b, c
<1>. HIDE DEF part
<1>6. CASE n = 0
  <2>1. FlattenSeq(q) = q /\ q = <<>>
    BY <1>1, <1>6 DEF FlattenSeq
  <2>. QED  BY <1>6, <2>1
<1>7. CASE n # 0
  <2>1. g = [i \in 1 .. Len(q) |-> IF i = 1 THEN q[i] ELSE g[i - 1] \o q[i]]
    <3>1. \A i \in 1 .. n : g[i] = IF i = 1 THEN q[i] ELSE g[i - 1] \o q[i]
      BY <1>4, <1>5, <1>7
    <3>. QED  BY <1>1, <3>1
  <2>2. PICK f : /\ f = [i \in 1 .. Len(q) |-> IF i = 1 THEN q[i] ELSE f[i - 1] \o q[i]]
                 /\ FlattenSeq(q) = f[Len(q)]
    <3>. HIDE DEF g
    <3>. QED  BY <1>1, <1>7, <2>1, FlattenUnfolds
  <2>3. \A i \in 1 .. n : f[i] = IF i = 1 THEN q[i] ELSE f[i - 1] \o q[i]
    BY <1>1, <2>2
  <2>. DEFINE Agree == {i \in 1 .. n : f[i] = part(i)}
  <2>4. 1 \in Agree
    BY <1>4, <1>7, <2>3
  <2>5. \A i \in 1 .. (n - 1) : i \in Agree => i + 1 \in Agree
    <3>. SUFFICES ASSUME NEW i \in 1 .. (n - 1), f[i] = part(i)
                  PROVE  i + 1 \in 1 .. n /\ f[i + 1] = part(i + 1)
      OBVIOUS
    <3>1. i + 1 \in 1 .. n /\ i + 1 # 1 /\ (i + 1) - 1 = i
      OBVIOUS
    <3>2. part(i + 1) = part((i + 1) - 1) \o q[i + 1]
      BY <1>5, <3>1
    <3>3. f[i + 1] = f[(i + 1) - 1] \o q[i + 1]
      BY <2>3, <3>1
    <3>. QED  BY <3>1, <3>2, <3>3
  <2>. HIDE DEF Agree
  <2>6. 1 .. n \subseteq Agree
    <3>1. 1 \in Int /\ n \in Int
      OBVIOUS
    <3>. QED  BY <2>4, <2>5, <3>1, InductionUpTo, Zenon
  <2>7. f[n] = part(n)
    BY <1>7, <2>6 DEF Agree
  <2>8. FlattenSeq(q) = part(n) /\ n \in 1 .. n
    BY <1>1, <1>7, <2>2, <2>7
  <2>. QED  BY <1>3, <2>8
<1>. QED  BY <1>6, <1>7

-----------------------------------------------------------------------------
(* Fields of four bytes.                                                   *)

\* The bytes of a packed word.
LEMMA PackWordType ==
    ASSUME NEW v \in Int
    PROVE  PackWord(v) \in Seq(Byte) /\ Len(PackWord(v)) = 4
<1>1. to_u32(v) \in Nat
  BY IsaAssumption DEF IsaAssumption, to_u32
<1>2. /\ to_u32(v) % 256 \in Byte /\ (to_u32(v) \div 256) % 256 \in Byte
      /\ (to_u32(v) \div 65536) % 256 \in Byte /\ (to_u32(v) \div 16777216) % 256 \in Byte
  <2>. DEFINE u == to_u32(v)
  <2>1. u \div 256 \in Nat /\ u \div 65536 \in Nat /\ u \div 16777216 \in Nat
    BY <1>1
  <2>. HIDE DEF u
  <2>2. \A m \in Nat : m % 256 \in Byte
    BY DEF Byte
  <2>. QED  BY <1>1, <2>1, <2>2 DEF u
<1>. QED  BY <1>2 DEF PackWord

\* The reduction at each byte does nothing to a field that holds a word.
LEMMA WordAtField ==
    ASSUME NEW v \in Int, NEW raw, NEW offset \in Nat,
           \A k \in 1 .. 4 : raw[offset + k] = PackWord(v)[k]
    PROVE  WordAt(raw, offset) = to_u32(v)
<1>. DEFINE u == to_u32(v)
            b0 == u % 256
            b1 == (u \div 256) % 256
            b2 == (u \div 65536) % 256
            b3 == (u \div 16777216) % 256
<1>1. SIGN_BIT \in Nat /\ SIGN_BIT > 0 /\ SIGN_BIT <= 2147483648
  BY IsaAssumption, FieldAssumption DEF IsaAssumption
<1>2. u \in Nat /\ u < 2 * SIGN_BIT
  BY <1>1 DEF to_u32
<1>3. ASSUME NEW w \in Nat, w <= u PROVE to_u32(w) = w
  <2>. HIDE DEF u
  <2>. QED  BY <1>1, <1>2, <1>3 DEF to_u32
<1>4. /\ ByteAt(raw, offset) = b0 /\ ByteAt(raw, offset + 1) = b1
      /\ ByteAt(raw, offset + 2) = b2 /\ ByteAt(raw, offset + 3) = b3
  <2>1. /\ PackWord(v)[1] = b0 /\ PackWord(v)[2] = b1
        /\ PackWord(v)[3] = b2 /\ PackWord(v)[4] = b3
    BY DEF PackWord
  <2>2. /\ offset + 1 + 1 = offset + 2 /\ offset + 2 + 1 = offset + 3
        /\ offset + 3 + 1 = offset + 4
    OBVIOUS
  <2>3. /\ raw[offset + 1] = PackWord(v)[1] /\ raw[offset + 2] = PackWord(v)[2]
        /\ raw[offset + 3] = PackWord(v)[3] /\ raw[offset + 4] = PackWord(v)[4]
    OBVIOUS
  <2>. QED  BY <2>1, <2>2, <2>3 DEF ByteAt
<1>. HIDE DEF u
<1>5. u < 4294967296
  BY <1>1, <1>2
<1>6. b3 = u \div 16777216 /\ b3 \in Nat /\ b3 <= u
  BY <1>2, <1>5
<1>7. b2 + 256 * b3 = u \div 65536 /\ u \div 65536 \in Nat /\ u \div 65536 <= u
  BY <1>2, <1>5
<1>8. b1 + 256 * (u \div 65536) = u \div 256 /\ u \div 256 \in Nat /\ u \div 256 <= u
  BY <1>2
<1>9. b0 + 256 * (u \div 256) = u
  BY <1>2
<1>. HIDE DEF b0, b1, b2, b3
<1>10. /\ to_u32(b3) = b3
       /\ to_u32(b2 + 256 * b3) = u \div 65536
       /\ to_u32(b1 + 256 * (u \div 65536)) = u \div 256
       /\ to_u32(b0 + 256 * (u \div 256)) = u
  BY <1>2, <1>3, <1>6, <1>7, <1>8, <1>9
<1>11. WordAt(raw, offset) = to_u32(b0 + 256 * to_u32(b1 + 256 * to_u32(b2 + 256 * to_u32(b3))))
  BY <1>4 DEF WordAt
<1>. QED  BY <1>10, <1>11 DEF u

-----------------------------------------------------------------------------
(* The layout of a file.                                                   *)

\* The parts of an image.
LEMMA ImageParts ==
    ASSUME NEW im \in ProgramImage
    PROVE  /\ im.ok = TRUE /\ im.entry_point \in Unsigned /\ im.code \in Seq(Byte)
           /\ im.data \in Seq(Word) /\ im.interrupt_vectors \in Seq(Unsigned)
           /\ {Len(im.code), Len(im.data), Len(im.interrupt_vectors)} \subseteq Unsigned
           /\ im = [ok |-> TRUE, entry_point |-> im.entry_point, code |-> im.code,
                    data |-> im.data, interrupt_vectors |-> im.interrupt_vectors]
<1>. DEFINE R == [ok : {TRUE}, entry_point : Unsigned, code : Seq(Byte), data : Seq(Word),
                  interrupt_vectors : Seq(Unsigned)]
<1>1. im \in R /\ {Len(im.code), Len(im.data), Len(im.interrupt_vectors)} \subseteq Unsigned
  BY DEF ProgramImage
<1>. QED  BY <1>1

\* The words of a section, one field after the other.
FieldsOf(words, section) ==
    /\ section \in Seq(Byte) /\ Len(section) = 4 * Len(words)
    /\ \A i \in 1 .. Len(words), k \in 1 .. 4 :
          section[4 * (i - 1) + k] = PackWord(words[i])[k]

LEMMA SectionLayout ==
    ASSUME NEW V \in SUBSET Int, NEW words \in Seq(V), NEW section,
           section = FlattenSeq([i \in DOMAIN words |-> PackWord(words[i])])
    PROVE  FieldsOf(words, section)
<1>. DEFINE n == Len(words)
            q == [i \in 1 .. n |-> PackWord(words[i])]
<1>1. n \in Nat /\ DOMAIN words = 1 .. n
  OBVIOUS
<1>2. ASSUME NEW i \in 1 .. n PROVE words[i] \in Int
  <2>1. words[i] \in V
    OBVIOUS
  <2>. QED  BY <2>1
<1>. HIDE DEF n
<1>3. \A i \in 1 .. n : PackWord(words[i]) \in Seq(Byte) /\ Len(PackWord(words[i])) = 4
  BY <1>2, PackWordType
<1>4. q \in [1 .. n -> Seq(Byte)] /\ \A i \in 1 .. n : Len(q[i]) = 4 /\ q[i] = PackWord(words[i])
  BY <1>3
<1>5. section = FlattenSeq(q)
  BY <1>1
<1>. HIDE DEF q
<1>6. /\ FlattenSeq(q) \in Seq(Byte) /\ Len(FlattenSeq(q)) = 4 * n
      /\ \A i \in 1 .. n, k \in 1 .. 4 : FlattenSeq(q)[4 * (i - 1) + k] = q[i][k]
  BY <1>1, <1>4, FlattenWords
<1>7. n = Len(words)
  BY DEF n
<1>. QED  BY <1>4, <1>5, <1>6, <1>7 DEF FieldsOf

\* The bytes c are those of a and then those of b.
Joined(a, b, c) ==
    /\ c \in Seq(Byte)
    /\ Len(c) = Len(a) + Len(b)
    /\ \A j \in 1 .. Len(a) : c[j] = a[j]
    /\ \A j \in 1 .. Len(b) : c[Len(a) + j] = b[j]

LEMMA Joining ==
    ASSUME NEW a \in Seq(Byte), NEW b \in Seq(Byte)
    PROVE  Joined(a, b, a \o b)
<1>1. a \o b \in Seq(Byte) /\ Len(a \o b) = Len(a) + Len(b)
  OBVIOUS
<1>2. \A j \in 1 .. Len(a) : (a \o b)[j] = a[j]
  OBVIOUS
<1>3. \A j \in 1 .. Len(b) : (a \o b)[Len(a) + j] = b[j]
  OBVIOUS
<1>. QED  BY <1>1, <1>2, <1>3 DEF Joined

\* Four fields after the first eight bytes.
FieldsFollow(h8, f1, f2, f3, f4, h) ==
    /\ h \in Seq(Byte) /\ Len(h) = 24
    /\ \A j \in 1 .. 8 : h[j] = h8[j]
    /\ \A k \in 1 .. 4 : /\ h[8 + k] = f1[k] /\ h[12 + k] = f2[k]
                        /\ h[16 + k] = f3[k] /\ h[20 + k] = f4[k]

LEMMA FourFields ==
    ASSUME NEW h8 \in Seq(Byte), Len(h8) = 8,
           NEW f1, NEW f2, NEW f3, NEW f4,
           Len(f1) = 4, Len(f2) = 4, Len(f3) = 4, Len(f4) = 4,
           NEW h12, NEW h16, NEW h20, NEW h,
           Joined(h8, f1, h12), Joined(h12, f2, h16), Joined(h16, f3, h20), Joined(h20, f4, h)
    PROVE  FieldsFollow(h8, f1, f2, f3, f4, h)
<1>1. Len(h12) = 12
  BY DEF Joined
<1>2. Len(h16) = 16
  BY <1>1 DEF Joined
<1>3. Len(h20) = 20
  BY <1>2 DEF Joined
<1>4. h \in Seq(Byte) /\ Len(h) = 24
  BY <1>3 DEF Joined
<1>5. (\A j \in 1 .. 8 : h12[j] = h8[j]) /\ (\A k \in 1 .. 4 : h12[8 + k] = f1[k])
  BY DEF Joined
<1>6. (\A j \in 1 .. 12 : h16[j] = h12[j]) /\ (\A k \in 1 .. 4 : h16[12 + k] = f2[k])
  BY <1>1 DEF Joined
<1>7. (\A j \in 1 .. 16 : h20[j] = h16[j]) /\ (\A k \in 1 .. 4 : h20[16 + k] = f3[k])
  BY <1>2 DEF Joined
<1>8. (\A j \in 1 .. 20 : h[j] = h20[j]) /\ (\A k \in 1 .. 4 : h[20 + k] = f4[k])
  BY <1>3 DEF Joined
<1>9. ASSUME NEW j \in 1 .. 8 PROVE h[j] = h8[j]
  <2>1. j \in 1 .. 12 /\ j \in 1 .. 16 /\ j \in 1 .. 20
    OBVIOUS
  <2>. QED  BY <2>1, <1>5, <1>6, <1>7, <1>8
<1>10. ASSUME NEW k \in 1 .. 4
       PROVE  h[8 + k] = f1[k] /\ h[12 + k] = f2[k] /\ h[16 + k] = f3[k] /\ h[20 + k] = f4[k]
  <2>1. /\ 8 + k \in 1 .. 12 /\ 8 + k \in 1 .. 16 /\ 8 + k \in 1 .. 20
        /\ 12 + k \in 1 .. 16 /\ 12 + k \in 1 .. 20 /\ 16 + k \in 1 .. 20
    OBVIOUS
  <2>2. h[8 + k] = h20[8 + k] /\ h20[8 + k] = h16[8 + k] /\ h16[8 + k] = h12[8 + k]
    BY <2>1, <1>6, <1>7, <1>8
  <2>3. h[12 + k] = h20[12 + k] /\ h20[12 + k] = h16[12 + k]
    BY <2>1, <1>7, <1>8
  <2>4. h[16 + k] = h20[16 + k]
    BY <2>1, <1>8
  <2>5. h12[8 + k] = f1[k] /\ h16[12 + k] = f2[k] /\ h20[16 + k] = f3[k] /\ h[20 + k] = f4[k]
    BY <1>5, <1>6, <1>7, <1>8
  <2>. QED  BY <2>2, <2>3, <2>4, <2>5
<1>. QED  BY <1>4, <1>9, <1>10 DEF FieldsFollow

\* The fields of a header.
HeaderBytes(r, e, c, d, v) ==
    /\ r[1] = 76 /\ r[2] = 52 /\ r[3] = 72 /\ r[4] = 66 /\ r[5] = VERSION
    /\ \A k \in 1 .. 4 : /\ r[8 + k] = PackWord(e)[k] /\ r[12 + k] = PackWord(c)[k]
                        /\ r[16 + k] = PackWord(d)[k] /\ r[20 + k] = PackWord(v)[k]

LEMMA HeaderLayout ==
    ASSUME NEW e \in Int, NEW c \in Int, NEW d \in Int, NEW v \in Int, NEW h,
           h = MAGIC \o <<VERSION, 0, 0, 0>>
                   \o PackWord(e) \o PackWord(c) \o PackWord(d) \o PackWord(v)
    PROVE  h \in Seq(Byte) /\ Len(h) = 24 /\ HeaderBytes(h, e, c, d, v)
<1>. DEFINE w == <<VERSION, 0, 0, 0>>
            h8 == MAGIC \o w
            h12 == h8 \o PackWord(e)
            h16 == h12 \o PackWord(c)
            h20 == h16 \o PackWord(d)
<1>1. /\ MAGIC \in Seq(Byte) /\ Len(MAGIC) = 4
      /\ MAGIC[1] = 76 /\ MAGIC[2] = 52 /\ MAGIC[3] = 72 /\ MAGIC[4] = 66
  BY DEF MAGIC, Byte
<1>2. w \in Seq(Byte) /\ Len(w) = 4 /\ w[1] = VERSION
  BY DEF VERSION, Byte
<1>3. /\ PackWord(e) \in Seq(Byte) /\ Len(PackWord(e)) = 4
      /\ PackWord(c) \in Seq(Byte) /\ Len(PackWord(c)) = 4
      /\ PackWord(d) \in Seq(Byte) /\ Len(PackWord(d)) = 4
      /\ PackWord(v) \in Seq(Byte) /\ Len(PackWord(v)) = 4
  BY PackWordType
<1>4. h = h20 \o PackWord(v)
  OBVIOUS
<1>. HIDE DEF w
<1>5. Joined(MAGIC, w, h8)
  BY <1>1, <1>2, Joining
<1>. HIDE DEF h8
<1>6. h8 \in Seq(Byte) /\ Len(h8) = 8
  BY <1>1, <1>2, <1>5 DEF Joined
<1>7. Joined(h8, PackWord(e), h12)
  BY <1>3, <1>6, Joining
<1>. HIDE DEF h12
<1>8. h12 \in Seq(Byte)
  BY <1>7 DEF Joined
<1>9. Joined(h12, PackWord(c), h16)
  BY <1>3, <1>8, Joining
<1>. HIDE DEF h16
<1>10. h16 \in Seq(Byte)
  BY <1>9 DEF Joined
<1>11. Joined(h16, PackWord(d), h20)
  BY <1>3, <1>10, Joining
<1>. HIDE DEF h20
<1>12. h20 \in Seq(Byte)
  BY <1>11 DEF Joined
<1>13. Joined(h20, PackWord(v), h)
  BY <1>3, <1>4, <1>12, Joining
<1>14. FieldsFollow(h8, PackWord(e), PackWord(c), PackWord(d), PackWord(v), h)
  BY <1>3, <1>6, <1>7, <1>9, <1>11, <1>13, FourFields, Zenon
<1>15. (\A j \in 1 .. 4 : h8[j] = MAGIC[j]) /\ (\A k \in 1 .. 4 : h8[4 + k] = w[k])
  BY <1>1, <1>2, <1>5 DEF Joined
<1>16. h8[1] = 76 /\ h8[2] = 52 /\ h8[3] = 72 /\ h8[4] = 66
  BY <1>1, <1>15
<1>17. h8[4 + 1] = w[1] /\ 4 + 1 = 5
  BY <1>15
<1>18. h[1] = h8[1] /\ h[2] = h8[2] /\ h[3] = h8[3] /\ h[4] = h8[4] /\ h[5] = h8[5]
  <2>1. 1 \in 1 .. 8 /\ 2 \in 1 .. 8 /\ 3 \in 1 .. 8 /\ 4 \in 1 .. 8 /\ 5 \in 1 .. 8
    OBVIOUS
  <2>. QED  BY <1>14, <2>1 DEF FieldsFollow
<1>19. h[1] = 76 /\ h[2] = 52 /\ h[3] = 72 /\ h[4] = 66 /\ h[5] = VERSION
  BY <1>2, <1>16, <1>17, <1>18
<1>. QED  BY <1>14, <1>19 DEF FieldsFollow, HeaderBytes

\* A header and three sections.
SectionsFollow(h, code, data, vectors, raw) ==
    /\ raw \in Seq(Byte) /\ Len(raw) = Len(h) + Len(code) + Len(data) + Len(vectors)
    /\ \A j \in 1 .. Len(h) : raw[j] = h[j]
    /\ \A j \in 1 .. Len(code) : raw[Len(h) + j] = code[j]
    /\ \A j \in 1 .. Len(data) : raw[Len(h) + Len(code) + j] = data[j]
    /\ \A j \in 1 .. Len(vectors) : raw[Len(h) + Len(code) + Len(data) + j] = vectors[j]

LEMMA ThreeSections ==
    ASSUME NEW h \in Seq(Byte), NEW code \in Seq(Byte), NEW data \in Seq(Byte),
           NEW vectors \in Seq(Byte), NEW raw, raw = h \o code \o data \o vectors
    PROVE  SectionsFollow(h, code, data, vectors, raw)
<1>. DEFINE r1 == h \o code
            r2 == r1 \o data
            a == Len(h)
            b == Len(code)
            c == Len(data)
            e == Len(vectors)
<1>1. a \in Nat /\ b \in Nat /\ c \in Nat /\ e \in Nat
  OBVIOUS
<1>2. Joined(h, code, r1)
  BY Joining
<1>3. raw = r2 \o vectors
  OBVIOUS
<1>. HIDE DEF r1
<1>4. r1 \in Seq(Byte)
  BY <1>2 DEF Joined
<1>5. Joined(r1, data, r2)
  BY <1>4, Joining
<1>. HIDE DEF r2
<1>6. r2 \in Seq(Byte)
  BY <1>5 DEF Joined
<1>7. Joined(r2, vectors, raw)
  BY <1>3, <1>6, Joining
<1>. HIDE DEF a, b, c, e
<1>8. /\ Len(r1) = a + b
      /\ \A j \in 1 .. a : r1[j] = h[j]
      /\ \A j \in 1 .. b : r1[a + j] = code[j]
  BY <1>2 DEF Joined, a, b
<1>9. /\ Len(r2) = a + b + c
      /\ \A j \in 1 .. (a + b) : r2[j] = r1[j]
      /\ \A j \in 1 .. c : r2[a + b + j] = data[j]
  BY <1>5, <1>8 DEF Joined, c
<1>10. /\ raw \in Seq(Byte) /\ Len(raw) = a + b + c + e
       /\ \A j \in 1 .. (a + b + c) : raw[j] = r2[j]
       /\ \A j \in 1 .. e : raw[a + b + c + j] = vectors[j]
  BY <1>7, <1>9 DEF Joined, e
<1>11. ASSUME NEW j \in 1 .. a PROVE raw[j] = h[j]
  <2>1. j \in 1 .. (a + b) /\ j \in 1 .. (a + b + c)
    BY <1>1
  <2>. QED  BY <2>1, <1>8, <1>9, <1>10
<1>12. ASSUME NEW j \in 1 .. b PROVE raw[a + j] = code[j]
  <2>1. a + j \in 1 .. (a + b) /\ a + j \in 1 .. (a + b + c)
    BY <1>1
  <2>. QED  BY <2>1, <1>8, <1>9, <1>10
<1>13. ASSUME NEW j \in 1 .. c PROVE raw[a + b + j] = data[j]
  <2>1. a + b + j \in 1 .. (a + b + c)
    BY <1>1
  <2>. QED  BY <2>1, <1>9, <1>10
<1>. QED  BY <1>10, <1>11, <1>12, <1>13 DEF SectionsFollow, a, b, c, e

\* A header is told by the first 24 bytes.
LEMMA SameHeader ==
    ASSUME NEW h, NEW r, \A j \in 1 .. 24 : r[j] = h[j],
           NEW e, NEW c, NEW d, NEW v, HeaderBytes(h, e, c, d, v)
    PROVE  HeaderBytes(r, e, c, d, v)
<1>1. r[1] = 76 /\ r[2] = 52 /\ r[3] = 72 /\ r[4] = 66 /\ r[5] = VERSION
  <2>1. 1 \in 1 .. 24 /\ 2 \in 1 .. 24 /\ 3 \in 1 .. 24 /\ 4 \in 1 .. 24 /\ 5 \in 1 .. 24
    OBVIOUS
  <2>. QED  BY <2>1 DEF HeaderBytes
<1>2. ASSUME NEW k \in 1 .. 4
      PROVE  /\ r[8 + k] = h[8 + k] /\ r[12 + k] = h[12 + k]
             /\ r[16 + k] = h[16 + k] /\ r[20 + k] = h[20 + k]
  <2>1. 8 + k \in 1 .. 24 /\ 12 + k \in 1 .. 24 /\ 16 + k \in 1 .. 24 /\ 20 + k \in 1 .. 24
    OBVIOUS
  <2>. QED  BY <2>1
<1>3. \A k \in 1 .. 4 : /\ h[8 + k] = PackWord(e)[k] /\ h[12 + k] = PackWord(c)[k]
                        /\ h[16 + k] = PackWord(d)[k] /\ h[20 + k] = PackWord(v)[k]
  BY Zenon DEF HeaderBytes
<1>4. \A k \in 1 .. 4 : /\ r[8 + k] = PackWord(e)[k] /\ r[12 + k] = PackWord(c)[k]
                        /\ r[16 + k] = PackWord(d)[k] /\ r[20 + k] = PackWord(v)[k]
  BY <1>2, <1>3
<1>. QED  BY <1>1, <1>4 DEF HeaderBytes

\* What decides how the file of an image is read: its header,
HeaderIs(r, im) ==
    HeaderBytes(r, im.entry_point, Len(im.code), Len(im.data), Len(im.interrupt_vectors))

\* its sections,
SectionsAre(r, im) ==
    LET c == Len(im.code)
        d == Len(im.data)
    IN /\ \A j \in 1 .. c : r[24 + j] = im.code[j]
       /\ \A i \in 1 .. d, k \in 1 .. 4 :
             r[24 + c + (4 * (i - 1) + k)] = PackWord(im.data[i])[k]
       /\ \A i \in 1 .. Len(im.interrupt_vectors), k \in 1 .. 4 :
             r[24 + c + 4 * d + (4 * (i - 1) + k)] = PackWord(im.interrupt_vectors[i])[k]

\* and its size.
SizeOf(im) == 24 + Len(im.code) + 4 * Len(im.data) + 4 * Len(im.interrupt_vectors)

LEMMA FileLayout ==
    ASSUME NEW im \in ProgramImage, NEW raw, raw = to_bytes(im)
    PROVE  /\ raw \in Seq(Byte) /\ Len(raw) = SizeOf(im)
           /\ HeaderIs(raw, im) /\ SectionsAre(raw, im)
<1>. DEFINE e == im.entry_point
            code == im.code
            data == im.data
            vectors == im.interrupt_vectors
            c == Len(code)
            d == Len(data)
            v == Len(vectors)
            h == MAGIC \o <<VERSION, 0, 0, 0>>
                     \o PackWord(e) \o PackWord(c) \o PackWord(d) \o PackWord(v)
            ds == FlattenSeq([i \in DOMAIN data |-> PackWord(data[i])])
            vs == FlattenSeq([i \in DOMAIN vectors |-> PackWord(vectors[i])])
<1>1. /\ e \in Unsigned /\ code \in Seq(Byte) /\ data \in Seq(Word)
      /\ vectors \in Seq(Unsigned) /\ c \in Unsigned /\ d \in Unsigned /\ v \in Unsigned
  BY ImageParts
<1>2. raw = h \o code \o ds \o vs
  BY DEF to_bytes
<1>3. Unsigned \in SUBSET Int /\ Word \in SUBSET Int /\ Unsigned \subseteq Nat
  BY IsaAssumption DEF Unsigned, Word, U32_MAX, IsaAssumption
<1>. HIDE DEF e, code, data, vectors, c, d, v
<1>4. h \in Seq(Byte) /\ Len(h) = 24 /\ HeaderBytes(h, e, c, d, v)
  <2>1. e \in Int /\ c \in Int /\ d \in Int /\ v \in Int
    BY <1>1, <1>3
  <2>. QED  BY <2>1, HeaderLayout
<1>. HIDE DEF h
<1>5. FieldsOf(data, ds)
  BY <1>1, <1>3, SectionLayout, Zenon
<1>6. FieldsOf(vectors, vs)
  BY <1>1, <1>3, SectionLayout, Zenon
<1>. HIDE DEF ds, vs
<1>7. SectionsFollow(h, code, ds, vs, raw)
  BY <1>1, <1>2, <1>4, <1>5, <1>6, ThreeSections, Zenon DEF FieldsOf
<1>8. c \in Nat /\ d \in Nat /\ v \in Nat /\ Len(code) = c /\ Len(ds) = 4 * d /\ Len(vs) = 4 * v
  BY <1>1, <1>3, <1>5, <1>6 DEF c, d, v, FieldsOf
<1>9. raw \in Seq(Byte) /\ Len(raw) = 24 + c + 4 * d + 4 * v
  BY <1>4, <1>7, <1>8 DEF SectionsFollow
<1>10. \A j \in 1 .. 24 : raw[j] = h[j]
  BY <1>4, <1>7, Zenon DEF SectionsFollow
<1>11. \A j \in 1 .. c : raw[24 + j] = code[j]
  BY <1>4, <1>7, <1>8, Zenon DEF SectionsFollow
<1>12. \A j \in 1 .. (4 * d) : raw[24 + c + j] = ds[j]
  BY <1>4, <1>7, <1>8, Zenon DEF SectionsFollow
<1>13. \A j \in 1 .. (4 * v) : raw[24 + c + 4 * d + j] = vs[j]
  BY <1>4, <1>7, <1>8, Zenon DEF SectionsFollow
<1>14. HeaderIs(raw, im)
  BY <1>4, <1>10, SameHeader DEF HeaderIs, e, c, d, v, code, data, vectors
<1>15. ASSUME NEW i \in 1 .. d, NEW k \in 1 .. 4
       PROVE  raw[24 + c + (4 * (i - 1) + k)] = PackWord(data[i])[k]
  <2>1. 4 * (i - 1) + k \in 1 .. (4 * d)
    BY <1>8
  <2>2. ds[4 * (i - 1) + k] = PackWord(data[i])[k]
    BY <1>5, Zenon DEF FieldsOf, d
  <2>. QED  BY <2>1, <2>2, <1>12
<1>16. ASSUME NEW i \in 1 .. v, NEW k \in 1 .. 4
       PROVE  raw[24 + c + 4 * d + (4 * (i - 1) + k)] = PackWord(vectors[i])[k]
  <2>1. 4 * (i - 1) + k \in 1 .. (4 * v)
    BY <1>8
  <2>2. vs[4 * (i - 1) + k] = PackWord(vectors[i])[k]
    BY <1>6, Zenon DEF FieldsOf, v
  <2>. QED  BY <2>1, <2>2, <1>13
<1>17. SectionsAre(raw, im)
  BY <1>11, <1>15, <1>16 DEF SectionsAre, c, d, v, code, data, vectors
<1>18. Len(raw) = SizeOf(im)
  BY <1>9 DEF SizeOf, c, d, v, code, data, vectors
<1>. QED  BY <1>9, <1>14, <1>17, <1>18

-----------------------------------------------------------------------------
(* Reading a file.                                                         *)

LEMMA UnsignedIsItself ==
    ASSUME NEW x \in Unsigned
    PROVE  x \in Nat /\ to_u32(x) = x
BY IsaAssumption DEF IsaAssumption, Unsigned, U32_MAX, to_u32

LEMMA WordIsItself ==
    ASSUME NEW x \in Word
    PROVE  x \in Int /\ to_i32(to_u32(x)) = x
BY IsaAssumption DEF IsaAssumption, Word, to_u32, to_i32

\* A field that holds an unsigned word reads as it.
LEMMA UnsignedAtField ==
    ASSUME NEW x \in Unsigned, NEW r, NEW offset \in Nat,
           \A k \in 1 .. 4 : r[offset + k] = PackWord(x)[k]
    PROVE  WordAt(r, offset) = x
<1>1. x \in Int /\ to_u32(x) = x
  BY UnsignedIsItself
<1>2. WordAt(r, offset) = to_u32(x)
  BY <1>1, WordAtField
<1>. QED  BY <1>1, <1>2

LEMMA SizeAtLeastHeader ==
    ASSUME NEW im \in ProgramImage
    PROVE  SizeOf(im) >= 24
<1>. DEFINE c == Len(im.code)
            d == Len(im.data)
            v == Len(im.interrupt_vectors)
<1>1. c \in Unsigned /\ d \in Unsigned /\ v \in Unsigned
  BY ImageParts
<1>2. SizeOf(im) = 24 + c + 4 * d + 4 * v
  BY DEF SizeOf
<1>. HIDE DEF c, d, v
<1>3. c \in Nat /\ d \in Nat /\ v \in Nat
  BY <1>1, UnsignedIsItself
<1>. QED  BY <1>2, <1>3

\* Bytes that begin with the header of an image: they are accepted as far as
\* the header goes, and it tells the size of the image.
LEMMA HeaderReads ==
    ASSUME NEW im \in ProgramImage, NEW r \in Seq(Byte), Len(r) >= 24, HeaderIs(r, im)
    PROVE  /\ HasHeader(r)
           /\ WordAt(r, 8) = im.entry_point
           /\ WordAt(r, 16) = Len(im.data)
           /\ WordAt(r, 20) = Len(im.interrupt_vectors)
           /\ CodeEnd(r) = 24 + Len(im.code)
           /\ DataEnd(r) = 24 + Len(im.code) + 4 * Len(im.data)
           /\ FileEnd(r) = SizeOf(im)
<1>. DEFINE e == im.entry_point
            c == Len(im.code)
            d == Len(im.data)
            v == Len(im.interrupt_vectors)
<1>1. e \in Unsigned /\ c \in Unsigned /\ d \in Unsigned /\ v \in Unsigned
  BY ImageParts
<1>2. HeaderBytes(r, e, c, d, v)
  BY DEF HeaderIs
<1>. HIDE DEF e, c, d, v
<1>3. WordAt(r, 8) = e
  BY <1>1, <1>2, UnsignedAtField DEF HeaderBytes
<1>4. WordAt(r, 12) = c
  BY <1>1, <1>2, UnsignedAtField DEF HeaderBytes
<1>5. WordAt(r, 16) = d
  BY <1>1, <1>2, UnsignedAtField DEF HeaderBytes
<1>6. WordAt(r, 20) = v
  BY <1>1, <1>2, UnsignedAtField DEF HeaderBytes
<1>7. c \in Nat /\ d \in Nat /\ v \in Nat
  BY <1>1, UnsignedIsItself
<1>8. CodeEnd(r) = 24 + c
  BY <1>4 DEF CodeEnd, HeaderSize
<1>9. DataEnd(r) = 24 + c + 4 * d
  BY <1>5, <1>7, <1>8 DEF DataEnd, WORD_BYTES
<1>10. FileEnd(r) = 24 + c + 4 * d + 4 * v
  BY <1>6, <1>7, <1>9 DEF FileEnd, WORD_BYTES
<1>11. SubSeq(r, 1, 4) = MAGIC
  <2>1. MAGIC \in Seq(Byte) /\ Len(MAGIC) = 4
    BY DEF MAGIC, Byte
  <2>2. MAGIC[1] = r[1] /\ MAGIC[2] = r[2] /\ MAGIC[3] = r[3] /\ MAGIC[4] = r[4]
    BY <1>2 DEF MAGIC, HeaderBytes
  <2>3. \A j \in 1 .. 4 : MAGIC[j] = r[j]
    BY <2>2
  <2>4. SubSeq(r, 1, 4) \in Seq(Byte) /\ Len(SubSeq(r, 1, 4)) = 4
    OBVIOUS
  <2>5. \A j \in 1 .. 4 : SubSeq(r, 1, 4)[j] = r[j]
    OBVIOUS
  <2>. QED  BY <2>1, <2>3, <2>4, <2>5
<1>12. ByteAt(r, 4) = VERSION
  BY <1>2 DEF ByteAt, HeaderBytes
<1>13. HasHeader(r)
  BY <1>11, <1>12 DEF HasHeader, HeaderSize
<1>. QED  BY <1>3, <1>5, <1>6, <1>8, <1>9, <1>10, <1>13 DEF e, c, d, v, SizeOf

\* The sections of a file.
LEMMA SectionsRead ==
    ASSUME NEW im \in ProgramImage, NEW r \in Seq(Byte), Len(r) = SizeOf(im),
           HeaderIs(r, im), SectionsAre(r, im)
    PROVE  ImageAt(r) = im
<1>. DEFINE code == im.code
            data == im.data
            vectors == im.interrupt_vectors
            c == Len(code)
            d == Len(data)
            v == Len(vectors)
<1>1. /\ im.entry_point \in Unsigned /\ code \in Seq(Byte) /\ data \in Seq(Word)
      /\ vectors \in Seq(Unsigned) /\ c \in Unsigned /\ d \in Unsigned /\ v \in Unsigned
      /\ im = [ok |-> TRUE, entry_point |-> im.entry_point, code |-> code, data |-> data,
               interrupt_vectors |-> vectors]
  BY ImageParts
<1>2. c \in Nat /\ d \in Nat /\ v \in Nat
  BY <1>1, UnsignedIsItself
<1>3. Len(r) = 24 + c + 4 * d + 4 * v
  BY DEF SizeOf
<1>4. /\ WordAt(r, 8) = im.entry_point
      /\ WordAt(r, 16) = d /\ WordAt(r, 20) = v
      /\ CodeEnd(r) = 24 + c /\ DataEnd(r) = 24 + c + 4 * d
  <2>1. Len(r) >= 24
    <3>. HIDE DEF c, d, v
    <3>. QED  BY <1>2, <1>3
  <2>. QED  BY <2>1, HeaderReads
<1>5. /\ \A j \in 1 .. c : r[24 + j] = code[j]
      /\ \A i \in 1 .. d, k \in 1 .. 4 : r[24 + c + (4 * (i - 1) + k)] = PackWord(data[i])[k]
      /\ \A i \in 1 .. v, k \in 1 .. 4 :
            r[24 + c + 4 * d + (4 * (i - 1) + k)] = PackWord(vectors[i])[k]
  BY DEF SectionsAre
<1>6. /\ code \in [1 .. c -> Byte] /\ data \in [1 .. d -> Word]
      /\ vectors \in [1 .. v -> Unsigned]
  BY <1>1
<1>. HIDE DEF code, data, vectors, c, d, v
<1>7. SubSeq(r, 25, 24 + c) = code
  <2>1. SubSeq(r, 25, 24 + c) \in Seq(Byte) /\ Len(SubSeq(r, 25, 24 + c)) = c
    BY <1>2, <1>3
  <2>2. code \in Seq(Byte) /\ Len(code) = c
    BY <1>1 DEF c
  <2>3. ASSUME NEW j \in 1 .. c PROVE SubSeq(r, 25, 24 + c)[j] = r[24 + j]
    BY <1>2, <1>3
  <2>4. \A j \in 1 .. c : SubSeq(r, 25, 24 + c)[j] = code[j]
    BY <2>3, <1>5
  <2>. QED  BY <2>1, <2>2, <2>4
<1>8. ASSUME NEW i \in 1 .. d PROVE to_i32(WordAt(r, 24 + c + (i - 1) * 4)) = data[i]
  <2>1. 24 + c + (i - 1) * 4 \in Nat
    BY <1>2
  <2>2. \A k \in 1 .. 4 : 24 + c + (4 * (i - 1) + k) = (24 + c + (i - 1) * 4) + k
    BY <1>2
  <2>3. \A k \in 1 .. 4 : r[(24 + c + (i - 1) * 4) + k] = PackWord(data[i])[k]
    BY <1>5, <2>2
  <2>4. data[i] \in Word
    BY <1>6
  <2>5. data[i] \in Int /\ to_i32(to_u32(data[i])) = data[i]
    BY <2>4, WordIsItself
  <2>6. WordAt(r, 24 + c + (i - 1) * 4) = to_u32(data[i])
    BY <2>1, <2>3, <2>5, WordAtField
  <2>. QED  BY <2>5, <2>6
<1>9. ASSUME NEW i \in 1 .. v PROVE WordAt(r, 24 + c + 4 * d + (i - 1) * 4) = vectors[i]
  <2>1. 24 + c + 4 * d + (i - 1) * 4 \in Nat
    BY <1>2
  <2>2. \A k \in 1 .. 4 : 24 + c + 4 * d + (4 * (i - 1) + k) = (24 + c + 4 * d + (i - 1) * 4) + k
    BY <1>2
  <2>3. \A k \in 1 .. 4 : r[(24 + c + 4 * d + (i - 1) * 4) + k] = PackWord(vectors[i])[k]
    BY <1>5, <2>2
  <2>4. vectors[i] \in Unsigned
    BY <1>6
  <2>. QED  BY <2>1, <2>3, <2>4, UnsignedAtField
<1>10. [i \in 1 .. d |-> to_i32(WordAt(r, 24 + c + (i - 1) * 4))] = data
  BY <1>6, <1>8
<1>11. [i \in 1 .. v |-> WordAt(r, 24 + c + 4 * d + (i - 1) * 4)] = vectors
  BY <1>6, <1>9
<1>12. ImageAt(r) = [ok |-> TRUE, entry_point |-> im.entry_point, code |-> code, data |-> data,
                     interrupt_vectors |-> vectors]
  <2>1. SubSeq(r, HeaderSize + 1, CodeEnd(r)) = code
    BY <1>4, <1>7 DEF HeaderSize
  <2>2. [i \in 1 .. WordAt(r, 16) |-> to_i32(WordAt(r, CodeEnd(r) + (i - 1) * 4))] = data
    BY <1>4, <1>10
  <2>3. [i \in 1 .. WordAt(r, 20) |-> WordAt(r, DataEnd(r) + (i - 1) * 4)] = vectors
    BY <1>4, <1>11
  <2>. QED  BY <1>4, <2>1, <2>2, <2>3 DEF ImageAt
<1>. QED  BY <1>1, <1>12

\* The file of an image reads as the image, for every width of the words up
\* to four bytes: nothing of it is lost, neither the sign of a word nor an
\* address in the upper half of the address space (binary.py:24-69).
THEOREM RoundTrip ==
    ASSUME NEW im \in ProgramImage
    PROVE  from_bytes(to_bytes(im)) = im
<1>. DEFINE r == to_bytes(im)
<1>1. r \in Seq(Byte) /\ Len(r) = SizeOf(im) /\ HeaderIs(r, im) /\ SectionsAre(r, im)
  BY FileLayout
<1>2. SizeOf(im) >= 24
  BY SizeAtLeastHeader
<1>. HIDE DEF r
<1>3. HasHeader(r) /\ FileEnd(r) = Len(r)
  BY <1>1, <1>2, HeaderReads
<1>4. ImageAt(r) = im
  BY <1>1, SectionsRead
<1>. QED  BY <1>3, <1>4 DEF from_bytes, r

\* No file that is shorter or longer than the file of an image, and has its
\* header as far as it goes, reads as an image at all: neither what a
\* translation that was killed has left nor a file to which something was
\* added (binary.py:47-55).
THEOREM OnlyTheWholeFile ==
    ASSUME NEW im \in ProgramImage, NEW r \in Seq(Byte),
           Len(r) # Len(to_bytes(im)),
           \A j \in 1 .. 24 : j <= Len(r) => r[j] = to_bytes(im)[j]
    PROVE  from_bytes(r) = Malformed
<1>. DEFINE raw == to_bytes(im)
<1>1. Len(raw) = SizeOf(im) /\ HeaderIs(raw, im)
  BY FileLayout
<1>2. \A j \in 1 .. 24 : j <= Len(r) => r[j] = raw[j]
  OBVIOUS
<1>3. Len(r) # SizeOf(im)
  BY <1>1
<1>. HIDE DEF raw
<1>4. CASE Len(r) >= 24
  <2>1. ASSUME NEW j \in 1 .. 24 PROVE r[j] = raw[j]
    <3>1. j <= Len(r)
      <4>. DEFINE n == Len(r)
      <4>1. n \in Nat /\ n >= 24
        BY <1>4
      <4>. HIDE DEF n
      <4>2. j <= n
        BY <4>1
      <4>. QED  BY <4>2 DEF n
    <3>. QED  BY <3>1, <1>2
  <2>2. HeaderIs(r, im)
    BY <1>1, <2>1, SameHeader, Zenon DEF HeaderIs
  <2>3. FileEnd(r) = SizeOf(im)
    BY <1>4, <2>2, HeaderReads
  <2>. QED  BY <1>3, <2>3 DEF from_bytes
<1>5. CASE Len(r) < 24
  BY <1>5 DEF from_bytes, HasHeader, HeaderSize
<1>. QED  BY <1>4, <1>5

-----------------------------------------------------------------------------
(* The concatenation of sequences of any length.                           *)

\* f holds what has been joined after each of the sequences.
Joins(q, f) ==
    /\ f[0] = <<>>
    /\ \A i \in 1 .. Len(q) : f[i] = f[i - 1] \o q[i]

JoinOf(q) == CHOOSE f : Joins(q, f)

\* There is such a function.
LEMMA JoinExists ==
    ASSUME NEW S, NEW q \in Seq(Seq(S))
    PROVE  \E f : Joins(q, f)
<1>. DEFINE n == Len(q)
            step == [k \in 1 .. n |-> [joined \in Seq(S) |-> joined \o q[k]]]
<1>1. n \in Nat /\ \A k \in 1 .. n : q[k] \in Seq(S)
  OBVIOUS
<1>. HIDE DEF n
<1>2. ASSUME NEW k \in 1 .. n PROVE step[k] \in [Seq(S) -> Seq(S)]
  BY <1>1, Concatenation
<1>3. step \in [(0 + 1) .. n -> [Seq(S) -> Seq(S)]] /\ <<>> \in Seq(S)
  BY <1>2
<1>. HIDE DEF step
<1>4. PICK f : Recursive(f, 0, n, Seq(S), <<>>, step)
  <2>1. 0 \in Int /\ n \in Int
    BY <1>1
  <2>. QED  BY <1>3, <2>1, Recursion
<1>5. ASSUME NEW k \in 1 .. n PROVE f[k] = f[k - 1] \o q[k]
  <2>1. k - 1 \in 0 .. n
    BY <1>1
  <2>2. f[k - 1] \in Seq(S) /\ f[k] = step[k][f[k - 1]]
    BY <1>4, <2>1 DEF Recursive
  <2>. QED  BY <2>2 DEF step
<1>6. f[0] = <<>>
  BY <1>1, <1>4 DEF Recursive
<1>. QED  BY <1>5, <1>6 DEF Joins, n

\* What has been joined grows by one sequence at a time.
LEMMA JoinGrows ==
    ASSUME NEW S, NEW q \in Seq(Seq(S)), NEW f, Joins(q, f)
    PROVE  /\ \A i \in 0 .. Len(q) : f[i] \in Seq(S)
           /\ \A i \in 1 .. Len(q) : Len(f[i]) = Len(f[i - 1]) + Len(q[i])
<1>. DEFINE n == Len(q)
            T == {i \in 0 .. n : f[i] \in Seq(S)}
<1>1. n \in Nat /\ \A i \in 1 .. n : q[i] \in Seq(S)
  OBVIOUS
<1>2. /\ f[0] = <<>>
      /\ \A i \in 1 .. n : f[i] = f[i - 1] \o q[i]
  BY DEF Joins
<1>. HIDE DEF n
<1>3. 0 \in T
  <2>1. 0 \in 0 .. n /\ <<>> \in Seq(S)
    BY <1>1
  <2>. QED  BY <1>2, <2>1
<1>4. ASSUME NEW i \in 0 .. (n - 1), i \in T PROVE i + 1 \in T
  <2>1. i + 1 \in 1 .. n /\ i + 1 \in 0 .. n /\ (i + 1) - 1 = i
    BY <1>1
  <2>2. f[i + 1] = f[i] \o q[i + 1] /\ f[i] \in Seq(S) /\ q[i + 1] \in Seq(S)
    BY <1>1, <1>2, <1>4, <2>1
  <2>3. f[i] \o q[i + 1] \in Seq(S)
    BY <2>2, Concatenation
  <2>. QED  BY <2>1, <2>2, <2>3
<1>. HIDE DEF T
<1>5. 0 .. n \subseteq T
  <2>1. 0 \in Int /\ n \in Int
    BY <1>1
  <2>. QED  BY <1>3, <1>4, <2>1, InductionUpTo, Zenon
<1>6. \A i \in 0 .. n : f[i] \in Seq(S)
  BY <1>5 DEF T
<1>7. ASSUME NEW i \in 1 .. n PROVE Len(f[i]) = Len(f[i - 1]) + Len(q[i])
  <2>1. i - 1 \in 0 .. n
    BY <1>1
  <2>2. f[i] = f[i - 1] \o q[i] /\ f[i - 1] \in Seq(S) /\ q[i] \in Seq(S)
    BY <1>1, <1>2, <1>6, <2>1
  <2>. QED  BY <2>2
<1>. QED  BY <1>6, <1>7 DEF n

\* The function that FlattenSeq chooses agrees with it.
LEMMA FlattenIsJoin ==
    ASSUME NEW S, NEW q \in Seq(Seq(S)), NEW j, Joins(q, j)
    PROVE  FlattenSeq(q) = j[Len(q)]
<1>. DEFINE n == Len(q)
            g == [i \in 1 .. n |-> j[i]]
<1>1. n \in Nat /\ q = [i \in 1 .. n |-> q[i]]
  OBVIOUS
<1>2. j[0] = <<>> /\ \A i \in 1 .. n : j[i] = j[i - 1] \o q[i]
  BY DEF Joins
<1>3. CASE n = 0
  <2>1. FlattenSeq(q) = q /\ q = <<>>
    BY <1>3 DEF FlattenSeq
  <2>. QED  BY <1>2, <1>3, <2>1
<1>4. CASE n # 0
  <2>. HIDE DEF n
  <2>1. ASSUME NEW i \in 1 .. n PROVE g[i] = IF i = 1 THEN q[i] ELSE g[i - 1] \o q[i]
    <3>1. g[i] = j[i - 1] \o q[i]
      BY <1>2
    <3>2. CASE i = 1
      <4>1. q[i] \in Seq(S) /\ i - 1 = 0
        BY <3>2 DEF n
      <4>2. <<>> \o q[i] = q[i]
        BY <4>1
      <4>3. g[i] = <<>> \o q[i]
        BY <1>2, <3>1, <4>1
      <4>. QED  BY <3>2, <4>2, <4>3
    <3>3. CASE i # 1
      <4>1. i - 1 \in 1 .. n
        BY <1>1, <3>3
      <4>. QED  BY <3>1, <3>3, <4>1
    <3>. QED  BY <3>2, <3>3
  <2>2. g = [i \in 1 .. n |-> IF i = 1 THEN q[i] ELSE g[i - 1] \o q[i]]
    BY <2>1
  <2>3. PICK f : /\ f = [i \in 1 .. n |-> IF i = 1 THEN q[i] ELSE f[i - 1] \o q[i]]
                 /\ FlattenSeq(q) = f[n]
    <3>. HIDE DEF g
    <3>. QED  BY <1>4, <2>2, FlattenUnfolds DEF n
  <2>4. \A i \in 1 .. n : f[i] = IF i = 1 THEN q[i] ELSE f[i - 1] \o q[i]
    BY <2>3
  <2>. DEFINE Agree == {i \in 1 .. n : f[i] = g[i]}
  <2>. HIDE DEF g
  <2>5. 1 \in Agree
    BY <1>1, <1>4, <2>1, <2>4
  <2>6. \A i \in 1 .. (n - 1) : i \in Agree => i + 1 \in Agree
    <3>. SUFFICES ASSUME NEW i \in 1 .. (n - 1), f[i] = g[i]
                  PROVE  i + 1 \in 1 .. n /\ f[i + 1] = g[i + 1]
      OBVIOUS
    <3>1. i + 1 \in 1 .. n /\ i + 1 # 1 /\ (i + 1) - 1 = i
      BY <1>1
    <3>2. g[i + 1] = g[(i + 1) - 1] \o q[i + 1] /\ f[i + 1] = f[(i + 1) - 1] \o q[i + 1]
      BY <2>1, <2>4, <3>1
    <3>. QED  BY <3>1, <3>2
  <2>. HIDE DEF Agree
  <2>7. 1 .. n \subseteq Agree
    <3>1. 1 \in Int /\ n \in Int
      BY <1>1
    <3>. QED  BY <2>5, <2>6, <3>1, InductionUpTo, Zenon
  <2>8. n \in 1 .. n
    BY <1>1, <1>4
  <2>9. f[n] = g[n]
    BY <2>7, <2>8 DEF Agree
  <2>. QED  BY <2>3, <2>8, <2>9 DEF g, n
<1>. QED  BY <1>3, <1>4

-----------------------------------------------------------------------------
(* Bytes within others.                                                    *)

\* The bytes stand in raw from offset at on.
Within(raw, at, bytes) ==
    /\ at \in Nat /\ at + Len(bytes) <= Len(raw)
    /\ \A j \in 1 .. Len(bytes) : raw[at + j] = bytes[j]

\* Both parts of a concatenation stand where it stands.
LEMMA WithinParts ==
    ASSUME NEW raw \in Seq(Byte), NEW at, NEW a \in Seq(Byte), NEW b \in Seq(Byte),
           Within(raw, at, a \o b)
    PROVE  Within(raw, at, a) /\ Within(raw, at + Len(a), b)
<1>. DEFINE n == Len(raw)
            k == Len(a)
            m == Len(b)
            c == a \o b
<1>1. n \in Nat /\ k \in Nat /\ m \in Nat /\ Len(c) = k + m
  BY Concatenation
<1>2. /\ \A j \in 1 .. k : c[j] = a[j]
      /\ \A j \in 1 .. m : c[k + j] = b[j]
  BY Concatenation
<1>3. /\ at \in Nat /\ at + (k + m) <= n
      /\ \A j \in 1 .. (k + m) : raw[at + j] = c[j]
  BY <1>1 DEF Within
<1>. HIDE DEF n, k, m, c
<1>4. ASSUME NEW j \in 1 .. k PROVE raw[at + j] = a[j]
  <2>1. j \in 1 .. (k + m)
    BY <1>1
  <2>. QED  BY <1>2, <1>3, <2>1
<1>5. ASSUME NEW j \in 1 .. m PROVE raw[(at + k) + j] = b[j]
  <2>1. k + j \in 1 .. (k + m) /\ at + (k + j) = (at + k) + j
    BY <1>1, <1>3
  <2>2. raw[at + (k + j)] = c[k + j]
    BY <1>3, <2>1
  <2>. QED  BY <1>2, <2>1, <2>2
<1>6. /\ at \in Nat /\ at + k <= n /\ at + k \in Nat /\ (at + k) + m <= n
  BY <1>1, <1>3
<1>. QED  BY <1>4, <1>5, <1>6 DEF Within, n, k, m

\* Of bytes joined from q, each of q stands where the ones before it end.
LEMMA WithinJoin ==
    ASSUME NEW raw \in Seq(Byte), NEW at, NEW q \in Seq(Seq(Byte)), NEW f, Joins(q, f),
           Within(raw, at, f[Len(q)])
    PROVE  \A i \in 1 .. Len(q) : Within(raw, at + Len(f[i - 1]), q[i])
<1>. DEFINE n == Len(q)
            T == {k \in 0 .. n : Within(raw, at, f[n - k])}
<1>1. n \in Nat /\ \A i \in 1 .. n : q[i] \in Seq(Byte)
  OBVIOUS
<1>2. \A i \in 1 .. n : f[i] = f[i - 1] \o q[i]
  BY DEF Joins
<1>3. \A i \in 0 .. n : f[i] \in Seq(Byte)
  BY JoinGrows
<1>4. Within(raw, at, f[n])
  OBVIOUS
<1>. HIDE DEF n
<1>5. ASSUME NEW i \in 1 .. n, Within(raw, at, f[i])
      PROVE  Within(raw, at, f[i - 1]) /\ Within(raw, at + Len(f[i - 1]), q[i])
  <2>1. i - 1 \in 0 .. n
    BY <1>1
  <2>2. f[i - 1] \in Seq(Byte) /\ q[i] \in Seq(Byte) /\ f[i] = f[i - 1] \o q[i]
    BY <1>1, <1>2, <1>3, <2>1
  <2>3. Within(raw, at, f[i - 1] \o q[i])
    BY <1>5, <2>2
  <2>. QED  BY <2>2, <2>3, WithinParts
<1>6. 0 \in T
  <2>1. n - 0 = n /\ 0 \in 0 .. n
    BY <1>1
  <2>. QED  BY <1>4, <2>1
<1>7. ASSUME NEW k \in 0 .. (n - 1), k \in T PROVE k + 1 \in T
  <2>1. n - k \in 1 .. n /\ n - (k + 1) = (n - k) - 1 /\ k + 1 \in 0 .. n
    BY <1>1
  <2>2. Within(raw, at, f[(n - k) - 1])
    BY <1>5, <1>7, <2>1
  <2>. QED  BY <2>1, <2>2
<1>. HIDE DEF T
<1>8. 0 .. n \subseteq T
  <2>1. 0 \in Int /\ n \in Int
    BY <1>1
  <2>. QED  BY <1>6, <1>7, <2>1, InductionUpTo, Zenon
<1>9. ASSUME NEW i \in 1 .. n PROVE Within(raw, at + Len(f[i - 1]), q[i])
  <2>1. n - i \in 0 .. n /\ n - (n - i) = i
    BY <1>1
  <2>2. Within(raw, at, f[i])
    BY <1>8, <2>1 DEF T
  <2>. QED  BY <1>5, <2>2
<1>. QED  BY <1>9 DEF n

-----------------------------------------------------------------------------
(* Operands.                                                               *)

\* No two kinds of operands and no two opcodes have one number.
LEMMA KindNumbers ==
    ASSUME NEW kind \in OperandKind
    PROVE  /\ KindNumber[kind] \in Byte
           /\ IsNumbered(KindNumber, KindNumber[kind])
           /\ Named(KindNumber, KindNumber[kind]) = kind
<1>1. DOMAIN KindNumber = OperandKind /\ KindNumber[kind] \in Byte
  BY DEF KindNumber, OperandKind, Byte
<1>2. \A other \in OperandKind : KindNumber[other] = KindNumber[kind] => other = kind
  BY DEF KindNumber, OperandKind
<1>. QED  BY <1>1, <1>2 DEF IsNumbered, Named

LEMMA OpCodeNumbers ==
    ASSUME NEW opcode \in OpCode
    PROVE  /\ OpCodeNumber[opcode] \in Byte
           /\ IsNumbered(OpCodeNumber, OpCodeNumber[opcode])
           /\ Named(OpCodeNumber, OpCodeNumber[opcode]) = opcode
<1>1. DOMAIN OpCodeNumber = OpCode /\ OpCodeNumber[opcode] \in Byte
  BY DEF OpCodeNumber, OpCode, AluOps, JumpOps, Byte
<1>2. \A other \in OpCode : OpCodeNumber[other] = OpCodeNumber[opcode] => other = opcode
  BY DEF OpCodeNumber, OpCode, AluOps, JumpOps
<1>. QED  BY <1>1, <1>2 DEF IsNumbered, Named

\* What the operands of a kind hold.
LEMMA OperandParts ==
    ASSUME NEW op \in Operand
    PROVE  /\ op.kind \in OperandKind
           /\ op.kind = "IMM" => op.value \in Word /\ op = imm(op.value)
           /\ op.kind = "ABS" => op.value \in Unsigned /\ op = abs(op.value)
           /\ op.kind = "DREG" => op.value \in REGISTERS /\ op = dreg(op.value)
           /\ op.kind = "AREG" => op.value \in REGISTERS /\ op = areg(op.value)
           /\ op.kind = "IND_A" => op.value \in REGISTERS /\ op = ind_areg(op.value)
           /\ op.kind = "IND_A_DISP" => /\ op.value \in REGISTERS /\ op.offset \in Word
                                        /\ op = ind_areg_disp(op.value, op.offset)
BY DEF Operand, OperandKind, imm, abs, dreg, areg, ind_areg, ind_areg_disp

LEMMA DisplacementParts ==
    ASSUME NEW op \in Operand, op.kind = "IND_A_DISP"
    PROVE  op.offset \in Int /\ op.value \in Byte
<1>1. op.value \in REGISTERS /\ op.offset \in Word
  BY OperandParts
<1>2. Word \subseteq Int /\ REGISTERS \subseteq Byte
  BY IsaAssumption DEF IsaAssumption, Word, REGISTERS, Byte
<1>. QED  BY <1>1, <1>2

\* The payload of an operand, after the byte of its kind.
Payload(op) ==
    CASE op.kind \in {"IMM", "ABS"} -> PackWord(op.value)
      [] op.kind \in {"DREG", "AREG", "IND_A"} -> <<op.value>>
      [] op.kind = "IND_A_DISP" -> <<op.value>> \o PackWord(op.offset)

LEMMA OperandBytes ==
    ASSUME NEW op \in Operand
    PROVE  /\ encode_operand(op) = <<KindNumber[op.kind]>> \o Payload(op)
           /\ Payload(op) \in Seq(Byte)
           /\ Len(Payload(op)) = PayloadSize(op.kind)
           /\ PayloadSize(op.kind) \in 1 .. 5
<1>1. Word \subseteq Int /\ Unsigned \subseteq Int /\ REGISTERS \subseteq Byte
  BY IsaAssumption DEF IsaAssumption, Word, Unsigned, U32_MAX, REGISTERS, Byte
<1>2. op.kind \in OperandKind
  BY OperandParts
<1>3. encode_operand(op) = <<KindNumber[op.kind]>> \o Payload(op)
  BY <1>2 DEF encode_operand, Payload, OperandKind
<1>4. CASE op.kind \in {"IMM", "ABS"}
  <2>1. PackWord(op.value) \in Seq(Byte) /\ Len(PackWord(op.value)) = 4
    BY <1>1, <1>4, OperandParts, PackWordType
  <2>2. Payload(op) = PackWord(op.value) /\ PayloadSize(op.kind) = 4
    BY <1>4 DEF Payload, PayloadSize
  <2>. QED  BY <1>3, <2>1, <2>2
<1>5. CASE op.kind \in {"DREG", "AREG", "IND_A"}
  <2>1. <<op.value>> \in Seq(Byte) /\ Len(<<op.value>>) = 1
    BY <1>1, <1>5, OperandParts
  <2>2. Payload(op) = <<op.value>> /\ PayloadSize(op.kind) = 1
    BY <1>5 DEF Payload, PayloadSize
  <2>. QED  BY <1>3, <2>1, <2>2
<1>6. CASE op.kind = "IND_A_DISP"
  <2>1. <<op.value>> \in Seq(Byte) /\ Len(<<op.value>>) = 1
    BY <1>1, <1>6, OperandParts
  <2>2. PackWord(op.offset) \in Seq(Byte) /\ Len(PackWord(op.offset)) = 4
    BY <1>1, <1>6, OperandParts, PackWordType
  <2>3. Joined(<<op.value>>, PackWord(op.offset), Payload(op)) /\ PayloadSize(op.kind) = 5
    BY <1>6, <2>1, <2>2, Joining DEF Payload, PayloadSize
  <2>. QED  BY <1>3, <2>1, <2>2, <2>3 DEF Joined
<1>. QED  BY <1>2, <1>4, <1>5, <1>6 DEF OperandKind

LEMMA OperandLength ==
    ASSUME NEW op \in Operand
    PROVE  /\ encode_operand(op) \in Seq(Byte)
           /\ Len(encode_operand(op)) = 1 + PayloadSize(op.kind)
<1>1. <<KindNumber[op.kind]>> \in Seq(Byte) /\ Len(<<KindNumber[op.kind]>>) = 1
  BY OperandParts, KindNumbers
<1>2. Joined(<<KindNumber[op.kind]>>, Payload(op), encode_operand(op))
  BY <1>1, OperandBytes, Joining
<1>. QED  BY <1>1, <1>2, OperandBytes DEF Joined

\* An operand is read back from its bytes.
LEMMA OperandRoundTrip ==
    ASSUME NEW raw \in Seq(Byte), NEW op \in Operand, NEW at,
           Within(raw, at, encode_operand(op))
    PROVE  decode_operand(raw, at) =
              [ok |-> TRUE, operand |-> op, next |-> at + Len(encode_operand(op))]
<1>. DEFINE first == <<KindNumber[op.kind]>>
            payload == Payload(op)
            kind == op.kind
            size == PayloadSize(kind)
            n == Len(raw)
<1>1. kind \in OperandKind /\ KindNumber[kind] \in Byte
  BY OperandParts, KindNumbers
<1>2. /\ encode_operand(op) = first \o payload /\ payload \in Seq(Byte)
      /\ Len(payload) = size /\ size \in 1 .. 5
  BY OperandBytes
<1>3. Len(encode_operand(op)) = 1 + size
  BY OperandLength
<1>4. first \in Seq(Byte) /\ Len(first) = 1
  BY <1>1
<1>5. Within(raw, at, first) /\ Within(raw, at + 1, payload)
  <2>1. Within(raw, at, first) /\ Within(raw, at + Len(first), payload)
    <3>. HIDE DEF first, payload
    <3>. QED  BY <1>2, <1>4, WithinParts
  <2>. QED  BY <1>4, <2>1
<1>. HIDE DEF payload, size
<1>6. /\ at \in Nat /\ n \in Nat /\ at + 1 <= n /\ (at + 1) + size <= n
      /\ raw[at + 1] = KindNumber[kind]
      /\ \A j \in 1 .. size : raw[(at + 1) + j] = payload[j]
  <2>1. at \in Nat /\ at + 1 <= n /\ \A j \in 1 .. 1 : raw[at + j] = first[j]
    BY <1>4, <1>5 DEF Within
  <2>2. (at + 1) + size <= n /\ \A j \in 1 .. size : raw[(at + 1) + j] = payload[j]
    BY <1>2, <1>5 DEF Within
  <2>3. raw[at + 1] = first[1]
    BY <2>1
  <2>. QED  BY <2>1, <2>2, <2>3
<1>. HIDE DEF n
<1>7. HasBytes(raw, at, 1) /\ HasBytes(raw, at + 1, size) /\ ByteAt(raw, at) = KindNumber[kind]
  BY <1>2, <1>6 DEF HasBytes, ByteAt, n
<1>8. Named(KindNumber, ByteAt(raw, at)) = kind /\ IsNumbered(KindNumber, ByteAt(raw, at))
  BY <1>1, <1>7, KindNumbers
<1>9. ASSUME kind \in {"IMM", "ABS"}
      PROVE  WordAt(raw, at + 1) = to_u32(op.value)
  <2>1. op.value \in Int
    BY <1>9, OperandParts, IsaAssumption DEF IsaAssumption, Word, Unsigned, U32_MAX
  <2>2. size = 4 /\ payload = PackWord(op.value) /\ at + 1 \in Nat
    BY <1>6, <1>9 DEF size, PayloadSize, payload, Payload
  <2>3. \A j \in 1 .. 4 : raw[(at + 1) + j] = PackWord(op.value)[j]
    BY <1>6, <2>2
  <2>. QED  BY <2>1, <2>2, <2>3, WordAtField
<1>10. ASSUME kind \notin {"IMM", "ABS"}
       PROVE  ByteAt(raw, at + 1) = op.value /\ op.value \in REGISTERS
  <2>1. op.value \in REGISTERS
    BY <1>1, <1>10, OperandParts DEF OperandKind
  <2>2. payload[1] = op.value
    <3>1. CASE kind = "IND_A_DISP"
      <4>1. op.offset \in Int /\ op.value \in Byte
        BY <3>1, DisplacementParts
      <4>2. <<op.value>> \in Seq(Byte) /\ Len(<<op.value>>) = 1 /\ PackWord(op.offset) \in Seq(Byte)
        BY <4>1, PackWordType
      <4>3. Joined(<<op.value>>, PackWord(op.offset), payload)
        BY <3>1, <4>2, Joining DEF payload, Payload
      <4>4. \A j \in 1 .. 1 : payload[j] = <<op.value>>[j]
        BY <4>2, <4>3 DEF Joined
      <4>. QED  BY <4>4
    <3>2. CASE kind # "IND_A_DISP"
      BY <1>1, <1>10, <3>2 DEF OperandKind, payload, Payload
    <3>. QED  BY <3>1, <3>2
  <2>3. raw[(at + 1) + 1] = payload[1]
    BY <1>2, <1>6
  <2>. QED  BY <2>1, <2>2, <2>3 DEF ByteAt
<1>11. ASSUME kind = "IND_A_DISP"
       PROVE  WordAt(raw, (at + 1) + 1) = to_u32(op.offset)
  <2>1. op.offset \in Int /\ op.value \in Byte
    BY <1>11, DisplacementParts
  <2>2. <<op.value>> \in Seq(Byte) /\ Len(<<op.value>>) = 1 /\ PackWord(op.offset) \in Seq(Byte)
        /\ Len(PackWord(op.offset)) = 4
    BY <2>1, PackWordType
  <2>3. Within(raw, at + 1, <<op.value>> \o PackWord(op.offset))
    BY <1>5, <1>11 DEF payload, Payload
  <2>4. Within(raw, (at + 1) + 1, PackWord(op.offset))
    <3>1. Within(raw, (at + 1) + Len(<<op.value>>), PackWord(op.offset))
      BY <2>2, <2>3, WithinParts
    <3>. QED  BY <2>2, <3>1
  <2>5. (at + 1) + 1 \in Nat /\ \A j \in 1 .. 4 : raw[((at + 1) + 1) + j] = PackWord(op.offset)[j]
    BY <1>6, <2>2, <2>4 DEF Within
  <2>. QED  BY <2>1, <2>5, WordAtField
<1>12. OperandAt(raw, at + 1, kind) = op
  <2>1. CASE kind = "IMM"
    <3>1. op.value \in Word /\ op = imm(op.value)
      BY <2>1, OperandParts
    <3>. QED  BY <1>9, <2>1, <3>1, WordIsItself DEF OperandAt
  <2>2. CASE kind = "ABS"
    <3>1. op.value \in Unsigned /\ op = abs(op.value)
      BY <2>2, OperandParts
    <3>. QED  BY <1>9, <2>2, <3>1, UnsignedIsItself DEF OperandAt
  <2>3. CASE kind = "DREG"
    BY <1>10, <2>3, OperandParts DEF OperandAt
  <2>4. CASE kind = "AREG"
    BY <1>10, <2>4, OperandParts DEF OperandAt
  <2>5. CASE kind = "IND_A"
    BY <1>10, <2>5, OperandParts DEF OperandAt
  <2>6. CASE kind = "IND_A_DISP"
    <3>1. op.offset \in Word /\ op = ind_areg_disp(op.value, op.offset)
      BY <2>6, OperandParts
    <3>2. to_i32(WordAt(raw, (at + 1) + 1)) = op.offset
      BY <1>11, <2>6, <3>1, WordIsItself
    <3>. QED  BY <1>10, <2>6, <3>1, <3>2 DEF OperandAt
  <2>. QED  BY <1>1, <2>1, <2>2, <2>3, <2>4, <2>5, <2>6 DEF OperandKind
<1>13. ~(NamesRegister(kind) /\ ByteAt(raw, at + 1) \notin REGISTERS)
  BY <1>10 DEF NamesRegister
<1>14. (at + 1) + size = at + Len(encode_operand(op))
  BY <1>2, <1>3, <1>6 DEF size
<1>15. decode_operand(raw, at) = [ok |-> TRUE, operand |-> OperandAt(raw, at + 1, kind),
                                  next |-> (at + 1) + size]
  <2>. HIDE DEF kind
  <2>. QED  BY <1>7, <1>8, <1>13 DEF decode_operand, size
<1>. QED  BY <1>12, <1>14, <1>15

-----------------------------------------------------------------------------
(* Instructions.                                                           *)

\* What the last rounds of the loop over the operands read, by their number.
Rounds(raw, count, f) ==
    f = [n \in 0 .. count |->
            [cursor \in Nat |->
                IF n = 0 THEN [ok |-> TRUE, operands |-> <<>>, next |-> cursor]
                ELSE NextOperand(raw, cursor, f[n - 1])]]

\* There is such a function for every number of rounds.
LEMMA RoundsExist ==
    ASSUME NEW raw, NEW count \in Nat
    PROVE  \E f : Rounds(raw, count, f)
<1>. DEFINE T == {m \in 0 .. count : \E f : Rounds(raw, m, f)}
<1>1. 0 \in T
  <2>. DEFINE f == [n \in 0 .. 0 |-> [cursor \in Nat |->
                                        [ok |-> TRUE, operands |-> <<>>, next |-> cursor]]]
  <2>1. \A n \in 0 .. 0 : n = 0
    OBVIOUS
  <2>2. Rounds(raw, 0, f)
    BY <2>1 DEF Rounds
  <2>3. 0 \in 0 .. count
    OBVIOUS
  <2>. HIDE DEF f
  <2>. QED  BY <2>2, <2>3
<1>2. ASSUME NEW m \in 0 .. (count - 1), m \in T PROVE m + 1 \in T
  <2>1. PICK f : Rounds(raw, m, f)
    BY <1>2
  <2>. DEFINE round(n, g) == [cursor \in Nat |->
                                IF n = 0 THEN [ok |-> TRUE, operands |-> <<>>, next |-> cursor]
                                ELSE NextOperand(raw, cursor, g)]
              h == [n \in 0 .. (m + 1) |-> IF n = m + 1 THEN round(m + 1, f[m]) ELSE f[n]]
  <2>2. f = [n \in 0 .. m |-> round(n, f[n - 1])]
    BY <2>1 DEF Rounds
  <2>. HIDE DEF round
  <2>3. /\ m + 1 \in 0 .. count /\ m + 1 \in 0 .. (m + 1) /\ (m + 1) - 1 = m
        /\ m \in 0 .. (m + 1) /\ m # m + 1 /\ m \in 0 .. m
    OBVIOUS
  <2>4. h[m + 1] = round(m + 1, f[m]) /\ h[m] = f[m]
    BY <2>3
  <2>5. ASSUME NEW n \in 0 .. (m + 1) PROVE h[n] = round(n, h[n - 1])
    <3>1. CASE n = m + 1
      BY <2>3, <2>4, <3>1
    <3>2. CASE n # m + 1 /\ n # 0
      <4>1. n \in 0 .. m /\ n - 1 \in 0 .. (m + 1) /\ n - 1 # m + 1
        BY <3>2
      <4>2. h[n] = f[n] /\ h[n - 1] = f[n - 1]
        BY <3>2, <4>1
      <4>. QED  BY <2>2, <4>1, <4>2
    <3>3. CASE n = 0
      <4>1. 0 \in 0 .. m /\ 0 # m + 1 /\ 0 \in 0 .. (m + 1)
        OBVIOUS
      <4>2. h[0] = f[0] /\ f[0] = round(0, f[0 - 1])
        BY <2>2, <4>1
      <4>3. round(0, f[0 - 1]) = round(0, h[0 - 1])
        BY DEF round
      <4>. QED  BY <3>3, <4>2, <4>3
    <3>. QED  BY <3>1, <3>2, <3>3
  <2>6. h = [n \in 0 .. (m + 1) |-> h[n]]
    OBVIOUS
  <2>. HIDE DEF h
  <2>7. h = [n \in 0 .. (m + 1) |-> round(n, h[n - 1])]
    BY <2>5, <2>6
  <2>8. Rounds(raw, m + 1, h)
    BY <2>7 DEF Rounds, round
  <2>. QED  BY <2>3, <2>8
<1>. HIDE DEF T
<1>3. 0 .. count \subseteq T
  <2>1. 0 \in Int /\ count \in Int
    OBVIOUS
  <2>. QED  BY <1>1, <1>2, <2>1, InductionUpTo, Zenon
<1>4. count \in 0 .. count
  OBVIOUS
<1>. QED  BY <1>3, <1>4 DEF T

\* The loop unfolds along a function that satisfies its recursion.
LEMMA RoundsUnfold ==
    ASSUME NEW raw, NEW at, HasBytes(raw, at, 2),
           IsNumbered(OpCodeNumber, ByteAt(raw, at)),
           NEW count \in Nat, count = ByteAt(raw, at + 1)
    PROVE  \E f : /\ Rounds(raw, count, f)
                  /\ decode_instruction(raw, at) =
                        IF ~f[count][at + 2].ok THEN Malformed
                        ELSE [ok |-> TRUE,
                              instr |-> Instruction(Named(OpCodeNumber, ByteAt(raw, at)),
                                                    f[count][at + 2].operands),
                              next |-> f[count][at + 2].next]
<1>. DEFINE f == CHOOSE h :
                    h = [n \in 0 .. ByteAt(raw, at + 1) |->
                            [cursor \in Nat |->
                                IF n = 0 THEN [ok |-> TRUE, operands |-> <<>>, next |-> cursor]
                                ELSE NextOperand(raw, cursor, h[n - 1])]]
<1>1. Rounds(raw, count, f)
  <2>1. PICK g : Rounds(raw, count, g)
    BY RoundsExist
  <2>. QED  BY <2>1 DEF Rounds
<1>2. decode_instruction(raw, at) =
          IF ~f[count][at + 2].ok THEN Malformed
          ELSE [ok |-> TRUE,
                instr |-> Instruction(Named(OpCodeNumber, ByteAt(raw, at)),
                                      f[count][at + 2].operands),
                next |-> f[count][at + 2].next]
  BY DEF decode_instruction
<1>. HIDE DEF f
<1>. QED  BY <1>1, <1>2

\* The bytes of an instruction: its opcode, the number of its operands, and
\* the bytes of these.
EncodedOperands(i) == [k \in DOMAIN i.operands |-> encode_operand(i.operands[k])]

LEMMA EncodedOperandsType ==
    ASSUME NEW i \in EncodableInstruction
    PROVE  EncodedOperands(i) \in Seq(Seq(Byte))
<1>. DEFINE ops == i.operands
<1>1. ops \in Seq(Operand)
  BY DEF EncodableInstruction
<1>2. EncodedOperands(i) = [k \in DOMAIN ops |-> encode_operand(ops[k])]
  BY DEF EncodedOperands
<1>. HIDE DEF ops
<1>3. \A k \in DOMAIN ops : encode_operand(ops[k]) \in Seq(Byte)
  BY <1>1, OperandLength
<1>4. DOMAIN ops = 1 .. Len(ops) /\ Len(ops) \in Nat
  BY <1>1
<1>. QED  BY <1>2, <1>3, <1>4

LEMMA InstructionBytes ==
    ASSUME NEW i \in EncodableInstruction, NEW j, Joins(EncodedOperands(i), j)
    PROVE  /\ Len(i.operands) \in Byte
           /\ EncodedOperands(i) \in Seq(Seq(Byte))
           /\ Len(EncodedOperands(i)) = Len(i.operands)
           /\ j[Len(i.operands)] \in Seq(Byte)
           /\ encode_instruction(i) =
                 <<OpCodeNumber[i.opcode], Len(i.operands)>> \o j[Len(i.operands)]
           /\ Len(encode_instruction(i)) = 2 + Len(j[Len(i.operands)])
           /\ encode_instruction(i) \in Seq(Byte)
<1>. DEFINE ops == i.operands
            q == EncodedOperands(i)
            n == Len(ops)
            head == <<OpCodeNumber[i.opcode], n>>
<1>1. i.opcode \in OpCode /\ ops \in Seq(Operand) /\ n \in Nat /\ n <= 255
  BY DEF EncodableInstruction
<1>2. n \in Byte
  <2>. HIDE DEF n
  <2>. QED  BY <1>1 DEF Byte
<1>3. q = [k \in 1 .. n |-> encode_operand(ops[k])]
  BY <1>1 DEF EncodedOperands
<1>4. \A k \in 1 .. n : encode_operand(ops[k]) \in Seq(Byte)
  BY <1>1, OperandLength
<1>. HIDE DEF ops, q, n
<1>5. q \in Seq(Seq(Byte)) /\ Len(q) = n
  BY <1>1, <1>3, <1>4
<1>6. j[n] \in Seq(Byte)
  <2>1. n \in 0 .. n
    BY <1>1
  <2>. QED  BY <1>5, <2>1, JoinGrows DEF q
<1>7. encode_instruction(i) = head \o j[n]
  <2>1. FlattenSeq(q) = j[n]
    BY <1>5, FlattenIsJoin DEF q
  <2>. QED  BY <2>1 DEF encode_instruction, q, n, ops, EncodedOperands
<1>8. head \in Seq(Byte) /\ Len(head) = 2
  BY <1>1, <1>2, OpCodeNumbers
<1>. HIDE DEF head
<1>9. Joined(head, j[n], encode_instruction(i))
  BY <1>6, <1>7, <1>8, Joining
<1>10. Len(encode_instruction(i)) = 2 + Len(j[n]) /\ encode_instruction(i) \in Seq(Byte)
  BY <1>8, <1>9 DEF Joined
<1>. QED  BY <1>2, <1>5, <1>6, <1>7, <1>10 DEF ops, q, n, head

LEMMA AddAssociates ==
    ASSUME NEW a \in Nat, NEW b \in Nat, NEW c \in Nat
    PROVE  (a + b) + c = a + (b + c)
OBVIOUS

\* An instruction is read back from its bytes, wherever these stand.
LEMMA InstructionRoundTrip ==
    ASSUME NEW raw \in Seq(Byte), NEW i \in EncodableInstruction, NEW at,
           Within(raw, at, encode_instruction(i))
    PROVE  decode_instruction(raw, at) =
              [ok |-> TRUE, instr |-> i, next |-> at + Len(encode_instruction(i))]
<1>. DEFINE ops == i.operands
            q == EncodedOperands(i)
            n == Len(ops)
            head == <<OpCodeNumber[i.opcode], n>>
<1>1. i.opcode \in OpCode /\ ops \in Seq(Operand) /\ n \in Nat /\ n <= 255
      /\ i = Instruction(i.opcode, ops)
  BY DEF EncodableInstruction, Instruction
<1>2. PICK j : Joins(q, j)
  BY EncodedOperandsType, JoinExists
<1>3. /\ n \in Byte /\ q \in Seq(Seq(Byte)) /\ Len(q) = n /\ j[n] \in Seq(Byte)
      /\ encode_instruction(i) = head \o j[n]
      /\ Len(encode_instruction(i)) = 2 + Len(j[n])
  BY <1>2, InstructionBytes
<1>4. head \in Seq(Byte) /\ Len(head) = 2
  BY <1>1, <1>3, OpCodeNumbers
<1>5. Within(raw, at, head) /\ Within(raw, at + 2, j[n])
  <2>1. Within(raw, at, head) /\ Within(raw, at + Len(head), j[n])
    <3>. HIDE DEF head, n
    <3>. QED  BY <1>3, <1>4, WithinParts
  <2>. QED  BY <1>4, <2>1
<1>6. at \in Nat /\ Len(raw) \in Nat /\ at + 2 <= Len(raw)
      /\ raw[at + 1] = OpCodeNumber[i.opcode] /\ raw[at + 2] = n
  <2>1. at \in Nat /\ at + 2 <= Len(raw) /\ \A k \in 1 .. 2 : raw[at + k] = head[k]
    BY <1>4, <1>5 DEF Within
  <2>2. raw[at + 1] = head[1] /\ raw[at + 2] = head[2]
    BY <2>1
  <2>. QED  BY <2>1, <2>2
<1>7. HasBytes(raw, at, 2) /\ ByteAt(raw, at) = OpCodeNumber[i.opcode] /\ ByteAt(raw, at + 1) = n
  <2>1. (at + 1) + 1 = at + 2
    BY <1>6
  <2>. QED  BY <1>6, <2>1 DEF HasBytes, ByteAt
<1>8. /\ IsNumbered(OpCodeNumber, ByteAt(raw, at))
      /\ Named(OpCodeNumber, ByteAt(raw, at)) = i.opcode
  BY <1>1, <1>7, OpCodeNumbers
<1>9. q = [k \in 1 .. n |-> encode_operand(ops[k])]
  BY <1>1 DEF EncodedOperands
<1>. HIDE DEF ops, q, n, head
<1>10. \A k \in 0 .. n : j[k] \in Seq(Byte)
  BY <1>2, <1>3, JoinGrows
<1>11. \A k \in 1 .. n : Len(j[k]) = Len(j[k - 1]) + Len(q[k])
  BY <1>2, <1>3, JoinGrows
<1>12. j[0] = <<>>
  BY <1>2 DEF Joins
<1>13. \A k \in 1 .. n : Within(raw, at + 2 + Len(j[k - 1]), q[k])
  <2>1. Within(raw, at + 2, j[Len(q)])
    BY <1>3, <1>5
  <2>2. \A k \in 1 .. Len(q) : Within(raw, (at + 2) + Len(j[k - 1]), q[k])
    BY <1>2, <1>3, <2>1, WithinJoin
  <2>. QED  BY <1>3, <2>2
<1>14. ASSUME NEW k \in 1 .. n
       PROVE  decode_operand(raw, at + 2 + Len(j[k - 1])) =
                 [ok |-> TRUE, operand |-> ops[k], next |-> at + 2 + Len(j[k])]
  <2>1. ops[k] \in Operand /\ q[k] = encode_operand(ops[k])
    BY <1>1, <1>9 DEF n
  <2>2. k - 1 \in 0 .. n /\ k \in 0 .. n
    BY <1>1
  <2>3. Len(j[k - 1]) \in Nat /\ Len(j[k]) \in Nat /\ Len(q[k]) \in Nat
        /\ Len(j[k]) = Len(j[k - 1]) + Len(q[k])
    <3>1. q[k] \in Seq(Byte) /\ j[k - 1] \in Seq(Byte) /\ j[k] \in Seq(Byte)
      BY <1>10, <2>1, <2>2, OperandLength
    <3>2. Len(q[k]) \in Nat /\ Len(j[k - 1]) \in Nat /\ Len(j[k]) \in Nat
      BY <3>1
    <3>. QED  BY <1>11, <3>2
  <2>4. decode_operand(raw, at + 2 + Len(j[k - 1])) =
            [ok |-> TRUE, operand |-> ops[k],
             next |-> (at + 2 + Len(j[k - 1])) + Len(encode_operand(ops[k]))]
    BY <1>13, <2>1, OperandRoundTrip
  <2>5. (at + 2 + Len(j[k - 1])) + Len(encode_operand(ops[k])) = at + 2 + Len(j[k])
    <3>1. Len(encode_operand(ops[k])) = Len(q[k]) /\ at \in Nat
      BY <1>6, <2>1
    <3>2. (at + 2 + Len(j[k - 1])) + Len(q[k]) = at + 2 + (Len(j[k - 1]) + Len(q[k]))
      <4>1. at + 2 \in Nat
        BY <3>1
      <4>. QED  BY <2>3, <4>1, AddAssociates
    <3>. QED  BY <2>3, <3>1, <3>2
  <2>. QED  BY <2>4, <2>5
<1>15. PICK f : /\ Rounds(raw, n, f)
                /\ decode_instruction(raw, at) =
                      IF ~f[n][at + 2].ok THEN Malformed
                      ELSE [ok |-> TRUE,
                            instr |-> Instruction(Named(OpCodeNumber, ByteAt(raw, at)),
                                                  f[n][at + 2].operands),
                            next |-> f[n][at + 2].next]
  <2>1. n = ByteAt(raw, at + 1) /\ HasBytes(raw, at, 2) /\ IsNumbered(OpCodeNumber, ByteAt(raw, at))
    BY <1>7, <1>8
  <2>. QED  BY <1>1, <2>1, RoundsUnfold
<1>16. /\ \A cursor \in Nat :
             f[0][cursor] = [ok |-> TRUE, operands |-> <<>>, next |-> cursor]
       /\ \A k \in 1 .. n, cursor \in Nat :
             f[k][cursor] = NextOperand(raw, cursor, f[k - 1])
  <2>1. 0 \in 0 .. n /\ \A k \in 1 .. n : k \in 0 .. n /\ k # 0
    BY <1>1
  <2>2. ASSUME NEW cursor \in Nat
        PROVE  f[0][cursor] = [ok |-> TRUE, operands |-> <<>>, next |-> cursor]
    BY <1>15, <2>1 DEF Rounds
  <2>3. ASSUME NEW k \in 1 .. n, NEW cursor \in Nat
        PROVE  f[k][cursor] = NextOperand(raw, cursor, f[k - 1])
    <3>1. f[k] = [c \in Nat |-> IF k = 0 THEN [ok |-> TRUE, operands |-> <<>>, next |-> c]
                                ELSE NextOperand(raw, c, f[k - 1])]
      BY <1>15, <2>1 DEF Rounds
    <3>2. k # 0
      BY <2>1
    <3>3. f[k] = [c \in Nat |-> NextOperand(raw, c, f[k - 1])]
      BY <3>1, <3>2
    <3>. QED  BY <3>3
  <2>. QED  BY <2>2, <2>3
<1>. DEFINE cursor(k) == at + 2 + Len(j[k])
            last == cursor(n)
            suffix(k) == [ok |-> TRUE, operands |-> SubSeq(ops, n - k + 1, n), next |-> last]
            T == {k \in 0 .. n : f[k][cursor(n - k)] = suffix(k)}
<1>17. \A k \in 0 .. n : cursor(k) \in Nat
  <2>1. ASSUME NEW k \in 0 .. n PROVE cursor(k) \in Nat
    <3>1. j[k] \in Seq(Byte)
      BY <1>10
    <3>. DEFINE len == Len(j[k])
    <3>2. len \in Nat
      BY <3>1
    <3>. HIDE DEF len
    <3>3. at + 2 + len \in Nat
      BY <1>6, <3>2
    <3>. QED  BY <3>3 DEF len
  <2>. QED  BY <2>1
<1>18. 0 \in T
  <2>1. n - 0 = n /\ 0 \in 0 .. n /\ n \in 0 .. n /\ SubSeq(ops, n - 0 + 1, n) = <<>>
    BY <1>1
  <2>2. cursor(n) \in Nat
    BY <1>17, <2>1
  <2>3. suffix(0) = [ok |-> TRUE, operands |-> <<>>, next |-> last]
    BY <2>1
  <2>. HIDE DEF suffix, cursor
  <2>. QED  BY <1>16, <2>1, <2>2, <2>3
<1>19. ASSUME NEW k \in 0 .. (n - 1), k \in T PROVE k + 1 \in T
  <2>1. /\ k \in 0 .. n /\ k + 1 \in 1 .. n /\ k + 1 \in 0 .. n /\ (k + 1) - 1 = k
        /\ n - k \in 1 .. n /\ n - k \in 0 .. n /\ n - (k + 1) \in 0 .. n
        /\ (n - k) - 1 = n - (k + 1) /\ n - (k + 1) + 1 = n - k
    BY <1>1
  <2>2. decode_operand(raw, cursor(n - (k + 1))) =
            [ok |-> TRUE, operand |-> ops[n - k], next |-> cursor(n - k)]
    BY <1>14, <2>1
  <2>3. <<ops[n - k]>> \o SubSeq(ops, n - k + 1, n) = SubSeq(ops, n - k, n)
    BY <1>1, <2>1 DEF n
  <2>4. suffix(k).ok = TRUE /\ suffix(k).operands = SubSeq(ops, n - k + 1, n)
        /\ suffix(k).next = last
    OBVIOUS
  <2>5. suffix(k + 1) = [ok |-> TRUE, operands |-> SubSeq(ops, n - k, n), next |-> last]
    BY <2>1
  <2>6. f[k][cursor(n - k)] = suffix(k)
    BY <1>19
  <2>7. cursor(n - (k + 1)) \in Nat
    BY <1>17, <2>1
  <2>. HIDE DEF suffix, cursor, last
  <2>. DEFINE d == decode_operand(raw, cursor(n - (k + 1)))
  <2>8. d.ok = TRUE /\ d.operand = ops[n - k] /\ d.next = cursor(n - k)
    BY <2>2
  <2>. HIDE DEF d
  <2>9. f[k][d.next] = suffix(k)
    BY <2>6, <2>8
  <2>10. NextOperand(raw, cursor(n - (k + 1)), f[k]) =
            [ok |-> TRUE, operands |-> <<ops[n - k]>> \o SubSeq(ops, n - k + 1, n), next |-> last]
    BY <2>4, <2>8, <2>9 DEF NextOperand, d
  <2>11. f[k + 1][cursor(n - (k + 1))] = NextOperand(raw, cursor(n - (k + 1)), f[k])
    BY <1>16, <2>1, <2>7
  <2>. QED  BY <2>1, <2>3, <2>5, <2>10, <2>11
<1>20. n \in T
  <2>. HIDE DEF T
  <2>1. 0 \in Int /\ n \in Int
    BY <1>1
  <2>2. 0 .. n \subseteq T
    BY <1>18, <1>19, <2>1, InductionUpTo, Zenon
  <2>. QED  BY <1>1, <2>2
<1>21. f[n][at + 2] = [ok |-> TRUE, operands |-> ops, next |-> at + 2 + Len(j[n])]
  <2>1. n - n = 0 /\ SubSeq(ops, n - n + 1, n) = ops
    BY <1>1 DEF n
  <2>2. cursor(0) = at + 2
    BY <1>6, <1>12
  <2>3. suffix(n) = [ok |-> TRUE, operands |-> ops, next |-> last]
    BY <2>1
  <2>. HIDE DEF suffix, cursor
  <2>4. f[n][at + 2] = suffix(n)
    BY <1>20, <2>1, <2>2
  <2>. QED  BY <2>3, <2>4 DEF cursor
<1>22. at + 2 + Len(j[n]) = at + Len(encode_instruction(i))
  <2>1. Len(j[n]) \in Nat /\ at \in Nat
    <3>1. j[n] \in Seq(Byte)
      BY <1>3
    <3>. QED  BY <1>6, <3>1
  <2>2. Len(encode_instruction(i)) = 2 + Len(j[n])
    BY <1>3
  <2>3. at + 2 + Len(j[n]) = at + (2 + Len(j[n]))
    BY <2>1, AddAssociates
  <2>. QED  BY <2>2, <2>3
<1>23. Instruction(Named(OpCodeNumber, ByteAt(raw, at)), ops) = i
  BY <1>1, <1>8
<1>. HIDE DEF T
<1>24. /\ f[n][at + 2].ok = TRUE /\ f[n][at + 2].operands = ops
       /\ f[n][at + 2].next = at + 2 + Len(j[n])
  BY <1>21
<1>. QED  BY <1>15, <1>22, <1>23, <1>24

-----------------------------------------------------------------------------
(* Code.                                                                   *)

\* The offsets that a sweep has visited, as a function of its rounds.
Sweeps(raw, f) == f = [k \in 0 .. Len(raw) |-> IF k = 0 THEN <<0>> ELSE Visit(raw, f[k - 1])]

\* The sweep unfolds along any function that satisfies its recursion.
LEMMA SweepUnfolds ==
    ASSUME NEW raw, NEW g, Sweeps(raw, g)
    PROVE  \E f : Sweeps(raw, f) /\ Sweep(raw) = f[Len(raw)]
<1>. DEFINE f == CHOOSE h : h = [k \in 0 .. Len(raw) |-> IF k = 0 THEN <<0>> ELSE Visit(raw, h[k - 1])]
<1>1. Sweeps(raw, f)
  BY DEF Sweeps
<1>2. Sweep(raw) = f[Len(raw)]
  BY DEF Sweep
<1>. HIDE DEF f
<1>. QED  BY <1>1, <1>2

LEMMA AppendParts ==
    ASSUME NEW S, NEW a \in Seq(S), NEW x \in S
    PROVE  /\ Append(a, x) \in Seq(S) /\ Len(Append(a, x)) = Len(a) + 1
           /\ \A i \in 1 .. Len(a) : Append(a, x)[i] = a[i]
           /\ Append(a, x)[Len(a) + 1] = x
OBVIOUS

\* A sweep that finds at each of the offsets an instruction that ends at the
\* next one, up to the end of the code, visits these offsets.
SweepPath(raw, n, at) ==
    /\ n \in Nat /\ n <= Len(raw) /\ at[0] = 0 /\ at[n] = Len(raw)
    /\ \A k \in 0 .. n : at[k] \in Nat
    /\ \A k \in 1 .. n : /\ at[k - 1] < Len(raw)
                         /\ decode_instruction(raw, at[k - 1]).ok = TRUE
                         /\ decode_instruction(raw, at[k - 1]).next = at[k]

LEMMA SweepVisits ==
    ASSUME NEW raw \in Seq(Byte), NEW n, NEW at, SweepPath(raw, n, at)
    PROVE  Sweep(raw) = [i \in 1 .. (n + 1) |-> at[i - 1]]
<1>. DEFINE len == Len(raw)
            Upto(m) == [i \in 1 .. (m + 1) |-> at[i - 1]]
            g == [k \in 0 .. len |-> IF k <= n THEN Upto(k) ELSE Upto(n)]
<1>0. len \in Nat
  OBVIOUS
<1>p. /\ n \in Nat /\ n <= Len(raw) /\ at[0] = 0 /\ at[n] = Len(raw)
      /\ \A k \in 0 .. n : at[k] \in Nat
      /\ \A k \in 1 .. n : /\ at[k - 1] < Len(raw)
                           /\ decode_instruction(raw, at[k - 1]).ok = TRUE
                           /\ decode_instruction(raw, at[k - 1]).next = at[k]
  BY DEF SweepPath
<1>. USE <1>p
<1>1. ASSUME NEW m \in 0 .. n
      PROVE  Upto(m) \in Seq(Nat) /\ Len(Upto(m)) = m + 1 /\ Last(Upto(m)) = at[m]
  <2>1. \A i \in 1 .. (m + 1) : at[i - 1] \in Nat
    OBVIOUS
  <2>2. Upto(m) \in Seq(Nat) /\ Len(Upto(m)) = m + 1
    BY <2>1
  <2>3. Upto(m)[m + 1] = at[m]
    <3>1. m + 1 \in 1 .. (m + 1) /\ (m + 1) - 1 = m
      OBVIOUS
    <3>. QED  BY <3>1
  <2>. HIDE DEF Upto
  <2>. QED  BY <2>2, <2>3 DEF Last
<1>2. ASSUME NEW m \in 1 .. n PROVE Append(Upto(m - 1), at[m]) = Upto(m)
  <2>1. m - 1 \in 0 .. n /\ m \in 0 .. n /\ (m - 1) + 1 = m
    OBVIOUS
  <2>2. Upto(m - 1) \in Seq(Nat) /\ Len(Upto(m - 1)) = m /\ at[m] \in Nat
    BY <1>1, <2>1
  <2>3. Upto(m) \in Seq(Nat) /\ Len(Upto(m)) = m + 1
    BY <1>1, <2>1
  <2>4. \A i \in 1 .. m : Upto(m - 1)[i] = at[i - 1]
    BY <2>1
  <2>5. \A i \in 1 .. (m + 1) : Upto(m)[i] = at[i - 1]
    OBVIOUS
  <2>6. at[(m + 1) - 1] = at[m]
    BY <2>1
  <2>. DEFINE a == Upto(m - 1)
              b == Upto(m)
  <2>. HIDE DEF a, b
  <2>7. /\ a \in Seq(Nat) /\ Len(a) = m /\ at[m] \in Nat /\ b \in Seq(Nat) /\ Len(b) = m + 1
        /\ \A i \in 1 .. m : a[i] = at[i - 1]
        /\ \A i \in 1 .. (m + 1) : b[i] = at[i - 1]
    BY <2>2, <2>3, <2>4, <2>5 DEF a, b
  <2>8. /\ Append(a, at[m]) \in Seq(Nat) /\ Len(Append(a, at[m])) = m + 1
        /\ \A i \in 1 .. m : Append(a, at[m])[i] = a[i]
        /\ Append(a, at[m])[m + 1] = at[m]
    BY <2>7, AppendParts
  <2>9. ASSUME NEW i \in 1 .. (m + 1) PROVE Append(a, at[m])[i] = b[i]
    <3>1. CASE i = m + 1
      <4>1. b[m + 1] = at[(m + 1) - 1]
        BY <2>7
      <4>. QED  BY <2>6, <2>8, <3>1, <4>1
    <3>2. CASE i # m + 1
      <4>1. i \in 1 .. m
        BY <3>2
      <4>2. i \in 1 .. (m + 1) /\ Append(a, at[m])[i] = a[i]
        BY <2>8, <4>1
      <4>. QED  BY <2>7, <4>1, <4>2
    <3>. QED  BY <3>1, <3>2
  <2>10. Append(a, at[m]) = b
    BY <2>7, <2>8, <2>9
  <2>. QED  BY <2>10 DEF a, b
<1>3. ASSUME NEW k \in 1 .. len PROVE g[k] = Visit(raw, g[k - 1])
  <2>1. k \in 0 .. len /\ k - 1 \in 0 .. len
    BY <1>0
  <2>2. CASE k <= n
    <3>1. k \in 1 .. n /\ k - 1 \in 0 .. n /\ k - 1 <= n
      BY <2>2
    <3>2. g[k] = Upto(k) /\ g[k - 1] = Upto(k - 1)
      BY <2>1, <2>2, <3>1
    <3>3. Last(Upto(k - 1)) = at[k - 1] /\ Append(Upto(k - 1), at[k]) = Upto(k)
      BY <1>1, <1>2, <3>1
    <3>4. ~(at[k - 1] >= Len(raw)) /\ decode_instruction(raw, at[k - 1]).ok = TRUE
          /\ decode_instruction(raw, at[k - 1]).next = at[k]
      <4>1. at[k - 1] \in Nat /\ at[k - 1] < len
        BY <3>1
      <4>. QED  BY <1>0, <3>1, <4>1
    <3>. HIDE DEF g, Upto
    <3>. QED  BY <3>2, <3>3, <3>4 DEF Visit
  <2>3. CASE k > n
    <3>1. g[k] = Upto(n)
      BY <2>1, <2>3
    <3>2. g[k - 1] = Upto(n)
      <4>1. CASE k - 1 <= n
        <5>1. k - 1 = n
          BY <2>3, <4>1
        <5>. QED  BY <2>1, <5>1
      <4>2. CASE ~(k - 1 <= n)
        BY <2>1, <4>2
      <4>. QED  BY <4>1, <4>2
    <3>3. Last(Upto(n)) = len
      <4>1. n \in 0 .. n
        OBVIOUS
      <4>. QED  BY <1>1, <4>1
    <3>4. Last(Upto(n)) >= Len(raw)
      BY <1>0, <3>3
    <3>. HIDE DEF g, Upto
    <3>. QED  BY <3>1, <3>2, <3>4 DEF Visit
  <2>. QED  BY <1>0, <2>2, <2>3
<1>4. g[0] = <<0>>
  <2>1. 0 \in 0 .. len /\ 0 <= n
    BY <1>0
  <2>2. Upto(0) = <<0>>
    OBVIOUS
  <2>. QED  BY <2>1, <2>2
<1>5. g[len] = Upto(n)
  <2>1. len \in 0 .. len
    BY <1>0
  <2>2. CASE len <= n
    <3>1. len = n
      BY <1>0, <2>2
    <3>. QED  BY <2>1, <3>1
  <2>3. CASE ~(len <= n)
    BY <2>1, <2>3
  <2>. QED  BY <2>2, <2>3
<1>6. Sweeps(raw, g)
  <2>1. ASSUME NEW k \in 0 .. len PROVE g[k] = IF k = 0 THEN <<0>> ELSE Visit(raw, g[k - 1])
    <3>1. k # 0 => k \in 1 .. len
      BY <1>0
    <3>. HIDE DEF g
    <3>. QED  BY <1>3, <1>4, <3>1
  <2>2. g = [k \in 0 .. len |-> g[k]]
    OBVIOUS
  <2>. HIDE DEF g
  <2>. QED  BY <2>1, <2>2 DEF Sweeps
<1>. HIDE DEF g, Upto
<1>7. PICK f : Sweeps(raw, f) /\ Sweep(raw) = f[len]
  BY <1>6, SweepUnfolds
<1>8. /\ f[0] = g[0]
      /\ \A k \in 1 .. len : f[k] = Visit(raw, f[k - 1])
  <2>1. 0 \in 0 .. len /\ \A k \in 1 .. len : k \in 0 .. len /\ k # 0
    BY <1>0
  <2>2. f = [k \in 0 .. len |-> IF k = 0 THEN <<0>> ELSE Visit(raw, f[k - 1])]
    BY <1>7 DEF Sweeps
  <2>3. f[0] = <<0>>
    BY <2>1, <2>2
  <2>4. ASSUME NEW k \in 1 .. len PROVE f[k] = Visit(raw, f[k - 1])
    BY <2>1, <2>2
  <2>. QED  BY <1>4, <2>3, <2>4
<1>. DEFINE T == {k \in 0 .. len : f[k] = g[k]}
<1>9. 0 .. len \subseteq T
  <2>. HIDE DEF len
  <2>1. 0 \in T
    BY <1>0, <1>8
  <2>2. ASSUME NEW k \in 0 .. (len - 1), k \in T PROVE k + 1 \in T
    <3>1. k + 1 \in 1 .. len /\ k + 1 \in 0 .. len /\ (k + 1) - 1 = k
      BY <1>0
    <3>2. f[k + 1] = Visit(raw, f[k]) /\ g[k + 1] = Visit(raw, g[k]) /\ f[k] = g[k]
      BY <1>3, <1>8, <2>2, <3>1
    <3>. QED  BY <3>1, <3>2
  <2>3. 0 \in Int /\ len \in Int
    BY <1>0
  <2>. HIDE DEF T
  <2>. QED  BY <2>1, <2>2, <2>3, InductionUpTo, Zenon
<1>10. f[len] = g[len]
  <2>1. len \in 0 .. len
    BY <1>0
  <2>. QED  BY <1>9, <2>1
<1>. QED  BY <1>5, <1>7, <1>10 DEF Upto

\* The bytes of each instruction.
Encoded(is) == [k \in DOMAIN is |-> encode_instruction(is[k])]

LEMMA InstructionSize ==
    ASSUME NEW i \in EncodableInstruction
    PROVE  /\ encode_instruction(i) \in Seq(Byte)
           /\ Len(encode_instruction(i)) \in Nat /\ Len(encode_instruction(i)) >= 2
<1>1. PICK j : Joins(EncodedOperands(i), j)
  BY EncodedOperandsType, JoinExists
<1>2. /\ j[Len(i.operands)] \in Seq(Byte) /\ encode_instruction(i) \in Seq(Byte)
      /\ Len(encode_instruction(i)) = 2 + Len(j[Len(i.operands)])
  BY <1>1, InstructionBytes
<1>3. Len(j[Len(i.operands)]) \in Nat
  BY <1>2
<1>. QED  BY <1>2, <1>3

\* The sweep of a code reads back the instructions that it was encoded from,
\* one after the other up to its end (binary.py:72-104).
CodeReads(is, code, offsets) ==
    /\ offsets \in Seq(Nat) /\ Len(offsets) = Len(is) + 1
    /\ offsets[1] = 0 /\ Last(offsets) = Len(code)
    /\ \A k \in 1 .. Len(is) :
          /\ offsets[k] < offsets[k + 1] /\ offsets[k + 1] <= Len(code)
          /\ offsets[k + 1] = offsets[k] + Len(encode_instruction(is[k]))
          /\ decode_instruction(code, offsets[k]) =
                [ok |-> TRUE, instr |-> is[k], next |-> offsets[k + 1]]

THEOREM CodeRoundTrip ==
    ASSUME NEW is \in Seq(EncodableInstruction)
    PROVE  CodeReads(is, encode_program(is), Sweep(encode_program(is)))
<1>. DEFINE n == Len(is)
            q == Encoded(is)
            code == encode_program(is)
<1>1. n \in Nat /\ \A k \in 1 .. n : is[k] \in EncodableInstruction
  OBVIOUS
<1>2. q = [k \in 1 .. n |-> encode_instruction(is[k])] /\ code = FlattenSeq(q)
  BY DEF Encoded, encode_program
<1>. HIDE DEF n, q, code
<1>3. \A k \in 1 .. n : /\ q[k] = encode_instruction(is[k]) /\ q[k] \in Seq(Byte)
                        /\ Len(q[k]) \in Nat /\ Len(q[k]) >= 2
  BY <1>1, <1>2, InstructionSize
<1>4. q \in Seq(Seq(Byte)) /\ Len(q) = n
  BY <1>1, <1>2, <1>3
<1>5. PICK j : Joins(q, j)
  BY <1>4, JoinExists
<1>6. code = j[n]
  BY <1>2, <1>4, <1>5, FlattenIsJoin
<1>7. /\ \A k \in 0 .. n : j[k] \in Seq(Byte)
      /\ \A k \in 1 .. n : Len(j[k]) = Len(j[k - 1]) + Len(q[k])
  BY <1>4, <1>5, JoinGrows
<1>8. code \in Seq(Byte) /\ Len(code) \in Nat
  <2>1. n \in 0 .. n
    BY <1>1
  <2>2. code \in Seq(Byte)
    BY <1>6, <1>7, <2>1
  <2>. QED  BY <2>2
<1>. DEFINE at == [k \in 0 .. n |-> Len(j[k])]
<1>9. /\ \A k \in 0 .. n : at[k] \in Nat /\ at[k] = Len(j[k])
      /\ \A k \in 1 .. n : at[k] = at[k - 1] + Len(q[k])
  <2>1. ASSUME NEW k \in 0 .. n PROVE at[k] \in Nat /\ at[k] = Len(j[k])
    <3>1. j[k] \in Seq(Byte)
      BY <1>7
    <3>. QED  BY <3>1
  <2>2. ASSUME NEW k \in 1 .. n PROVE at[k] = at[k - 1] + Len(q[k])
    <3>1. k \in 0 .. n /\ k - 1 \in 0 .. n
      BY <1>1
    <3>. QED  BY <1>7, <3>1
  <2>. QED  BY <2>1, <2>2
<1>. HIDE DEF at
<1>10. at[0] = 0 /\ at[n] = Len(code)
  <2>1. j[0] = <<>> /\ 0 \in 0 .. n /\ n \in 0 .. n
    BY <1>1, <1>5 DEF Joins
  <2>. QED  BY <1>6, <1>9, <2>1
<1>11. \A k \in 1 .. n : Within(code, at[k - 1], q[k])
  <2>1. Within(code, 0, j[Len(q)])
    <3>1. \A k \in 1 .. Len(code) : code[0 + k] = code[k]
      OBVIOUS
    <3>2. 0 + Len(code) <= Len(code)
      BY <1>8
    <3>. QED  BY <1>4, <1>6, <3>1, <3>2 DEF Within
  <2>2. \A k \in 1 .. Len(q) : Within(code, 0 + Len(j[k - 1]), q[k])
    BY <1>4, <1>5, <1>8, <2>1, WithinJoin
  <2>3. ASSUME NEW k \in 1 .. n PROVE 0 + Len(j[k - 1]) = at[k - 1]
    <3>1. k - 1 \in 0 .. n
      BY <1>1
    <3>2. at[k - 1] \in Nat /\ at[k - 1] = Len(j[k - 1])
      BY <1>9, <3>1
    <3>. QED  BY <3>2
  <2>. QED  BY <1>4, <2>2, <2>3
<1>12. ASSUME NEW k \in 1 .. n
       PROVE  decode_instruction(code, at[k - 1]) = [ok |-> TRUE, instr |-> is[k], next |-> at[k]]
  <2>1. Within(code, at[k - 1], encode_instruction(is[k]))
    BY <1>3, <1>11
  <2>2. at[k] = at[k - 1] + Len(encode_instruction(is[k]))
    BY <1>3, <1>9
  <2>. QED  BY <1>1, <1>8, <2>1, <2>2, InstructionRoundTrip
<1>13. ASSUME NEW k \in 1 .. n
       PROVE  at[k - 1] < at[k] /\ at[k] <= Len(code)
  <2>1. k - 1 \in 0 .. n /\ k \in 0 .. n
    BY <1>1
  <2>2. at[k - 1] \in Nat /\ at[k] \in Nat /\ at[k] = at[k - 1] + Len(q[k])
        /\ Len(q[k]) \in Nat /\ Len(q[k]) >= 2
    BY <1>3, <1>9, <2>1
  <2>3. at[k - 1] + Len(q[k]) <= Len(code)
    BY <1>11 DEF Within
  <2>. QED  BY <2>2, <2>3
<1>14. n <= Len(code)
  <2>. DEFINE T == {k \in 0 .. n : k <= at[k]}
  <2>1. 0 \in T
    BY <1>1, <1>10
  <2>2. ASSUME NEW k \in 0 .. (n - 1), k \in T PROVE k + 1 \in T
    <3>1. k + 1 \in 1 .. n /\ k + 1 \in 0 .. n /\ (k + 1) - 1 = k
      BY <1>1
    <3>2. at[k] < at[k + 1] /\ at[k] \in Nat /\ at[k + 1] \in Nat /\ k <= at[k]
      BY <1>9, <1>13, <2>2, <3>1
    <3>3. k + 1 <= at[k + 1]
      BY <3>2
    <3>. QED  BY <3>1, <3>3
  <2>3. 0 \in Int /\ n \in Int
    BY <1>1
  <2>. HIDE DEF T
  <2>4. 0 .. n \subseteq T
    BY <2>1, <2>2, <2>3, InductionUpTo, Zenon
  <2>5. n \in T
    BY <1>1, <2>4
  <2>. QED  BY <1>10, <2>5 DEF T
<1>. DEFINE offsets == Sweep(code)
<1>15. offsets = [i \in 1 .. (n + 1) |-> at[i - 1]]
  <2>1. \A k \in 0 .. n : at[k] \in Nat
    BY <1>9
  <2>2. ASSUME NEW k \in 1 .. n
        PROVE  /\ at[k - 1] < Len(code)
               /\ decode_instruction(code, at[k - 1]).ok = TRUE
               /\ decode_instruction(code, at[k - 1]).next = at[k]
    <3>1. k - 1 \in 0 .. n /\ k \in 0 .. n
      BY <1>1
    <3>2. at[k - 1] \in Nat /\ at[k] \in Nat
      BY <1>9, <3>1
    <3>3. at[k - 1] < Len(code)
      BY <1>8, <1>13, <3>2
    <3>4. decode_instruction(code, at[k - 1]) = [ok |-> TRUE, instr |-> is[k], next |-> at[k]]
      BY <1>12
    <3>. QED  BY <3>3, <3>4
  <2>. HIDE DEF offsets
  <2>3. /\ n \in Nat /\ code \in Seq(Byte) /\ at[0] = 0 /\ at[n] = Len(code) /\ n <= Len(code)
    BY <1>1, <1>8, <1>10, <1>14
  <2>4. SweepPath(code, n, at)
    BY <2>1, <2>2, <2>3 DEF SweepPath
  <2>5. Sweep(code) = [i \in 1 .. (n + 1) |-> at[i - 1]]
    BY <1>8, <2>4, SweepVisits
  <2>. QED  BY <2>5 DEF offsets
<1>. HIDE DEF offsets
<1>16. \A i \in 1 .. (n + 1) : offsets[i] = at[i - 1]
  BY <1>15
<1>17. offsets \in Seq(Nat) /\ Len(offsets) = n + 1 /\ offsets[1] = 0 /\ Last(offsets) = Len(code)
  <2>1. Len(offsets) = n + 1
    BY <1>1, <1>15
  <2>2. 1 \in 1 .. (n + 1) /\ 1 - 1 = 0 /\ n + 1 \in 1 .. (n + 1) /\ (n + 1) - 1 = n
    BY <1>1
  <2>3. offsets[1] = at[0] /\ offsets[n + 1] = at[n]
    BY <1>16, <2>2
  <2>4. offsets \in Seq(Nat)
    <3>1. ASSUME NEW i \in 1 .. (n + 1) PROVE at[i - 1] \in Nat
      <4>1. i - 1 \in 0 .. n
        BY <1>1
      <4>. QED  BY <1>9, <4>1
    <3>2. n + 1 \in Nat
      BY <1>1
    <3>. QED  BY <1>15, <3>1, <3>2
  <2>. QED  BY <1>10, <2>1, <2>3, <2>4 DEF Last
<1>18. ASSUME NEW k \in 1 .. n
       PROVE  /\ offsets[k] < offsets[k + 1] /\ offsets[k + 1] <= Len(code)
              /\ offsets[k + 1] = offsets[k] + Len(encode_instruction(is[k]))
              /\ decode_instruction(code, offsets[k]) =
                    [ok |-> TRUE, instr |-> is[k], next |-> offsets[k + 1]]
  <2>1. k \in 1 .. (n + 1) /\ k + 1 \in 1 .. (n + 1) /\ (k + 1) - 1 = k
    BY <1>1
  <2>2. offsets[k] = at[k - 1] /\ offsets[k + 1] = at[k]
    BY <1>16, <2>1
  <2>3. at[k] = at[k - 1] + Len(encode_instruction(is[k]))
    BY <1>3, <1>9
  <2>. QED  BY <1>12, <1>13, <2>2, <2>3
<1>. QED  BY <1>17, <1>18 DEF CodeReads, n, code, offsets
=============================================================================
