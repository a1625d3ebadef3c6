--------------------------- MODULE ToolchainProofs ---------------------------
(***************************************************************************)
(* The binary file between the commands: what reads as an image is what    *)
(* one translation has written from its first byte to its last, and the    *)
(* listing of it is the listing of that image.                             *)
(***************************************************************************)
EXTENDS Toolchain, BinaryProofs

\* The file holds the first bytes of B, or B and a byte more.
Holds(B, f) ==
    /\ f \in Seq(Byte) /\ Len(f) <= Len(B) + 1
    /\ \A j \in 1 .. Len(f) : j <= Len(B) => f[j] = B[j]

\* What is still to be written of B after f.
Remains(B, f, rest) ==
    rest # <<>> =>
        /\ rest \in Seq(Byte) /\ Len(f) + Len(rest) = Len(B)
        /\ \A j \in 1 .. Len(rest) : rest[j] = B[Len(f) + j]

ToolInv ==
    IF translating = NoSource
      THEN file = <<>> /\ pending = <<>>
      ELSE /\ translating \in DOMAIN BytesOf
           /\ Holds(BytesOf[translating], file)
           /\ Remains(BytesOf[translating], file, pending)

-----------------------------------------------------------------------------

\* The file of a source that compiles.
LEMMA Files ==
    ASSUME NEW s \in DOMAIN BytesOf
    PROVE  /\ s \in DOMAIN Translated /\ s # NoSource /\ Translated[s].ok
           /\ Translated[s] \in ProgramImage
           /\ BytesOf[s] = to_bytes(Translated[s])
           /\ BytesOf[s] \in Seq(Byte) /\ Len(BytesOf[s]) >= 24
<1>1. s \in DOMAIN Translated /\ Translated[s].ok /\ BytesOf[s] = to_bytes(Translated[s])
  BY DEF BytesOf
<1>2. s # NoSource /\ Translated[s] \in ProgramImage
  BY <1>1, ToolAssumption
<1>3. /\ to_bytes(Translated[s]) \in Seq(Byte)
      /\ Len(to_bytes(Translated[s])) = SizeOf(Translated[s])
  BY <1>2, FileLayout
<1>4. SizeOf(Translated[s]) >= 24
  BY <1>2, SizeAtLeastHeader
<1>. QED  BY <1>1, <1>2, <1>3, <1>4

\* A file that holds as many bytes of B as B has is B.
LEMMA HoldsAll ==
    ASSUME NEW B \in Seq(Byte), NEW f, Holds(B, f), Len(f) = Len(B)
    PROVE  f = B
BY DEF Holds

\* The invariant says how the file reads.
LEMMA ToolInvReads == ToolInv => ReadsOnlyCompleteFiles
<1>. SUFFICES ASSUME ToolInv PROVE ReadsOnlyCompleteFiles
  OBVIOUS
<1>1. CASE translating = NoSource
  <2>1. ~HasHeader(file)
    BY <1>1 DEF ToolInv, HasHeader, HeaderSize
  <2>. QED  BY <1>1, <2>1 DEF ReadsOnlyCompleteFiles, IsComplete, IsTranslated, from_bytes
<1>2. CASE translating # NoSource
  <2>. DEFINE B == BytesOf[translating]
              im == Translated[translating]
  <2>1. translating \in DOMAIN BytesOf /\ Holds(B, file)
    BY <1>2 DEF ToolInv
  <2>2. /\ IsTranslated(translating) /\ im \in ProgramImage /\ B = to_bytes(im)
        /\ B \in Seq(Byte) /\ Len(B) >= 24
    BY <2>1, Files DEF IsTranslated
  <2>3. IsComplete <=> file = B
    BY <2>2 DEF IsComplete
  <2>. HIDE DEF B, im
  <2>4. CASE file = B
    BY <2>2, <2>3, <2>4, RoundTrip DEF ReadsOnlyCompleteFiles, im
  <2>5. CASE file # B
    <3>1. file \in Seq(Byte) /\ Len(file) # Len(B)
      BY <2>1, <2>2, <2>5, HoldsAll DEF Holds
    <3>2. ASSUME NEW j \in 1 .. 24, j <= Len(file) PROVE file[j] = B[j]
      <4>. DEFINE n == Len(file)
                  m == Len(B)
      <4>1. n \in Nat /\ m \in Nat /\ m >= 24 /\ j <= n
        BY <2>2, <3>1, <3>2
      <4>2. \A i \in 1 .. n : i <= m => file[i] = B[i]
        BY <2>1 DEF Holds
      <4>. HIDE DEF n, m
      <4>. QED  BY <4>1, <4>2
    <3>3. from_bytes(file) = Malformed
      BY <2>2, <3>1, <3>2, OnlyTheWholeFile
    <3>. QED  BY <2>3, <2>5, <3>3 DEF ReadsOnlyCompleteFiles
  <2>. QED  BY <2>4, <2>5
<1>. QED  BY <1>1, <1>2

LEMMA ToolInvInit == ToolInit => ToolInv
BY DEF ToolInit, ToolInv

\* The next byte is written.
LEMMA WriteStep ==
    ASSUME ToolInv, WriteByte
    PROVE  ToolInv'
<1>. DEFINE B == BytesOf[translating]
<1>1. translating # NoSource /\ pending # <<>>
  BY DEF ToolInv, WriteByte
<1>2. translating \in DOMAIN BytesOf /\ Holds(B, file) /\ Remains(B, file, pending)
  BY <1>1 DEF ToolInv
<1>3. B \in Seq(Byte)
  BY <1>2, Files
<1>. DEFINE n == Len(file)
            r == Len(pending)
            at == Len(B) - r + 1
<1>4. /\ file' = SubSeq(file, 1, at - 1) \o <<Head(pending)>> \o SubSeq(file, at + 1, n)
      /\ pending' = Tail(pending) /\ translating' = translating
  BY DEF WriteByte
<1>. HIDE DEF B
<1>5. /\ file \in Seq(Byte) /\ pending \in Seq(Byte) /\ n \in Nat /\ r \in Nat \ {0}
      /\ Len(B) = n + r /\ at = n + 1
      /\ \A j \in 1 .. n : file[j] = B[j]
      /\ \A j \in 1 .. r : pending[j] = B[n + j]
  BY <1>1, <1>2, <1>3 DEF Holds, Remains
<1>. HIDE DEF n, r
<1>6. file' = Append(file, pending[1])
  <2>1. SubSeq(file, 1, n) = file /\ SubSeq(file, n + 2, n) = <<>>
    BY <1>5 DEF n
  <2>2. Head(pending) = pending[1] /\ pending[1] \in Byte
    BY <1>5 DEF r
  <2>3. file' = SubSeq(file, 1, n) \o <<Head(pending)>> \o SubSeq(file, n + 2, n)
    <3>1. at - 1 = n /\ at + 1 = n + 2
      BY <1>5
    <3>. QED  BY <1>4, <3>1
  <2>4. file' = file \o <<pending[1]>> \o <<>>
    BY <2>1, <2>2, <2>3
  <2>. HIDE DEF at
  <2>. QED  BY <1>5, <2>2, <2>4
<1>7. /\ file' \in Seq(Byte) /\ Len(file') = n + 1
      /\ \A j \in 1 .. n : file'[j] = file[j]
      /\ file'[n + 1] = pending[1]
  <2>1. pending[1] \in Byte
    BY <1>5 DEF r
  <2>. QED  BY <1>5, <1>6, <2>1 DEF n
<1>8. /\ pending' \in Seq(Byte) /\ Len(pending') = r - 1
      /\ \A j \in 1 .. (r - 1) : pending'[j] = pending[j + 1]
  BY <1>4, <1>5 DEF r
<1>. DEFINE f == file'
            p == pending'
<1>9. Holds(B, f)
  <2>1. B[n + 1] = pending[1]
    BY <1>5
  <2>2. \A j \in 1 .. (n + 1) : f[j] = B[j]
    BY <1>5, <1>7, <2>1
  <2>3. f \in Seq(Byte) /\ Len(f) = n + 1 /\ Len(f) <= Len(B) + 1
    BY <1>5, <1>7
  <2>. HIDE DEF f
  <2>. QED  BY <2>2, <2>3 DEF Holds
<1>10. Remains(B, f, p)
  <2>1. \A j \in 1 .. (r - 1) : p[j] = B[(n + 1) + j]
    <3>. SUFFICES ASSUME NEW j \in 1 .. (r - 1) PROVE p[j] = B[(n + 1) + j]
      OBVIOUS
    <3>1. j + 1 \in 1 .. r /\ n + (j + 1) = (n + 1) + j
      BY <1>5
    <3>2. p[j] = pending[j + 1]
      BY <1>8
    <3>3. pending[j + 1] = B[n + (j + 1)]
      BY <1>5, <3>1
    <3>. QED  BY <3>1, <3>2, <3>3
  <2>2. Len(f) = n + 1 /\ p \in Seq(Byte) /\ Len(p) = r - 1 /\ (n + 1) + (r - 1) = Len(B)
    BY <1>5, <1>7, <1>8
  <2>. HIDE DEF f, p
  <2>. QED  BY <2>1, <2>2 DEF Remains
<1>11. /\ translating' # NoSource /\ translating' \in DOMAIN BytesOf
       /\ Holds(BytesOf[translating'], file') /\ Remains(BytesOf[translating'], file', pending')
  BY <1>1, <1>2, <1>4, <1>9, <1>10 DEF B
<1>. QED  BY <1>11 DEF ToolInv

LEMMA ToolInvStep == ToolInv /\ [ToolNext]_toolVars => ToolInv'
<1>. SUFFICES ASSUME ToolInv, [ToolNext]_toolVars PROVE ToolInv'
  OBVIOUS
<1>1. CASE UNCHANGED <<file, pending, translating>>
  BY <1>1 DEF ToolInv
<1>2. ASSUME NEW source \in DOMAIN Translated, Translated[source].ok,
             translating' = source, pending' = BytesOf[source], file' = Opened
      PROVE  ToolInv'
  <2>1. source \in DOMAIN BytesOf
    BY <1>2 DEF BytesOf
  <2>2. source # NoSource /\ BytesOf[source] \in Seq(Byte)
    BY <2>1, Files
  <2>3. file' = <<>> /\ Len(<<>>) = 0
    BY <1>2 DEF Opened
  <2>. DEFINE B == BytesOf[source]
  <2>. HIDE DEF B
  <2>4. Holds(B, <<>>)
    BY <2>2 DEF Holds, B
  <2>5. Remains(B, <<>>, B)
    BY <2>2 DEF Remains, B
  <2>. QED  BY <1>2, <2>1, <2>2, <2>3, <2>4, <2>5 DEF ToolInv, B
<1>3. CASE Translate
  BY <1>1, <1>2, <1>3 DEF Translate
<1>4. CASE WriteByte
  BY <1>4, WriteStep
<1>5. CASE Kill
  BY <1>5 DEF Kill, ToolInv, Remains
<1>6. CASE AppendByte
  <2>1. PICK byte \in {0, 255} : file' = Append(file, byte)
    BY <1>6 DEF AppendByte
  <2>2. /\ translating # NoSource /\ file = BytesOf[translating]
        /\ translating' = translating /\ pending' = pending
    BY <1>6 DEF AppendByte, IsComplete, IsTranslated
  <2>. DEFINE B == BytesOf[translating]
              f == file'
  <2>3. translating \in DOMAIN BytesOf /\ Holds(B, file) /\ Remains(B, file, pending)
    BY <2>2 DEF ToolInv
  <2>4. B \in Seq(Byte) /\ file = B /\ byte \in Byte /\ f = Append(B, byte)
    BY <2>1, <2>2, <2>3, Files DEF Byte
  <2>5. pending = <<>>
    BY <2>3, <2>4 DEF Remains
  <2>6. Holds(B, f)
    <3>. HIDE DEF B, f
    <3>. QED  BY <2>4 DEF Holds
  <2>7. Remains(B, f, <<>>)
    BY DEF Remains
  <2>. QED  BY <2>2, <2>3, <2>5, <2>6, <2>7 DEF ToolInv
<1>7. CASE Disassemble
  BY <1>1, <1>7 DEF Disassemble
<1>8. CASE Start
  BY <1>1, <1>8 DEF Start
<1>9. CASE Execute
  BY <1>1, <1>9 DEF Execute
<1>10. CASE Finish
  BY <1>1, <1>10 DEF Finish
<1>11. CASE UNCHANGED toolVars
  BY <1>1, <1>11 DEF toolVars
<1>. QED  BY <1>3, <1>4, <1>5, <1>6, <1>7, <1>8, <1>9, <1>10, <1>11 DEF ToolNext

\* Whatever is translated to the file, killed on the way or added to it, the
\* commands that read it find the image of the last translation, if that one
\* has written all of it, and otherwise an error: never a mixture of two
\* images, never the beginning of one (binary.py:24-69, cli.py:73).
THEOREM ReadsOnlyWhole == ToolSpec => []ReadsOnlyCompleteFiles
<1>. QED  BY ToolInvInit, ToolInvStep, ToolInvReads, PTL DEF ToolSpec

-----------------------------------------------------------------------------
(* Listings.                                                               *)

\* The lines of a code, by the instructions that it was encoded from.
LEMMA CodeLinesOf ==
    ASSUME NEW is \in Seq(EncodableInstruction), NEW code \in Seq(Byte),
           code = encode_program(is)
    PROVE  /\ DOMAIN CodeLines(code) = 1 .. Len(is)
           /\ \A k \in 1 .. Len(is) :
                 /\ CodeLines(code)[k].instruction = is[k]
                 /\ CodeLines(code)[k].address + Len(CodeLines(code)[k].raw) <= Len(code)
                 /\ CodeLines(code)[k].raw =
                       SubSeq(code, CodeLines(code)[k].address + 1,
                              CodeLines(code)[k].address + Len(CodeLines(code)[k].raw))
<1>. DEFINE offsets == Sweep(code)
            n == Len(is)
            lines == CodeLines(code)
<1>1. CodeReads(is, code, offsets)
  BY CodeRoundTrip
<1>2. n \in Nat /\ Len(code) \in Nat
  OBVIOUS
<1>3. /\ Len(offsets) = n + 1 /\ offsets[1] = 0
      /\ \A k \in 1 .. n : /\ offsets[k] < offsets[k + 1] /\ offsets[k + 1] <= Len(code)
                           /\ decode_instruction(code, offsets[k]).instr = is[k]
  <2>1. /\ Len(offsets) = n + 1 /\ offsets[1] = 0
        /\ \A k \in 1 .. n : /\ offsets[k] < offsets[k + 1] /\ offsets[k + 1] <= Len(code)
                             /\ decode_instruction(code, offsets[k]) =
                                   [ok |-> TRUE, instr |-> is[k], next |-> offsets[k + 1]]
    <3>. HIDE DEF offsets
    <3>1. Len(offsets) = Len(is) + 1
      BY <1>1 DEF CodeReads
    <3>2. offsets[1] = 0
      BY <1>1 DEF CodeReads
    <3>3. \A k \in 1 .. Len(is) :
              /\ offsets[k] < offsets[k + 1] /\ offsets[k + 1] <= Len(code)
              /\ decode_instruction(code, offsets[k]) =
                    [ok |-> TRUE, instr |-> is[k], next |-> offsets[k + 1]]
      BY <1>1 DEF CodeReads
    <3>. QED  BY <3>1, <3>2, <3>3
  <2>2. ASSUME NEW k \in 1 .. n PROVE decode_instruction(code, offsets[k]).instr = is[k]
    <3>. HIDE DEF offsets, n
    <3>1. decode_instruction(code, offsets[k]) =
              [ok |-> TRUE, instr |-> is[k], next |-> offsets[k + 1]]
      BY <2>1
    <3>. QED  BY <3>1
  <2>. HIDE DEF offsets, n
  <2>. QED  BY <2>1, <2>2
<1>4. lines = [k \in 1 .. n |->
                  [address |-> offsets[k],
                   raw |-> SubSeq(code, offsets[k] + 1, offsets[k + 1]),
                   instruction |-> decode_instruction(code, offsets[k]).instr]]
  <2>1. (n + 1) - 1 = n
    BY <1>2
  <2>. HIDE DEF offsets, n
  <2>. QED  BY <1>3, <2>1 DEF CodeLines, lines, offsets
<1>5. \A k \in 1 .. (n + 1) : offsets[k] \in Nat
  BY <1>1, <1>2 DEF CodeReads
<1>. HIDE DEF offsets, n, lines
<1>6. ASSUME NEW k \in 1 .. n
      PROVE  /\ lines[k].instruction = is[k]
             /\ lines[k].address + Len(lines[k].raw) <= Len(code)
             /\ lines[k].raw = SubSeq(code, lines[k].address + 1,
                                      lines[k].address + Len(lines[k].raw))
  <2>1. /\ lines[k].address = offsets[k]
        /\ lines[k].raw = SubSeq(code, offsets[k] + 1, offsets[k + 1])
        /\ lines[k].instruction = decode_instruction(code, offsets[k]).instr
    BY <1>4
  <2>2. k \in 1 .. (n + 1) /\ k + 1 \in 1 .. (n + 1)
    BY <1>2
  <2>3. /\ offsets[k] \in Nat /\ offsets[k + 1] \in Nat
        /\ offsets[k] < offsets[k + 1] /\ offsets[k + 1] <= Len(code)
    BY <1>3, <1>5, <2>2
  <2>4. Len(SubSeq(code, offsets[k] + 1, offsets[k + 1])) = offsets[k + 1] - offsets[k]
    BY <1>2, <2>3
  <2>5. offsets[k] + (offsets[k + 1] - offsets[k]) = offsets[k + 1]
    BY <2>3
  <2>. QED  BY <1>3, <2>1, <2>3, <2>4, <2>5
<1>7. DOMAIN lines = 1 .. n
  BY <1>4
<1>. QED  BY <1>6, <1>7 DEF lines, n

\* The listing of the image of a source that compiles.
LEMMA ListingOf ==
    ASSUME NEW s \in DOMAIN Translated, Translated[s].ok, disassemble_image(Translated[s]).ok
    PROVE  ListsAnImage(disassemble_image(Translated[s]), Translated[s])
<1>. DEFINE im == Translated[s]
            is == Instructions[s]
            listing == disassemble_image(im)
            lines == CodeLines(im.code)
<1>1. im \in ProgramImage /\ is \in Seq(EncodableInstruction) /\ im.code = encode_program(is)
  BY ToolAssumption
<1>2. im.code \in Seq(Byte) /\ im.data \in Seq(Word)
  BY <1>1 DEF ProgramImage
<1>3. /\ listing.entry = im.entry_point
      /\ listing.code = lines
      /\ listing.data = [i \in DOMAIN im.data |->
                           [index |-> i - 1, hex |-> to_u32(im.data[i]), word |-> im.data[i]]]
      /\ listing.vectors = [i \in DOMAIN im.interrupt_vectors |->
                              [index |-> i - 1, address |-> im.interrupt_vectors[i]]]
  <2>1. listing # Malformed
    BY DEF Malformed
  <2>. QED  BY <2>1 DEF disassemble_image
<1>4. /\ DOMAIN lines = 1 .. Len(is)
      /\ \A k \in 1 .. Len(is) :
            /\ lines[k].instruction = is[k]
            /\ lines[k].address + Len(lines[k].raw) <= Len(im.code)
            /\ lines[k].raw = SubSeq(im.code, lines[k].address + 1,
                                     lines[k].address + Len(lines[k].raw))
  BY <1>1, <1>2, CodeLinesOf
<1>. HIDE DEF lines, listing, im, is
<1>5. encode_program([k \in DOMAIN listing.code |-> listing.code[k].instruction]) = im.code
  <2>1. [k \in DOMAIN lines |-> lines[k].instruction] = is
    BY <1>1, <1>4
  <2>. QED  BY <1>1, <1>3, <2>1
<1>6. ASSUME NEW line \in Range(listing.code)
      PROVE  /\ line.address + Len(line.raw) <= Len(im.code)
             /\ SubSeq(im.code, line.address + 1, line.address + Len(line.raw)) = line.raw
  <2>1. PICK k \in DOMAIN lines : line = lines[k]
    BY <1>3, <1>6 DEF Range
  <2>. QED  BY <1>4, <2>1
<1>7. im.data = [i \in DOMAIN listing.data |-> listing.data[i].word]
  <2>1. DOMAIN listing.data = DOMAIN im.data
        /\ \A i \in DOMAIN im.data : listing.data[i].word = im.data[i]
    BY <1>3
  <2>. QED  BY <1>2, <2>1
<1>8. ASSUME NEW line \in Range(listing.data)
      PROVE  im.data[line.index + 1] = to_i32(line.hex)
  <2>1. PICK i \in DOMAIN im.data :
            line = [index |-> i - 1, hex |-> to_u32(im.data[i]), word |-> im.data[i]]
    BY <1>3, <1>8 DEF Range
  <2>2. i \in Int /\ im.data[i] \in Word
    BY <1>2, <2>1
  <2>3. (i - 1) + 1 = i /\ to_i32(to_u32(im.data[i])) = im.data[i]
    BY <2>2, WordIsItself
  <2>. QED  BY <2>1, <2>3
<1>9. im.interrupt_vectors = [i \in DOMAIN listing.vectors |-> listing.vectors[i].address]
  <2>1. im.interrupt_vectors \in Seq(Unsigned)
    BY <1>1 DEF ProgramImage
  <2>2. DOMAIN listing.vectors = DOMAIN im.interrupt_vectors
        /\ \A i \in DOMAIN im.interrupt_vectors :
              listing.vectors[i].address = im.interrupt_vectors[i]
    BY <1>3
  <2>. QED  BY <2>1, <2>2
<1>10. ASSUME NEW line \in Range(listing.vectors)
       PROVE  im.interrupt_vectors[line.index + 1] = line.address
  <2>1. PICK i \in DOMAIN im.interrupt_vectors :
            line = [index |-> i - 1, address |-> im.interrupt_vectors[i]]
    BY <1>3, <1>10 DEF Range
  <2>2. i \in Int
    BY <1>1, <2>1 DEF ProgramImage
  <2>3. (i - 1) + 1 = i
    BY <2>2
  <2>. QED  BY <2>1, <2>3
<1>. QED  BY <1>3, <1>5, <1>6, <1>7, <1>8, <1>9, <1>10 DEF ListsAnImage, listing, im

LEMMA ListsInit == ToolInit => ListsTheTranslated
BY DEF ToolInit, ListsTheTranslated, Silence, Says

LEMMA ListsStep ==
    ToolInv /\ ListsTheTranslated /\ [ToolNext]_toolVars => ListsTheTranslated'
<1>. SUFFICES ASSUME ToolInv, ListsTheTranslated, [ToolNext]_toolVars
              PROVE  ListsTheTranslated'
  OBVIOUS
<1>1. CASE console'.kind # "listing"
  BY <1>1 DEF ListsTheTranslated
<1>2. CASE Disassemble
  <2>. DEFINE read == from_bytes(file)
              listing == disassemble_image(read)
  <2>1. /\ console' = IF read.ok /\ listing.ok THEN Says("listing", listing) ELSE Traceback
        /\ translating' = translating
    BY <1>2 DEF Disassemble
  <2>2. CASE read.ok /\ listing.ok
    <3>1. read # Malformed
      BY <2>2 DEF Malformed
    <3>2. IsComplete /\ read = Translated[translating]
      BY <3>1, ToolInvReads DEF ReadsOnlyCompleteFiles
    <3>3. IsTranslated(translating) /\ translating \in DOMAIN Translated
      <4>1. translating # NoSource /\ IsTranslated(translating)
        BY <3>2 DEF IsComplete, IsTranslated
      <4>. QED  BY <4>1, Files DEF ToolInv
    <3>4. ListsAnImage(listing, Translated[translating])
      <4>1. Translated[translating].ok
        BY <3>3 DEF IsTranslated
      <4>. QED  BY <2>2, <3>2, <3>3, <4>1, ListingOf
    <3>5. console'.content = listing
      BY <2>1, <2>2 DEF Says
    <3>. QED  BY <2>1, <3>3, <3>4, <3>5 DEF ListsTheTranslated, IsTranslated
  <2>3. CASE ~(read.ok /\ listing.ok)
    BY <1>1, <2>1, <2>3 DEF Traceback, Says
  <2>. QED  BY <2>2, <2>3
<1>3. CASE UNCHANGED toolVars
  BY <1>3 DEF toolVars, ListsTheTranslated
<1>4. CASE Translate
  BY <1>1, <1>4 DEF Translate, Silence, Traceback, Says
<1>5. CASE WriteByte
  BY <1>1, <1>5 DEF WriteByte, Silence, Says
<1>6. CASE Kill
  BY <1>1, <1>6 DEF Kill, Silence, Says
<1>7. CASE AppendByte
  BY <1>1, <1>7 DEF AppendByte, Silence, Says
<1>8. CASE Start
  BY <1>1, <1>8 DEF Start, Silence, Traceback, Says
<1>9. CASE Execute
  BY <1>1, <1>9 DEF Execute, Silence, Says
<1>10. CASE Finish
  BY <1>1, <1>10 DEF Finish, Traceback, Says
<1>. QED  BY <1>2, <1>3, <1>4, <1>5, <1>6, <1>7, <1>8, <1>9, <1>10 DEF ToolNext

\* What disasm prints is the listing of the last translation, written to its
\* end, and its lines are the instructions, the bytes, the words and the
\* vectors of that image, at their places (disasm.py:6-39, cli.py:79-84).
THEOREM ListsOnlyTheTranslated == ToolSpec => []ListsTheTranslated
<1>1. ToolInit => ToolInv /\ ListsTheTranslated
  BY ToolInvInit, ListsInit
<1>2. ToolInv /\ ListsTheTranslated /\ [ToolNext]_toolVars => ToolInv' /\ ListsTheTranslated'
  BY ToolInvStep, ListsStep
<1>. QED  BY <1>1, <1>2, PTL DEF ToolSpec
=============================================================================
