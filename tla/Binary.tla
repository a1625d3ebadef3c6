-------------------------------- MODULE Binary --------------------------------
(***************************************************************************)
(* The byte encoding of instructions and of program images                 *)
(* (src/lab4/binary.py).  Code is a sequence of bytes; offsets into it     *)
(* count from 0 as they do in the program.  A four-byte field holds a word *)
(* in its low bytes, little end first.                                     *)
(***************************************************************************)
EXTENDS Isa, Sequences, SequencesExt

Byte == 0 .. 255

\* A word fits into the four bytes of a field (WORD_BITS = 32).
ASSUME FieldAssumption == SIGN_BIT - 1 <= 2147483647

OpCodeNumber ==
    [NOP |-> 0, HALT |-> 1,
     MOVE |-> 16, LEA |-> 17, PUSH |-> 18, POP |-> 19,
     ADD |-> 32, SUB |-> 33, MUL |-> 34, DIV |-> 35, MOD |-> 36, CMP |-> 37, NEG |-> 38,
     AND |-> 48, OR |-> 49, XOR |-> 50, NOT |-> 51, SHL |-> 52, SHR |-> 53,
     JMP |-> 64, JE |-> 65, JNE |-> 66, JL |-> 67, JLE |-> 68, JG |-> 69, JGE |-> 70,
     CALL |-> 71, RET |-> 72, IRET |-> 73,
     EI |-> 80, DI |-> 81]

KindNumber == [IMM |-> 1, DREG |-> 2, AREG |-> 3, ABS |-> 4, IND_A |-> 5, IND_A_DISP |-> 6]

\* The member of an enumeration with a given number.
Named(numbers, n) == CHOOSE name \in DOMAIN numbers : numbers[name] = n
IsNumbered(numbers, n) == \E name \in DOMAIN numbers : numbers[name] = n

-----------------------------------------------------------------------------
(* Encoding.                                                               *)

PackWord(v) ==
    LET u == to_u32(v)
    IN <<u % 256, (u \div 256) % 256, (u \div 65536) % 256, (u \div 16777216) % 256>>

encode_operand(op) ==
    <<KindNumber[op.kind]>> \o
        CASE op.kind \in {"IMM", "ABS"} -> PackWord(op.value)
          [] op.kind \in {"DREG", "AREG", "IND_A"} -> <<op.value>>
          [] op.kind = "IND_A_DISP" -> <<op.value>> \o PackWord(op.offset)

encode_instruction(i) ==
    <<OpCodeNumber[i.opcode], Len(i.operands)>> \o
        FlattenSeq([k \in DOMAIN i.operands |-> encode_operand(i.operands[k])])

\* An instruction whose operands a byte can count.
EncodableInstruction ==
    {i \in [opcode : OpCode, operands : Seq(Operand)] : Len(i.operands) <= 255}

encode_program(instructions) ==
    FlattenSeq([k \in DOMAIN instructions |-> encode_instruction(instructions[k])])

-----------------------------------------------------------------------------
(* Decoding.  A decoder that raises ValueError returns Malformed.          *)

Malformed == [ok |-> FALSE]

HasBytes(raw, offset, size) == offset >= 0 /\ offset + size <= Len(raw)
ByteAt(raw, offset) == raw[offset + 1]

\* The word in a four-byte field, reduced at each byte to the width of a word.
WordAt(raw, offset) ==
    LET Above(low, high) == to_u32(low + 256 * high)
    IN Above(ByteAt(raw, offset),
             Above(ByteAt(raw, offset + 1),
                   Above(ByteAt(raw, offset + 2), to_u32(ByteAt(raw, offset + 3)))))

\* Bytes of an operand after the byte of its kind.
PayloadSize(kind) ==
    CASE kind \in {"IMM", "ABS"} -> 4
      [] kind \in {"DREG", "AREG", "IND_A"} -> 1
      [] kind = "IND_A_DISP" -> 5

OperandAt(raw, offset, kind) ==
    CASE kind = "IMM" -> imm(to_i32(WordAt(raw, offset)))
      [] kind = "ABS" -> abs(WordAt(raw, offset))
      [] kind = "DREG" -> dreg(ByteAt(raw, offset))
      [] kind = "AREG" -> areg(ByteAt(raw, offset))
      [] kind = "IND_A" -> ind_areg(ByteAt(raw, offset))
      [] kind = "IND_A_DISP" ->
            ind_areg_disp(ByteAt(raw, offset), to_i32(WordAt(raw, offset + 1)))

NamesRegister(kind) == kind \notin {"IMM", "ABS"}

decode_operand(raw, offset) ==
    IF ~HasBytes(raw, offset, 1) \/ ~IsNumbered(KindNumber, ByteAt(raw, offset))
      THEN Malformed
    ELSE LET kind == Named(KindNumber, ByteAt(raw, offset))
             cursor == offset + 1
         IN IF \/ ~HasBytes(raw, cursor, PayloadSize(kind))
               \/ NamesRegister(kind) /\ ByteAt(raw, cursor) \notin REGISTERS
              THEN Malformed
              ELSE [ok |-> TRUE, operand |-> OperandAt(raw, cursor, kind),
                    next |-> cursor + PayloadSize(kind)]

\* One round of the loop over an instruction's operands: the operand at the
\* cursor, and what the rounds after it, a function of the cursor, make of the
\* bytes that follow.  An error ends the loop.
NextOperand(raw, cursor, rest) ==
    LET d == decode_operand(raw, cursor)
        r == rest[d.next]
    IN IF ~d.ok \/ ~r.ok THEN Malformed
       ELSE [ok |-> TRUE, operands |-> <<d.operand>> \o r.operands, next |-> r.next]

decode_instruction(raw, offset) ==
    IF ~HasBytes(raw, offset, 2) \/ ~IsNumbered(OpCodeNumber, ByteAt(raw, offset))
      THEN Malformed
    ELSE LET count == ByteAt(raw, offset + 1)
             \* the last n rounds
             rounds[n \in 0 .. count] ==
                 [cursor \in Nat |->
                    IF n = 0 THEN [ok |-> TRUE, operands |-> <<>>, next |-> cursor]
                    ELSE NextOperand(raw, cursor, rounds[n - 1])]
             read == rounds[count][offset + 2]
         IN IF ~read.ok THEN Malformed
            ELSE [ok |-> TRUE,
                  instr |-> Instruction(Named(OpCodeNumber, ByteAt(raw, offset)), read.operands),
                  next |-> read.next]

\* What a processor finds at each offset of the code, instruction boundary or not.
DecodedCode(raw) ==
    [offset \in {o \in 0 .. (Len(raw) - 1) : decode_instruction(raw, o).ok} |->
        LET d == decode_instruction(raw, offset) IN [instr |-> d.instr, next |-> d.next]]

\* A linear sweep decodes the next instruction, unless the code or it has ended.
Visit(raw, visited) ==
    LET d == decode_instruction(raw, Last(visited))
    IN IF Last(visited) >= Len(raw) \/ ~d.ok THEN visited ELSE Append(visited, d.next)

\* decode_program: the offsets the sweep visits, up to the first error.
Sweep(raw) ==
    LET sweep[k \in 0 .. Len(raw)] == IF k = 0 THEN <<0>> ELSE Visit(raw, sweep[k - 1])
    IN sweep[Len(raw)]

-----------------------------------------------------------------------------
(* The file of an image: a header, the code, the data and the vectors.     *)

MAGIC == <<76, 52, 72, 66>>             \* L4HB
VERSION == 1
HeaderSize == 24

\* ProgramImage, with a code and as many words and vectors as a header can
\* count.
ProgramImage ==
    {im \in [ok : {TRUE}, entry_point : Unsigned, code : Seq(Byte), data : Seq(Word),
             interrupt_vectors : Seq(Unsigned)] :
        {Len(im.code), Len(im.data), Len(im.interrupt_vectors)} \subseteq Unsigned}

to_bytes(im) ==
    MAGIC \o <<VERSION, 0, 0, 0>>
        \o PackWord(im.entry_point) \o PackWord(Len(im.code))
        \o PackWord(Len(im.data)) \o PackWord(Len(im.interrupt_vectors))
        \o im.code
        \o FlattenSeq([i \in DOMAIN im.data |-> PackWord(im.data[i])])
        \o FlattenSeq([i \in DOMAIN im.interrupt_vectors |-> PackWord(im.interrupt_vectors[i])])

\* The offsets at which the sections of a file end, by its header.
CodeEnd(raw) == HeaderSize + WordAt(raw, 12)
DataEnd(raw) == CodeEnd(raw) + WordAt(raw, 16) * WORD_BYTES
FileEnd(raw) == DataEnd(raw) + WordAt(raw, 20) * WORD_BYTES

HasHeader(raw) ==
    /\ Len(raw) >= HeaderSize
    /\ SubSeq(raw, 1, 4) = MAGIC
    /\ ByteAt(raw, 4) = VERSION

\* An image of a file whose header is accepted.
ImageAt(raw) ==
    [ok |-> TRUE,
     entry_point |-> WordAt(raw, 8),
     code |-> SubSeq(raw, HeaderSize + 1, CodeEnd(raw)),
     data |-> [i \in 1 .. WordAt(raw, 16) |-> to_i32(WordAt(raw, CodeEnd(raw) + (i - 1) * 4))],
     interrupt_vectors |-> [i \in 1 .. WordAt(raw, 20) |-> WordAt(raw, DataEnd(raw) + (i - 1) * 4)]]

\* Variant: bytes after the last section are ignored.
from_bytes_prefix(raw) ==
    IF ~HasHeader(raw) THEN Malformed
    ELSE IF Len(raw) < FileEnd(raw) THEN Malformed
    ELSE ImageAt(raw)
from_bytes(raw) ==
    IF ~HasHeader(raw) THEN Malformed
    ELSE IF Len(raw) # FileEnd(raw) THEN Malformed
    ELSE ImageAt(raw)
=============================================================================
