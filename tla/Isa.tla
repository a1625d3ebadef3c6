--------------------------------- MODULE Isa ---------------------------------
(***************************************************************************)
(* The vocabulary of the processor: machine words, the data address space, *)
(* the register file and the instruction set (src/lab4/isa.py).            *)
(*                                                                         *)
(* The word width is a parameter.  The program uses 32-bit words and 4096  *)
(* of them; TLC works with a narrower word and a smaller memory, and the   *)
(* proofs hold for every width.  A word always occupies WORD_BYTES bytes.  *)
(***************************************************************************)
EXTENDS Integers, FiniteSets, FiniteSetsExt

CONSTANTS
    WORD_BITS,              \* number of bits of a machine word
    SIGN_BIT,               \* weight of its sign bit
    DATA_MEMORY_SIZE_WORDS, \* size of the data memory
    IO_INPUT_DATA           \* first of the four memory-mapped ports

WORD_BYTES == 4
U32_MAX == 2 * SIGN_BIT - 1

\* The ports are consecutive words of the address space.
IO_INPUT_STATUS == IO_INPUT_DATA + 4
IO_OUTPUT_DATA == IO_INPUT_DATA + 8
IO_OUTPUT_STATUS == IO_INPUT_DATA + 12

\* Size of the data memory in bytes; the initial stack pointer.
DataMemorySize == DATA_MEMORY_SIZE_WORDS * WORD_BYTES

\* The byte addresses at which a word of the data memory starts.
DataAddress == {a \in 0 .. (DataMemorySize - 1) : a % WORD_BYTES = 0}

Word == (-SIGN_BIT) .. (SIGN_BIT - 1)
Unsigned == 0 .. U32_MAX

REGISTERS == 0 .. 7         \* REGISTER_COUNT = 8
STACK_POINTER == 7
FRAME_POINTER == 6

\* The word is two's complement, the memory and the addresses just past it
\* are positive words, and the ports lie in the negative half of the signed
\* address space, "deliberately placed outside normal RAM", and below -4.
IsaAssumption ==
    /\ WORD_BITS \in Nat \ {0}
    /\ SIGN_BIT \in Nat \ {0}
    /\ DATA_MEMORY_SIZE_WORDS \in Nat \ {0}
    /\ DataMemorySize + WORD_BYTES <= SIGN_BIT
    /\ IO_INPUT_DATA \in Nat
    /\ IO_INPUT_DATA >= SIGN_BIT
    /\ IO_OUTPUT_STATUS + WORD_BYTES < 2 * SIGN_BIT

ASSUME IsaAssumption

-----------------------------------------------------------------------------
(* Conversions to a word.                                                  *)

to_u32(v) == v % (2 * SIGN_BIT)

\* Variant: the least word is left unsigned.
to_i32_off_by_one(v) ==
    LET u == to_u32(v) IN IF u > SIGN_BIT THEN u - 2 * SIGN_BIT ELSE u
to_i32(v) == LET u == to_u32(v) IN IF u >= SIGN_BIT THEN u - 2 * SIGN_BIT ELSE u

\* A word seen as the set of the positions of its one bits, and back.
BitPositions == 0 .. (WORD_BITS - 1)
Bits(v) == {i \in BitPositions : (to_u32(v) \div 2^i) % 2 = 1}
FromBits(B) == MapThenSumSet(LAMBDA i : 2^i, B)

\* The sign bit is the highest; the weights double from one to the next.
BitsAssumption ==
    /\ SIGN_BIT = 2^(WORD_BITS - 1)
    /\ 2^0 = 1
    /\ \A i \in BitPositions : 2^(i + 1) = 2 * 2^i

ASSUME BitsAssumption

-----------------------------------------------------------------------------
(* Operands and instructions.                                              *)

OperandKind == {"IMM", "DREG", "AREG", "ABS", "IND_A", "IND_A_DISP"}

imm(value) == [kind |-> "IMM", value |-> value, offset |-> 0]
dreg(index) == [kind |-> "DREG", value |-> index, offset |-> 0]
areg(index) == [kind |-> "AREG", value |-> index, offset |-> 0]
abs(address) == [kind |-> "ABS", value |-> address, offset |-> 0]
ind_areg(index) == [kind |-> "IND_A", value |-> index, offset |-> 0]
ind_areg_disp(index, offset) ==
    [kind |-> "IND_A_DISP", value |-> index, offset |-> offset]

\* What decoding can produce: immediates and displacements are signed words,
\* absolute addresses unsigned ones, register numbers are checked.
Operand ==
    [kind : {"IMM"}, value : Word, offset : {0}]
        \cup [kind : {"DREG", "AREG", "IND_A"}, value : REGISTERS, offset : {0}]
        \cup [kind : {"ABS"}, value : Unsigned, offset : {0}]
        \cup [kind : {"IND_A_DISP"}, value : REGISTERS, offset : Word]

AluOps == {"ADD", "SUB", "MUL", "DIV", "MOD", "CMP",
           "AND", "OR", "XOR", "SHL", "SHR"}
JumpOps == {"JMP", "JE", "JNE", "JL", "JLE", "JG", "JGE"}
OpCode == {"NOP", "HALT", "MOVE", "LEA", "PUSH", "POP", "NEG", "NOT",
           "CALL", "RET", "IRET", "EI", "DI"} \cup AluOps \cup JumpOps

\* An instruction is an opcode and a sequence of operands.
Instruction(opcode, operands) == [opcode |-> opcode, operands |-> operands]

\* How many operands the execution of an opcode reads.
Arity(opcode) ==
    CASE opcode \in {"MOVE", "LEA"} \cup AluOps -> 2
      [] opcode \in {"PUSH", "POP", "NEG", "NOT", "CALL"} \cup JumpOps -> 1
      [] OTHER -> 0
=============================================================================
