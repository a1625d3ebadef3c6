--------------------------------- MODULE Alu ---------------------------------
(***************************************************************************)
(* The arithmetic of Machine: the result of each operation and the flags N *)
(* (negative), Z (zero), V (signed overflow) and C (carry or borrow) it    *)
(* leaves, as functions of the two values read (src/lab4/machine.py).      *)
(***************************************************************************)
EXTENDS Isa

Flags == [n : BOOLEAN, z : BOOLEAN, v : BOOLEAN, c : BOOLEAN]

\* _update_nz_flags: V and C are cleared.
NzFlags(value) == [n |-> value < 0, z |-> value = 0, v |-> FALSE, c |-> FALSE]

\* Variant: the carry is raised one unit too early.
AddFlagsEarlyCarry(dest, src) ==
    LET result == to_i32(dest + src) IN
    [n |-> result < 0,
     z |-> result = 0,
     v |-> (dest < 0 <=> src < 0) /\ ~(result < 0 <=> dest < 0),
     c |-> to_u32(dest) + to_u32(src) >= U32_MAX]
AddFlags(dest, src) ==
    LET result == to_i32(dest + src) IN
    [n |-> result < 0,
     z |-> result = 0,
     v |-> (dest < 0 <=> src < 0) /\ ~(result < 0 <=> dest < 0),
     c |-> to_u32(dest) + to_u32(src) > U32_MAX]

SubFlags(dest, src) ==
    LET result == to_i32(dest - src) IN
    [n |-> result < 0,
     z |-> result = 0,
     v |-> ~(dest < 0 <=> src < 0) /\ ~(result < 0 <=> dest < 0),
     c |-> to_u32(dest) < to_u32(src)]

NegResult(val) == to_i32(0 - val)
\* Variant: no overflow, as after a MOVE.
NegFlagsNoOverflow(val) ==
    [n |-> NegResult(val) < 0, z |-> NegResult(val) = 0, v |-> FALSE, c |-> val # 0]
NegFlags(val) ==
    [n |-> NegResult(val) < 0, z |-> NegResult(val) = 0, v |-> val = -SIGN_BIT, c |-> val # 0]

\* Variant: the two's complement instead of the one's.
NotResultNegates(val) == to_i32(-val)
NotResult(val) == to_i32(-val - 1)      \* ~val

\* int(dest / src): the quotient rounded toward zero.
Magnitude(x) == IF x < 0 THEN -x ELSE x
\* Variant: the words are divided as unsigned ones.
QuotientUnsigned(dest, src) == to_u32(dest) \div to_u32(src)
Quotient(dest, src) ==
    LET q == Magnitude(dest) \div Magnitude(src)
    IN IF dest < 0 <=> src < 0 THEN q ELSE -q

\* A shift count is taken modulo the width of the word.
ShiftCount(src) == src % WORD_BITS
ShiftLeft(dest, src) ==
    to_i32(FromBits({i \in BitPositions : i - ShiftCount(src) \in Bits(dest)}))
\* Variant: the sign bit is shifted in, as Python's >> does on a negative number.
ShiftRightArithmetic(dest, src) ==
    LET top == WORD_BITS - 1 IN
    to_i32(FromBits({i \in BitPositions :
                        (IF i + ShiftCount(src) > top THEN top ELSE i + ShiftCount(src))
                            \in Bits(dest)}))
ShiftRight(dest, src) ==
    to_i32(FromBits({i \in BitPositions : i + ShiftCount(src) \in Bits(dest)}))

AluResult(opcode, dest, src) ==
    CASE opcode = "ADD" -> to_i32(dest + src)
      [] opcode \in {"SUB", "CMP"} -> to_i32(dest - src)
      [] opcode = "MUL" -> to_i32(dest * src)
      [] opcode = "DIV" -> to_i32(Quotient(dest, src))
      [] opcode = "MOD" -> to_i32(dest - src * Quotient(dest, src))
      [] opcode = "AND" -> to_i32(FromBits(Bits(dest) \cap Bits(src)))
      [] opcode = "OR"  -> to_i32(FromBits(Bits(dest) \cup Bits(src)))
      [] opcode = "XOR" -> to_i32(FromBits((Bits(dest) \cup Bits(src))
                                            \ (Bits(dest) \cap Bits(src))))
      [] opcode = "SHL" -> ShiftLeft(dest, src)
      [] opcode = "SHR" -> ShiftRight(dest, src)

AluFlags(opcode, dest, src) ==
    CASE opcode = "ADD" -> AddFlags(dest, src)
      [] opcode \in {"SUB", "CMP"} -> SubFlags(dest, src)
      [] OTHER -> NzFlags(AluResult(opcode, dest, src))

\* DIV and MOD raise ZeroDivisionError before they touch anything.
DividesByZero(opcode, src) == opcode \in {"DIV", "MOD"} /\ src = 0

\* CMP is a SUB that keeps its result to itself.
StoresResult(opcode) == opcode # "CMP"

-----------------------------------------------------------------------------
(* Conditional jumps.                                                      *)

\* Variant: JL and JLE look at the sign of the difference alone.
TakenBySign(opcode, f) ==
    CASE opcode = "JMP" -> TRUE
      [] opcode = "JE"  -> f.z
      [] opcode = "JNE" -> ~f.z
      [] opcode = "JL"  -> f.n
      [] opcode = "JLE" -> f.z \/ f.n
      [] opcode = "JG"  -> ~f.z /\ (f.n <=> f.v)
      [] opcode = "JGE" -> (f.n <=> f.v)
Taken(opcode, f) ==
    CASE opcode = "JMP" -> TRUE
      [] opcode = "JE"  -> f.z
      [] opcode = "JNE" -> ~f.z
      [] opcode = "JL"  -> ~(f.n <=> f.v)
      [] opcode = "JLE" -> f.z \/ ~(f.n <=> f.v)
      [] opcode = "JG"  -> ~f.z /\ (f.n <=> f.v)
      [] opcode = "JGE" -> (f.n <=> f.v)

-----------------------------------------------------------------------------
(* The register of flags as a word: what a trap pushes and IRET pops.      *)

FlagsWord(f) == (IF f.n THEN 1 ELSE 0) + (IF f.z THEN 2 ELSE 0)
              + (IF f.v THEN 4 ELSE 0) + (IF f.c THEN 8 ELSE 0)

FlagsOf(word) == [n |-> word % 2 = 1,
                  z |-> (word \div 2) % 2 = 1,
                  v |-> (word \div 4) % 2 = 1,
                  c |-> (word \div 8) % 2 = 1]
=============================================================================
