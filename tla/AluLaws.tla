------------------------------- MODULE AluLaws -------------------------------
(***************************************************************************)
(* What the arithmetic of Alu promises to a program.  Straight-line code   *)
(* works on two registers: each step executes one arithmetic or logical    *)
(* instruction whose result replaces dest.  The laws are stated of the     *)
(* operands at hand, and of the flags the operations leave on them.        *)
(***************************************************************************)
EXTENDS Alu

VARIABLES
    dest,       \* the destination register
    src,        \* the source register
    flags

aluVars == <<dest, src, flags>>

AluInit ==
    /\ dest \in Word
    /\ src \in Word
    /\ flags = NzFlags(1)

TwoOperands(opcode) ==
    /\ ~DividesByZero(opcode, src)
    /\ dest' = IF StoresResult(opcode) THEN AluResult(opcode, dest, src) ELSE dest
    /\ flags' = AluFlags(opcode, dest, src)
    /\ UNCHANGED src

Negate == dest' = NegResult(dest) /\ flags' = NegFlags(dest) /\ UNCHANGED src

Complement == dest' = NotResult(dest) /\ flags' = NzFlags(dest') /\ UNCHANGED src

AluNext == (\E opcode \in AluOps : TwoOperands(opcode)) \/ Negate \/ Complement

AluSpec == AluInit /\ [][AluNext]_aluVars

-----------------------------------------------------------------------------
\* Both registers hold words and the flags are four booleans.
AluTypeOK == dest \in Word /\ src \in Word /\ flags \in Flags

\* A conditional jump after CMP decides the signed order of the operands,
\* overflow of the subtraction included (machine.py:243-275,404-411).
CompareDecides ==
    LET f == AluFlags("CMP", dest, src) IN
    /\ Taken("JE", f) <=> dest = src
    /\ Taken("JNE", f) <=> dest # src
    /\ Taken("JL", f) <=> dest < src
    /\ Taken("JLE", f) <=> dest <= src
    /\ Taken("JG", f) <=> dest > src
    /\ Taken("JGE", f) <=> dest >= src

\* V says that the true sum or difference is not a signed word, C that it is
\* not an unsigned one (machine.py:394-411).
OverflowFlags ==
    LET sum == AddFlags(dest, src)
        difference == SubFlags(dest, src)
    IN /\ sum.v <=> dest + src \notin Word
       /\ sum.c <=> to_u32(dest) + to_u32(src) \notin Unsigned
       /\ difference.v <=> dest - src \notin Word
       /\ difference.c <=> to_u32(dest) - to_u32(src) \notin Unsigned

\* DIV and MOD: the quotient and the remainder add up to the dividend; the
\* remainder is smaller than the divisor and has the sign of the dividend.
\* MIN / -1 wraps to MIN, with remainder 0 (machine.py:418-432).  The quotient
\* is rounded toward zero, and so by the code alone: see DividesByFloor.
DivisionLaw ==
    src # 0 =>
        LET q == AluResult("DIV", dest, src)
            r == AluResult("MOD", dest, src)
        IN /\ to_i32(q * src + r) = dest
           /\ Magnitude(r) < Magnitude(src)
           /\ r = 0 \/ (r < 0 <=> dest < 0)
           /\ Magnitude(q * src) <= Magnitude(dest)

\* DIV as README.md:300 defines it, the quotient rounded down.  The code does
\* so only where the quotient is whole or not negative (machine.py:422).
Floor(x, y) == IF y > 0 THEN x \div y ELSE (-x) \div (-y)
DividesByFloor == src # 0 => AluResult("DIV", dest, src) = to_i32(Floor(dest, src))

\* NEG is a subtraction from zero, flags included (machine.py:223-232).
NegIsSubtraction ==
    /\ NegResult(dest) = AluResult("SUB", 0, dest)
    /\ NegFlags(dest) = AluFlags("SUB", 0, dest)

\* The bitwise operations against arithmetic: x | y and x & y add up to
\* x + y, x ^ y is their difference, ~x is -x - 1 (machine.py:434-447,234-240).
BitwiseLaws ==
    LET conjunction == AluResult("AND", dest, src)
        disjunction == AluResult("OR", dest, src)
    IN /\ to_i32(disjunction + conjunction) = AluResult("ADD", dest, src)
       /\ AluResult("XOR", dest, src) = AluResult("SUB", disjunction, conjunction)
       /\ NotResult(dest) = AluResult("XOR", dest, -1)
       /\ NotResult(conjunction) = AluResult("OR", NotResult(dest), NotResult(src))

\* SHL multiplies by a power of two, SHR divides the unsigned word by one and
\* so shifts in zeros (machine.py:449-459).
ShiftLaws ==
    LET weight == 2^(src % WORD_BITS) IN
    /\ AluResult("SHL", dest, src) = to_i32(dest * weight)
    /\ AluResult("SHR", dest, src) = to_i32(to_u32(dest) \div weight)
=============================================================================
