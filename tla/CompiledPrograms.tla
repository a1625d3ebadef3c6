--------------------------- MODULE CompiledPrograms ---------------------------
(***************************************************************************)
(* The processor running compiled alg programs, beside what they mean.     *)
(* A session is the programs that one Compiler object is given in turn;    *)
(* it may refuse some of them, and the last is the one to run.  calls and  *)
(* heights are history variables, the machine at each call that has not     *)
(* returned and the height of the frame at each instruction executed so    *)
(* far; neither they nor session have an effect on the processor.          *)
(***************************************************************************)
EXTENDS Machine, Compiler, AlgSemantics

CONSTANTS
    Sessions,       \* sequences of programs, as syntax trees
    Prepared(_)     \* each session's last program: PreparedAt, as a constant

VARIABLES session, calls, heights

compiledVars == <<image, cpu, session, calls, heights>>

\* The bytes of the system library, the last part of every program.
LibrarySize ==
    LET elements == Assemble(PrintString \o PrintInt).elements
    IN ElementOffset(elements, 0)[Len(elements) + 1]

\* Each session's last program, compiled and interpreted once: its image,
\* where the code of the library begins, and what it means.
PreparedOf ==
    LET Prepare(s) ==
            LET built == CompileWith(FoldLeft(Generate, NewCompiler, Front(s)), Last(s))
            IN IF ~built.ok THEN Malformed
               ELSE [ok |-> TRUE, image |-> Loaded(built), meaning |-> Meaning(Last(s)),
                     library |-> Len(built.code) - LibrarySize]
    IN [s \in Sessions |-> Prepare(s)]
PreparedAt(s) == LET prepared == PreparedOf IN prepared[s]
CompiledImages ==
    LET prepared == PreparedOf
    IN {p.image : p \in {q \in {prepared[s] : s \in Sessions} : q.ok}}

CompiledInit ==
    /\ Init
    /\ session \in Sessions
    /\ Prepared(session).ok
    /\ image = Prepared(session).image
    /\ calls = <<>>
    /\ heights = <<>>

\* A6 points to the frame of the last call, below its return address and the
\* caller's A6.  The library is left out: it pushes digits in a loop.
InFrame ==
    /\ calls # <<>>
    /\ cpu.a_regs[FRAME_POINTER] = Sp(Last(calls)) - 2 * WORD_BYTES
    /\ cpu.pc < Prepared(session).library
Height == cpu.a_regs[FRAME_POINTER] - Sp(cpu)

CompiledNext ==
    /\ Next
    /\ calls' = CASE CallStep -> Append(calls, Fetched)
                  [] RetStep -> IF calls = <<>> THEN calls ELSE Front(calls)
                  [] OTHER -> calls
    /\ heights' = IF InFrame /\ cpu.pc \notin DOMAIN heights
                    THEN Update(heights, cpu.pc, Height) ELSE heights
    /\ UNCHANGED session

CompiledSpec == CompiledInit /\ [][CompiledNext]_compiledVars

-----------------------------------------------------------------------------

\* The generated code does what the program means (README.md:197, the
\* semantics of the language): its output is at each moment a beginning of
\* the program's, and when it ends, which the budget is ample for, the output
\* is complete, D0 has the value of main and the stack is empty; or it has
\* divided by zero where the program does.  So it is with a compiler that has
\* refused other programs before, whatever they left behind in it
\* (compiler.py:55).
ComputesTheMeaning ==
    LET meaning == Prepared(session).meaning IN
    /\ IsPrefix(cpu.output_buffer, meaning.out)
    /\ ~Running =>
          /\ cpu.output_buffer = meaning.out
          /\ IF meaning.failed THEN cpu.raised = "ZeroDivisionError"
             ELSE /\ cpu.halted /\ cpu.raised = "none"
                  /\ cpu.d_regs[0] = meaning.value
                  /\ Sp(cpu) = DataMemorySize

\* The code of a function comes to an instruction with as much on the stack as
\* the first time, in whatever call and turn of a loop: no operand or argument
\* is left over or missing on any path (compiler.py:161-177, :232-355).
BalancedStack == InFrame /\ cpu.pc \in DOMAIN heights => Height = heights[cpu.pc]

\* What a RET has to find and leave: the call it returns to, with that call's
\* A6 and A7, and every word from the caller's A7 upwards as it was.
ReturnIsRight ==
    LET call == Last(calls)
        Kept == {a \in DataAddress : a >= Sp(call)}
    IN  /\ calls # <<>>
        /\ cpu'.pc = call.pc
        /\ cpu'.a_regs[STACK_POINTER] = Sp(call)
        /\ cpu'.a_regs[FRAME_POINTER] = call.a_regs[FRAME_POINTER]
        /\ \A a \in Kept : cpu'.data_memory[a] = call.data_memory[a]

\* A function returns to the call it was entered by, with A6 and A7 as they
\* were, and has changed no word from the caller's A7 upwards: neither the
\* caller's pending operands nor a frame of the calls below
\* (README.md:68, frames isolate the contexts of recursive calls;
\* README.md:223, the epilogue).  Programs that assign to a parameter
\* change that word, and are not among the sources.
ReturnsToItsCall == [][RetStep => ReturnIsRight]_compiledVars
=============================================================================
