--------------------------- MODULE TrapTransparency ---------------------------
(***************************************************************************)
(* The processor beside a second one that runs the same program and has no *)
(* input.  The second takes a step whenever the first executes an          *)
(* instruction of the interrupted program, and waits while it handles an   *)
(* interrupt.  If interrupts are transparent the two agree whenever the    *)
(* first is not in the handler.                                            *)
(*                                                                         *)
(* A trap leaves words behind below the stack pointer, and a handler may   *)
(* leave more.  The history variables follow which words these are until   *)
(* the program writes them; they have no effect on either processor.       *)
(***************************************************************************)
EXTENDS Machine

VARIABLES
    shadow,     \* the attributes of the undisturbed Machine
    entered,    \* the attributes of the first one when the last trap was taken
    stale       \* words an interrupt has changed and the program not written since

trapVars == <<image, cpu, shadow, entered, stale>>

Undisturbed == INSTANCE Machine WITH cpu <- shadow

TrapInit ==
    /\ Init
    /\ shadow = NewMachine(image, <<>>)
    /\ entered = cpu
    /\ stale = {}

\* The step runs an instruction of the program, not of the handler.
InProgram == ~Polled.in_interrupt_handler

\* The words that a trap has pushed, in the state that it leaves.
SavedWords(s) == {Sp(s), Sp(s) + WORD_BYTES}

\* The addresses of the data bus that the instruction at PC reads and writes.
AddressOf(s, op) == IF op.kind = "IMM" \/ InRegister(op) THEN {} ELSE {ResolveAddress(s, op)}

Reads ==
    LET opcode == Decoded.instr.opcode IN
    CASE opcode \in {"MOVE", "PUSH", "NEG", "NOT"} -> AddressOf(Fetched, Ops[1])
      [] opcode \in AluOps -> AddressOf(Fetched, Ops[1]) \cup AddressOf(Fetched, Ops[2])
      [] opcode \in JumpOps \cup {"CALL"} ->
            IF Ops[1].kind = "IND_A_DISP" THEN AddressOf(Fetched, Ops[1]) ELSE {}
      [] opcode \in {"POP", "RET"} -> {Sp(Fetched)}
      [] opcode = "IRET" -> SavedWords(Fetched)
      [] OTHER -> {}

Writes ==
    LET opcode == Decoded.instr.opcode IN
    CASE opcode \in {"PUSH", "CALL"} -> {Sp(Fetched) - WORD_BYTES}
      [] opcode = "POP" -> AddressOf(AfterPop(Fetched), Ops[1])
      [] opcode \in {"NEG", "NOT"} -> AddressOf(Fetched, Ops[1])
      [] opcode \in {"MOVE"} \cup (AluOps \ {"CMP"}) -> AddressOf(Fetched, Ops[2])
      [] OTHER -> {}

ProgramStep ==
    /\ InProgram
    /\ Next
    /\ Undisturbed!Next
    /\ stale' = IF cpu'.raised = "none" THEN stale \ Writes ELSE stale
    /\ UNCHANGED entered

\* A step of the handler, which the trap may precede.
HandlerStep ==
    /\ ~InProgram
    /\ Next
    /\ entered' = IF cpu.in_interrupt_handler THEN entered ELSE Polled
    /\ stale' = stale \cup {a \in DataAddress : cpu'.data_memory[a] # cpu.data_memory[a]}
    /\ UNCHANGED shadow

TrapNext == ProgramStep \/ HandlerStep

TrapSpec == TrapInit /\ [][TrapNext]_trapVars

-----------------------------------------------------------------------------
(* What the code that shares the processor has to keep to.                 *)

\* A handler that executes IRET has restored the registers and the two words
\* the trap has pushed: "Restores the context on IRET" (README.md:382) is for
\* PC and the flags alone (machine.py:304-317,508).
HandlerRestores ==
    Fetches /\ ~InProgram /\ Decoded.instr.opcode = "IRET" =>
        LET saved == IF cpu.in_interrupt_handler THEN entered ELSE Polled IN
        /\ Polled.d_regs = saved.d_regs
        /\ Polled.a_regs = saved.a_regs
        /\ \A a \in SavedWords(saved) :
              a \in DataAddress /\ Polled.data_memory[a] = saved.data_memory[a]

\* The program does not read what an interrupt has left in memory, nor the
\* input port, and its PC fits into a word.
ProgramKeepsOut ==
    Running /\ ~cpu.in_interrupt_handler =>
        /\ cpu.pc \in Word
        /\ Fetches /\ InProgram /\ Len(Ops) >= Arity(Decoded.instr.opcode) =>
              \A a \in Reads : a \notin stale /\ to_u32(a) \notin {IO_INPUT_DATA, IO_INPUT_STATUS}

-----------------------------------------------------------------------------
\* The main thread goes on correctly after an interrupt (docs/ways.md): at
\* whichever instruction boundary the events came, outside the handler PC,
\* flags, every register and the memory, but for the words that an interrupt
\* has changed and the program has not written since, are those of the run that
\* was never interrupted, which is not behind.
TrapsAreTransparent ==
    ~cpu.in_interrupt_handler =>
        /\ cpu.pc = shadow.pc
        /\ cpu.flags = shadow.flags
        /\ cpu.d_regs = shadow.d_regs
        /\ cpu.a_regs = shadow.a_regs
        /\ cpu.halted = shadow.halted
        /\ cpu.raised = shadow.raised
        /\ cpu.tick_counter >= shadow.tick_counter
        /\ \A a \in DataAddress \ stale : cpu.data_memory[a] = shadow.data_memory[a]
=============================================================================
