------------------------------- MODULE Machine -------------------------------
(***************************************************************************)
(* The processor simulator: class Machine of src/lab4/machine.py, driven   *)
(* by Machine.run.                                                         *)
(*                                                                         *)
(* cpu is the record of the attributes of a Machine object.  An attempt to *)
(* execute an instruction may raise a Python exception half way; the field *)
(* raised then names it and the effects that preceded it stay.  Every      *)
(* operator below that can raise leaves a state in which an exception is   *)
(* pending as it is, so that a sequence of them composes like statements.  *)
(*                                                                         *)
(* One step of the specification is one call of Machine.step: the          *)
(* interrupt check, then the fetch, then the whole instruction.            *)
(***************************************************************************)
EXTENDS Alu, Sequences

CONSTANTS
    Images,     \* the program images under consideration
    Schedules,  \* the input schedules: sequences of [tick, char] in file order
    Limit       \* the tick budget given to run()

VARIABLES
    image,      \* the ProgramImage being executed, its code already decoded
    cpu         \* the attributes of the Machine

vars == <<image, cpu>>

\* Characters are the code points a word can hold.
Char == 0 .. (SIGN_BIT - 1)
Schedule == Seq([tick : Nat, char : Char])

\* An image's code maps each offset at which decode_instruction succeeds to
\* the instruction found there and the offset that follows it.
Exceptions == {"none", "ValueError", "ZeroDivisionError", "IndexError"}
ProgramCounter == (-SIGN_BIT) .. U32_MAX

IsImage(im) ==
    /\ im.entry_point \in Unsigned
    /\ \A pc \in DOMAIN im.code :
          /\ im.code[pc].instr.opcode \in OpCode
          /\ im.code[pc].instr.operands \in Seq(Operand)
          /\ im.code[pc].next \in Unsigned
    /\ im.data \in Seq(Word)
    /\ Len(im.data) <= DATA_MEMORY_SIZE_WORDS
    /\ im.interrupt_vectors \in Seq(Unsigned)

MachineState ==
    [pc : ProgramCounter,
     d_regs : [REGISTERS -> Word],
     a_regs : [REGISTERS -> Word],
     flags : Flags,
     data_memory : [DataAddress -> Word],
     halted : BOOLEAN,
     tick_counter : Nat,
     output_buffer : Seq(0 .. 255),
     input_schedule : Schedule,
     input_data : Char,
     input_status : {0, 1},
     interrupts_enabled : BOOLEAN,
     in_interrupt_handler : BOOLEAN,
     raised : Exceptions]

-----------------------------------------------------------------------------
(* Construction.                                                           *)

\* sorted(schedule, key=tick, reverse=True) is stable and the next event is
\* popped from its end: events come in the order of their ticks, those of
\* one tick in the reverse of their order in the file.
PopsBefore(s, i, j) ==
    \/ s[i].tick < s[j].tick
    \/ s[i].tick = s[j].tick /\ i > j
\* Variant: sorted by tick but not reversed, so that the last event pops first.
SortedScheduleAscending(s) ==
    [k \in DOMAIN s |->
        s[CHOOSE i \in DOMAIN s :
              Cardinality({j \in DOMAIN s : PopsBefore(s, j, i)}) = Len(s) - k]]
SortedSchedule(s) ==
    [k \in DOMAIN s |->
        s[CHOOSE i \in DOMAIN s :
              Cardinality({j \in DOMAIN s : PopsBefore(s, j, i)}) = k - 1]]

InitialMemory(data) ==
    [a \in DataAddress |->
        IF a \div WORD_BYTES < Len(data) THEN to_i32(data[a \div WORD_BYTES + 1]) ELSE 0]

NewMachine(im, schedule) ==
    [pc |-> im.entry_point,
     d_regs |-> [r \in REGISTERS |-> 0],
     a_regs |-> [r \in REGISTERS |-> IF r = STACK_POINTER THEN DataMemorySize ELSE 0],
     flags |-> [n |-> FALSE, z |-> FALSE, v |-> FALSE, c |-> FALSE],
     data_memory |-> InitialMemory(im.data),
     halted |-> FALSE,
     tick_counter |-> 0,
     output_buffer |-> <<>>,
     input_schedule |-> SortedSchedule(schedule),
     input_data |-> 0,
     input_status |-> 0,
     interrupts_enabled |-> FALSE,
     in_interrupt_handler |-> FALSE,
     raised |-> "none"]

-----------------------------------------------------------------------------
(* Exceptions and the clock.                                               *)

Raise(s, exception) == IF s.raised = "none" THEN [s EXCEPT !.raised = exception] ELSE s
Then(s, t) == IF s.raised = "none" THEN t ELSE s

SetFlags(s, f) == Then(s, [s EXCEPT !.flags = f])
JumpTo(s, pc) == Then(s, [s EXCEPT !.pc = pc])
Tick(s, ticks) == Then(s, [s EXCEPT !.tick_counter = @ + ticks])

-----------------------------------------------------------------------------
(* The data bus: memory and memory-mapped ports.                           *)

Ports == {IO_INPUT_DATA, IO_INPUT_STATUS, IO_OUTPUT_DATA, IO_OUTPUT_STATUS}
IsPort(address) == to_u32(address) \in Ports
IsMemory(address) == address \in DataAddress

ReadWord(s, address) ==
    LET port == to_u32(address) IN
    CASE port = IO_INPUT_STATUS -> s.input_status
      [] port = IO_INPUT_DATA -> s.input_data
      [] port = IO_OUTPUT_STATUS -> 1
      [] port = IO_OUTPUT_DATA -> 0
      [] ~IsPort(address) /\ IsMemory(address) -> s.data_memory[address]
      [] OTHER -> 0     \* the read raises

\* Variant: the port is never acknowledged.
AfterReadStaysReady(s, address) ==
    Then(s, IF IsPort(address) \/ IsMemory(address) THEN s ELSE Raise(s, "ValueError"))

\* Reading the data port acknowledges it, even if the instruction then fails.
AfterRead(s, address) ==
    Then(s, IF to_u32(address) = IO_INPUT_DATA THEN [s EXCEPT !.input_status = 0]
            ELSE IF IsPort(address) \/ IsMemory(address) THEN s
            ELSE Raise(s, "ValueError"))

\* Variant: the output is not reduced to its low byte.
WriteWordUnmasked(s, address, value) ==
    Then(s, IF to_u32(address) = IO_OUTPUT_DATA
              THEN [s EXCEPT !.output_buffer = Append(@, value)]
            ELSE IF IsPort(address) THEN s
            ELSE IF IsMemory(address) THEN [s EXCEPT !.data_memory[address] = to_i32(value)]
            ELSE Raise(s, "ValueError"))

\* Writes to the other three ports are ignored.
WriteWord(s, address, value) ==
    Then(s, IF to_u32(address) = IO_OUTPUT_DATA
              THEN [s EXCEPT !.output_buffer = Append(@, value % 256)]
            ELSE IF IsPort(address) THEN s
            ELSE IF IsMemory(address) THEN [s EXCEPT !.data_memory[address] = to_i32(value)]
            ELSE Raise(s, "ValueError"))

-----------------------------------------------------------------------------
(* The stack.                                                              *)

Sp(s) == s.a_regs[STACK_POINTER]
SetSp(s, sp) == Then(s, [s EXCEPT !.a_regs[STACK_POINTER] = sp])

PushValue(s, value) == SetSp(WriteWord(s, Sp(s) - WORD_BYTES, value), Sp(s) - WORD_BYTES)

PoppedValue(s) == ReadWord(s, Sp(s))
AfterPop(s) == SetSp(AfterRead(s, Sp(s)), Sp(s) + WORD_BYTES)

-----------------------------------------------------------------------------
(* Operands.                                                               *)

InRegister(op) == op.kind \in {"DREG", "AREG"}

\* _resolve_address, for the kinds that name a word of the address space.
ResolveAddress(s, op) ==
    CASE op.kind = "ABS" -> op.value
      [] op.kind = "IND_A" -> s.a_regs[op.value]
      [] op.kind = "IND_A_DISP" -> s.a_regs[op.value] + op.offset

ReadOperand(s, op) ==
    CASE op.kind = "IMM" -> op.value
      [] op.kind = "DREG" -> s.d_regs[op.value]
      [] op.kind = "AREG" -> s.a_regs[op.value]
      [] OTHER -> ReadWord(s, ResolveAddress(s, op))

AfterReadOperand(s, op) ==
    IF op.kind = "IMM" \/ InRegister(op) THEN s ELSE AfterRead(s, ResolveAddress(s, op))

WriteOperand(s, op, value) ==
    CASE op.kind = "IMM" -> Raise(s, "ValueError")
      [] op.kind = "DREG" -> Then(s, [s EXCEPT !.d_regs[op.value] = to_i32(value)])
      [] op.kind = "AREG" -> Then(s, [s EXCEPT !.a_regs[op.value] = to_i32(value)])
      [] OTHER -> WriteWord(s, ResolveAddress(s, op), value)

\* A jump through [An] takes the register itself; [An+d] and Dn are read.
JumpTarget(s, op) ==
    IF op.kind \in {"ABS", "IMM"} THEN op.value
    ELSE IF op.kind \in {"AREG", "IND_A"} THEN s.a_regs[op.value]
    ELSE ReadOperand(s, op)
AfterJumpTarget(s, op) == IF op.kind = "IND_A_DISP" THEN AfterReadOperand(s, op) ELSE s

-----------------------------------------------------------------------------
(* Interrupts.                                                             *)

\* _trigger_interrupt: the hardware saves PC and the flags, and nothing else.
TriggerInterrupt(s) ==
    IF image.interrupt_vectors = <<>> THEN s
    ELSE LET masked == [s EXCEPT !.in_interrupt_handler = TRUE]
             saved == PushValue(PushValue(masked, s.pc), FlagsWord(s.flags))
         IN Tick(JumpTo(saved, image.interrupt_vectors[1]), 4)

InputIsDue(s) == s.input_schedule # <<>> /\ s.tick_counter >= Head(s.input_schedule).tick

\* Variants: the event is read but not popped; an unread character is kept.
DeliverInputUnpopped(s) ==
    [s EXCEPT !.input_data = Head(s.input_schedule).char, !.input_status = 1]
DeliverInputKeepsUnread(s) ==
    [s EXCEPT !.input_schedule = Tail(@),
              !.input_data = IF s.input_status = 1 THEN @ ELSE Head(s.input_schedule).char,
              !.input_status = 1]

\* The character replaces whatever the port holds, read or not.
DeliverInput(s) ==
    [s EXCEPT !.input_schedule = Tail(@),
              !.input_data = Head(s.input_schedule).char,
              !.input_status = 1]

\* _check_interrupts: at most one event per step.  An event that comes while
\* traps are disabled or masked fills the port and never traps later.
CheckInterrupts(s) ==
    IF ~InputIsDue(s) THEN s
    ELSE IF s.interrupts_enabled /\ ~s.in_interrupt_handler
           THEN TriggerInterrupt(DeliverInput(s))
           ELSE DeliverInput(s)

-----------------------------------------------------------------------------
(* Instructions: the state after each, from the state s in which PC already *)
(* points past it.  ops are its operands; Python reads all those it needs   *)
(* from the tuple before it does anything else.                             *)

Move(s, src, dest) ==
    LET val == ReadOperand(s, src)
        written == WriteOperand(AfterReadOperand(s, src), dest, val)
    IN Tick(SetFlags(written, NzFlags(val)), 2)

Lea(s, src, dest) ==
    IF dest.kind # "AREG" \/ src.kind = "IMM" \/ InRegister(src)
      THEN Raise(s, "ValueError")
      ELSE Tick(WriteOperand(s, dest, ResolveAddress(s, src)), 2)

Push(s, src) == Tick(PushValue(AfterReadOperand(s, src), ReadOperand(s, src)), 2)

\* Variant: the word is read but not popped.
PopUnpopped(s, dest) == Tick(WriteOperand(AfterRead(s, Sp(s)), dest, PoppedValue(s)), 2)
\* The stack pointer has moved by the time the destination is written.
Pop(s, dest) == Tick(WriteOperand(AfterPop(s), dest, PoppedValue(s)), 2)

\* The destination is read after the source, hence after its side effect;
\* the flags are set before the result is stored.
AluInstr(s, opcode, srcOp, destOp) ==
    LET s1 == AfterReadOperand(s, srcOp)
        s2 == AfterReadOperand(s1, destOp)
        src == ReadOperand(s, srcOp)
        dest == ReadOperand(s1, destOp)
        flagged == SetFlags(s2, AluFlags(opcode, dest, src))
        stored == IF StoresResult(opcode)
                    THEN WriteOperand(flagged, destOp, AluResult(opcode, dest, src))
                    ELSE flagged
    IN IF DividesByZero(opcode, src) THEN Raise(s2, "ZeroDivisionError") ELSE Tick(stored, 2)

Neg(s, dest) ==
    LET val == ReadOperand(s, dest)
        flagged == SetFlags(AfterReadOperand(s, dest), NegFlags(val))
    IN Tick(WriteOperand(flagged, dest, NegResult(val)), 2)

Not(s, dest) ==
    LET result == NotResult(ReadOperand(s, dest))
        flagged == SetFlags(AfterReadOperand(s, dest), NzFlags(result))
    IN Tick(WriteOperand(flagged, dest, result), 2)

\* Variant: a jump takes no time.
JumpFree(s, opcode, op) ==
    LET resolved == AfterJumpTarget(s, op)
    IN IF Taken(opcode, s.flags) THEN JumpTo(resolved, JumpTarget(s, op)) ELSE resolved
Jump(s, opcode, op) ==
    LET resolved == AfterJumpTarget(s, op)
    IN Tick(IF Taken(opcode, s.flags) THEN JumpTo(resolved, JumpTarget(s, op)) ELSE resolved, 2)

\* Variant: the return address is pushed before the target is read.
CallPushesFirst(s, op) ==
    LET pushed == PushValue(s, s.pc)
    IN Tick(JumpTo(AfterJumpTarget(pushed, op), JumpTarget(pushed, op)), 3)
Call(s, op) ==
    LET resolved == AfterJumpTarget(s, op)
    IN Tick(JumpTo(PushValue(resolved, s.pc), JumpTarget(s, op)), 3)

Ret(s) == Tick(JumpTo(AfterPop(s), PoppedValue(s)), 3)

\* Variants: the flags are popped but not restored; PC is restored but not
\* popped; traps stay masked.
IretKeepsFlags(s) ==
    LET popped == AfterPop(s)
        resumed == JumpTo(AfterPop(popped), PoppedValue(popped))
    IN Tick(Then(resumed, [resumed EXCEPT !.in_interrupt_handler = FALSE]), 4)
IretUnpopped(s) ==
    LET flagged == SetFlags(AfterPop(s), FlagsOf(PoppedValue(s)))
        resumed == JumpTo(flagged, PoppedValue(flagged))
    IN Tick(Then(resumed, [resumed EXCEPT !.in_interrupt_handler = FALSE]), 4)
IretStaysMasked(s) ==
    LET flagged == SetFlags(AfterPop(s), FlagsOf(PoppedValue(s)))
    IN Tick(JumpTo(AfterPop(flagged), PoppedValue(flagged)), 4)

\* IRET restores the flags first, then PC, and unmasks traps; it does so
\* whether or not a trap is being handled.
Iret(s) ==
    LET flagged == SetFlags(AfterPop(s), FlagsOf(PoppedValue(s)))
        resumed == JumpTo(AfterPop(flagged), PoppedValue(flagged))
    IN Tick(Then(resumed, [resumed EXCEPT !.in_interrupt_handler = FALSE]), 4)

-----------------------------------------------------------------------------
(* One call of step().                                                     *)

\* The condition of the loop of run(), which an exception leaves.
\* Variant: the budget itself is still spent.
RunningAtLimit == ~cpu.halted /\ cpu.raised = "none" /\ cpu.tick_counter <= Limit
Running == ~cpu.halted /\ cpu.raised = "none" /\ cpu.tick_counter < Limit

Polled == CheckInterrupts(cpu)
Decoded == image.code[Polled.pc]
Fetched == [Polled EXCEPT !.pc = Decoded.next]
Ops == Decoded.instr.operands

Fetches == Running /\ Polled.raised = "none" /\ Polled.pc \in DOMAIN image.code

Executing(opcodes) ==
    /\ Fetches
    /\ Decoded.instr.opcode \in opcodes
    /\ Len(Ops) >= Arity(Decoded.instr.opcode)

NopStep == Executing({"NOP"}) /\ cpu' = Tick(Fetched, 1)
HaltStep == Executing({"HALT"}) /\ cpu' = Tick([Fetched EXCEPT !.halted = TRUE], 1)
MoveStep == Executing({"MOVE"}) /\ cpu' = Move(Fetched, Ops[1], Ops[2])
LeaStep == Executing({"LEA"}) /\ cpu' = Lea(Fetched, Ops[1], Ops[2])
PushStep == Executing({"PUSH"}) /\ cpu' = Push(Fetched, Ops[1])
PopStep == Executing({"POP"}) /\ cpu' = Pop(Fetched, Ops[1])
AluStep == Executing(AluOps) /\ cpu' = AluInstr(Fetched, Decoded.instr.opcode, Ops[1], Ops[2])
NegStep == Executing({"NEG"}) /\ cpu' = Neg(Fetched, Ops[1])
NotStep == Executing({"NOT"}) /\ cpu' = Not(Fetched, Ops[1])
JumpStep == Executing(JumpOps) /\ cpu' = Jump(Fetched, Decoded.instr.opcode, Ops[1])
CallStep == Executing({"CALL"}) /\ cpu' = Call(Fetched, Ops[1])
RetStep == Executing({"RET"}) /\ cpu' = Ret(Fetched)
IretStep == Executing({"IRET"}) /\ cpu' = Iret(Fetched)
EiStep == Executing({"EI"}) /\ cpu' = Tick([Fetched EXCEPT !.interrupts_enabled = TRUE], 1)
DiStep == Executing({"DI"}) /\ cpu' = Tick([Fetched EXCEPT !.interrupts_enabled = FALSE], 1)

\* An instruction with fewer operands than its opcode needs.
MissingOperand ==
    /\ Fetches
    /\ Len(Ops) < Arity(Decoded.instr.opcode)
    /\ cpu' = Raise(Fetched, "IndexError")

\* No instruction at PC: the machine halts, and says why.
FetchError ==
    /\ Running /\ Polled.raised = "none" /\ Polled.pc \notin DOMAIN image.code
    /\ cpu' = Raise([Polled EXCEPT !.halted = TRUE], "ValueError")

\* The trap found no room on the stack.
TrapError == Running /\ Polled.raised # "none" /\ cpu' = Polled

Step ==
    \/ NopStep \/ HaltStep \/ MoveStep \/ LeaStep \/ PushStep \/ PopStep
    \/ AluStep \/ NegStep \/ NotStep \/ JumpStep \/ CallStep \/ RetStep
    \/ IretStep \/ EiStep \/ DiStep
    \/ MissingOperand \/ FetchError \/ TrapError

Init ==
    /\ image \in Images
    /\ \E schedule \in Schedules : cpu = NewMachine(image, schedule)

Next == Step /\ UNCHANGED image

\* run() is a loop in one thread: it goes on as long as its condition holds.
Spec == Init /\ [][Next]_vars /\ WF_vars(Next)

-----------------------------------------------------------------------------
(* The constants.                                                          *)

MachineAssumption ==
    /\ \A im \in Images : IsImage(im)
    /\ Schedules \subseteq Schedule
    /\ Limit \in Nat

ASSUME MachineAssumption

-----------------------------------------------------------------------------
(* Properties.                                                             *)

\* The type invariant.  It is more than a sketch of the variables: A7 is the
\* one register that push and pop update without to_i32 (machine.py:138,145),
\* and it stays a word only because the access that precedes is checked.
TypeOK ==
    /\ IsImage(image)
    /\ cpu \in MachineState

\* run(limit) stops at most 7 ticks past its budget: the dearest step is an
\* interrupt (4) whose handler begins with IRET (4) (machine.py:322-325).
MaxOvershoot == 7
TicksBounded == cpu.tick_counter <= Limit + MaxOvershoot

\* A program cannot make run() spin: every step either spends ticks, of which
\* Limit are left at most, or ends the run with an exception
\* (machine.py:171-325).
EveryStepSpends ==
    [][cpu'.tick_counter > cpu.tick_counter \/ cpu'.raised # "none"]_vars

\* So the run ends, whatever the code does, if it goes on at all.
RunEnds == <>(~Running)

\* An instruction that ends in an exception has changed no data register, no
\* address register but A7, no memory and no output since the interrupt
\* check: what failed was the first write it tried (machine.py:171-317).
FaultKeepsData ==
    [][cpu'.raised # "none" =>
          /\ cpu'.d_regs = Polled.d_regs
          /\ cpu'.data_memory = Polled.data_memory
          /\ cpu'.output_buffer = Polled.output_buffer
          /\ \A r \in REGISTERS \ {STACK_POINTER} : cpu'.a_regs[r] = Polled.a_regs[r]]_vars
=============================================================================
