------------------------------ MODULE InputProofs ------------------------------
(***************************************************************************)
(* The input port of the processor keeps the promises of InputPort.  Only  *)
(* the interrupt check delivers events; whatever an instruction does, all  *)
(* it can do to the port is acknowledge it.                                *)
(***************************************************************************)
EXTENDS MachineInput, MachineProofs

\* t has the port of s, and t has it but for an acknowledgement.
SamePort(t, s) ==
    /\ t.input_schedule = s.input_schedule
    /\ t.input_data = s.input_data
    /\ t.input_status = s.input_status
Reads(t, s) ==
    /\ t.input_schedule = s.input_schedule
    /\ t.input_data = s.input_data
    /\ t.input_status \in {s.input_status, 0}

\* How these compose along a sequence of operators.
LEMMA PortComposes ==
    ASSUME NEW s, NEW t, NEW u
    PROVE  /\ SamePort(s, s) /\ Reads(s, s)
           /\ SamePort(t, s) => Reads(t, s)
           /\ SamePort(t, s) /\ SamePort(u, t) => SamePort(u, s)
           /\ Reads(t, s) /\ Reads(u, t) => Reads(u, s)
           /\ Reads(t, s) /\ SamePort(u, t) => Reads(u, s)
BY DEF SamePort, Reads

\* The helpers that do not read have no effect on the port: jumps, flags,
\* exceptions, the clock and the stack pointer,
LEMMA QuietHelpers ==
    ASSUME NEW s \in MachineState, NEW x
    PROVE  /\ SamePort(JumpTo(s, x), s)
           /\ SamePort(SetFlags(s, x), s)
           /\ SamePort(Raise(s, x), s)
           /\ SamePort(Tick(s, x), s)
           /\ SamePort(SetSp(s, x), s)
<1>1. SamePort(JumpTo(s, x), s) /\ SamePort(SetFlags(s, x), s)
  BY DEF JumpTo, SetFlags, Then, SamePort, MachineState
<1>2. SamePort(Raise(s, x), s) /\ SamePort(Tick(s, x), s)
  BY DEF Raise, Tick, Then, SamePort, MachineState
<1>3. SamePort(SetSp(s, x), s)
  BY DEF SetSp, Then, SamePort, MachineState
<1>. QED  BY <1>1, <1>2, <1>3

\* writes to memory and to the output,
LEMMA WriteWordQuiet ==
    ASSUME NEW s \in MachineState, NEW a, NEW v
    PROVE  SamePort(WriteWord(s, a, v), s)
<1>1. SamePort([s EXCEPT !.output_buffer = Append(@, v % 256)], s)
  BY DEF SamePort, MachineState
<1>2. SamePort([s EXCEPT !.data_memory[a] = to_i32(v)], s)
  BY DEF SamePort, MachineState
<1>. QED  BY <1>1, <1>2, QuietHelpers, PortComposes DEF WriteWord, Then

\* pushes,
LEMMA PushValueQuiet ==
    ASSUME NEW s \in MachineState, NEW v \in Int
    PROVE  SamePort(PushValue(s, v), s)
<1>. DEFINE written == WriteWord(s, Sp(s) - WORD_BYTES, v)
<1>1. written \in MachineState /\ SamePort(written, s)
  BY WriteWordType, WriteWordQuiet, SpType DEF Same
<1>2. SamePort(SetSp(written, Sp(s) - WORD_BYTES), written)
  BY <1>1, QuietHelpers
<1>. QED  BY <1>1, <1>2, PortComposes DEF PushValue

\* and writes of operands.
LEMMA WriteOperandQuiet ==
    ASSUME NEW s \in MachineState, NEW op \in Operand, NEW v
    PROVE  SamePort(WriteOperand(s, op, v), s)
<1>1. /\ SamePort([s EXCEPT !.d_regs[op.value] = to_i32(v)], s)
      /\ SamePort([s EXCEPT !.a_regs[op.value] = to_i32(v)], s)
  BY DEF SamePort, MachineState
<1>2. CASE op.kind = "IMM"
  BY <1>2, QuietHelpers DEF WriteOperand
<1>3. CASE op.kind \in {"DREG", "AREG"}
  BY <1>1, <1>3, PortComposes DEF WriteOperand, Then
<1>4. CASE op.kind \in {"ABS", "IND_A", "IND_A_DISP"}
  BY <1>4, WriteWordQuiet DEF WriteOperand
<1>. QED  BY <1>2, <1>3, <1>4, OperandFields DEF OperandKind

\* A read of any address does at most acknowledge the port,
LEMMA AfterReadReads ==
    ASSUME NEW s \in MachineState, NEW a
    PROVE  Reads(AfterRead(s, a), s)
<1>1. Reads([s EXCEPT !.input_status = 0], s)
  BY DEF Reads, MachineState
<1>. QED  BY <1>1, QuietHelpers, PortComposes DEF AfterRead, Then

\* and so do a pop
LEMMA AfterPopReads ==
    ASSUME NEW s \in MachineState
    PROVE  AfterPop(s) \in MachineState /\ Reads(AfterPop(s), s)
<1>. DEFINE read == AfterRead(s, Sp(s))
<1>1. read \in MachineState /\ Reads(read, s)
  BY AfterReadType, AfterReadReads, SpType DEF Same
<1>2. SamePort(SetSp(read, Sp(s) + WORD_BYTES), read)
  BY <1>1, QuietHelpers
<1>. QED  BY <1>1, <1>2, PopType, PortComposes DEF AfterPop, Same

\* and the read of an operand or of the target of a jump.
LEMMA OperandReads ==
    ASSUME NEW s \in MachineState, NEW op \in Operand
    PROVE  /\ AfterReadOperand(s, op) \in MachineState /\ ReadOperand(s, op) \in Int
           /\ Reads(AfterReadOperand(s, op), s)
           /\ AfterJumpTarget(s, op) \in MachineState /\ JumpTarget(s, op) \in ProgramCounter
           /\ Reads(AfterJumpTarget(s, op), s)
<1>1. Reads(AfterReadOperand(s, op), s)
  BY AfterReadReads, PortComposes DEF AfterReadOperand
<1>2. Reads(AfterJumpTarget(s, op), s)
  BY <1>1, PortComposes DEF AfterJumpTarget
<1>. QED  BY <1>1, <1>2, ReadOperandType, JumpTargetType, WordInt DEF Same

-----------------------------------------------------------------------------
(* Instructions.                                                           *)

\* What the instructions do once they have read: set flags, write, tick.
LEMMA StoreReads ==
    ASSUME NEW s, NEW t \in MachineState, Reads(t, s), NEW f \in Flags,
           NEW op \in Operand, NEW v \in Int, NEW k \in Nat
    PROVE  /\ Reads(Tick(SetFlags(t, f), k), s)
           /\ Reads(Tick(WriteOperand(t, op, v), k), s)
           /\ Reads(Tick(WriteOperand(SetFlags(t, f), op, v), k), s)
           /\ Reads(Tick(SetFlags(WriteOperand(t, op, v), f), k), s)
<1>1. SetFlags(t, f) \in MachineState /\ Reads(SetFlags(t, f), s)
  BY SetFlagsType, QuietHelpers, PortComposes DEF Same
<1>2. WriteOperand(t, op, v) \in MachineState /\ Reads(WriteOperand(t, op, v), s)
  BY WriteOperandType, WriteOperandQuiet, PortComposes DEF Same
<1>3. /\ WriteOperand(SetFlags(t, f), op, v) \in MachineState
      /\ Reads(WriteOperand(SetFlags(t, f), op, v), s)
  BY <1>1, WriteOperandType, WriteOperandQuiet, PortComposes DEF Same
<1>4. /\ SetFlags(WriteOperand(t, op, v), f) \in MachineState
      /\ Reads(SetFlags(WriteOperand(t, op, v), f), s)
  BY <1>2, SetFlagsType, QuietHelpers, PortComposes DEF Same
<1>5. ASSUME NEW u \in MachineState, Reads(u, s) PROVE Reads(Tick(u, k), s)
  BY <1>5, QuietHelpers, PortComposes
<1>. QED  BY <1>1, <1>2, <1>3, <1>4, <1>5

\* A jump and the ticks it takes.
LEMMA JumpReads ==
    ASSUME NEW s, NEW t \in MachineState, Reads(t, s), NEW pc \in ProgramCounter, NEW k \in Nat
    PROVE  /\ JumpTo(t, pc) \in MachineState /\ Reads(JumpTo(t, pc), s)
           /\ Reads(Tick(JumpTo(t, pc), k), s) /\ Reads(Tick(t, k), s)
<1>1. JumpTo(t, pc) \in MachineState /\ Reads(JumpTo(t, pc), s)
  BY JumpToType, QuietHelpers, PortComposes DEF Same
<1>2. ASSUME NEW u \in MachineState, Reads(u, s) PROVE Reads(Tick(u, k), s)
  BY <1>2, QuietHelpers, PortComposes
<1>. QED  BY <1>1, <1>2

\* The instructions with two operands: MOVE, LEA and the arithmetic.
LEMMA BinaryReads ==
    ASSUME NEW s \in MachineState, NEW a \in Operand, NEW b \in Operand
    PROVE  /\ Reads(Move(s, a, b), s)
           /\ Reads(Lea(s, a, b), s)
           /\ \A opcode \in AluOps : Reads(AluInstr(s, opcode, a, b), s)
<1>1. Reads(Move(s, a, b), s)
  <2>1. NzFlags(ReadOperand(s, a)) \in Flags
    BY OperandReads, NzFlagsType
  <2>. QED  BY <2>1, OperandReads, StoreReads DEF Move
<1>2. Reads(Lea(s, a, b), s)
  <2>1. CASE b.kind # "AREG" \/ a.kind = "IMM" \/ InRegister(a)
    BY <2>1, QuietHelpers, PortComposes DEF Lea
  <2>2. CASE ~(b.kind # "AREG" \/ a.kind = "IMM" \/ InRegister(a))
    <3>1. a.kind \in {"ABS", "IND_A", "IND_A_DISP"}
      BY <2>2, OperandFields DEF OperandKind, InRegister
    <3>2. ResolveAddress(s, a) \in Int
      BY <3>1, ResolveAddressType
    <3>3. Flags # {}
      BY NzFlagsType
    <3>. QED  BY <2>2, <3>2, <3>3, StoreReads, PortComposes DEF Lea
  <2>. QED  BY <2>1, <2>2
<1>3. ASSUME NEW opcode \in AluOps PROVE Reads(AluInstr(s, opcode, a, b), s)
  <2>. DEFINE s1 == AfterReadOperand(s, a)
              s2 == AfterReadOperand(s1, b)
              src == ReadOperand(s, a)
              dest == ReadOperand(s1, b)
              flagged == SetFlags(s2, AluFlags(opcode, dest, src))
  <2>1. src \in Word /\ s1 \in MachineState /\ Reads(s1, s)
    BY ReadOperandType, OperandReads
  <2>2. dest \in Word /\ s2 \in MachineState /\ Reads(s2, s)
    BY <2>1, ReadOperandType, OperandReads, PortComposes
  <2>3. CASE DividesByZero(opcode, src)
    <3>1. Reads(Raise(s2, "ZeroDivisionError"), s)
      BY <2>2, QuietHelpers, PortComposes
    <3>. QED  BY <2>3, <3>1 DEF AluInstr
  <2>4. CASE ~DividesByZero(opcode, src)
    <3>1. AluFlags(opcode, dest, src) \in Flags /\ AluResult(opcode, dest, src) \in Int
      BY <2>1, <2>2, <2>4, AluFlagsType, AluResultType, WordInt
    <3>2. /\ Reads(Tick(WriteOperand(flagged, b, AluResult(opcode, dest, src)), 2), s)
          /\ Reads(Tick(flagged, 2), s)
      BY <2>2, <3>1, StoreReads
    <3>. QED  BY <2>4, <3>2 DEF AluInstr
  <2>. QED  BY <2>3, <2>4
<1>. QED  BY <1>1, <1>2, <1>3

\* Those with one: PUSH, POP, NEG, NOT, the jumps and CALL.
LEMMA UnaryReads ==
    ASSUME NEW s \in MachineState, NEW op \in Operand
    PROVE  /\ Reads(Push(s, op), s)
           /\ Reads(Pop(s, op), s)
           /\ Reads(Neg(s, op), s) /\ Reads(Not(s, op), s)
           /\ \A opcode : Reads(Jump(s, opcode, op), s)
           /\ Reads(Call(s, op), s)
<1>. DEFINE val == ReadOperand(s, op)
            read == AfterReadOperand(s, op)
            resolved == AfterJumpTarget(s, op)
            target == JumpTarget(s, op)
<1>1. /\ val \in Int /\ read \in MachineState /\ Reads(read, s)
      /\ resolved \in MachineState /\ Reads(resolved, s) /\ target \in ProgramCounter
  BY OperandReads
<1>. HIDE DEF val, read, resolved, target
<1>2. ASSUME NEW t \in MachineState, Reads(t, s), NEW v \in Int
      PROVE  PushValue(t, v) \in MachineState /\ Reads(PushValue(t, v), s)
  BY <1>2, PushValueType, PushValueQuiet, PortComposes DEF Same
<1>3. Reads(Push(s, op), s)
  <2>1. PushValue(read, val) \in MachineState /\ Reads(PushValue(read, val), s)
    BY <1>1, <1>2
  <2>2. target \in ProgramCounter
    BY <1>1
  <2>. QED  BY <2>1, <2>2, JumpReads DEF Push, read, val
<1>4. Reads(Pop(s, op), s)
  <2>1. PoppedValue(s) \in Int /\ Flags # {}
    BY PopType, WordInt, NzFlagsType
  <2>. QED  BY <2>1, AfterPopReads, StoreReads DEF Pop
<1>5. Reads(Neg(s, op), s) /\ Reads(Not(s, op), s)
  <2>1. /\ NegResult(val) \in Int /\ NegFlags(val) \in Flags
        /\ NotResult(val) \in Int /\ NzFlags(NotResult(val)) \in Flags
    BY <1>1, UnaryType, NzFlagsType, WordInt
  <2>. QED  BY <1>1, <2>1, StoreReads DEF Neg, Not, val, read
<1>6. ASSUME NEW opcode PROVE Reads(Jump(s, opcode, op), s)
  BY <1>1, JumpReads DEF Jump, resolved, target
<1>7. Reads(Call(s, op), s)
  <2>1. s.pc \in Int
    BY IsaAssumption DEF MachineState, ProgramCounter, U32_MAX, IsaAssumption
  <2>2. PushValue(resolved, s.pc) \in MachineState /\ Reads(PushValue(resolved, s.pc), s)
    BY <1>1, <1>2, <2>1
  <2>. QED  BY <1>1, <2>2, JumpReads DEF Call, resolved, target
<1>. QED  BY <1>3, <1>4, <1>5, <1>6, <1>7

\* And the returns.
LEMMA ReturnReads ==
    ASSUME NEW s \in MachineState
    PROVE  Reads(Ret(s), s) /\ Reads(Iret(s), s)
<1>1. PoppedValue(s) \in ProgramCounter
  BY PopType, WordIsTarget
<1>2. Reads(Ret(s), s)
  BY <1>1, AfterPopReads, JumpReads DEF Ret
<1>3. Reads(Iret(s), s)
  <2>. DEFINE flagged == SetFlags(AfterPop(s), FlagsOf(PoppedValue(s)))
              resumed == JumpTo(AfterPop(flagged), PoppedValue(flagged))
              unmasked == [resumed EXCEPT !.in_interrupt_handler = FALSE]
  <2>1. flagged \in MachineState /\ Reads(flagged, s)
    BY AfterPopReads, FlagsOfType, SetFlagsType, QuietHelpers, PortComposes DEF Same
  <2>2. /\ PoppedValue(flagged) \in ProgramCounter
        /\ AfterPop(flagged) \in MachineState /\ Reads(AfterPop(flagged), s)
    BY <2>1, PopType, WordIsTarget, AfterPopReads, PortComposes
  <2>3. resumed \in MachineState /\ Reads(resumed, s)
    BY <2>2, JumpReads
  <2>4. unmasked \in MachineState /\ SamePort(unmasked, resumed)
    BY <2>3 DEF SamePort, MachineState
  <2>5. Then(resumed, unmasked) \in MachineState /\ Reads(Then(resumed, unmasked), s)
    BY <2>3, <2>4, PortComposes DEF Then
  <2>. HIDE DEF resumed, unmasked
  <2>6. Iret(s) = Tick(Then(resumed, unmasked), 4)
    BY DEF Iret, resumed, unmasked
  <2>. QED  BY <2>5, <2>6, QuietHelpers, PortComposes
<1>. QED  BY <1>2, <1>3

-----------------------------------------------------------------------------
(* The whole step.                                                         *)

\* After the interrupt check, an instruction does at most acknowledge the port.
LEMMA StepReads ==
    ASSUME cpu \in MachineState, IsImage(image), Step
    PROVE  Reads(cpu', Polled)
<1>1. Polled \in MachineState
  BY CheckInterruptsType DEF Polled, Spends
<1>2. /\ Fetches => Fetched \in MachineState
      /\ Fetches => Decoded.instr.opcode \in OpCode /\ Ops \in Seq(Operand)
  BY FetchType DEF Same
<1>3. SamePort(Fetched, Polled)
  BY <1>1 DEF Fetched, SamePort, MachineState
<1>4. ASSUME NEW n \in Nat, Fetches, Len(Ops) >= n
      PROVE  \A k \in 1 .. n : Ops[k] \in Operand
  BY <1>2, <1>4
<1>5. SUFFICES Reads(cpu', Polled) \/ Reads(cpu', Fetched)
  BY <1>3, PortComposes
<1>6. CASE NopStep
  BY <1>2, <1>6, QuietHelpers, PortComposes DEF NopStep, Executing
<1>7. CASE HaltStep \/ EiStep \/ DiStep
  <2>1. Fetched \in MachineState
    BY <1>2, <1>7 DEF HaltStep, EiStep, DiStep, Executing
  <2>2. /\ [Fetched EXCEPT !.halted = TRUE] \in MachineState
        /\ SamePort([Fetched EXCEPT !.halted = TRUE], Fetched)
        /\ [Fetched EXCEPT !.interrupts_enabled = TRUE] \in MachineState
        /\ SamePort([Fetched EXCEPT !.interrupts_enabled = TRUE], Fetched)
        /\ [Fetched EXCEPT !.interrupts_enabled = FALSE] \in MachineState
        /\ SamePort([Fetched EXCEPT !.interrupts_enabled = FALSE], Fetched)
    BY <2>1 DEF MachineState, SamePort
  <2>3. \E t \in MachineState : SamePort(t, Fetched) /\ cpu' = Tick(t, 1)
    BY <1>7, <2>2 DEF HaltStep, EiStep, DiStep
  <2>. QED  BY <2>3, QuietHelpers, PortComposes
<1>8. CASE MoveStep \/ LeaStep \/ AluStep
  <2>1. Fetches /\ Len(Ops) >= 2
    BY <1>8 DEF MoveStep, LeaStep, AluStep, Executing, Arity, AluOps, JumpOps
  <2>2. Ops[1] \in Operand /\ Ops[2] \in Operand /\ Fetched \in MachineState
    BY <1>2, <1>4, <2>1
  <2>3. CASE MoveStep
    BY <2>2, <2>3, BinaryReads DEF MoveStep
  <2>4. CASE LeaStep
    BY <2>2, <2>4, BinaryReads DEF LeaStep
  <2>5. CASE AluStep
    BY <2>2, <2>5, BinaryReads DEF AluStep, Executing
  <2>. QED  BY <1>8, <2>3, <2>4, <2>5
<1>9. CASE PushStep \/ PopStep \/ NegStep \/ NotStep \/ JumpStep \/ CallStep
  <2>1. Fetches /\ Len(Ops) >= 1
    BY <1>9 DEF PushStep, PopStep, NegStep, NotStep, JumpStep, CallStep,
       Executing, Arity, AluOps, JumpOps
  <2>2. Ops[1] \in Operand /\ Fetched \in MachineState
    BY <1>2, <1>4, <2>1
  <2>. QED
    BY <1>9, <2>2, UnaryReads
    DEF PushStep, PopStep, NegStep, NotStep, JumpStep, CallStep
<1>10. CASE RetStep \/ IretStep
  BY <1>2, <1>10, ReturnReads DEF RetStep, IretStep, Executing
<1>11. CASE MissingOperand
  BY <1>2, <1>11, QuietHelpers, PortComposes DEF MissingOperand
<1>12. CASE FetchError
  <2>1. /\ [Polled EXCEPT !.halted = TRUE] \in MachineState
        /\ SamePort([Polled EXCEPT !.halted = TRUE], Polled)
    BY <1>1 DEF MachineState, SamePort
  <2>. QED  BY <1>12, <2>1, QuietHelpers, PortComposes DEF FetchError
<1>13. CASE TrapError
  BY <1>13, PortComposes DEF TrapError
<1>. QED
  BY <1>6, <1>7, <1>8, <1>9, <1>10, <1>11, <1>12, <1>13 DEF Step

\* The interrupt check delivers the next event if it is due, whether or not
\* it traps, and otherwise leaves the port.
LEMMA PolledPort ==
    ASSUME cpu \in MachineState, IsImage(image)
    PROVE  IF InputIsDue(cpu)
             THEN /\ Polled.input_schedule = Tail(cpu.input_schedule)
                  /\ Polled.input_data = Head(cpu.input_schedule).char
                  /\ Polled.input_status = 1
             ELSE SamePort(Polled, cpu)
<1>1. CASE ~InputIsDue(cpu)
  BY <1>1, PortComposes DEF Polled, CheckInterrupts
<1>2. CASE InputIsDue(cpu)
  <2>. DEFINE fed == DeliverInput(cpu)
              masked == [fed EXCEPT !.in_interrupt_handler = TRUE]
              saved == PushValue(PushValue(masked, fed.pc), FlagsWord(fed.flags))
  <2>1. /\ fed.input_schedule = Tail(cpu.input_schedule)
        /\ fed.input_data = Head(cpu.input_schedule).char
        /\ fed.input_status = 1
    BY DEF DeliverInput, MachineState
  <2>2. fed \in MachineState
    BY <1>2, DeliverInputType DEF Same
  <2>. HIDE DEF fed
  <2>3. masked \in MachineState /\ SamePort(masked, fed)
    BY <2>2 DEF MachineState, SamePort
  <2>4. fed.pc \in Int /\ FlagsWord(fed.flags) \in Int
    BY <2>2, IsaAssumption, FlagsWordInt
    DEF MachineState, ProgramCounter, U32_MAX, IsaAssumption
  <2>. HIDE DEF masked
  <2>5. PushValue(masked, fed.pc) \in MachineState /\ SamePort(PushValue(masked, fed.pc), fed)
    BY <2>3, <2>4, PushValueType, PushValueQuiet, PortComposes DEF Same
  <2>6. saved \in MachineState /\ SamePort(saved, fed)
    BY <2>4, <2>5, PushValueType, PushValueQuiet, PortComposes DEF Same
  <2>7. SamePort(TriggerInterrupt(fed), fed)
    <3>1. CASE image.interrupt_vectors = <<>>
      BY <3>1, PortComposes DEF TriggerInterrupt
    <3>2. CASE image.interrupt_vectors # <<>>
      <4>. DEFINE handler == image.interrupt_vectors[1]
      <4>1. handler \in ProgramCounter
        <5>1. image.interrupt_vectors \in Seq(Unsigned)
          BY DEF IsImage
        <5>2. handler \in Unsigned
          BY <3>2, <5>1
        <5>. QED  BY <5>2, WordIsTarget
      <4>. HIDE DEF handler
      <4>2. JumpTo(saved, handler) \in MachineState /\ SamePort(JumpTo(saved, handler), fed)
        BY <2>6, <4>1, JumpToType, QuietHelpers, PortComposes DEF Same
      <4>3. SamePort(Tick(JumpTo(saved, handler), 4), fed)
        BY <4>2, QuietHelpers, PortComposes
      <4>4. TriggerInterrupt(fed) = Tick(JumpTo(saved, handler), 4)
        BY <3>2 DEF TriggerInterrupt, masked, handler
      <4>. QED  BY <4>3, <4>4
    <3>. QED  BY <3>1, <3>2
  <2>8. SamePort(Polled, fed)
    BY <1>2, <2>7, PortComposes DEF Polled, CheckInterrupts, fed
  <2>. QED  BY <1>2, <2>1, <2>8 DEF SamePort
<1>. QED  BY <1>1, <1>2

-----------------------------------------------------------------------------
(* The events and the port.                                                *)

InOrder(events) ==
    \A k, l \in DOMAIN events : k < l => events[k].tick <= events[l].tick

\* The events that have not arrived are the rest of those that were due.
WaitsForTheRest ==
    /\ Len(cpu.input_schedule) <= Len(due)
    /\ \A k \in DOMAIN cpu.input_schedule : cpu.input_schedule[k] = due[Arrived + k]

\* None has arrived before its tick.
NoneTooEarly == \A k \in 1 .. Arrived : due[k].tick <= cpu.tick_counter

\* The inductive invariant.
InputInv ==
    /\ TypeOK
    /\ due \in Schedule /\ InOrder(due)
    /\ WaitsForTheRest
    /\ NoneTooEarly
    /\ PortHoldsLastEvent

\* The numbers of events are natural numbers.
LEMMA EventCounts ==
    ASSUME InputInv
    PROVE  /\ cpu.input_schedule \in Schedule
           /\ DOMAIN cpu.input_schedule = 1 .. Len(cpu.input_schedule)
           /\ DOMAIN due = 1 .. Len(due)
           /\ Len(cpu.input_schedule) \in Nat /\ Len(due) \in Nat /\ Arrived \in Nat
           /\ Len(due) = Arrived + Len(cpu.input_schedule)
           /\ \A k \in DOMAIN due : due[k].tick \in Nat
           /\ cpu.tick_counter \in Nat
<1>1. cpu.input_schedule \in Schedule /\ cpu.tick_counter \in Nat
  BY DEF InputInv, TypeOK, MachineState
<1>2. due \in Schedule /\ Len(cpu.input_schedule) <= Len(due)
  BY DEF InputInv, WaitsForTheRest
<1>. QED  BY <1>1, <1>2, EventsOf DEF Arrived

\* What a delivery does to the rest of the events.
LEMMA DeliveryCounts ==
    ASSUME InputInv, InputIsDue(cpu)
    PROVE  /\ Len(cpu.input_schedule) > 0
           /\ Len(Tail(cpu.input_schedule)) = Len(cpu.input_schedule) - 1
           /\ DOMAIN Tail(cpu.input_schedule) = 1 .. (Len(cpu.input_schedule) - 1)
           /\ \A k \in DOMAIN Tail(cpu.input_schedule) :
                 Tail(cpu.input_schedule)[k] = cpu.input_schedule[k + 1]
           /\ Head(cpu.input_schedule) = due[Arrived + 1]
           /\ due[Arrived + 1].tick <= cpu.tick_counter
<1>. DEFINE Event == [tick : Nat, char : Char]
            rest == cpu.input_schedule
<1>1. rest \in Seq(Event) /\ rest # <<>>
  BY EventCounts DEF Schedule, InputIsDue
<1>2. \A k \in DOMAIN rest : rest[k] = due[Arrived + k]
  BY DEF InputInv, WaitsForTheRest
<1>. HIDE DEF Event
<1>3. Len(rest) > 0 /\ Head(rest) = rest[1] /\ 1 \in DOMAIN rest
  BY <1>1
<1>4. Head(rest) = due[Arrived + 1]
  BY <1>2, <1>3
<1>5. cpu.tick_counter >= Head(rest).tick
  BY DEF InputIsDue
<1>6. /\ Len(Tail(rest)) = Len(rest) - 1
      /\ DOMAIN Tail(rest) = 1 .. (Len(rest) - 1)
      /\ \A k \in DOMAIN Tail(rest) : Tail(rest)[k] = rest[k + 1]
  BY <1>1
<1>7. due[Arrived + 1].tick <= cpu.tick_counter
  <2>1. Arrived + 1 \in DOMAIN due
    BY <1>3, EventCounts
  <2>. QED  BY <1>4, <1>5, <2>1, EventCounts
<1>. QED  BY <1>3, <1>4, <1>6, <1>7

\* One step of the processor, as the port sees it: the first of the events
\* that wait has arrived, or none has; what was in the port at the end of the
\* interrupt check is still there or was read.
LEMMA PortStep ==
    ASSUME InputInv, Step, UNCHANGED due
    PROVE  /\ cpu' \in MachineState
           /\ cpu'.input_schedule = Polled.input_schedule
           /\ cpu'.input_data = Polled.input_data
           /\ cpu'.input_status \in {Polled.input_status, 0}
           /\ Polled.input_status \in {0, 1}
           /\ Arrived' = Delivered
           /\ IF InputIsDue(cpu)
                THEN /\ Polled.input_schedule = Tail(cpu.input_schedule)
                     /\ Polled.input_data = Head(cpu.input_schedule).char
                     /\ Polled.input_status = 1
                     /\ Delivered = Arrived + 1
                ELSE /\ Polled.input_schedule = cpu.input_schedule
                     /\ Polled.input_data = cpu.input_data
                     /\ Polled.input_status = cpu.input_status
                     /\ Delivered = Arrived
<1>1. cpu \in MachineState /\ IsImage(image)
  BY DEF InputInv, TypeOK
<1>2. cpu' \in MachineState /\ Reads(cpu', Polled)
  BY <1>1, StepType, StepReads
<1>3. Polled.input_status \in {0, 1}
  BY <1>1, CheckInterruptsType DEF Polled, Spends, MachineState
<1>4. Arrived' = Delivered
  BY <1>2 DEF Arrived, Delivered, Reads
<1>5. ASSUME InputIsDue(cpu) PROVE Len(due) - Len(Tail(cpu.input_schedule)) = Arrived + 1
  <2>1. Len(Tail(cpu.input_schedule)) = Len(cpu.input_schedule) - 1
    BY <1>5, DeliveryCounts
  <2>. QED  BY <2>1, EventCounts
<1>. QED  BY <1>1, <1>2, <1>3, <1>4, <1>5, PolledPort DEF Reads, SamePort, Arrived, Delivered

-----------------------------------------------------------------------------
(* The invariant.                                                          *)

\* At the start all the events wait, sorted by their ticks.
LEMMA InputInvInit == InputInit => InputInv
<1>. SUFFICES ASSUME InputInit PROVE InputInv
  OBVIOUS
<1>1. PICK schedule \in Schedules : cpu = NewMachine(image, schedule)
  BY DEF InputInit, Init
<1>2. TypeOK
  BY TypeInit DEF InputInit
<1>3. schedule \in Schedule /\ due = SortedSchedule(schedule) /\ due = cpu.input_schedule
  BY <1>1, MachineAssumption DEF InputInit, NewMachine, MachineAssumption
<1>4. due \in Schedule /\ InOrder(due)
  BY <1>3, SortedScheduleType DEF InOrder
<1>5. Len(due) \in Nat
  BY <1>4, EventsOf
<1>6. Arrived = 0
  BY <1>3, <1>5 DEF Arrived
<1>7. WaitsForTheRest
  <2>1. \A k \in DOMAIN due : Arrived + k = k
    BY <1>4, <1>6, EventsOf
  <2>. QED  BY <1>3, <1>5, <2>1 DEF WaitsForTheRest
<1>. QED  BY <1>2, <1>4, <1>6, <1>7 DEF InputInv, NoneTooEarly, PortHoldsLastEvent

\* Every step keeps it.
LEMMA InputInvStep == InputInv /\ [InputNext]_inputVars => InputInv'
<1>. SUFFICES ASSUME InputInv, [InputNext]_inputVars PROVE InputInv'
  OBVIOUS
<1>1. CASE InputNext
  <2>1. Step /\ UNCHANGED due /\ Next
    BY <1>1 DEF InputNext, Next
  <2>2. TypeOK'
    BY <2>1, TypeStep DEF InputInv
  <2>3. due' \in Schedule /\ InOrder(due)'
    BY <2>1 DEF InputInv, InOrder
  <2>4. WaitsForTheRest'
    <3>1. CASE InputIsDue(cpu)
      <4>1. /\ cpu'.input_schedule = Tail(cpu.input_schedule) /\ due' = due
            /\ Arrived' = Arrived + 1
        BY <2>1, <3>1, PortStep
      <4>2. Len(Tail(cpu.input_schedule)) <= Len(due)
        BY <3>1, DeliveryCounts, EventCounts
      <4>3. ASSUME NEW k \in DOMAIN Tail(cpu.input_schedule)
            PROVE  Tail(cpu.input_schedule)[k] = due[Arrived + 1 + k]
        <5>1. /\ Tail(cpu.input_schedule)[k] = cpu.input_schedule[k + 1]
              /\ k + 1 \in DOMAIN cpu.input_schedule
          BY <3>1, DeliveryCounts, EventCounts
        <5>2. cpu.input_schedule[k + 1] = due[Arrived + (k + 1)]
          BY <5>1 DEF InputInv, WaitsForTheRest
        <5>3. Arrived + (k + 1) = Arrived + 1 + k
          BY <3>1, DeliveryCounts, EventCounts
        <5>. QED  BY <5>1, <5>2, <5>3
      <4>. QED  BY <4>1, <4>2, <4>3 DEF WaitsForTheRest
    <3>2. CASE ~InputIsDue(cpu)
      <4>1. /\ cpu'.input_schedule = cpu.input_schedule /\ due' = due
            /\ Arrived' = Arrived
        BY <2>1, <3>2, PortStep
      <4>. QED  BY <4>1 DEF InputInv, WaitsForTheRest
    <3>. QED  BY <3>1, <3>2
  <2>5. NoneTooEarly'
    <3>1. cpu'.tick_counter \in Nat /\ cpu'.tick_counter >= cpu.tick_counter
      BY <2>1, StepType, EventCounts DEF InputInv, TypeOK
    <3>2. ASSUME NEW k \in 1 .. Arrived'
          PROVE  k \in DOMAIN due /\ due[k].tick <= cpu.tick_counter
      <4>1. CASE InputIsDue(cpu)
        <5>1. Arrived' = Arrived + 1 /\ Arrived + 1 \in DOMAIN due
          BY <2>1, <4>1, PortStep, DeliveryCounts, EventCounts
        <5>2. k \in 1 .. Arrived \/ k = Arrived + 1
          BY <5>1, EventCounts
        <5>. QED  BY <4>1, <5>1, <5>2, DeliveryCounts, EventCounts DEF InputInv, NoneTooEarly
      <4>2. CASE ~InputIsDue(cpu)
        BY <2>1, <4>2, PortStep, EventCounts DEF InputInv, NoneTooEarly
      <4>. QED  BY <4>1, <4>2
    <3>. QED  BY <2>1, <3>1, <3>2, EventCounts DEF NoneTooEarly
  <2>6. PortHoldsLastEvent'
    <3>1. CASE InputIsDue(cpu)
      BY <2>1, <3>1, PortStep, DeliveryCounts DEF PortHoldsLastEvent
    <3>2. CASE ~InputIsDue(cpu)
      BY <2>1, <3>2, PortStep DEF PortHoldsLastEvent, InputInv
    <3>. QED  BY <3>1, <3>2
  <2>. QED  BY <2>2, <2>3, <2>4, <2>5, <2>6 DEF InputInv
<1>2. CASE UNCHANGED inputVars
  BY <1>2 DEF inputVars, InputInv, TypeOK, IsImage, InOrder, WaitsForTheRest, NoneTooEarly,
     PortHoldsLastEvent, Arrived
<1>. QED  BY <1>1, <1>2

-----------------------------------------------------------------------------
(* The theorems.                                                           *)

\* Whatever the program and its input, all of this holds in every state.
LEMMA InputInvariant == InputSpec => []InputInv
BY InputInvInit, InputInvStep, PTL DEF InputSpec

\* The data register holds the character of the last event that arrived.
THEOREM PortKeepsTheLast == InputSpec => []PortHoldsLastEvent
<1>1. InputInv => PortHoldsLastEvent
  BY DEF InputInv
<1>. QED  BY <1>1, InputInvariant, PTL

\* The events come in the order of their ticks, none early, and one that is
\* due does not wait behind one that is not.
THEOREM InputInTime == InputSpec => []EventsComeInTime
<1>1. InputInv => EventsComeInTime
  <2>. SUFFICES ASSUME InputInv, NEW k \in DOMAIN due
                PROVE  /\ k <= Arrived => due[k].tick <= cpu.tick_counter
                       /\ k > Arrived /\ due[k].tick <= cpu.tick_counter => InputIsDue(cpu)
    BY DEF EventsComeInTime
  <2>1. k <= Arrived => due[k].tick <= cpu.tick_counter
    BY EventCounts DEF InputInv, NoneTooEarly
  <2>2. ASSUME k > Arrived, due[k].tick <= cpu.tick_counter PROVE InputIsDue(cpu)
    <3>. DEFINE Event == [tick : Nat, char : Char]
                first == cpu.input_schedule[1]
    <3>1. 1 \in DOMAIN cpu.input_schedule /\ Arrived + 1 \in DOMAIN due
      BY <2>2, EventCounts
    <3>2. first = due[Arrived + 1]
      BY <3>1 DEF InputInv, WaitsForTheRest
    <3>3. due[Arrived + 1].tick <= due[k].tick
      <4>1. Arrived + 1 = k \/ Arrived + 1 < k
        BY <2>2, EventCounts
      <4>. QED  BY <3>1, <4>1, EventCounts DEF InputInv, InOrder
    <3>4. first.tick <= cpu.tick_counter
      BY <2>2, <3>1, <3>2, <3>3, EventCounts
    <3>5. cpu.input_schedule \in Seq(Event)
      BY EventCounts DEF Schedule
    <3>. HIDE DEF Event
    <3>6. cpu.input_schedule # <<>> /\ Head(cpu.input_schedule) = first
      BY <3>1, <3>5
    <3>7. first.tick \in Nat
      BY <3>1, <3>2, EventCounts
    <3>. QED  BY <3>4, <3>6, <3>7, EventCounts DEF InputIsDue
  <2>. QED  BY <2>1, <2>2
<1>. QED  BY <1>1, InputInvariant, PTL

\* Every step of the processor is a stutter of the abstract port, an arrival,
\* a read, or both: the detailed specification implements the abstract one.
THEOREM ImplementsPort == InputSpec => ImplementsInputPort
<1>1. InputInit => Port!PortInit
  <2>. SUFFICES ASSUME InputInit PROVE Port!PortInit
    OBVIOUS
  <2>1. InputInv /\ due = cpu.input_schedule
    BY InputInvInit DEF InputInit
  <2>2. cpu.input_status = 0
    BY DEF InputInit, Init, NewMachine
  <2>. QED  BY <2>1, <2>2, EventCounts DEF InputInit, Port!PortInit, Arrived
<1>2. InputInv /\ [InputNext]_inputVars => [Port!PortNext]_Port!portVars
  <2>. SUFFICES ASSUME InputInv, [InputNext]_inputVars
                PROVE  Port!PortNext \/ UNCHANGED Port!portVars
    OBVIOUS
  <2>1. CASE UNCHANGED inputVars
    BY <2>1 DEF inputVars, Port!portVars, Arrived
  <2>2. CASE InputNext
    <3>1. Step /\ UNCHANGED due
      BY <2>2 DEF InputNext, Next
    <3>2. /\ cpu'.input_status \in {0, 1} /\ cpu.input_status \in {0, 1}
          /\ Len(cpu'.input_schedule) = Len(Polled.input_schedule)
          /\ Arrived' = Delivered
      BY <3>1, PortStep DEF InputInv, TypeOK, MachineState
    <3>3. CASE InputIsDue(cpu)
      <4>1. /\ Polled.input_status = 1 /\ Delivered = Arrived + 1
            /\ Len(cpu'.input_schedule) = Len(cpu.input_schedule) - 1
            /\ Len(cpu.input_schedule) > 0 /\ Delivered > Arrived
        <5>1. /\ Polled.input_status = 1 /\ Delivered = Arrived + 1
              /\ Polled.input_schedule = Tail(cpu.input_schedule)
          BY <3>1, <3>3, PortStep
        <5>2. /\ Len(Tail(cpu.input_schedule)) = Len(cpu.input_schedule) - 1
              /\ Len(cpu.input_schedule) > 0
          BY <3>3, DeliveryCounts
        <5>3. Arrived \in Nat
          BY EventCounts
        <5>. QED  BY <3>2, <5>1, <5>2, <5>3
      <4>2. lost' = lost \cup Port!Held
        BY <2>2, <4>1 DEF InputNext, Port!Held
      <4>3. CASE cpu'.input_status = 1
        <5>1. taken' = taken
          BY <2>2, <4>3 DEF InputNext
        <5>. QED  BY <3>2, <4>1, <4>2, <4>3, <5>1 DEF Port!PortNext, Port!Arrive
      <4>4. CASE cpu'.input_status = 0
        <5>1. taken' = taken \cup {Arrived + 1}
          BY <2>2, <4>1, <4>4 DEF InputNext
        <5>. QED  BY <3>2, <4>1, <4>2, <4>4, <5>1 DEF Port!PortNext, Port!ArriveAndTake
      <4>. QED  BY <3>2, <4>3, <4>4
    <3>4. CASE ~InputIsDue(cpu)
      <4>1. /\ Polled.input_status = cpu.input_status /\ Delivered = Arrived
            /\ Len(cpu'.input_schedule) = Len(cpu.input_schedule)
            /\ ~(Delivered > Arrived)
            /\ cpu'.input_status \in {cpu.input_status, 0}
        BY <3>1, <3>2, <3>4, PortStep, EventCounts
      <4>2. lost' = lost
        BY <2>2, <4>1 DEF InputNext
      <4>3. CASE cpu'.input_status = cpu.input_status
        <5>1. taken' = taken
          BY <2>2, <4>1, <4>3 DEF InputNext
        <5>. QED  BY <3>2, <4>1, <4>2, <4>3, <5>1 DEF Port!portVars
      <4>4. CASE cpu'.input_status = 0 /\ cpu.input_status = 1
        <5>1. taken' = taken \cup {Arrived}
          BY <2>2, <4>1, <4>4 DEF InputNext
        <5>. QED  BY <3>2, <4>1, <4>2, <4>4, <5>1 DEF Port!PortNext, Port!Take
      <4>. QED  BY <3>2, <4>1, <4>3, <4>4
    <3>. QED  BY <3>3, <3>4
  <2>. QED  BY <2>1, <2>2
<1>. QED  BY <1>1, <1>2, InputInvariant, PTL DEF InputSpec, ImplementsInputPort, Port!PortSpec

\* Every event that has arrived is in the port, or was read, or is lost, and
\* only one of the three: a property of the abstract port, that the processor
\* inherits.
THEOREM OneFateForEach == InputSpec => []EveryEventHasOneFate
<1>1. Port!PortInit /\ InputInv => EveryEventHasOneFate
  BY DEF Port!PortInit, EveryEventHasOneFate, Port!OneFateEach, Port!Held
<1>2. /\ InputInv /\ EveryEventHasOneFate
      /\ [Port!PortNext]_Port!portVars
      => EveryEventHasOneFate'
  <2>. SUFFICES ASSUME InputInv, Port!OneFateEach, [Port!PortNext]_Port!portVars
                PROVE  Port!OneFateEach'
    BY DEF EveryEventHasOneFate
  <2>1. Arrived \in Nat
    BY EventCounts
  <2>2. 1 .. (Arrived + 1) = (1 .. Arrived) \cup {Arrived + 1} /\ Arrived + 1 \notin 1 .. Arrived
    BY <2>1
  <2>3. CASE UNCHANGED Port!portVars
    BY <2>3 DEF Port!portVars, Port!OneFateEach, Port!Held
  <2>4. CASE Port!Arrive
    BY <2>2, <2>4 DEF Port!Arrive, Port!OneFateEach, Port!Held
  <2>5. CASE Port!Take
    BY <2>5 DEF Port!Take, Port!OneFateEach, Port!Held
  <2>6. CASE Port!ArriveAndTake
    BY <2>2, <2>6 DEF Port!ArriveAndTake, Port!OneFateEach, Port!Held
  <2>. QED  BY <2>3, <2>4, <2>5, <2>6 DEF Port!PortNext
<1>. QED
  BY <1>1, <1>2, ImplementsPort, InputInvariant, PTL DEF ImplementsInputPort, Port!PortSpec
=============================================================================
