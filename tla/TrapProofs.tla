------------------------------ MODULE TrapProofs ------------------------------
(***************************************************************************)
(* Interrupts are transparent to the program that they interrupt: two      *)
(* processors that differ only where the program does not look stay        *)
(* together, and what a trap saves is what IRET needs to bring the two     *)
(* together again.                                                         *)
(***************************************************************************)
EXTENDS TrapTransparency, MachineProofs

-----------------------------------------------------------------------------
(* Undisturbed takes the operators of Machine as they are: none of them    *)
(* mentions the processor, which only Polled and what follows it do.       *)

\* The constants, the conversions and the instruction set,
LEMMA SameVocabulary ==
    /\ \A v : Undisturbed!to_u32(v) = to_u32(v)
    /\ \A v : Undisturbed!to_i32(v) = to_i32(v)
    /\ Undisturbed!IO_INPUT_STATUS = IO_INPUT_STATUS
    /\ Undisturbed!IO_OUTPUT_DATA = IO_OUTPUT_DATA
    /\ Undisturbed!IO_OUTPUT_STATUS = IO_OUTPUT_STATUS
    /\ Undisturbed!WORD_BYTES = WORD_BYTES
    /\ Undisturbed!STACK_POINTER = STACK_POINTER
    /\ Undisturbed!U32_MAX = U32_MAX
    /\ Undisturbed!DataMemorySize = DataMemorySize
    /\ Undisturbed!DataAddress = DataAddress
    /\ Undisturbed!BitPositions = BitPositions
    /\ Undisturbed!AluOps = AluOps
    /\ Undisturbed!JumpOps = JumpOps
    /\ \A o : Undisturbed!Arity(o) = Arity(o)
<1>1. \A v : Undisturbed!to_u32(v) = to_u32(v)
  BY DEF to_u32, Undisturbed!to_u32
<1>2. \A v : Undisturbed!to_i32(v) = to_i32(v)
  BY <1>1 DEF to_i32, Undisturbed!to_i32
<1>3. Undisturbed!IO_INPUT_STATUS = IO_INPUT_STATUS
  BY DEF IO_INPUT_STATUS, Undisturbed!IO_INPUT_STATUS
<1>4. Undisturbed!IO_OUTPUT_DATA = IO_OUTPUT_DATA
  BY DEF IO_OUTPUT_DATA, Undisturbed!IO_OUTPUT_DATA
<1>5. Undisturbed!IO_OUTPUT_STATUS = IO_OUTPUT_STATUS
  BY DEF IO_OUTPUT_STATUS, Undisturbed!IO_OUTPUT_STATUS
<1>6. Undisturbed!WORD_BYTES = WORD_BYTES
  BY DEF WORD_BYTES, Undisturbed!WORD_BYTES
<1>7. Undisturbed!STACK_POINTER = STACK_POINTER
  BY DEF STACK_POINTER, Undisturbed!STACK_POINTER
<1>8. Undisturbed!U32_MAX = U32_MAX
  BY DEF U32_MAX, Undisturbed!U32_MAX
<1>9. Undisturbed!DataMemorySize = DataMemorySize
  BY <1>6 DEF DataMemorySize, Undisturbed!DataMemorySize
<1>10. Undisturbed!DataAddress = DataAddress
  BY <1>6, <1>9 DEF DataAddress, Undisturbed!DataAddress
<1>11. Undisturbed!BitPositions = BitPositions
  BY DEF BitPositions, Undisturbed!BitPositions
<1>12. Undisturbed!AluOps = AluOps
  BY DEF AluOps, Undisturbed!AluOps
<1>13. Undisturbed!JumpOps = JumpOps
  BY DEF JumpOps, Undisturbed!JumpOps
<1>14. \A o : Undisturbed!Arity(o) = Arity(o)
  BY <1>12, <1>13 DEF Arity, Undisturbed!Arity
<1>. QED  BY <1>1, <1>2, <1>3, <1>4, <1>5, <1>6, <1>7, <1>8, <1>9, <1>10, <1>11, <1>12,
          <1>13, <1>14

\* the arithmetic,
LEMMA SameArithmetic ==
    /\ \A v : Undisturbed!Bits(v) = Bits(v)
    /\ \A b : Undisturbed!FromBits(b) = FromBits(b)
    /\ \A v : Undisturbed!Magnitude(v) = Magnitude(v)
    /\ \A d, s : Undisturbed!Quotient(d, s) = Quotient(d, s)
    /\ \A v : Undisturbed!ShiftCount(v) = ShiftCount(v)
    /\ \A d, s : Undisturbed!ShiftLeft(d, s) = ShiftLeft(d, s)
    /\ \A d, s : Undisturbed!ShiftRight(d, s) = ShiftRight(d, s)
    /\ \A v : Undisturbed!NzFlags(v) = NzFlags(v)
    /\ \A d, s : Undisturbed!AddFlags(d, s) = AddFlags(d, s)
    /\ \A d, s : Undisturbed!SubFlags(d, s) = SubFlags(d, s)
    /\ \A v : Undisturbed!NegResult(v) = NegResult(v)
    /\ \A v : Undisturbed!NegFlags(v) = NegFlags(v)
    /\ \A v : Undisturbed!NotResult(v) = NotResult(v)
    /\ \A o, d, s : Undisturbed!AluResult(o, d, s) = AluResult(o, d, s)
    /\ \A o, d, s : Undisturbed!AluFlags(o, d, s) = AluFlags(o, d, s)
    /\ \A o, s : Undisturbed!DividesByZero(o, s) = DividesByZero(o, s)
    /\ \A o : Undisturbed!StoresResult(o) = StoresResult(o)
    /\ \A o, f : Undisturbed!Taken(o, f) = Taken(o, f)
    /\ \A w : Undisturbed!FlagsOf(w) = FlagsOf(w)
    /\ \A f : Undisturbed!FlagsWord(f) = FlagsWord(f)
<1>1. \A v : Undisturbed!Bits(v) = Bits(v)
  BY SameVocabulary DEF Bits, Undisturbed!Bits
<1>2. \A b : Undisturbed!FromBits(b) = FromBits(b)
  BY Zenon DEF FromBits, Undisturbed!FromBits, MapThenSumSet, Undisturbed!MapThenSumSet,
         MapThenFoldSet, Undisturbed!MapThenFoldSet
<1>3. \A v : Undisturbed!Magnitude(v) = Magnitude(v)
  BY DEF Magnitude, Undisturbed!Magnitude
<1>4. \A d, s : Undisturbed!Quotient(d, s) = Quotient(d, s)
  BY <1>3 DEF Quotient, Undisturbed!Quotient
<1>5. \A v : Undisturbed!ShiftCount(v) = ShiftCount(v)
  BY DEF ShiftCount, Undisturbed!ShiftCount
<1>6. \A d, s : Undisturbed!ShiftLeft(d, s) = ShiftLeft(d, s)
  BY SameVocabulary, <1>1, <1>2, <1>5 DEF ShiftLeft, Undisturbed!ShiftLeft
<1>7. \A d, s : Undisturbed!ShiftRight(d, s) = ShiftRight(d, s)
  BY SameVocabulary, <1>1, <1>2, <1>5 DEF ShiftRight, Undisturbed!ShiftRight
<1>8. \A v : Undisturbed!NzFlags(v) = NzFlags(v)
  BY DEF NzFlags, Undisturbed!NzFlags
<1>9. \A d, s : Undisturbed!AddFlags(d, s) = AddFlags(d, s)
  BY SameVocabulary DEF AddFlags, Undisturbed!AddFlags
<1>10. \A d, s : Undisturbed!SubFlags(d, s) = SubFlags(d, s)
  BY SameVocabulary DEF SubFlags, Undisturbed!SubFlags
<1>11. \A v : Undisturbed!NegResult(v) = NegResult(v)
  BY SameVocabulary DEF NegResult, Undisturbed!NegResult
<1>12. \A v : Undisturbed!NegFlags(v) = NegFlags(v)
  BY <1>11 DEF NegFlags, Undisturbed!NegFlags
<1>13. \A v : Undisturbed!NotResult(v) = NotResult(v)
  BY SameVocabulary DEF NotResult, Undisturbed!NotResult
<1>14. \A o, d, s : Undisturbed!AluResult(o, d, s) = AluResult(o, d, s)
  <2>. SUFFICES ASSUME NEW o, NEW d, NEW s
                PROVE  Undisturbed!AluResult(o, d, s) = AluResult(o, d, s)
    OBVIOUS
  <2>. QED  BY SameVocabulary, <1>1, <1>2, <1>4, <1>6, <1>7 DEF AluResult, Undisturbed!AluResult
<1>15. \A o, d, s : Undisturbed!AluFlags(o, d, s) = AluFlags(o, d, s)
  BY <1>8, <1>9, <1>10, <1>14 DEF AluFlags, Undisturbed!AluFlags
<1>16. \A o, s : Undisturbed!DividesByZero(o, s) = DividesByZero(o, s)
  BY DEF DividesByZero, Undisturbed!DividesByZero
<1>17. \A o : Undisturbed!StoresResult(o) = StoresResult(o)
  BY DEF StoresResult, Undisturbed!StoresResult
<1>18. \A o, f : Undisturbed!Taken(o, f) = Taken(o, f)
  BY DEF Taken, Undisturbed!Taken
<1>19. \A w : Undisturbed!FlagsOf(w) = FlagsOf(w)
  BY DEF FlagsOf, Undisturbed!FlagsOf
<1>20. \A f : Undisturbed!FlagsWord(f) = FlagsWord(f)
  BY DEF FlagsWord, Undisturbed!FlagsWord
<1>. QED  BY <1>1, <1>2, <1>3, <1>4, <1>5, <1>6, <1>7, <1>8, <1>9, <1>10, <1>11, <1>12,
          <1>13, <1>14, <1>15, <1>16, <1>17, <1>18, <1>19, <1>20

\* the helpers,
LEMMA SameHelpers ==
    /\ \A s, e : Undisturbed!Raise(s, e) = Raise(s, e)
    /\ \A s, t : Undisturbed!Then(s, t) = Then(s, t)
    /\ \A s, f : Undisturbed!SetFlags(s, f) = SetFlags(s, f)
    /\ \A s, p : Undisturbed!JumpTo(s, p) = JumpTo(s, p)
    /\ \A s, n : Undisturbed!Tick(s, n) = Tick(s, n)
    /\ Undisturbed!Ports = Ports
    /\ \A a : Undisturbed!IsPort(a) = IsPort(a)
    /\ \A a : Undisturbed!IsMemory(a) = IsMemory(a)
    /\ \A s, a : Undisturbed!ReadWord(s, a) = ReadWord(s, a)
    /\ \A s, a : Undisturbed!AfterRead(s, a) = AfterRead(s, a)
    /\ \A s, a, v : Undisturbed!WriteWord(s, a, v) = WriteWord(s, a, v)
    /\ \A s : Undisturbed!Sp(s) = Sp(s)
    /\ \A s, v : Undisturbed!SetSp(s, v) = SetSp(s, v)
    /\ \A s, v : Undisturbed!PushValue(s, v) = PushValue(s, v)
    /\ \A s : Undisturbed!PoppedValue(s) = PoppedValue(s)
    /\ \A s : Undisturbed!AfterPop(s) = AfterPop(s)
    /\ \A o : Undisturbed!InRegister(o) = InRegister(o)
    /\ \A s, o : Undisturbed!ResolveAddress(s, o) = ResolveAddress(s, o)
    /\ \A s, o : Undisturbed!ReadOperand(s, o) = ReadOperand(s, o)
    /\ \A s, o : Undisturbed!AfterReadOperand(s, o) = AfterReadOperand(s, o)
    /\ \A s, o, v : Undisturbed!WriteOperand(s, o, v) = WriteOperand(s, o, v)
    /\ \A s, o : Undisturbed!JumpTarget(s, o) = JumpTarget(s, o)
    /\ \A s, o : Undisturbed!AfterJumpTarget(s, o) = AfterJumpTarget(s, o)
    /\ \A s : Undisturbed!InputIsDue(s) = InputIsDue(s)
    /\ \A s : Undisturbed!DeliverInput(s) = DeliverInput(s)
    /\ \A s : Undisturbed!TriggerInterrupt(s) = TriggerInterrupt(s)
    /\ \A s : Undisturbed!CheckInterrupts(s) = CheckInterrupts(s)
<1>1. \A s, e : Undisturbed!Raise(s, e) = Raise(s, e)
  BY DEF Raise, Undisturbed!Raise
<1>2. \A s, t : Undisturbed!Then(s, t) = Then(s, t)
  BY DEF Then, Undisturbed!Then
<1>3. \A s, f : Undisturbed!SetFlags(s, f) = SetFlags(s, f)
  BY <1>2 DEF SetFlags, Undisturbed!SetFlags
<1>4. \A s, p : Undisturbed!JumpTo(s, p) = JumpTo(s, p)
  BY <1>2 DEF JumpTo, Undisturbed!JumpTo
<1>5. \A s, n : Undisturbed!Tick(s, n) = Tick(s, n)
  BY <1>2 DEF Tick, Undisturbed!Tick
<1>6. Undisturbed!Ports = Ports
  BY SameVocabulary DEF Ports, Undisturbed!Ports
<1>7. \A a : Undisturbed!IsPort(a) = IsPort(a)
  BY SameVocabulary, <1>6 DEF IsPort, Undisturbed!IsPort
<1>8. \A a : Undisturbed!IsMemory(a) = IsMemory(a)
  BY SameVocabulary DEF IsMemory, Undisturbed!IsMemory
<1>9. \A s, a : Undisturbed!ReadWord(s, a) = ReadWord(s, a)
  BY SameVocabulary, <1>7, <1>8 DEF ReadWord, Undisturbed!ReadWord
<1>10. \A s, a : Undisturbed!AfterRead(s, a) = AfterRead(s, a)
  BY SameVocabulary, <1>1, <1>2, <1>7, <1>8 DEF AfterRead, Undisturbed!AfterRead
<1>11. \A s, a, v : Undisturbed!WriteWord(s, a, v) = WriteWord(s, a, v)
  BY SameVocabulary, <1>1, <1>2, <1>7, <1>8 DEF WriteWord, Undisturbed!WriteWord
<1>12. \A s : Undisturbed!Sp(s) = Sp(s)
  BY SameVocabulary DEF Sp, Undisturbed!Sp
<1>13. \A s, v : Undisturbed!SetSp(s, v) = SetSp(s, v)
  BY SameVocabulary, <1>2 DEF SetSp, Undisturbed!SetSp
<1>14. \A s, v : Undisturbed!PushValue(s, v) = PushValue(s, v)
  BY SameVocabulary, <1>11, <1>12, <1>13 DEF PushValue, Undisturbed!PushValue
<1>15. \A s : Undisturbed!PoppedValue(s) = PoppedValue(s)
  BY <1>9, <1>12 DEF PoppedValue, Undisturbed!PoppedValue
<1>16. \A s : Undisturbed!AfterPop(s) = AfterPop(s)
  BY SameVocabulary, <1>10, <1>12, <1>13 DEF AfterPop, Undisturbed!AfterPop
<1>17. \A o : Undisturbed!InRegister(o) = InRegister(o)
  BY DEF InRegister, Undisturbed!InRegister
<1>18. \A s, o : Undisturbed!ResolveAddress(s, o) = ResolveAddress(s, o)
  BY DEF ResolveAddress, Undisturbed!ResolveAddress
<1>19. \A s, o : Undisturbed!ReadOperand(s, o) = ReadOperand(s, o)
  BY <1>9, <1>18 DEF ReadOperand, Undisturbed!ReadOperand
<1>20. \A s, o : Undisturbed!AfterReadOperand(s, o) = AfterReadOperand(s, o)
  BY <1>10, <1>17, <1>18 DEF AfterReadOperand, Undisturbed!AfterReadOperand
<1>21. \A s, o, v : Undisturbed!WriteOperand(s, o, v) = WriteOperand(s, o, v)
  BY SameVocabulary, <1>1, <1>2, <1>11, <1>18 DEF WriteOperand, Undisturbed!WriteOperand
<1>22. \A s, o : Undisturbed!JumpTarget(s, o) = JumpTarget(s, o)
  BY <1>19 DEF JumpTarget, Undisturbed!JumpTarget
<1>23. \A s, o : Undisturbed!AfterJumpTarget(s, o) = AfterJumpTarget(s, o)
  BY <1>20 DEF AfterJumpTarget, Undisturbed!AfterJumpTarget
<1>24. \A s : Undisturbed!InputIsDue(s) = InputIsDue(s)
  BY DEF InputIsDue, Undisturbed!InputIsDue
<1>25. \A s : Undisturbed!DeliverInput(s) = DeliverInput(s)
  BY DEF DeliverInput, Undisturbed!DeliverInput
<1>26. \A s : Undisturbed!TriggerInterrupt(s) = TriggerInterrupt(s)
  BY SameArithmetic, <1>4, <1>5, <1>14 DEF TriggerInterrupt, Undisturbed!TriggerInterrupt
<1>27. \A s : Undisturbed!CheckInterrupts(s) = CheckInterrupts(s)
  BY <1>24, <1>25, <1>26 DEF CheckInterrupts, Undisturbed!CheckInterrupts
<1>. QED  BY <1>1, <1>2, <1>3, <1>4, <1>5, <1>6, <1>7, <1>8, <1>9, <1>10, <1>11, <1>12,
          <1>13, <1>14, <1>15, <1>16, <1>17, <1>18, <1>19, <1>20, <1>21, <1>22, <1>23,
          <1>24, <1>25, <1>26, <1>27

\* and the instructions,
LEMMA SameInstructions ==
    /\ \A s, a, b : Undisturbed!Move(s, a, b) = Move(s, a, b)
    /\ \A s, a, b : Undisturbed!Lea(s, a, b) = Lea(s, a, b)
    /\ \A s, a : Undisturbed!Push(s, a) = Push(s, a)
    /\ \A s, a : Undisturbed!Pop(s, a) = Pop(s, a)
    /\ \A s, o, a, b : Undisturbed!AluInstr(s, o, a, b) = AluInstr(s, o, a, b)
    /\ \A s, a : Undisturbed!Neg(s, a) = Neg(s, a)
    /\ \A s, a : Undisturbed!Not(s, a) = Not(s, a)
    /\ \A s, o, a : Undisturbed!Jump(s, o, a) = Jump(s, o, a)
    /\ \A s, a : Undisturbed!Call(s, a) = Call(s, a)
    /\ \A s : Undisturbed!Ret(s) = Ret(s)
    /\ \A s : Undisturbed!Iret(s) = Iret(s)
<1>1. \A s, a, b : Undisturbed!Move(s, a, b) = Move(s, a, b)
  BY SameArithmetic, SameHelpers DEF Move, Undisturbed!Move
<1>2. \A s, a, b : Undisturbed!Lea(s, a, b) = Lea(s, a, b)
  BY SameHelpers DEF Lea, Undisturbed!Lea
<1>3. \A s, a : Undisturbed!Push(s, a) = Push(s, a)
  BY SameHelpers DEF Push, Undisturbed!Push
<1>4. \A s, a : Undisturbed!Pop(s, a) = Pop(s, a)
  BY SameHelpers DEF Pop, Undisturbed!Pop
<1>5. \A s, o, a, b : Undisturbed!AluInstr(s, o, a, b) = AluInstr(s, o, a, b)
  BY SameArithmetic, SameHelpers DEF AluInstr, Undisturbed!AluInstr
<1>6. \A s, a : Undisturbed!Neg(s, a) = Neg(s, a)
  BY SameArithmetic, SameHelpers DEF Neg, Undisturbed!Neg
<1>7. \A s, a : Undisturbed!Not(s, a) = Not(s, a)
  BY SameArithmetic, SameHelpers DEF Not, Undisturbed!Not
<1>8. \A s, o, a : Undisturbed!Jump(s, o, a) = Jump(s, o, a)
  BY SameArithmetic, SameHelpers DEF Jump, Undisturbed!Jump
<1>9. \A s, a : Undisturbed!Call(s, a) = Call(s, a)
  BY SameHelpers DEF Call, Undisturbed!Call
<1>10. \A s : Undisturbed!Ret(s) = Ret(s)
  BY SameHelpers DEF Ret, Undisturbed!Ret
<1>11. \A s : Undisturbed!Iret(s) = Iret(s)
  BY SameArithmetic, SameHelpers DEF Iret, Undisturbed!Iret
<1>. QED  BY <1>1, <1>2, <1>3, <1>4, <1>5, <1>6, <1>7, <1>8, <1>9, <1>10, <1>11

\* so that its step is the same function of its state.
LEMMA UndisturbedAttempts ==
    ASSUME IsImage(image)
    PROVE  Undisturbed!Step <=> Undisturbed!Running /\ shadow' = Attempted(Undisturbed!Polled)
<1>1. CASE ~Undisturbed!Fetches
  BY <1>1, SameHelpers
  DEF Undisturbed!Fetches, Attempted, Undisturbed!Step, Undisturbed!NopStep,
      Undisturbed!HaltStep, Undisturbed!MoveStep, Undisturbed!LeaStep,
      Undisturbed!PushStep, Undisturbed!PopStep, Undisturbed!AluStep,
      Undisturbed!NegStep, Undisturbed!NotStep, Undisturbed!JumpStep,
      Undisturbed!CallStep, Undisturbed!RetStep, Undisturbed!IretStep,
      Undisturbed!EiStep, Undisturbed!DiStep, Undisturbed!Executing,
      Undisturbed!MissingOperand, Undisturbed!FetchError, Undisturbed!TrapError
<1>2. CASE Undisturbed!Fetches
  <2>1. Undisturbed!Step <=> Acts(Undisturbed!Fetched, Undisturbed!Decoded.instr.opcode, Undisturbed!Ops, shadow')
    <3>1. ~Undisturbed!FetchError /\ ~Undisturbed!TrapError
      BY <1>2 DEF Undisturbed!Fetches, Undisturbed!FetchError, Undisturbed!TrapError
    <3>. QED
      BY <1>2, <3>1, SameVocabulary, SameHelpers, SameInstructions
      DEF Acts, Undisturbed!Step, Undisturbed!NopStep, Undisturbed!HaltStep,
          Undisturbed!MoveStep, Undisturbed!LeaStep, Undisturbed!PushStep,
          Undisturbed!PopStep, Undisturbed!AluStep, Undisturbed!NegStep,
          Undisturbed!NotStep, Undisturbed!JumpStep, Undisturbed!CallStep,
          Undisturbed!RetStep, Undisturbed!IretStep, Undisturbed!EiStep,
          Undisturbed!DiStep, Undisturbed!Executing, Undisturbed!MissingOperand
  <2>2. Undisturbed!Decoded.instr.opcode \in OpCode /\ Len(Undisturbed!Ops) \in Nat
    BY <1>2 DEF Undisturbed!Fetches, IsImage, Undisturbed!Ops, Undisturbed!Decoded
  <2>3. Undisturbed!Running /\ Attempted(Undisturbed!Polled) = Executed(Undisturbed!Fetched, Undisturbed!Decoded.instr)
    BY <1>2 DEF Undisturbed!Fetches, Attempted, Undisturbed!Fetched, Undisturbed!Decoded
  <2>. QED  BY <2>1, <2>2, <2>3, ActsAsExecuted DEF Undisturbed!Ops
<1>. QED  BY <1>1, <1>2

-----------------------------------------------------------------------------
(* Two processors in the middle of the same instruction.                   *)

\* They agree on all that the instructions use, but for the memory: there on
\* the words in k.live and, unless an exception is pending, on those in W,
\* which the instruction has written.  The second is not ahead and has the
\* events in k.schedule to come; both or neither are in a handler, as k.masked says.
Twins(k, W, s, t) ==
    /\ s \in MachineState /\ t \in MachineState
    /\ t.pc = s.pc /\ t.flags = s.flags /\ t.d_regs = s.d_regs /\ t.a_regs = s.a_regs
    /\ t.halted = s.halted /\ t.raised = s.raised
    /\ t.tick_counter <= s.tick_counter
    /\ s.in_interrupt_handler = k.masked /\ t.in_interrupt_handler = k.masked
    /\ t.input_schedule = k.schedule
    /\ \A a \in DataAddress :
          a \in k.live \/ (a \in W /\ s.raised = "none") => t.data_memory[a] = s.data_memory[a]

\* The helpers that touch neither memory nor ports keep twins twins,
LEMMA QuietTwins ==
    ASSUME NEW k, NEW W, NEW s, NEW t, Twins(k, W, s, t)
    PROVE  /\ \A pc \in ProgramCounter : Twins(k, W, JumpTo(s, pc), JumpTo(t, pc))
           /\ \A f \in Flags : Twins(k, W, SetFlags(s, f), SetFlags(t, f))
           /\ \A e \in Exceptions : Twins(k, W, Raise(s, e), Raise(t, e))
           /\ \A n \in Nat : Twins(k, W, Tick(s, n), Tick(t, n))
           /\ \A sp : (s.raised = "none" => sp \in Word) => Twins(k, W, SetSp(s, sp), SetSp(t, sp))
<1>1. s \in MachineState /\ t \in MachineState /\ t.raised = s.raised
  BY DEF Twins
<1>2. ASSUME NEW pc \in ProgramCounter PROVE Twins(k, W, JumpTo(s, pc), JumpTo(t, pc))
  <2>1. JumpTo(s, pc) \in MachineState /\ JumpTo(t, pc) \in MachineState
    BY <1>1, JumpToType DEF Same
  <2>. QED  BY <1>1, <2>1 DEF Twins, JumpTo, Then, MachineState
<1>3. ASSUME NEW f \in Flags PROVE Twins(k, W, SetFlags(s, f), SetFlags(t, f))
  <2>1. SetFlags(s, f) \in MachineState /\ SetFlags(t, f) \in MachineState
    BY <1>1, SetFlagsType DEF Same
  <2>. QED  BY <1>1, <2>1 DEF Twins, SetFlags, Then, MachineState
<1>4. ASSUME NEW e \in Exceptions PROVE Twins(k, W, Raise(s, e), Raise(t, e))
  <2>1. Raise(s, e) \in MachineState /\ Raise(t, e) \in MachineState
    BY <1>1, RaiseType DEF Same
  <2>. QED  BY <1>1, <2>1 DEF Twins, Raise, MachineState
<1>5. ASSUME NEW n \in Nat PROVE Twins(k, W, Tick(s, n), Tick(t, n))
  <2>1. Tick(s, n) \in MachineState /\ Tick(t, n) \in MachineState
    BY <1>1, TickType
  <2>2. Tick(t, n).tick_counter <= Tick(s, n).tick_counter
    BY <1>1 DEF Twins, Tick, Then, MachineState
  <2>. QED  BY <1>1, <2>1, <2>2 DEF Twins, Tick, Then, MachineState
<1>6. ASSUME NEW sp, s.raised = "none" => sp \in Word
      PROVE  Twins(k, W, SetSp(s, sp), SetSp(t, sp))
  <2>1. SetSp(s, sp) \in MachineState /\ SetSp(t, sp) \in MachineState
    BY <1>1, <1>6, SetSpType DEF Same
  <2>. QED  BY <1>1, <2>1 DEF Twins, SetSp, Then, MachineState
<1>. QED  BY <1>2, <1>3, <1>4, <1>5, <1>6

\* u differs from s in the ports or in the interrupt mask at most, which
\* twins need not agree on.
PortsAside(u, s) ==
    /\ u.pc = s.pc /\ u.flags = s.flags /\ u.d_regs = s.d_regs /\ u.a_regs = s.a_regs
    /\ u.halted = s.halted /\ u.raised = s.raised /\ u.tick_counter = s.tick_counter
    /\ u.in_interrupt_handler = s.in_interrupt_handler /\ u.data_memory = s.data_memory

LEMMA TwinsPortsAside ==
    ASSUME NEW k, NEW W, NEW s, NEW t, Twins(k, W, s, t),
           NEW u \in MachineState, PortsAside(u, s),
           NEW w \in MachineState, PortsAside(w, t), w.input_schedule = t.input_schedule
    PROVE  Twins(k, W, u, w)
BY DEF Twins, PortsAside

\* No word of the memory is a port.
LEMMA PortsApart ==
    ASSUME NEW a \in DataAddress
    PROVE  to_u32(a) \notin Ports
<1>1. a \in Int /\ a >= 0 /\ a < SIGN_BIT - WORD_BYTES /\ SIGN_BIT \in Nat
  BY IsaAssumption DEF DataAddress, DataMemorySize, IsaAssumption, WORD_BYTES
<1>2. to_u32(a) = a
  BY <1>1 DEF to_u32, WORD_BYTES
<1>. QED
  BY <1>1, <1>2, IsaAssumption
  DEF Ports, IsaAssumption, IO_INPUT_STATUS, IO_OUTPUT_DATA, IO_OUTPUT_STATUS, WORD_BYTES

\* reads,
LEMMA ReadTwins ==
    ASSUME NEW k, NEW W, NEW s, NEW t, Twins(k, W, s, t), NEW a \in Int
    PROVE  Twins(k, W, AfterRead(s, a), AfterRead(t, a))
<1>1. s \in MachineState /\ t \in MachineState /\ t.raised = s.raised
  BY DEF Twins
<1>2. AfterRead(s, a) \in MachineState /\ AfterRead(t, a) \in MachineState
  BY <1>1, AfterReadType DEF Same
<1>3. CASE s.raised # "none" \/ (to_u32(a) # IO_INPUT_DATA /\ (IsPort(a) \/ IsMemory(a)))
  BY <1>1, <1>3 DEF AfterRead, Then
<1>4. CASE s.raised = "none" /\ to_u32(a) = IO_INPUT_DATA
  <2>1. /\ AfterRead(s, a) = [s EXCEPT !.input_status = 0]
        /\ AfterRead(t, a) = [t EXCEPT !.input_status = 0]
    BY <1>1, <1>4 DEF AfterRead, Then
  <2>2. PortsAside(AfterRead(s, a), s)
    BY <1>1, <2>1 DEF PortsAside, MachineState
  <2>3. PortsAside(AfterRead(t, a), t) /\ AfterRead(t, a).input_schedule = t.input_schedule
    BY <1>1, <2>1 DEF PortsAside, MachineState
  <2>. QED  BY <1>2, <2>2, <2>3, TwinsPortsAside
<1>5. CASE s.raised = "none" /\ to_u32(a) # IO_INPUT_DATA /\ ~IsPort(a) /\ ~IsMemory(a)
  <2>1. /\ AfterRead(s, a) = Raise(s, "ValueError")
        /\ AfterRead(t, a) = Raise(t, "ValueError")
    BY <1>1, <1>5 DEF AfterRead, Then
  <2>. QED  BY <2>1, QuietTwins DEF Exceptions
<1>. QED  BY <1>3, <1>4, <1>5

\* and writes, which make them agree on one more word.
LEMMA WriteTwins ==
    ASSUME NEW k, NEW W, NEW s, NEW t, Twins(k, W, s, t), NEW a \in Int, NEW v \in Int
    PROVE  Twins(k, W \cup {a}, WriteWord(s, a, v), WriteWord(t, a, v))
<1>1. s \in MachineState /\ t \in MachineState /\ t.raised = s.raised
  BY DEF Twins
<1>2. WriteWord(s, a, v) \in MachineState /\ WriteWord(t, a, v) \in MachineState
  BY <1>1, WriteWordType DEF Same
<1>3. IsPort(a) => a \notin DataAddress
  BY PortsApart DEF IsPort
<1>4. CASE s.raised # "none" \/ (to_u32(a) # IO_OUTPUT_DATA /\ IsPort(a))
  <2>1. WriteWord(s, a, v) = s /\ WriteWord(t, a, v) = t
    BY <1>1, <1>4 DEF WriteWord, Then
  <2>. QED  BY <1>1, <1>3, <1>4, <2>1 DEF Twins
<1>5. CASE s.raised = "none" /\ to_u32(a) = IO_OUTPUT_DATA
  <2>1. /\ WriteWord(s, a, v) = [s EXCEPT !.output_buffer = Append(@, v % 256)]
        /\ WriteWord(t, a, v) = [t EXCEPT !.output_buffer = Append(@, v % 256)]
    BY <1>1, <1>5 DEF WriteWord, Then
  <2>2. a \notin DataAddress
    BY <1>3, <1>5 DEF IsPort, Ports
  <2>3. PortsAside(WriteWord(s, a, v), s)
    BY <1>1, <2>1 DEF PortsAside, MachineState
  <2>4. PortsAside(WriteWord(t, a, v), t) /\ WriteWord(t, a, v).input_schedule = t.input_schedule
    BY <1>1, <2>1 DEF PortsAside, MachineState
  <2>5. Twins(k, W, WriteWord(s, a, v), WriteWord(t, a, v))
    BY <1>2, <2>3, <2>4, TwinsPortsAside
  <2>. QED  BY <2>2, <2>5 DEF Twins
<1>6. CASE s.raised = "none" /\ to_u32(a) # IO_OUTPUT_DATA /\ ~IsPort(a) /\ IsMemory(a)
  <2>1. /\ WriteWord(s, a, v) = [s EXCEPT !.data_memory[a] = to_i32(v)]
        /\ WriteWord(t, a, v) = [t EXCEPT !.data_memory[a] = to_i32(v)]
    BY <1>1, <1>6 DEF WriteWord, Then
  <2>2. s.data_memory \in [DataAddress -> Word] /\ t.data_memory \in [DataAddress -> Word]
    BY <1>1 DEF MachineState
  <2>3. ASSUME NEW b \in DataAddress, b \in k.live \/ b \in W \cup {a}
        PROVE  WriteWord(t, a, v).data_memory[b] = WriteWord(s, a, v).data_memory[b]
    BY <1>1, <1>6, <2>1, <2>2, <2>3 DEF Twins, MachineState
  <2>. HIDE DEF MachineState
  <2>. QED  BY <1>1, <1>2, <2>1, <2>3 DEF Twins, MachineState
<1>7. CASE s.raised = "none" /\ to_u32(a) # IO_OUTPUT_DATA /\ ~IsPort(a) /\ ~IsMemory(a)
  <2>1. /\ WriteWord(s, a, v) = Raise(s, "ValueError")
        /\ WriteWord(t, a, v) = Raise(t, "ValueError")
    BY <1>1, <1>7 DEF WriteWord, Then
  <2>2. Twins(k, W \cup {a}, s, t)
    BY <1>7 DEF Twins, IsMemory
  <2>. QED  BY <2>1, <2>2, QuietTwins DEF Exceptions
<1>. QED  BY <1>4, <1>5, <1>6, <1>7

\* The word at address a is the same for both, because they are the same or
\* because it is in memory that they agree on or is an output port.
Legible(k, s, t, a) ==
    \/ s = t
    \/ /\ a \in DataAddress => a \in k.live
       /\ to_u32(a) \notin {IO_INPUT_DATA, IO_INPUT_STATUS}

Readable(k, s, t, A) == \A a \in A : Legible(k, s, t, a)

LEMMA SameWords ==
    ASSUME NEW k, NEW W, NEW s, NEW t, Twins(k, W, s, t), NEW a, Legible(k, s, t, a)
    PROVE  ReadWord(t, a) = ReadWord(s, a)
<1>1. CASE s = t
  BY <1>1
<1>2. CASE s # t
  <2>1. to_u32(a) # IO_INPUT_DATA /\ to_u32(a) # IO_INPUT_STATUS
    BY <1>2 DEF Legible
  <2>2. IsMemory(a) => t.data_memory[a] = s.data_memory[a]
    BY <1>2 DEF Legible, Twins, IsMemory
  <2>. QED  BY <2>1, <2>2 DEF ReadWord
<1>. QED  BY <1>1, <1>2

\* Pushes and pops keep twins twins.
LEMMA StackTwins ==
    ASSUME NEW k, NEW W, NEW s, NEW t, Twins(k, W, s, t)
    PROVE  /\ Sp(t) = Sp(s)
           /\ \A v \in Int : Twins(k, W \cup {Sp(s) - WORD_BYTES}, PushValue(s, v), PushValue(t, v))
           /\ Twins(k, W, AfterPop(s), AfterPop(t))
           /\ Legible(k, s, t, Sp(s)) => PoppedValue(t) = PoppedValue(s)
<1>1. s \in MachineState /\ t \in MachineState /\ Sp(t) = Sp(s)
  BY DEF Twins, Sp
<1>2. Sp(s) \in Word /\ Sp(s) \in Int /\ Sp(s) - WORD_BYTES \in Int
  BY <1>1, SpType
<1>3. ASSUME NEW v \in Int
      PROVE  Twins(k, W \cup {Sp(s) - WORD_BYTES}, PushValue(s, v), PushValue(t, v))
  <2>. DEFINE a == Sp(s) - WORD_BYTES
              V == W \cup {a}
              u == WriteWord(s, a, v)
              w == WriteWord(t, a, v)
  <2>1. a \in Int /\ Twins(k, V, u, w)
    BY <1>2, <1>3, WriteTwins
  <2>2. u.raised = "none" => a \in Word
    BY <1>1, <1>2, <1>3, WriteWordType, StackStep
  <2>3. PushValue(s, v) = SetSp(u, a) /\ PushValue(t, v) = SetSp(w, a)
    BY <1>1 DEF PushValue
  <2>. HIDE DEF u, w, a
  <2>4. Twins(k, V, SetSp(u, a), SetSp(w, a))
    <3>. HIDE DEF V
    <3>. QED  BY <2>1, <2>2, QuietTwins
  <2>. QED  BY <2>3, <2>4 DEF a
<1>4. Twins(k, W, AfterPop(s), AfterPop(t))
  <2>. DEFINE a == Sp(s) + WORD_BYTES
              u == AfterRead(s, Sp(s))
              w == AfterRead(t, Sp(s))
  <2>1. Twins(k, W, u, w)
    BY <1>2, ReadTwins
  <2>2. u.raised = "none" => a \in Word
    BY <1>1, <1>2, AfterReadType, StackStep
  <2>3. AfterPop(s) = SetSp(u, a) /\ AfterPop(t) = SetSp(w, a)
    BY <1>1 DEF AfterPop
  <2>. HIDE DEF u, w, a
  <2>. QED  BY <2>1, <2>2, <2>3, QuietTwins
<1>5. Legible(k, s, t, Sp(s)) => PoppedValue(t) = PoppedValue(s)
  BY <1>1, SameWords DEF PoppedValue
<1>. QED  BY <1>1, <1>3, <1>4, <1>5

\* An operand's address depends on the address registers alone, which a read
\* leaves as they are.
LEMMA Addresses ==
    ASSUME NEW s, NEW u, u.a_regs = s.a_regs, NEW op
    PROVE  /\ ResolveAddress(u, op) = ResolveAddress(s, op)
           /\ AddressOf(u, op) = AddressOf(s, op)
<1>1. ResolveAddress(u, op) = ResolveAddress(s, op)
  BY DEF ResolveAddress
<1>. QED  BY <1>1 DEF AddressOf

LEMMA ReadKeepsRegisters ==
    ASSUME NEW s \in MachineState, NEW op \in Operand
    PROVE  AfterReadOperand(s, op).a_regs = s.a_regs
<1>1. CASE op.kind = "IMM" \/ InRegister(op)
  BY <1>1 DEF AfterReadOperand
<1>2. CASE ~(op.kind = "IMM" \/ InRegister(op))
  <2>1. op.kind \in {"ABS", "IND_A", "IND_A_DISP"}
    BY <1>2, OperandFields DEF InRegister, OperandKind
  <2>2. ResolveAddress(s, op) \in Int
    BY <2>1, ResolveAddressType
  <2>. QED  BY <1>2, <2>2, AfterReadType DEF AfterReadOperand
<1>. QED  BY <1>1, <1>2

\* u differs from s in the registers at most.
RegistersAside(u, s) ==
    /\ u.pc = s.pc /\ u.flags = s.flags /\ u.halted = s.halted /\ u.raised = s.raised
    /\ u.tick_counter = s.tick_counter /\ u.in_interrupt_handler = s.in_interrupt_handler
    /\ u.input_schedule = s.input_schedule /\ u.data_memory = s.data_memory

\* What an operand reads is the same for both.
LEMMA SameOperands ==
    ASSUME NEW k, NEW W, NEW s, NEW t, Twins(k, W, s, t), NEW op \in Operand,
           Readable(k, s, t, AddressOf(s, op))
    PROVE  ReadOperand(t, op) = ReadOperand(s, op)
<1>1. t.a_regs = s.a_regs /\ t.d_regs = s.d_regs
  BY DEF Twins
<1>2. CASE op.kind \in {"IMM", "DREG", "AREG"}
  BY <1>1, <1>2 DEF ReadOperand
<1>3. CASE op.kind \in {"ABS", "IND_A", "IND_A_DISP"}
  <2>. DEFINE a == ResolveAddress(s, op)
  <2>1. ResolveAddress(t, op) = a
    BY <1>1, Addresses
  <2>2. AddressOf(s, op) = {a}
    BY <1>3 DEF AddressOf, InRegister
  <2>3. ReadOperand(s, op) = ReadWord(s, a) /\ ReadOperand(t, op) = ReadWord(t, a)
    BY <1>3, <2>1 DEF ReadOperand
  <2>4. Legible(k, s, t, a)
    BY <2>2 DEF Readable
  <2>. HIDE DEF a
  <2>. QED  BY <2>3, <2>4, SameWords
<1>. QED  BY <1>2, <1>3, OperandFields DEF OperandKind

\* Reads and writes of operands keep twins twins.
LEMMA OperandTwins ==
    ASSUME NEW k, NEW W, NEW s, NEW t, Twins(k, W, s, t), NEW op \in Operand
    PROVE  /\ Twins(k, W, AfterReadOperand(s, op), AfterReadOperand(t, op))
           /\ \A v \in Int : Twins(k, W \cup AddressOf(s, op),
                                   WriteOperand(s, op, v), WriteOperand(t, op, v))
<1>1. /\ s \in MachineState /\ t \in MachineState /\ t.raised = s.raised
      /\ t.a_regs = s.a_regs /\ t.d_regs = s.d_regs
  BY DEF Twins
<1>2. CASE op.kind \in {"IMM", "DREG", "AREG"}
  <2>1. op.kind = "IMM" \/ InRegister(op)
    BY <1>2 DEF InRegister
  <2>2. AfterReadOperand(s, op) = s /\ AfterReadOperand(t, op) = t /\ AddressOf(s, op) = {}
    BY <2>1 DEF AfterReadOperand, AddressOf
  <2>4. ASSUME NEW v \in Int PROVE Twins(k, W, WriteOperand(s, op, v), WriteOperand(t, op, v))
    <3>1. WriteOperand(s, op, v) \in MachineState /\ WriteOperand(t, op, v) \in MachineState
      BY <1>1, WriteOperandType DEF Same
    <3>2. CASE op.kind = "IMM"
      BY <3>2, QuietTwins DEF WriteOperand, Exceptions
    <3>3. CASE op.kind # "IMM" /\ s.raised # "none"
      <4>1. WriteOperand(s, op, v) = s /\ WriteOperand(t, op, v) = t
        BY <1>1, <1>2, <3>3 DEF WriteOperand, Then
      <4>. QED  BY <4>1
    <3>4. CASE op.kind = "DREG" /\ s.raised = "none"
      <4>1. /\ WriteOperand(s, op, v) = [s EXCEPT !.d_regs[op.value] = to_i32(v)]
            /\ WriteOperand(t, op, v) = [t EXCEPT !.d_regs[op.value] = to_i32(v)]
        BY <1>1, <3>4 DEF WriteOperand, Then
      <4>2. /\ RegistersAside(WriteOperand(s, op, v), s) /\ RegistersAside(WriteOperand(t, op, v), t)
            /\ WriteOperand(s, op, v).d_regs = [s.d_regs EXCEPT ![op.value] = to_i32(v)]
            /\ WriteOperand(t, op, v).d_regs = [t.d_regs EXCEPT ![op.value] = to_i32(v)]
            /\ WriteOperand(s, op, v).a_regs = s.a_regs
            /\ WriteOperand(t, op, v).a_regs = t.a_regs
        BY <1>1, <4>1 DEF RegistersAside, MachineState
      <4>. QED  BY <1>1, <3>1, <4>2 DEF Twins, RegistersAside
    <3>5. CASE op.kind = "AREG" /\ s.raised = "none"
      <4>1. /\ WriteOperand(s, op, v) = [s EXCEPT !.a_regs[op.value] = to_i32(v)]
            /\ WriteOperand(t, op, v) = [t EXCEPT !.a_regs[op.value] = to_i32(v)]
        BY <1>1, <3>5 DEF WriteOperand, Then
      <4>2. /\ RegistersAside(WriteOperand(s, op, v), s) /\ RegistersAside(WriteOperand(t, op, v), t)
            /\ WriteOperand(s, op, v).a_regs = [s.a_regs EXCEPT ![op.value] = to_i32(v)]
            /\ WriteOperand(t, op, v).a_regs = [t.a_regs EXCEPT ![op.value] = to_i32(v)]
            /\ WriteOperand(s, op, v).d_regs = s.d_regs
            /\ WriteOperand(t, op, v).d_regs = t.d_regs
        BY <1>1, <4>1 DEF RegistersAside, MachineState
      <4>. QED  BY <1>1, <3>1, <4>2 DEF Twins, RegistersAside
    <3>. QED  BY <1>2, <3>2, <3>3, <3>4, <3>5
  <2>5. W \cup AddressOf(s, op) = W
    BY <2>2
  <2>. QED  BY <2>2, <2>4, <2>5
<1>3. CASE op.kind \in {"ABS", "IND_A", "IND_A_DISP"}
  <2>. DEFINE a == ResolveAddress(s, op)
  <2>1. a \in Int /\ ResolveAddress(t, op) = a
    BY <1>1, <1>3, ResolveAddressType, Addresses
  <2>2. /\ ~(op.kind = "IMM" \/ InRegister(op))
        /\ AddressOf(s, op) = {a}
    BY <1>3 DEF AddressOf, InRegister
  <2>3. /\ AfterReadOperand(s, op) = AfterRead(s, a) /\ AfterReadOperand(t, op) = AfterRead(t, a)
        /\ \A v : /\ WriteOperand(s, op, v) = WriteWord(s, a, v)
                  /\ WriteOperand(t, op, v) = WriteWord(t, a, v)
    BY <1>3, <2>1, <2>2 DEF AfterReadOperand, WriteOperand
  <2>. HIDE DEF a
  <2>. QED  BY <2>1, <2>2, <2>3, ReadTwins, WriteTwins
<1>. QED  BY <1>2, <1>3, OperandFields DEF OperandKind

\* The address that a jump through op reads.
TargetAddress(s, op) == IF op.kind = "IND_A_DISP" THEN AddressOf(s, op) ELSE {}

\* So does the resolution of a jump.
LEMMA TargetTwins ==
    ASSUME NEW k, NEW W, NEW s, NEW t, Twins(k, W, s, t), NEW op \in Operand
    PROVE  /\ Twins(k, W, AfterJumpTarget(s, op), AfterJumpTarget(t, op))
           /\ Readable(k, s, t, TargetAddress(s, op)) =>
                  JumpTarget(t, op) = JumpTarget(s, op)
<1>1. t.a_regs = s.a_regs
  BY DEF Twins
<1>2. Twins(k, W, AfterJumpTarget(s, op), AfterJumpTarget(t, op))
  BY OperandTwins DEF AfterJumpTarget
<1>3. ASSUME Readable(k, s, t, TargetAddress(s, op))
      PROVE  JumpTarget(t, op) = JumpTarget(s, op)
  <2>1. CASE op.kind \in {"ABS", "IMM", "AREG", "IND_A"}
    BY <1>1, <2>1 DEF JumpTarget
  <2>2. CASE op.kind \in {"DREG", "IND_A_DISP"}
    <3>1. Readable(k, s, t, AddressOf(s, op))
      BY <1>3, <2>2 DEF Readable, TargetAddress, AddressOf, InRegister
    <3>2. ReadOperand(t, op) = ReadOperand(s, op)
      BY <3>1, SameOperands
    <3>. QED  BY <2>2, <3>2 DEF JumpTarget
  <2>. QED  BY <2>1, <2>2, OperandFields DEF OperandKind
<1>. QED  BY <1>2, <1>3

-----------------------------------------------------------------------------
(* Two processors that execute the same instruction.                       *)

\* With an exception pending nothing is said of the words written,
LEMMA RaisedTwins ==
    ASSUME NEW k, NEW W, NEW V, NEW s, NEW t, Twins(k, W, s, t),
           NEW e \in Exceptions \ {"none"}
    PROVE  Twins(k, V, Raise(s, e), Raise(t, e))
<1>1. Twins(k, W, Raise(s, e), Raise(t, e))
  BY QuietTwins
<1>2. Raise(s, e).raised # "none"
  BY DEF Raise, Twins, MachineState
<1>. QED  BY <1>1, <1>2 DEF Twins

\* and what both could read at first they can read after they have read.
LEMMA StillReadable ==
    ASSUME NEW k, NEW s, NEW t, NEW u, NEW w, s = t => u = w, NEW A, Readable(k, s, t, A)
    PROVE  Readable(k, u, w, A)
BY DEF Readable, Legible

\* What the instructions do once they have read: set flags, write, tick.
LEMMA StoreTwins ==
    ASSUME NEW k, NEW W, NEW s, NEW t, Twins(k, W, s, t),
           NEW op \in Operand, NEW v \in Int, NEW f \in Flags, NEW n \in Nat
    PROVE  /\ Twins(k, W \cup AddressOf(s, op),
                    Tick(WriteOperand(s, op, v), n), Tick(WriteOperand(t, op, v), n))
           /\ Twins(k, W \cup AddressOf(s, op),
                    Tick(WriteOperand(SetFlags(s, f), op, v), n),
                    Tick(WriteOperand(SetFlags(t, f), op, v), n))
           /\ Twins(k, W \cup AddressOf(s, op),
                    Tick(SetFlags(WriteOperand(s, op, v), f), n),
                    Tick(SetFlags(WriteOperand(t, op, v), f), n))
<1>. DEFINE V == W \cup AddressOf(s, op)
            su == WriteOperand(s, op, v)
            tu == WriteOperand(t, op, v)
            sf == SetFlags(s, f)
            tf == SetFlags(t, f)
<1>1. Twins(k, V, su, tu)
  BY OperandTwins
<1>2. Twins(k, W, sf, tf)
  BY QuietTwins
<1>3. AddressOf(sf, op) = AddressOf(s, op)
  <2>1. sf.a_regs = s.a_regs
    BY DEF SetFlags, Then, Twins, MachineState
  <2>. QED  BY <2>1, Addresses
<1>. HIDE DEF sf, tf
<1>4. Twins(k, V, WriteOperand(sf, op, v), WriteOperand(tf, op, v))
  BY <1>2, <1>3, OperandTwins
<1>. HIDE DEF V, su, tu
<1>5. Twins(k, V, SetFlags(su, f), SetFlags(tu, f))
  BY <1>1, QuietTwins
<1>6. ASSUME NEW u, NEW w, Twins(k, V, u, w) PROVE Twins(k, V, Tick(u, n), Tick(w, n))
  BY <1>6, QuietTwins
<1>. QED  BY <1>1, <1>4, <1>5, <1>6 DEF V, su, tu, sf, tf

\* MOVE,
LEMMA MoveTwins ==
    ASSUME NEW k, NEW W, NEW s, NEW t, Twins(k, W, s, t),
           NEW src \in Operand, NEW dest \in Operand, Readable(k, s, t, AddressOf(s, src))
    PROVE  Twins(k, W \cup AddressOf(s, dest), Move(s, src, dest), Move(t, src, dest))
<1>. DEFINE val == ReadOperand(s, src)
            u == AfterReadOperand(s, src)
            w == AfterReadOperand(t, src)
<1>1. s \in MachineState
  BY DEF Twins
<1>2. val \in Int /\ NzFlags(val) \in Flags /\ ReadOperand(t, src) = val
  <2>1. val \in Int
    BY <1>1, ReadOperandType, WordInt
  <2>2. ReadOperand(t, src) = val
    BY SameOperands
  <2>. HIDE DEF val
  <2>. QED  BY <2>1, <2>2, NzFlagsType
<1>3. Twins(k, W, u, w) /\ AddressOf(u, dest) = AddressOf(s, dest)
  BY <1>1, OperandTwins, ReadKeepsRegisters, Addresses
<1>4. /\ Move(s, src, dest) = Tick(SetFlags(WriteOperand(u, dest, val), NzFlags(val)), 2)
      /\ Move(t, src, dest) = Tick(SetFlags(WriteOperand(w, dest, val), NzFlags(val)), 2)
  BY <1>2 DEF Move
<1>. HIDE DEF val, u, w
<1>. QED  BY <1>2, <1>3, <1>4, StoreTwins

\* LEA,
LEMMA LeaTwins ==
    ASSUME NEW k, NEW W, NEW s, NEW t, Twins(k, W, s, t),
           NEW src \in Operand, NEW dest \in Operand
    PROVE  Twins(k, W, Lea(s, src, dest), Lea(t, src, dest))
<1>1. CASE dest.kind # "AREG" \/ src.kind = "IMM" \/ InRegister(src)
  BY <1>1, QuietTwins DEF Lea, Exceptions
<1>2. CASE ~(dest.kind # "AREG" \/ src.kind = "IMM" \/ InRegister(src))
  <2>. DEFINE address == ResolveAddress(s, src)
  <2>1. s \in MachineState /\ t.a_regs = s.a_regs
    BY DEF Twins
  <2>2. src.kind \in {"ABS", "IND_A", "IND_A_DISP"}
    BY <1>2, OperandFields DEF OperandKind, InRegister
  <2>3. address \in Int /\ ResolveAddress(t, src) = address
    BY <2>1, <2>2, ResolveAddressType, Addresses
  <2>4. W \cup AddressOf(s, dest) = W /\ Flags # {}
    BY <1>2, NzFlagsType DEF AddressOf, InRegister
  <2>5. /\ Lea(s, src, dest) = Tick(WriteOperand(s, dest, address), 2)
        /\ Lea(t, src, dest) = Tick(WriteOperand(t, dest, address), 2)
    BY <1>2, <2>3 DEF Lea
  <2>. HIDE DEF address
  <2>. QED  BY <2>3, <2>4, <2>5, StoreTwins
<1>. QED  BY <1>1, <1>2

\* the arithmetic, which may store nothing,
LEMMA AluTwins ==
    ASSUME NEW k, NEW W, NEW s, NEW t, Twins(k, W, s, t),
           NEW opcode \in AluOps, NEW a \in Operand, NEW b \in Operand,
           Readable(k, s, t, AddressOf(s, a)), Readable(k, s, t, AddressOf(s, b))
    PROVE  Twins(k, W \cup (IF StoresResult(opcode) THEN AddressOf(s, b) ELSE {}),
                 AluInstr(s, opcode, a, b), AluInstr(t, opcode, a, b))
<1>. DEFINE V == W \cup (IF StoresResult(opcode) THEN AddressOf(s, b) ELSE {})
            s1 == AfterReadOperand(s, a)
            t1 == AfterReadOperand(t, a)
            s2 == AfterReadOperand(s1, b)
            t2 == AfterReadOperand(t1, b)
            src == ReadOperand(s, a)
            dest == ReadOperand(s1, b)
            flags == AluFlags(opcode, dest, src)
            result == AluResult(opcode, dest, src)
<1>1. s \in MachineState
  BY DEF Twins
<1>2. /\ Twins(k, W, s1, t1) /\ s1 \in MachineState /\ s1.a_regs = s.a_regs
      /\ src \in Word /\ ReadOperand(t, a) = src
  <2>1. Twins(k, W, s1, t1)
    BY OperandTwins
  <2>2. s1 \in MachineState /\ src \in Word
    BY <1>1, ReadOperandType DEF Same
  <2>3. s1.a_regs = s.a_regs
    BY <1>1, ReadKeepsRegisters
  <2>4. ReadOperand(t, a) = src
    BY SameOperands
  <2>. QED  BY <2>1, <2>2, <2>3, <2>4
<1>3. Readable(k, s1, t1, AddressOf(s1, b)) /\ AddressOf(s1, b) = AddressOf(s, b)
  <2>1. AddressOf(s1, b) = AddressOf(s, b)
    BY <1>2, Addresses
  <2>2. s = t => s1 = t1
    OBVIOUS
  <2>. HIDE DEF s1, t1
  <2>. QED  BY <2>1, <2>2, StillReadable
<1>. HIDE DEF s1, t1, src
<1>4. /\ Twins(k, W, s2, t2) /\ s2.a_regs = s.a_regs
      /\ dest \in Word /\ ReadOperand(t1, b) = dest
  <2>1. Twins(k, W, s2, t2)
    BY <1>2, OperandTwins
  <2>2. dest \in Word
    BY <1>2, ReadOperandType
  <2>3. s2.a_regs = s.a_regs
    BY <1>2, ReadKeepsRegisters
  <2>4. ReadOperand(t1, b) = dest
    BY <1>2, <1>3, SameOperands
  <2>. QED  BY <2>1, <2>2, <2>3, <2>4
<1>5. AddressOf(s2, b) = AddressOf(s, b)
  BY <1>4, Addresses
<1>6. CASE DividesByZero(opcode, src)
  <2>1. /\ AluInstr(s, opcode, a, b) = Raise(s2, "ZeroDivisionError")
        /\ AluInstr(t, opcode, a, b) = Raise(t2, "ZeroDivisionError")
    BY <1>2, <1>6 DEF AluInstr, s1, t1, src
  <2>. HIDE DEF s2, t2
  <2>. QED  BY <1>4, <2>1, RaisedTwins DEF Exceptions
<1>7. CASE ~DividesByZero(opcode, src)
  <2>1. flags \in Flags /\ result \in Int
    BY <1>2, <1>4, <1>7, AluFlagsType, AluResultType, WordInt
  <2>2. CASE StoresResult(opcode)
    <3>1. /\ AluInstr(s, opcode, a, b) = Tick(WriteOperand(SetFlags(s2, flags), b, result), 2)
          /\ AluInstr(t, opcode, a, b) = Tick(WriteOperand(SetFlags(t2, flags), b, result), 2)
      BY <1>2, <1>4, <1>7, <2>2 DEF AluInstr, s1, t1, src
    <3>2. V = W \cup AddressOf(s2, b)
      BY <1>5, <2>2
    <3>. HIDE DEF s2, t2, flags, result, V
    <3>3. Twins(k, V, AluInstr(s, opcode, a, b), AluInstr(t, opcode, a, b))
      BY <1>4, <2>1, <3>1, <3>2, StoreTwins
    <3>. QED  BY <3>3 DEF V
  <2>3. CASE ~StoresResult(opcode)
    <3>1. /\ AluInstr(s, opcode, a, b) = Tick(SetFlags(s2, flags), 2)
          /\ AluInstr(t, opcode, a, b) = Tick(SetFlags(t2, flags), 2)
      BY <1>2, <1>4, <1>7, <2>3 DEF AluInstr, s1, t1, src
    <3>2. V = W
      BY <2>3
    <3>. HIDE DEF s2, t2, flags, result, V
    <3>3. Twins(k, W, SetFlags(s2, flags), SetFlags(t2, flags))
      BY <1>4, <2>1, QuietTwins
    <3>4. Twins(k, V, AluInstr(s, opcode, a, b), AluInstr(t, opcode, a, b))
      BY <3>1, <3>2, <3>3, QuietTwins
    <3>. QED  BY <3>4 DEF V
  <2>. QED  BY <2>2, <2>3
<1>. QED  BY <1>6, <1>7

\* NEG and NOT,
LEMMA UnaryTwins ==
    ASSUME NEW k, NEW W, NEW s, NEW t, Twins(k, W, s, t), NEW op \in Operand,
           Readable(k, s, t, AddressOf(s, op))
    PROVE  /\ Twins(k, W \cup AddressOf(s, op), Neg(s, op), Neg(t, op))
           /\ Twins(k, W \cup AddressOf(s, op), Not(s, op), Not(t, op))
<1>. DEFINE val == ReadOperand(s, op)
            u == AfterReadOperand(s, op)
            w == AfterReadOperand(t, op)
            complement == NotResult(val)
<1>1. s \in MachineState
  BY DEF Twins
<1>2. ReadOperand(t, op) = val
  BY SameOperands
<1>3. val \in Int
  BY <1>1, ReadOperandType, WordInt
<1>4. NegResult(val) \in Int /\ NegFlags(val) \in Flags /\ complement \in Int
  <2>. HIDE DEF val
  <2>. QED  BY <1>3, UnaryType, WordInt
<1>5. NzFlags(complement) \in Flags
  <2>. HIDE DEF complement
  <2>. QED  BY <1>4, NzFlagsType
<1>6. Twins(k, W, u, w) /\ AddressOf(u, op) = AddressOf(s, op)
  BY <1>1, OperandTwins, ReadKeepsRegisters, Addresses
<1>7. /\ Neg(s, op) = Tick(WriteOperand(SetFlags(u, NegFlags(val)), op, NegResult(val)), 2)
      /\ Neg(t, op) = Tick(WriteOperand(SetFlags(w, NegFlags(val)), op, NegResult(val)), 2)
  BY <1>2 DEF Neg
<1>8. /\ Not(s, op) = Tick(WriteOperand(SetFlags(u, NzFlags(complement)), op, complement), 2)
      /\ Not(t, op) = Tick(WriteOperand(SetFlags(w, NzFlags(complement)), op, complement), 2)
  BY <1>2 DEF Not
<1>. HIDE DEF val, u, w, complement
<1>9. Twins(k, W \cup AddressOf(s, op), Neg(s, op), Neg(t, op))
  BY <1>4, <1>6, <1>7, StoreTwins
<1>10. Twins(k, W \cup AddressOf(s, op), Not(s, op), Not(t, op))
  BY <1>4, <1>5, <1>6, <1>8, StoreTwins
<1>. QED  BY <1>9, <1>10

\* PUSH and POP,
LEMMA PushPopTwins ==
    ASSUME NEW k, NEW W, NEW s, NEW t, Twins(k, W, s, t), NEW op \in Operand
    PROVE  /\ Readable(k, s, t, AddressOf(s, op)) =>
                  Twins(k, W \cup {Sp(s) - WORD_BYTES}, Push(s, op), Push(t, op))
           /\ Legible(k, s, t, Sp(s)) =>
                  Twins(k, W \cup AddressOf(AfterPop(s), op), Pop(s, op), Pop(t, op))
<1>1. s \in MachineState
  BY DEF Twins
<1>2. ASSUME Readable(k, s, t, AddressOf(s, op))
      PROVE  Twins(k, W \cup {Sp(s) - WORD_BYTES}, Push(s, op), Push(t, op))
  <2>. DEFINE val == ReadOperand(s, op)
              u == AfterReadOperand(s, op)
              w == AfterReadOperand(t, op)
              V == W \cup {Sp(s) - WORD_BYTES}
  <2>1. ReadOperand(t, op) = val
    BY <1>2, SameOperands
  <2>2. val \in Int
    BY <1>1, ReadOperandType, WordInt
  <2>3. Twins(k, W, u, w)
    BY OperandTwins
  <2>4. u.a_regs = s.a_regs
    BY <1>1, ReadKeepsRegisters
  <2>5. Push(s, op) = Tick(PushValue(u, val), 2) /\ Push(t, op) = Tick(PushValue(w, val), 2)
    BY <2>1 DEF Push
  <2>. HIDE DEF val, u, w
  <2>6. Twins(k, V, PushValue(u, val), PushValue(w, val))
    <3>1. Sp(u) = Sp(s)
      BY <2>4 DEF Sp
    <3>. QED  BY <2>2, <2>3, <3>1, StackTwins
  <2>. HIDE DEF V
  <2>7. Twins(k, V, Push(s, op), Push(t, op))
    BY <2>5, <2>6, QuietTwins
  <2>. QED  BY <2>7 DEF V
<1>3. ASSUME Legible(k, s, t, Sp(s))
      PROVE  Twins(k, W \cup AddressOf(AfterPop(s), op), Pop(s, op), Pop(t, op))
  <2>. DEFINE val == PoppedValue(s)
              u == AfterPop(s)
              w == AfterPop(t)
  <2>1. Twins(k, W, u, w) /\ PoppedValue(t) = val
    BY <1>3, StackTwins
  <2>2. val \in Int /\ Flags # {}
    BY <1>1, PopType, WordInt, NzFlagsType
  <2>3. Pop(s, op) = Tick(WriteOperand(u, op, val), 2) /\ Pop(t, op) = Tick(WriteOperand(w, op, val), 2)
    BY <2>1 DEF Pop
  <2>. HIDE DEF val, u, w
  <2>4. Twins(k, W \cup AddressOf(u, op), Pop(s, op), Pop(t, op))
    BY <2>1, <2>2, <2>3, StoreTwins
  <2>. QED  BY <2>4 DEF u
<1>. QED  BY <1>2, <1>3

\* the jumps and CALL,
LEMMA JumpTwins ==
    ASSUME NEW k, NEW W, NEW s, NEW t, Twins(k, W, s, t), NEW op \in Operand,
           Readable(k, s, t, TargetAddress(s, op))
    PROVE  /\ \A opcode : Twins(k, W, Jump(s, opcode, op), Jump(t, opcode, op))
           /\ Twins(k, W \cup {Sp(s) - WORD_BYTES}, Call(s, op), Call(t, op))
<1>. DEFINE target == JumpTarget(s, op)
            u == AfterJumpTarget(s, op)
            w == AfterJumpTarget(t, op)
            V == W \cup {Sp(s) - WORD_BYTES}
<1>1. s \in MachineState /\ t.pc = s.pc /\ t.flags = s.flags
  BY DEF Twins
<1>2. Twins(k, W, u, w) /\ JumpTarget(t, op) = target
  BY TargetTwins
<1>3. target \in ProgramCounter
  BY <1>1, JumpTargetType
<1>4. Sp(u) = Sp(s)
  <2>1. u.a_regs = s.a_regs
    BY <1>1, ReadKeepsRegisters DEF AfterJumpTarget
  <2>. QED  BY <2>1 DEF Sp
<1>5. s.pc \in Int
  BY <1>1, IsaAssumption DEF MachineState, ProgramCounter, U32_MAX, IsaAssumption
<1>6. ASSUME NEW opcode PROVE Twins(k, W, Jump(s, opcode, op), Jump(t, opcode, op))
  <2>1. /\ Jump(s, opcode, op) = Tick(IF Taken(opcode, s.flags) THEN JumpTo(u, target) ELSE u, 2)
        /\ Jump(t, opcode, op) = Tick(IF Taken(opcode, s.flags) THEN JumpTo(w, target) ELSE w, 2)
    BY <1>1, <1>2 DEF Jump
  <2>. HIDE DEF target, u, w
  <2>2. Twins(k, W, JumpTo(u, target), JumpTo(w, target))
    BY <1>2, <1>3, QuietTwins
  <2>. QED  BY <1>2, <2>1, <2>2, QuietTwins
<1>7. Twins(k, V, Call(s, op), Call(t, op))
  <2>1. /\ Call(s, op) = Tick(JumpTo(PushValue(u, s.pc), target), 3)
        /\ Call(t, op) = Tick(JumpTo(PushValue(w, s.pc), target), 3)
    BY <1>1, <1>2 DEF Call
  <2>. HIDE DEF target, u, w
  <2>2. Twins(k, V, PushValue(u, s.pc), PushValue(w, s.pc))
    BY <1>2, <1>4, <1>5, StackTwins
  <2>. HIDE DEF V
  <2>3. Twins(k, V, JumpTo(PushValue(u, s.pc), target), JumpTo(PushValue(w, s.pc), target))
    BY <1>3, <2>2, QuietTwins
  <2>. QED  BY <2>1, <2>3, QuietTwins
<1>. QED  BY <1>6, <1>7

\* A pop moves the stack pointer up, unless it raises.
LEMMA PopMoves ==
    ASSUME NEW s \in MachineState
    PROVE  Sp(AfterPop(s)) \in {Sp(s), Sp(s) + WORD_BYTES}
<1>. DEFINE u == AfterRead(s, Sp(s))
<1>1. u \in MachineState /\ u.a_regs = s.a_regs
  BY SpType, AfterReadType DEF Same
<1>2. AfterPop(s) = SetSp(u, Sp(s) + WORD_BYTES)
  BY DEF AfterPop
<1>. HIDE DEF u
<1>3. u.a_regs \in [REGISTERS -> Word]
  BY <1>1 DEF MachineState
<1>4. CASE u.raised = "none"
  <2>1. SetSp(u, Sp(s) + WORD_BYTES).a_regs = [u.a_regs EXCEPT ![STACK_POINTER] = Sp(s) + WORD_BYTES]
    BY <1>1, <1>4 DEF SetSp, Then, MachineState
  <2>. QED  BY <1>2, <1>3, <2>1 DEF Sp, REGISTERS, STACK_POINTER
<1>5. CASE u.raised # "none"
  BY <1>1, <1>2, <1>5 DEF SetSp, Then, Sp
<1>. QED  BY <1>4, <1>5

\* and the returns: IRET only outside a handler, which else it leaves.
LEMMA ReturnTwins ==
    ASSUME NEW k, NEW W, NEW s, NEW t, Twins(k, W, s, t), Legible(k, s, t, Sp(s))
    PROVE  /\ Twins(k, W, Ret(s), Ret(t))
           /\ k.masked = FALSE /\ Legible(k, s, t, Sp(s) + WORD_BYTES) =>
                  Twins(k, W, Iret(s), Iret(t))
<1>. DEFINE u == AfterPop(s)
            w == AfterPop(t)
            val == PoppedValue(s)
<1>1. s \in MachineState
  BY DEF Twins
<1>2. Twins(k, W, u, w) /\ PoppedValue(t) = val
  BY StackTwins
<1>3. val \in ProgramCounter /\ Sp(u) \in {Sp(s), Sp(s) + WORD_BYTES}
  BY <1>1, PopType, PopMoves, WordIsTarget
<1>4. Twins(k, W, Ret(s), Ret(t))
  <2>1. Ret(s) = Tick(JumpTo(u, val), 3) /\ Ret(t) = Tick(JumpTo(w, val), 3)
    BY <1>2 DEF Ret
  <2>. HIDE DEF u, w, val
  <2>2. Twins(k, W, JumpTo(u, val), JumpTo(w, val))
    BY <1>2, <1>3, QuietTwins
  <2>. QED  BY <2>1, <2>2, QuietTwins
<1>5. ASSUME k.masked = FALSE, Legible(k, s, t, Sp(s) + WORD_BYTES)
      PROVE  Twins(k, W, Iret(s), Iret(t))
  <2>. DEFINE sf == SetFlags(u, FlagsOf(val))
              tf == SetFlags(w, FlagsOf(val))
              pc == PoppedValue(sf)
              sr == JumpTo(AfterPop(sf), pc)
              tr == JumpTo(AfterPop(tf), pc)
              su == [sr EXCEPT !.in_interrupt_handler = FALSE]
              tu == [tr EXCEPT !.in_interrupt_handler = FALSE]
  <2>1. Twins(k, W, sf, tf)
    <3>1. FlagsOf(val) \in Flags
      BY FlagsOfType
    <3>. HIDE DEF u, w, val
    <3>. QED  BY <1>2, <3>1, QuietTwins
  <2>2. Legible(k, sf, tf, Sp(sf))
    <3>1. s = t => sf = tf
      BY <1>2
    <3>2. Sp(sf) = Sp(u)
      <4>1. u \in MachineState
        BY <1>2 DEF Twins
      <4>. HIDE DEF u
      <4>. QED  BY <4>1 DEF SetFlags, Then, Sp, MachineState
    <3>. HIDE DEF sf, tf, u
    <3>. QED  BY <1>3, <1>5, <3>1, <3>2 DEF Legible
  <2>. HIDE DEF sf, tf
  <2>3. Twins(k, W, AfterPop(sf), AfterPop(tf))
    BY <2>1, StackTwins
  <2>31. PoppedValue(tf) = pc
    <3>1. Sp(tf) = Sp(sf)
      BY <2>1 DEF Twins, Sp
    <3>. QED  BY <2>1, <2>2, <3>1, SameWords DEF PoppedValue
  <2>4. pc \in ProgramCounter
    <3>1. sf \in MachineState
      BY <2>1 DEF Twins
    <3>. QED  BY <3>1, PopType, WordIsTarget
  <2>5. Iret(s) = Tick(Then(sr, su), 4) /\ Iret(t) = Tick(Then(tr, tu), 4)
    BY <1>2, <2>31 DEF Iret, sf, tf
  <2>. HIDE DEF pc
  <2>6. Twins(k, W, sr, tr)
    BY <2>3, <2>4, QuietTwins
  <2>. HIDE DEF sr, tr
  <2>7. Twins(k, W, su, tu)
    <3>1. su \in MachineState /\ PortsAside(su, sr)
      BY <1>5, <2>6 DEF Twins, PortsAside, MachineState
    <3>2. tu \in MachineState /\ PortsAside(tu, tr) /\ tu.input_schedule = tr.input_schedule
      BY <1>5, <2>6 DEF Twins, PortsAside, MachineState
    <3>. QED  BY <2>6, <3>1, <3>2, TwinsPortsAside
  <2>. HIDE DEF su, tu
  <2>8. Twins(k, W, Then(sr, su), Then(tr, tu))
    <3>1. tr.raised = sr.raised
      BY <2>6 DEF Twins
    <3>. QED  BY <2>6, <2>7, <3>1 DEF Then
  <2>. QED  BY <2>5, <2>8, QuietTwins
<1>. QED  BY <1>4, <1>5

\* Any instruction at all, but for an IRET in a handler.
LEMMA ExecutedTwins ==
    ASSUME IsImage(image), Fetches, NEW k, NEW t, Twins(k, {}, Fetched, t),
           Len(Ops) >= Arity(Decoded.instr.opcode) => Readable(k, Fetched, t, Reads),
           Decoded.instr.opcode = "IRET" => k.masked = FALSE
    PROVE  Twins(k, Writes, Executed(Fetched, Decoded.instr), Executed(t, Decoded.instr))
<1>. DEFINE s == Fetched
            instr == Decoded.instr
            opcode == instr.opcode
            n == Len(Ops)
<1>1. /\ opcode \in OpCode /\ Ops \in Seq(Operand) /\ n \in Nat
      /\ Ops = instr.operands /\ Arity(opcode) \in Nat /\ s \in MachineState
  <2>1. opcode \in OpCode /\ Ops \in Seq(Operand) /\ Ops = instr.operands
    BY DEF Fetches, IsImage, Decoded, Ops
  <2>. QED  BY <2>1 DEF Arity, Twins
<1>. HIDE DEF s, instr
<1>2. CASE n < Arity(opcode)
  <2>1. \A u : Executed(u, instr) = Raise(u, "IndexError")
    BY <1>1, <1>2 DEF Executed
  <2>2. Twins(k, Writes, Raise(s, "IndexError"), Raise(t, "IndexError"))
    BY RaisedTwins DEF Exceptions, s
  <2>. QED  BY <2>1, <2>2 DEF s, instr
<1>3. CASE n >= Arity(opcode)
  <2>1. Readable(k, s, t, Reads) /\ Twins(k, {}, s, t) /\ ~(n < Arity(opcode))
    BY <1>1, <1>3 DEF s, instr
  <2>2. CASE opcode \in {"NOP", "HALT", "EI", "DI"}
    <3>1. Writes = {}
      BY <2>2 DEF Writes, AluOps, instr
    <3>2. s \in MachineState /\ t \in MachineState
      BY <2>1 DEF Twins
    <3>3. CASE opcode = "NOP"
      <4>1. \A u : Executed(u, instr) = Tick(u, 1)
        BY <1>1, <2>1, <3>3 DEF Executed, AluOps, JumpOps
      <4>. QED  BY <2>1, <3>1, <4>1, QuietTwins DEF s, instr
    <3>4. CASE opcode = "HALT"
      <4>1. \A u : Executed(u, instr) = Tick([u EXCEPT !.halted = TRUE], 1)
        BY <1>1, <2>1, <3>4 DEF Executed, AluOps, JumpOps
      <4>2. Twins(k, {}, [s EXCEPT !.halted = TRUE], [t EXCEPT !.halted = TRUE])
        BY <2>1 DEF Twins, MachineState
      <4>. QED  BY <3>1, <4>1, <4>2, QuietTwins DEF s, instr
    <3>5. CASE opcode \in {"EI", "DI"}
      <4>. DEFINE enabled == (opcode = "EI")
                  u == [s EXCEPT !.interrupts_enabled = enabled]
                  w == [t EXCEPT !.interrupts_enabled = enabled]
      <4>1. Executed(s, instr) = Tick(u, 1) /\ Executed(t, instr) = Tick(w, 1)
        BY <1>1, <2>1, <3>5 DEF Executed, AluOps, JumpOps
      <4>2. enabled \in BOOLEAN
        OBVIOUS
      <4>. HIDE DEF enabled
      <4>3. u \in MachineState /\ PortsAside(u, s)
        BY <3>2, <4>2 DEF MachineState, PortsAside
      <4>4. w \in MachineState /\ PortsAside(w, t) /\ w.input_schedule = t.input_schedule
        BY <3>2, <4>2 DEF MachineState, PortsAside
      <4>. HIDE DEF u, w
      <4>5. Twins(k, {}, u, w)
        BY <2>1, <4>3, <4>4, TwinsPortsAside
      <4>. QED  BY <3>1, <4>1, <4>5, QuietTwins DEF s, instr
    <3>. QED  BY <2>2, <3>3, <3>4, <3>5
  <2>3. CASE opcode \in {"RET", "IRET"}
    <3>1. Writes = {}
      BY <2>3 DEF Writes, AluOps, instr
    <3>2. CASE opcode = "RET"
      <4>1. Reads = {Sp(s)}
        BY <3>2 DEF Reads, AluOps, JumpOps, s, instr
      <4>2. Legible(k, s, t, Sp(s))
        BY <2>1, <4>1 DEF Readable
      <4>3. \A u : Executed(u, instr) = Ret(u)
        BY <1>1, <2>1, <3>2 DEF Executed, AluOps, JumpOps
      <4>. QED  BY <2>1, <3>1, <4>2, <4>3, ReturnTwins DEF s, instr
    <3>3. CASE opcode = "IRET"
      <4>1. Reads = {Sp(s), Sp(s) + WORD_BYTES}
        BY <3>3 DEF Reads, SavedWords, AluOps, JumpOps, s, instr
      <4>2. Legible(k, s, t, Sp(s)) /\ Legible(k, s, t, Sp(s) + WORD_BYTES) /\ k.masked = FALSE
        BY <2>1, <3>3, <4>1 DEF Readable, instr
      <4>3. \A u : Executed(u, instr) = Iret(u)
        BY <1>1, <2>1, <3>3 DEF Executed, AluOps, JumpOps
      <4>. QED  BY <2>1, <3>1, <4>2, <4>3, ReturnTwins DEF s, instr
    <3>. QED  BY <2>3, <3>2, <3>3
  <2>4. CASE opcode \in {"PUSH", "POP", "NEG", "NOT", "CALL"} \cup JumpOps
    <3>. DEFINE op == Ops[1]
    <3>1. op \in Operand
      <4>1. Arity(opcode) = 1
        BY <2>4 DEF Arity, AluOps, JumpOps
      <4>. QED  BY <1>1, <1>3, <4>1
    <3>2. CASE opcode = "PUSH"
      <4>1. Reads = AddressOf(s, op) /\ Writes = {Sp(s) - WORD_BYTES}
        BY <3>2 DEF Reads, Writes, AluOps, JumpOps, s, instr
      <4>2. \A u : Executed(u, instr) = Push(u, op)
        BY <1>1, <2>1, <3>2 DEF Executed, AluOps, JumpOps
      <4>3. Twins(k, {} \cup {Sp(s) - WORD_BYTES}, Push(s, op), Push(t, op))
        BY <2>1, <3>1, <4>1, PushPopTwins
      <4>. QED  BY <4>1, <4>2, <4>3 DEF s, instr
    <3>3. CASE opcode = "POP"
      <4>1. Reads = {Sp(s)} /\ Writes = AddressOf(AfterPop(s), op)
        BY <3>3 DEF Reads, Writes, AluOps, JumpOps, s, instr
      <4>2. \A u : Executed(u, instr) = Pop(u, op)
        BY <1>1, <2>1, <3>3 DEF Executed, AluOps, JumpOps
      <4>3. Legible(k, s, t, Sp(s))
        BY <2>1, <4>1 DEF Readable
      <4>4. Twins(k, {} \cup AddressOf(AfterPop(s), op), Pop(s, op), Pop(t, op))
        BY <2>1, <3>1, <4>3, PushPopTwins
      <4>. QED  BY <4>1, <4>2, <4>4 DEF s, instr
    <3>4. CASE opcode \in {"NEG", "NOT"}
      <4>1. Reads = AddressOf(s, op) /\ Writes = AddressOf(s, op)
        BY <3>4 DEF Reads, Writes, AluOps, JumpOps, s, instr
      <4>2. \A u : Executed(u, instr) = IF opcode = "NEG" THEN Neg(u, op) ELSE Not(u, op)
        BY <1>1, <2>1, <3>4 DEF Executed, AluOps, JumpOps
      <4>3. /\ Twins(k, {} \cup AddressOf(s, op), Neg(s, op), Neg(t, op))
            /\ Twins(k, {} \cup AddressOf(s, op), Not(s, op), Not(t, op))
        BY <2>1, <3>1, <4>1, UnaryTwins
      <4>. QED  BY <4>1, <4>2, <4>3 DEF s, instr
    <3>5. CASE opcode = "CALL"
      <4>1. Reads = TargetAddress(s, op) /\ Writes = {Sp(s) - WORD_BYTES}
        BY <3>5 DEF Reads, Writes, TargetAddress, AluOps, JumpOps, s, instr
      <4>2. \A u : Executed(u, instr) = Call(u, op)
        BY <1>1, <2>1, <3>5 DEF Executed, AluOps, JumpOps
      <4>3. Twins(k, {} \cup {Sp(s) - WORD_BYTES}, Call(s, op), Call(t, op))
        BY <2>1, <3>1, <4>1, JumpTwins
      <4>. QED  BY <4>1, <4>2, <4>3 DEF s, instr
    <3>6. CASE opcode \in JumpOps
      <4>1. Reads = TargetAddress(s, op) /\ Writes = {}
        BY <3>6 DEF Reads, Writes, TargetAddress, AluOps, JumpOps, s, instr
      <4>2. \A u : Executed(u, instr) = Jump(u, opcode, op)
        BY <1>1, <2>1, <3>6 DEF Executed, AluOps, JumpOps
      <4>3. Twins(k, {}, Jump(s, opcode, op), Jump(t, opcode, op))
        BY <2>1, <3>1, <4>1, JumpTwins
      <4>. QED  BY <4>1, <4>2, <4>3 DEF s, instr
    <3>. QED  BY <2>4, <3>2, <3>3, <3>4, <3>5, <3>6
  <2>5. CASE opcode \in {"MOVE", "LEA"} \cup AluOps
    <3>. DEFINE a == Ops[1]
                b == Ops[2]
    <3>1. a \in Operand /\ b \in Operand
      <4>1. Arity(opcode) = 2
        BY <2>5 DEF Arity, AluOps, JumpOps
      <4>. QED  BY <1>1, <1>3, <4>1
    <3>2. CASE opcode = "MOVE"
      <4>1. Reads = AddressOf(s, a) /\ Writes = AddressOf(s, b)
        BY <3>2 DEF Reads, Writes, AluOps, JumpOps, s, instr
      <4>2. \A u : Executed(u, instr) = Move(u, a, b)
        BY <1>1, <2>1, <3>2 DEF Executed, AluOps, JumpOps
      <4>3. Twins(k, {} \cup AddressOf(s, b), Move(s, a, b), Move(t, a, b))
        BY <2>1, <3>1, <4>1, MoveTwins
      <4>. QED  BY <4>1, <4>2, <4>3 DEF s, instr
    <3>3. CASE opcode = "LEA"
      <4>1. Writes = {}
        BY <3>3 DEF Writes, AluOps, JumpOps, s, instr
      <4>2. \A u : Executed(u, instr) = Lea(u, a, b)
        BY <1>1, <2>1, <3>3 DEF Executed, AluOps, JumpOps
      <4>3. Twins(k, {}, Lea(s, a, b), Lea(t, a, b))
        BY <2>1, <3>1, LeaTwins
      <4>. QED  BY <4>1, <4>2, <4>3 DEF s, instr
    <3>4. CASE opcode \in AluOps
      <4>. DEFINE V == IF StoresResult(opcode) THEN AddressOf(s, b) ELSE {}
      <4>1. Reads = AddressOf(s, a) \cup AddressOf(s, b) /\ Writes = V
        BY <3>4 DEF Reads, Writes, StoresResult, AluOps, JumpOps, s, instr
      <4>2. \A u : Executed(u, instr) = AluInstr(u, opcode, a, b)
        BY <1>1, <2>1, <3>4 DEF Executed, AluOps, JumpOps
      <4>3. Readable(k, s, t, AddressOf(s, a)) /\ Readable(k, s, t, AddressOf(s, b))
        BY <2>1, <4>1 DEF Readable
      <4>4. Twins(k, {} \cup V, AluInstr(s, opcode, a, b), AluInstr(t, opcode, a, b))
        BY <2>1, <3>1, <3>4, <4>3, AluTwins
      <4>. QED  BY <4>1, <4>2, <4>4 DEF s, instr
    <3>. QED  BY <2>5, <3>2, <3>3, <3>4
  <2>. QED  BY <1>1, <2>2, <2>3, <2>4, <2>5 DEF OpCode
<1>. QED  BY <1>1, <1>2, <1>3

-----------------------------------------------------------------------------
(* A trap and the return from it.                                          *)

\* No word of the memory is a port, so its accesses do what they say.
LEMMA MemoryAccess ==
    ASSUME NEW s \in MachineState, s.raised = "none", NEW a \in DataAddress
    PROVE  /\ a \in Int /\ a \in Word /\ a + WORD_BYTES \in Word
           /\ ReadWord(s, a) = s.data_memory[a]
           /\ AfterRead(s, a) = s
           /\ \A v \in Int : WriteWord(s, a, v) = [s EXCEPT !.data_memory[a] = to_i32(v)]
<1>1. a \in Int /\ a >= 0 /\ a < SIGN_BIT - WORD_BYTES /\ SIGN_BIT \in Nat
  BY IsaAssumption DEF DataAddress, DataMemorySize, IsaAssumption, WORD_BYTES
<1>3. to_u32(a) \notin Ports
  BY PortsApart
<1>4. ~IsPort(a) /\ IsMemory(a)
  BY <1>3 DEF IsPort, IsMemory
<1>5. /\ to_u32(a) # IO_INPUT_DATA /\ to_u32(a) # IO_INPUT_STATUS
      /\ to_u32(a) # IO_OUTPUT_DATA /\ to_u32(a) # IO_OUTPUT_STATUS
  BY <1>3 DEF Ports
<1>6. ReadWord(s, a) = s.data_memory[a]
  BY <1>4, <1>5 DEF ReadWord
<1>7. AfterRead(s, a) = s
  BY <1>4, <1>5 DEF AfterRead, Then
<1>8. \A v \in Int : WriteWord(s, a, v) = [s EXCEPT !.data_memory[a] = to_i32(v)]
  BY <1>4, <1>5 DEF WriteWord, Then
<1>. QED  BY <1>1, <1>6, <1>7, <1>8 DEF Word, WORD_BYTES

\* What the handler must leave alone: the words that the trap has pushed.
Room(s) == {Sp(s) - WORD_BYTES, Sp(s) - 2 * WORD_BYTES}

\* A push for which there is memory.
LEMMA PushInMemory ==
    ASSUME NEW s \in MachineState, s.raised = "none",
           Sp(s) - WORD_BYTES \in DataAddress, NEW v \in Int
    PROVE  LET p == PushValue(s, v) IN
           /\ p \in MachineState /\ p.raised = "none"
           /\ p.a_regs = [s.a_regs EXCEPT ![STACK_POINTER] = Sp(s) - WORD_BYTES]
           /\ p.data_memory = [s.data_memory EXCEPT ![Sp(s) - WORD_BYTES] = to_i32(v)]
           /\ p.d_regs = s.d_regs /\ p.pc = s.pc /\ p.flags = s.flags
           /\ p.in_interrupt_handler = s.in_interrupt_handler
<1>. DEFINE written == [s EXCEPT !.data_memory[Sp(s) - WORD_BYTES] = to_i32(v)]
<1>1. WriteWord(s, Sp(s) - WORD_BYTES, v) = written
  BY MemoryAccess
<1>2. written.raised = "none"
  BY DEF MachineState
<1>3. PushValue(s, v) = [written EXCEPT !.a_regs[STACK_POINTER] = Sp(s) - WORD_BYTES]
  BY <1>1, <1>2 DEF PushValue, SetSp, Then
<1>4. PushValue(s, v) \in MachineState
  BY PushValueType DEF Same
<1>. QED  BY <1>2, <1>3, <1>4 DEF MachineState

\* A pop of a word of the memory.
LEMMA PopInMemory ==
    ASSUME NEW s \in MachineState, s.raised = "none", Sp(s) \in DataAddress
    PROVE  /\ PoppedValue(s) = s.data_memory[Sp(s)]
           /\ AfterPop(s) = [s EXCEPT !.a_regs[STACK_POINTER] = Sp(s) + WORD_BYTES]
           /\ AfterPop(s) \in MachineState
<1>1. AfterPop(s) \in MachineState
  BY PopType DEF Same
<1>. QED  BY <1>1, MemoryAccess DEF PoppedValue, AfterPop, SetSp, Then

\* Four flags survive the way through a word of the stack.
LEMMA FlagsSurvive ==
    ASSUME NEW f \in Flags, SIGN_BIT >= 16
    PROVE  to_i32(FlagsWord(f)) = FlagsWord(f) /\ FlagsOf(FlagsWord(f)) = f
<1>1. FlagsWord(f) \in 0 .. 15
  BY DEF FlagsWord
<1>2. to_i32(FlagsWord(f)) = FlagsWord(f)
  BY <1>1, IsaAssumption DEF IsaAssumption, to_i32, to_u32
<1>3. /\ (FlagsWord(f) % 2 = 1) = f.n
      /\ ((FlagsWord(f) \div 2) % 2 = 1) = f.z
      /\ ((FlagsWord(f) \div 4) % 2 = 1) = f.v
      /\ ((FlagsWord(f) \div 8) % 2 = 1) = f.c
  <2>1. f.n \in BOOLEAN /\ f.z \in BOOLEAN /\ f.v \in BOOLEAN /\ f.c \in BOOLEAN
    BY DEF Flags
  <2>. QED  BY <2>1 DEF FlagsWord
<1>. QED  BY <1>2, <1>3 DEF FlagsOf, Flags

\* A push leaves all but the memory, the output and A7 as they are.
LEMMA PushKeeps ==
    ASSUME NEW s \in MachineState, NEW v \in Int
    PROVE  LET p == PushValue(s, v) IN
           /\ p \in MachineState
           /\ p.d_regs = s.d_regs /\ p.halted = s.halted
           /\ p.pc = s.pc /\ p.flags = s.flags
           /\ p.tick_counter = s.tick_counter
           /\ p.in_interrupt_handler = s.in_interrupt_handler
           /\ p.raised = "none" =>
                 s.raised = "none" /\ p.a_regs = [s.a_regs EXCEPT ![STACK_POINTER] = Sp(s) - WORD_BYTES]
<1>. DEFINE w == WriteWord(s, Sp(s) - WORD_BYTES, v)
<1>1. PushValue(s, v) \in MachineState
  BY PushValueType DEF Same
<1>2. w \in MachineState
  BY SpType, WriteWordType DEF Same
<1>3. /\ w.d_regs = s.d_regs /\ w.halted = s.halted /\ w.a_regs = s.a_regs
      /\ w.pc = s.pc /\ w.flags = s.flags /\ w.tick_counter = s.tick_counter
      /\ w.in_interrupt_handler = s.in_interrupt_handler
      /\ w.raised = "none" => s.raised = "none"
  BY DEF WriteWord, Raise, Then, MachineState
<1>4. PushValue(s, v) = SetSp(w, Sp(s) - WORD_BYTES)
  BY DEF PushValue
<1>. HIDE DEF w
<1>. QED  BY <1>1, <1>2, <1>3, <1>4 DEF SetSp, Then, MachineState

\* So does a trap, which also takes time and masks further traps.
LEMMA TrapKeeps ==
    ASSUME IsImage(image), image.interrupt_vectors # <<>>, NEW s \in MachineState
    PROVE  LET e == TriggerInterrupt(s) IN
           /\ e \in MachineState
           /\ e.d_regs = s.d_regs /\ e.halted = s.halted
           /\ e.in_interrupt_handler
           /\ e.tick_counter >= s.tick_counter
           /\ e.raised = "none" =>
                 /\ s.raised = "none"
                 /\ e.a_regs = [s.a_regs EXCEPT ![STACK_POINTER] = Sp(s) - 2 * WORD_BYTES]
<1>. DEFINE masked == [s EXCEPT !.in_interrupt_handler = TRUE]
            half == PushValue(masked, s.pc)
            saved == PushValue(half, FlagsWord(s.flags))
            e == TriggerInterrupt(s)
<1>1. e \in MachineState /\ e.tick_counter >= s.tick_counter
  BY TriggerInterruptType DEF Spends, MachineState
<1>2. s.pc \in Int /\ FlagsWord(s.flags) \in Int /\ s.a_regs \in [REGISTERS -> Word]
  BY IsaAssumption, FlagsWordInt
  DEF MachineState, ProgramCounter, U32_MAX, IsaAssumption
<1>3. /\ masked \in MachineState /\ masked.in_interrupt_handler
      /\ masked.raised = s.raised /\ masked.a_regs = s.a_regs
      /\ masked.d_regs = s.d_regs /\ masked.halted = s.halted
  BY DEF MachineState
<1>. HIDE DEF masked
<1>4. /\ half \in MachineState /\ half.in_interrupt_handler
      /\ half.d_regs = s.d_regs /\ half.halted = s.halted
      /\ half.raised = "none" =>
            s.raised = "none" /\ half.a_regs = [s.a_regs EXCEPT ![STACK_POINTER] = Sp(s) - WORD_BYTES]
  BY <1>2, <1>3, PushKeeps DEF Sp
<1>. HIDE DEF half
<1>5. /\ saved \in MachineState /\ saved.in_interrupt_handler
      /\ saved.d_regs = s.d_regs /\ saved.halted = s.halted
      /\ saved.raised = "none" =>
            half.raised = "none" /\ saved.a_regs = [half.a_regs EXCEPT ![STACK_POINTER] = Sp(half) - WORD_BYTES]
  BY <1>2, <1>4, PushKeeps
<1>. HIDE DEF saved
<1>6. saved.raised = "none" =>
         s.raised = "none" /\ saved.a_regs = [s.a_regs EXCEPT ![STACK_POINTER] = Sp(s) - 2 * WORD_BYTES]
  <2>. SUFFICES ASSUME saved.raised = "none"
                PROVE  s.raised = "none" /\ saved.a_regs = [s.a_regs EXCEPT ![STACK_POINTER] = Sp(s) - 2 * WORD_BYTES]
    OBVIOUS
  <2>1. Sp(half) = Sp(s) - WORD_BYTES /\ Sp(s) \in Int
    BY <1>2, <1>4, <1>5, SpType DEF Sp, REGISTERS, STACK_POINTER
  <2>2. Sp(half) - WORD_BYTES = Sp(s) - 2 * WORD_BYTES
    BY <2>1 DEF WORD_BYTES
  <2>. QED  BY <1>2, <1>4, <1>5, <2>2
<1>7. e = Tick(JumpTo(saved, image.interrupt_vectors[1]), 4)
  BY DEF TriggerInterrupt, saved, half, masked
<1>8. /\ e.d_regs = saved.d_regs /\ e.halted = saved.halted /\ e.a_regs = saved.a_regs
      /\ e.in_interrupt_handler = saved.in_interrupt_handler /\ e.raised = saved.raised
  <2>. HIDE DEF e
  <2>. QED  BY <1>5, <1>7 DEF Tick, JumpTo, Then, MachineState
<1>. HIDE DEF e
<1>9. e.raised = "none" =>
         s.raised = "none" /\ e.a_regs = [s.a_regs EXCEPT ![STACK_POINTER] = Sp(s) - 2 * WORD_BYTES]
  BY <1>6, <1>8
<1>. QED  BY <1>1, <1>5, <1>8, <1>9 DEF e

\* With room on the stack a trap saves the flags and PC there.
LEMMA TrapSaves ==
    ASSUME IsImage(image), image.interrupt_vectors # <<>>, SIGN_BIT >= 16,
           NEW s \in MachineState, s.raised = "none", s.pc \in Word,
           Room(s) \subseteq DataAddress
    PROVE  /\ TriggerInterrupt(s).raised = "none"
           /\ TriggerInterrupt(s).pc = image.interrupt_vectors[1]
           /\ TriggerInterrupt(s).in_interrupt_handler
           /\ Sp(TriggerInterrupt(s)) = Sp(s) - 2 * WORD_BYTES
           /\ TriggerInterrupt(s).data_memory[Sp(s) - 2 * WORD_BYTES] = FlagsWord(s.flags)
           /\ TriggerInterrupt(s).data_memory[Sp(s) - WORD_BYTES] = s.pc
<1>. DEFINE pcAt == Sp(s) - WORD_BYTES
            flagsAt == Sp(s) - 2 * WORD_BYTES
            masked == [s EXCEPT !.in_interrupt_handler = TRUE]
            half == PushValue(masked, s.pc)
            saved == PushValue(half, FlagsWord(s.flags))
            t == TriggerInterrupt(s)
<1>1. /\ Sp(s) \in Int /\ pcAt \in Int /\ flagsAt \in Int
      /\ flagsAt = pcAt - WORD_BYTES /\ flagsAt + WORD_BYTES = pcAt /\ pcAt + WORD_BYTES = Sp(s)
      /\ flagsAt # pcAt /\ pcAt \in DataAddress /\ flagsAt \in DataAddress
  BY SpType DEF WORD_BYTES, Room
<1>. HIDE DEF pcAt, flagsAt
<1>2. /\ s.pc \in Int /\ to_i32(s.pc) = s.pc
      /\ s.flags \in Flags
      /\ FlagsWord(s.flags) \in Int /\ to_i32(FlagsWord(s.flags)) = FlagsWord(s.flags)
      /\ FlagsOf(FlagsWord(s.flags)) = s.flags
  <2>1. s.flags \in Flags
    BY DEF MachineState
  <2>2. s.pc \in Int /\ to_i32(s.pc) = s.pc
    <3>. DEFINE pc == s.pc
    <3>1. pc \in Word
      OBVIOUS
    <3>. HIDE DEF pc
    <3>2. pc \in Int /\ to_i32(pc) = pc
      BY <3>1, IsaAssumption DEF IsaAssumption, Word, to_i32, to_u32
    <3>. QED  BY <3>2 DEF pc
  <2>. QED  BY <2>1, <2>2, FlagsSurvive, FlagsWordInt
<1>3. /\ masked \in MachineState /\ masked.raised = "none" /\ masked.in_interrupt_handler
      /\ Sp(masked) = Sp(s) /\ masked.data_memory = s.data_memory
  BY DEF MachineState, Sp
<1>. HIDE DEF masked
<1>4. /\ half \in MachineState /\ half.raised = "none" /\ half.in_interrupt_handler
      /\ half.data_memory = [s.data_memory EXCEPT ![pcAt] = s.pc]
      /\ Sp(half) = pcAt
  <2>1. Sp(masked) - WORD_BYTES = pcAt
    BY <1>3 DEF pcAt
  <2>2. /\ half \in MachineState /\ half.raised = "none"
        /\ half.in_interrupt_handler = masked.in_interrupt_handler
        /\ half.data_memory = [masked.data_memory EXCEPT ![pcAt] = to_i32(s.pc)]
        /\ half.a_regs = [masked.a_regs EXCEPT ![STACK_POINTER] = pcAt]
    BY <1>1, <1>2, <1>3, <2>1, PushInMemory
  <2>3. masked.a_regs \in [REGISTERS -> Word]
    BY <1>3 DEF MachineState
  <2>. HIDE DEF half
  <2>4. Sp(half) = pcAt
    BY <2>2, <2>3 DEF Sp, REGISTERS, STACK_POINTER
  <2>. QED  BY <1>2, <1>3, <2>2, <2>4
<1>. HIDE DEF half
<1>5. /\ saved \in MachineState /\ saved.raised = "none" /\ saved.in_interrupt_handler
      /\ saved.data_memory = [half.data_memory EXCEPT ![flagsAt] = FlagsWord(s.flags)]
      /\ Sp(saved) = flagsAt
  <2>1. Sp(half) - WORD_BYTES = flagsAt
    BY <1>1, <1>4
  <2>2. /\ saved \in MachineState /\ saved.raised = "none"
        /\ saved.in_interrupt_handler = half.in_interrupt_handler
        /\ saved.data_memory = [half.data_memory EXCEPT ![flagsAt] = to_i32(FlagsWord(s.flags))]
        /\ saved.a_regs = [half.a_regs EXCEPT ![STACK_POINTER] = flagsAt]
    <3>. DEFINE word == FlagsWord(s.flags)
    <3>1. word \in Int
      BY <1>2
    <3>. HIDE DEF word
    <3>2. /\ PushValue(half, word) \in MachineState /\ PushValue(half, word).raised = "none"
          /\ PushValue(half, word).in_interrupt_handler = half.in_interrupt_handler
          /\ PushValue(half, word).data_memory = [half.data_memory EXCEPT ![flagsAt] = to_i32(word)]
          /\ PushValue(half, word).a_regs = [half.a_regs EXCEPT ![STACK_POINTER] = flagsAt]
      <4>1. Sp(half) - WORD_BYTES \in DataAddress
        BY <1>1, <2>1
      <4>. QED  BY <1>4, <2>1, <3>1, <4>1, PushInMemory, Zenon
    <3>. QED  BY <3>2 DEF word
  <2>3. half.a_regs \in [REGISTERS -> Word]
    BY <1>4 DEF MachineState
  <2>. HIDE DEF saved
  <2>4. Sp(saved) = flagsAt
    BY <2>2, <2>3 DEF Sp, REGISTERS, STACK_POINTER
  <2>. QED  BY <1>2, <1>4, <2>2, <2>4
<1>6. saved.data_memory[pcAt] = s.pc /\ saved.data_memory[flagsAt] = FlagsWord(s.flags)
  <2>1. s.data_memory \in [DataAddress -> Word]
    BY DEF MachineState
  <2>2. half.data_memory[pcAt] = s.pc /\ flagsAt \in DOMAIN half.data_memory
    BY <1>1, <1>4, <2>1
  <2>. HIDE DEF saved
  <2>. QED  BY <1>1, <1>5, <2>2
<1>7. /\ t.raised = "none" /\ t.pc = image.interrupt_vectors[1] /\ t.in_interrupt_handler
      /\ t.data_memory = saved.data_memory /\ Sp(t) = Sp(saved)
  <2>. HIDE DEF saved
  <2>1. t = Tick(JumpTo(saved, image.interrupt_vectors[1]), 4)
    BY DEF TriggerInterrupt, saved, half, masked
  <2>2. JumpTo(saved, image.interrupt_vectors[1]) = [saved EXCEPT !.pc = image.interrupt_vectors[1]]
    BY <1>5 DEF JumpTo, Then
  <2>. HIDE DEF t
  <2>. QED  BY <1>5, <2>1, <2>2 DEF Tick, Then, MachineState, Sp
<1>. HIDE DEF t, saved
<1>. QED  BY <1>5, <1>6, <1>7 DEF pcAt, flagsAt, t

\* An IRET that finds flags and a PC in two words of the memory goes on there.
LEMMA IretResumes ==
    ASSUME SIGN_BIT >= 16, NEW u \in MachineState, u.raised = "none",
           NEW f \in Flags, NEW pc \in Word, SavedWords(u) \subseteq DataAddress,
           u.data_memory[Sp(u)] = FlagsWord(f), u.data_memory[Sp(u) + WORD_BYTES] = pc
    PROVE  LET r == Iret(u) IN
           /\ r.raised = "none" /\ r.halted = u.halted
           /\ r.pc = pc /\ r.flags = f
           /\ ~r.in_interrupt_handler
           /\ r.tick_counter >= u.tick_counter
           /\ r.d_regs = u.d_regs /\ r.data_memory = u.data_memory
           /\ r.a_regs = [u.a_regs EXCEPT ![STACK_POINTER] = Sp(u) + 2 * WORD_BYTES]
<1>. DEFINE pcAt == Sp(u) + WORD_BYTES
            flagsAt == Sp(u)
            spAfter == Sp(u) + 2 * WORD_BYTES
<1>1. /\ pcAt \in Int /\ flagsAt \in Int /\ spAfter \in Int
      /\ flagsAt + WORD_BYTES = pcAt /\ pcAt + WORD_BYTES = spAfter
      /\ flagsAt # pcAt /\ pcAt \in DataAddress /\ flagsAt \in DataAddress
  BY SpType DEF WORD_BYTES, SavedWords
<1>2. /\ pc \in Int /\ pc \in ProgramCounter
      /\ FlagsWord(f) \in Int /\ FlagsOf(FlagsWord(f)) = f
  BY FlagsSurvive, FlagsWordInt, WordInt, WordIsTarget
<1>3. Sp(u) = flagsAt /\ u.data_memory[flagsAt] = FlagsWord(f) /\ u.data_memory[pcAt] = pc
  OBVIOUS
<1>. HIDE DEF pcAt, flagsAt, spAfter
<1>. DEFINE popped == AfterPop(u)
            flagged == SetFlags(popped, FlagsOf(PoppedValue(u)))
            again == AfterPop(flagged)
            resumed == JumpTo(again, PoppedValue(flagged))
<1>9. /\ PoppedValue(u) = FlagsWord(f)
      /\ popped = [u EXCEPT !.a_regs[STACK_POINTER] = pcAt] /\ popped \in MachineState
      /\ popped.raised = "none"
  <2>1. /\ PoppedValue(u) = FlagsWord(f)
        /\ popped = [u EXCEPT !.a_regs[STACK_POINTER] = pcAt] /\ popped \in MachineState
    BY <1>1, <1>3, PopInMemory
  <2>. QED  BY <2>1 DEF MachineState
<1>10. /\ flagged = [popped EXCEPT !.flags = f]
       /\ flagged \in MachineState /\ flagged.raised = "none"
       /\ flagged.data_memory = u.data_memory /\ Sp(flagged) = pcAt
  <2>. HIDE DEF popped
  <2>1. flagged = [popped EXCEPT !.flags = f]
    BY <1>2, <1>9 DEF SetFlags, Then
  <2>2. u.a_regs \in [REGISTERS -> Word]
    BY DEF MachineState
  <2>3. popped.data_memory = u.data_memory /\ Sp(popped) = pcAt
    BY <1>9, <2>2 DEF MachineState, Sp, REGISTERS, STACK_POINTER
  <2>. HIDE DEF flagged
  <2>4. flagged.raised = "none" /\ flagged.data_memory = popped.data_memory /\ Sp(flagged) = Sp(popped)
    BY <1>9, <2>1 DEF MachineState, Sp
  <2>5. flagged \in MachineState
    BY <1>2, <1>9, SetFlagsType DEF Same, flagged
  <2>. QED  BY <2>1, <2>3, <2>4, <2>5
<1>11. /\ PoppedValue(flagged) = pc
       /\ again = [flagged EXCEPT !.a_regs[STACK_POINTER] = spAfter] /\ again \in MachineState
       /\ again.raised = "none"
  <2>. HIDE DEF flagged
  <2>1. /\ PoppedValue(flagged) = pc
        /\ again = [flagged EXCEPT !.a_regs[STACK_POINTER] = spAfter] /\ again \in MachineState
    BY <1>1, <1>3, <1>10, PopInMemory
  <2>. QED  BY <1>10, <2>1 DEF MachineState
<1>12. Iret(u) = Tick([[again EXCEPT !.pc = pc] EXCEPT !.in_interrupt_handler = FALSE], 4)
  <2>. HIDE DEF again, flagged
  <2>1. resumed = [again EXCEPT !.pc = pc] /\ resumed.raised = "none"
    BY <1>11 DEF JumpTo, Then, MachineState
  <2>2. Iret(u) = Tick(Then(resumed, [resumed EXCEPT !.in_interrupt_handler = FALSE]), 4)
    BY DEF Iret, again, flagged
  <2>. QED  BY <2>1, <2>2 DEF Then
<1>13. /\ Iret(u).raised = "none" /\ Iret(u).pc = pc /\ Iret(u).flags = f
       /\ ~Iret(u).in_interrupt_handler
       /\ Iret(u).d_regs = u.d_regs /\ Iret(u).data_memory = u.data_memory
       /\ Iret(u).a_regs = [u.a_regs EXCEPT ![STACK_POINTER] = spAfter]
  <2>. HIDE DEF again, flagged, popped
  <2>1. /\ Iret(u).raised = "none" /\ Iret(u).pc = pc
        /\ ~Iret(u).in_interrupt_handler
        /\ Iret(u).flags = again.flags
        /\ Iret(u).d_regs = again.d_regs /\ Iret(u).data_memory = again.data_memory
        /\ Iret(u).a_regs = again.a_regs
    BY <1>11, <1>12 DEF Tick, Then, MachineState
  <2>2. /\ again.flags = f /\ again.d_regs = popped.d_regs
        /\ again.data_memory = popped.data_memory
        /\ again.a_regs = [popped.a_regs EXCEPT ![STACK_POINTER] = spAfter]
    BY <1>9, <1>10, <1>11 DEF MachineState
  <2>3. /\ popped.d_regs = u.d_regs /\ popped.data_memory = u.data_memory
        /\ popped.a_regs = [u.a_regs EXCEPT ![STACK_POINTER] = pcAt]
    BY <1>9 DEF MachineState
  <2>4. u.a_regs \in [REGISTERS -> Word]
    BY DEF MachineState
  <2>. QED  BY <2>1, <2>2, <2>3, <2>4
<1>14. Iret(u).halted = u.halted /\ Iret(u).tick_counter >= u.tick_counter
  <2>. HIDE DEF again, flagged, popped
  <2>1. Iret(u).halted = again.halted /\ Iret(u).tick_counter = again.tick_counter + 4
    BY <1>11, <1>12 DEF Tick, Then, MachineState
  <2>2. again.halted = popped.halted /\ again.tick_counter = popped.tick_counter
    BY <1>9, <1>10, <1>11 DEF MachineState
  <2>3. popped.halted = u.halted /\ popped.tick_counter = u.tick_counter /\ u.tick_counter \in Nat
    BY <1>9 DEF MachineState
  <2>. QED  BY <2>1, <2>2, <2>3
<1>. QED  BY <1>13, <1>14 DEF spAfter

\* A trap between two instructions and the IRET of a handler that leaves A7
\* and the two pushed words as it found them: the program goes on where it was
\* interrupted, with its flags and its stack, and traps are no longer masked.
\* Registers and memory are those the handler leaves (machine.py:304-317,503-524).
THEOREM TrapReturns ==
    ASSUME IsImage(image), image.interrupt_vectors # <<>>, SIGN_BIT >= 16,
           NEW s \in MachineState, s.raised = "none", s.pc \in Word,
           Room(s) \subseteq DataAddress,
           NEW u \in MachineState, u.raised = "none",
           Sp(u) = Sp(TriggerInterrupt(s)),
           \A a \in Room(s) : u.data_memory[a] = TriggerInterrupt(s).data_memory[a]
    PROVE  /\ TriggerInterrupt(s).raised = "none"
           /\ TriggerInterrupt(s).pc = image.interrupt_vectors[1]
           /\ TriggerInterrupt(s).in_interrupt_handler
           /\ Iret(u).raised = "none"
           /\ Iret(u).pc = s.pc /\ Iret(u).flags = s.flags
           /\ Sp(Iret(u)) = Sp(s)
           /\ ~Iret(u).in_interrupt_handler
           /\ Iret(u).d_regs = u.d_regs /\ Iret(u).data_memory = u.data_memory
           /\ \A r \in REGISTERS \ {STACK_POINTER} : Iret(u).a_regs[r] = u.a_regs[r]
<1>. DEFINE t == TriggerInterrupt(s)
            r == Iret(u)
<1>1. /\ t.raised = "none" /\ t.pc = image.interrupt_vectors[1] /\ t.in_interrupt_handler
      /\ Sp(t) = Sp(s) - 2 * WORD_BYTES
      /\ t.data_memory[Sp(s) - 2 * WORD_BYTES] = FlagsWord(s.flags)
      /\ t.data_memory[Sp(s) - WORD_BYTES] = s.pc
  BY TrapSaves
<1>2. Sp(u) = Sp(s) - 2 * WORD_BYTES /\ Sp(s) \in Int
  BY <1>1, SpType
<1>. HIDE DEF t
<1>3. /\ Sp(u) + WORD_BYTES = Sp(s) - WORD_BYTES /\ Sp(u) + 2 * WORD_BYTES = Sp(s)
  BY <1>2 DEF WORD_BYTES
<1>4. /\ SavedWords(u) \subseteq DataAddress
      /\ u.data_memory[Sp(u)] = FlagsWord(s.flags) /\ u.data_memory[Sp(u) + WORD_BYTES] = s.pc
  BY <1>1, <1>2, <1>3 DEF SavedWords, Room, t
<1>5. s.flags \in Flags /\ u.a_regs \in [REGISTERS -> Word]
  BY DEF MachineState
<1>6. /\ r.raised = "none" /\ r.pc = s.pc /\ r.flags = s.flags /\ ~r.in_interrupt_handler
      /\ r.d_regs = u.d_regs /\ r.data_memory = u.data_memory
      /\ r.a_regs = [u.a_regs EXCEPT ![STACK_POINTER] = Sp(u) + 2 * WORD_BYTES]
  BY <1>4, <1>5, IretResumes
<1>. HIDE DEF r
<1>7. Sp(r) = Sp(s) /\ \A n \in REGISTERS \ {STACK_POINTER} : r.a_regs[n] = u.a_regs[n]
  BY <1>3, <1>5, <1>6 DEF Sp, REGISTERS, STACK_POINTER
<1>. QED  BY <1>1, <1>6, <1>7 DEF t, r

-----------------------------------------------------------------------------
(* The two processors.                                                     *)

\* While the first handles an interrupt the second stands where it was
\* interrupted, and the state that the trap left has what IRET restores.
Suspended ==
    /\ shadow.raised = "none" /\ ~shadow.halted /\ shadow.pc \in Word
    /\ \A a \in DataAddress \ stale : cpu.data_memory[a] = shadow.data_memory[a]
    /\ entered.d_regs = shadow.d_regs
    /\ entered.a_regs = [shadow.a_regs EXCEPT ![STACK_POINTER] = Sp(shadow) - 2 * WORD_BYTES]
    /\ SavedWords(entered) \subseteq DataAddress =>
          /\ entered.data_memory[Sp(entered)] = FlagsWord(shadow.flags)
          /\ entered.data_memory[Sp(entered) + WORD_BYTES] = shadow.pc

\* The second is never ahead, has no input and so no handler.
Behind ==
    /\ shadow \in MachineState /\ entered \in MachineState
    /\ shadow.input_schedule = <<>>
    /\ ~shadow.in_interrupt_handler
    /\ shadow.tick_counter <= cpu.tick_counter

\* The inductive invariant.  An exception in the handler ends the run.
TrapInv ==
    /\ TypeOK
    /\ Behind
    /\ TrapsAreTransparent
    /\ cpu.in_interrupt_handler /\ cpu.raised = "none" => Suspended

\* The check before an instruction of the program changes the ports at most,
LEMMA PolledInProgram ==
    ASSUME TypeOK, InProgram
    PROVE  /\ Polled \in MachineState /\ PortsAside(Polled, cpu)
           /\ ~cpu.in_interrupt_handler
<1>1. cpu \in MachineState /\ IsImage(image)
  BY DEF TypeOK
<1>2. Polled \in MachineState
  BY <1>1, CheckInterruptsType DEF Polled, Spends
<1>3. CASE Polled = cpu
  BY <1>2, <1>3 DEF PortsAside, InProgram, MachineState
<1>4. CASE InputIsDue(cpu)
  <2>1. DeliverInput(cpu) \in MachineState
    BY <1>1, <1>4, DeliverInputType DEF Same
  <2>2. Polled = DeliverInput(cpu)
    BY <1>1, <1>4, <2>1, TrapKeeps DEF Polled, CheckInterrupts, TriggerInterrupt, InProgram
  <2>3. PortsAside(Polled, cpu)
    BY <1>1, <2>2 DEF DeliverInput, PortsAside, MachineState
  <2>. QED  BY <1>1, <1>2, <2>3 DEF PortsAside, InProgram, MachineState
<1>. QED  BY <1>3, <1>4 DEF Polled, CheckInterrupts

\* so does the one within the handler, and the one that calls it traps.
LEMMA PolledInHandler ==
    ASSUME TypeOK, ~InProgram
    PROVE  /\ Polled \in MachineState
           /\ \/ cpu.in_interrupt_handler /\ PortsAside(Polled, cpu)
              \/ /\ ~cpu.in_interrupt_handler /\ image.interrupt_vectors # <<>>
                 /\ \E d \in MachineState : PortsAside(d, cpu) /\ Polled = TriggerInterrupt(d)
<1>1. cpu \in MachineState /\ IsImage(image)
  BY DEF TypeOK
<1>2. Polled \in MachineState
  BY <1>1, CheckInterruptsType DEF Polled, Spends
<1>3. CASE Polled = cpu
  BY <1>2, <1>3 DEF PortsAside, InProgram, MachineState
<1>4. CASE InputIsDue(cpu)
  <2>1. DeliverInput(cpu) \in MachineState
    BY <1>1, <1>4, DeliverInputType DEF Same
  <2>2. PortsAside(DeliverInput(cpu), cpu)
    BY <1>1 DEF DeliverInput, PortsAside, MachineState
  <2>3. CASE Polled = DeliverInput(cpu)
    BY <1>1, <1>2, <2>2, <2>3 DEF PortsAside, InProgram, MachineState
  <2>4. CASE /\ Polled = TriggerInterrupt(DeliverInput(cpu)) /\ ~cpu.in_interrupt_handler
             /\ image.interrupt_vectors # <<>>
    BY <1>2, <2>1, <2>2, <2>4
  <2>. QED  BY <1>4, <2>3, <2>4 DEF Polled, CheckInterrupts, TriggerInterrupt
<1>. QED  BY <1>3, <1>4 DEF Polled, CheckInterrupts

\* The words that the program may read are those that the two agree on.
Agreement == [live |-> DataAddress \ stale, masked |-> FALSE, schedule |-> <<>>]

\* One step of both keeps them together.
LEMMA ProgramTwins ==
    ASSUME TrapInv, ProgramKeepsOut, InProgram, Step, Undisturbed!Step
    PROVE  Twins(Agreement, IF cpu'.raised = "none" THEN Writes ELSE {}, cpu', shadow')
<1>1. /\ TypeOK /\ cpu \in MachineState /\ IsImage(image)
      /\ shadow \in MachineState /\ shadow.input_schedule = <<>>
      /\ ~shadow.in_interrupt_handler /\ shadow.tick_counter <= cpu.tick_counter
  BY DEF TrapInv, TypeOK, Behind
<1>2. /\ Polled \in MachineState /\ PortsAside(Polled, cpu)
      /\ ~cpu.in_interrupt_handler
  BY <1>1, PolledInProgram
<1>3. Running /\ cpu' = Attempted(Polled)
  BY <1>1, StepAttempts
<1>4. Undisturbed!Polled = shadow
  BY <1>1, SameHelpers DEF Undisturbed!Polled, CheckInterrupts, InputIsDue
<1>5. shadow' = Attempted(shadow)
  BY <1>1, <1>4, UndisturbedAttempts
<1>6. Twins(Agreement, {}, Polled, shadow)
  <2>1. TrapsAreTransparent
    BY DEF TrapInv
  <2>2. Twins(Agreement, {}, cpu, shadow)
    <3>. DEFINE live == DataAddress \ stale
    <3>1. \A a \in DataAddress : a \in live => shadow.data_memory[a] = cpu.data_memory[a]
      BY <1>2, <2>1 DEF TrapsAreTransparent
    <3>2. cpu.in_interrupt_handler = FALSE /\ shadow.in_interrupt_handler = FALSE
      BY <1>1, <1>2 DEF MachineState
    <3>3. shadow.tick_counter <= cpu.tick_counter
      BY <1>1
    <3>. HIDE DEF live
    <3>. QED  BY <1>1, <1>2, <2>1, <3>1, <3>2, <3>3 DEF Twins, Agreement, TrapsAreTransparent, live
  <2>3. PortsAside(shadow, shadow)
    BY DEF PortsAside
  <2>. QED  BY <1>1, <1>2, <2>2, <2>3, TwinsPortsAside
<1>7. Polled.raised = "none" /\ shadow.raised = "none" /\ shadow.pc = Polled.pc
  BY <1>2, <1>3, <1>6 DEF Running, PortsAside, Twins
<1>8. CASE Polled.pc \notin DOMAIN image.code
  <2>1. /\ cpu' = Raise([Polled EXCEPT !.halted = TRUE], "ValueError")
        /\ shadow' = Raise([shadow EXCEPT !.halted = TRUE], "ValueError")
    BY <1>3, <1>5, <1>7, <1>8 DEF Attempted
  <2>2. Twins(Agreement, {}, [Polled EXCEPT !.halted = TRUE], [shadow EXCEPT !.halted = TRUE])
    BY <1>1, <1>2, <1>6 DEF Twins, MachineState
  <2>3. Twins(Agreement, {}, cpu', shadow')
    BY <2>1, <2>2, QuietTwins DEF Exceptions
  <2>4. cpu'.raised # "none"
    BY <1>2, <1>7, <2>1 DEF Raise, MachineState
  <2>. QED  BY <2>3, <2>4
<1>9. CASE Polled.pc \in DOMAIN image.code
  <2>. DEFINE t == [shadow EXCEPT !.pc = Decoded.next]
  <2>1. Fetches
    BY <1>3, <1>7, <1>9 DEF Fetches
  <2>2. cpu' = Executed(Fetched, Decoded.instr) /\ shadow' = Executed(t, Decoded.instr)
    BY <1>3, <1>5, <1>7, <1>9 DEF Attempted, Fetched, Decoded
  <2>3. Decoded.next \in ProgramCounter
    BY <1>1, <1>9, WordIsTarget DEF IsImage, Decoded
  <2>4. Twins(Agreement, {}, Fetched, t)
    BY <1>1, <1>2, <1>6, <2>3 DEF Twins, Fetched, MachineState
  <2>5. Len(Ops) >= Arity(Decoded.instr.opcode) => Readable(Agreement, Fetched, t, Reads)
    BY <1>2, <1>3, <2>1 DEF ProgramKeepsOut, Readable, Legible, Agreement
  <2>. HIDE DEF t
  <2>6. Twins(Agreement, Writes, cpu', shadow')
    BY <1>1, <2>1, <2>2, <2>4, <2>5, ExecutedTwins DEF Agreement
  <2>7. CASE cpu'.raised = "none"
    BY <2>6, <2>7
  <2>8. CASE cpu'.raised # "none"
    BY <2>6, <2>8 DEF Twins
  <2>. QED  BY <2>7, <2>8
<1>. QED  BY <1>8, <1>9

\* A step of the program keeps the invariant,
LEMMA ProgramStepSafe ==
    ASSUME TrapInv, ProgramKeepsOut, ProgramStep
    PROVE  TrapInv'
<1>1. Step /\ Undisturbed!Step /\ InProgram /\ Next
  BY DEF ProgramStep, Next, Undisturbed!Next
<1>2. Twins(Agreement, IF cpu'.raised = "none" THEN Writes ELSE {}, cpu', shadow')
  BY <1>1, ProgramTwins
<1>3. TypeOK'
  BY <1>1, TypeStep DEF TrapInv
<1>4. /\ stale' = IF cpu'.raised = "none" THEN stale \ Writes ELSE stale
      /\ entered' = entered
  BY DEF ProgramStep
<1>5. Behind'
  BY <1>2, <1>4 DEF TrapInv, Behind, Twins, Agreement
<1>6. \A a \in DataAddress \ stale' : cpu'.data_memory[a] = shadow'.data_memory[a]
  BY <1>2, <1>4 DEF Twins, Agreement
<1>7. TrapsAreTransparent' /\ ~cpu'.in_interrupt_handler
  BY <1>2, <1>6 DEF TrapsAreTransparent, Twins, Agreement
<1>. QED  BY <1>3, <1>5, <1>7 DEF TrapInv

\* Before each instruction of a handler the second processor is suspended,
\* and the state that its trap left is in entered or has just been left.
LEMMA HandlerPolled ==
    ASSUME TrapInv, ProgramKeepsOut, SIGN_BIT >= 16, Running, ~InProgram
    PROVE  LET saved == IF cpu.in_interrupt_handler THEN entered ELSE Polled IN
           /\ Polled \in MachineState /\ saved \in MachineState
           /\ Polled.in_interrupt_handler /\ ~Polled.halted
           /\ Polled.tick_counter >= shadow.tick_counter
           /\ shadow.raised = "none" /\ ~shadow.halted /\ shadow.pc \in Word
           /\ \A a \in DataAddress \ stale : cpu.data_memory[a] = shadow.data_memory[a]
           /\ Polled.raised = "none" =>
                 /\ saved.d_regs = shadow.d_regs
                 /\ saved.a_regs = [shadow.a_regs EXCEPT ![STACK_POINTER] = Sp(shadow) - 2 * WORD_BYTES]
                 /\ SavedWords(saved) \subseteq DataAddress =>
                       /\ saved.data_memory[Sp(saved)] = FlagsWord(shadow.flags)
                       /\ saved.data_memory[Sp(saved) + WORD_BYTES] = shadow.pc
<1>1. /\ TypeOK /\ cpu \in MachineState /\ IsImage(image) /\ Behind
      /\ cpu.raised = "none" /\ ~cpu.halted
      /\ shadow \in MachineState /\ entered \in MachineState
      /\ shadow.tick_counter <= cpu.tick_counter
  BY DEF TrapInv, TypeOK, Behind, Running
<1>2. Polled \in MachineState /\ Polled.in_interrupt_handler
  BY <1>1, PolledInHandler DEF InProgram
<1>3. CASE cpu.in_interrupt_handler
  <2>1. PortsAside(Polled, cpu)
    BY <1>1, <1>3, PolledInHandler
  <2>2. Suspended
    BY <1>1, <1>3 DEF TrapInv
  <2>. QED  BY <1>1, <1>2, <1>3, <2>1, <2>2 DEF PortsAside, Suspended
<1>4. CASE ~cpu.in_interrupt_handler
  <2>1. image.interrupt_vectors # <<>>
    BY <1>1, <1>4, PolledInHandler
  <2>2. PICK d \in MachineState : PortsAside(d, cpu) /\ Polled = TriggerInterrupt(d)
    BY <1>1, <1>4, PolledInHandler
  <2>3. /\ d.pc = shadow.pc /\ d.flags = shadow.flags /\ d.d_regs = shadow.d_regs
        /\ d.a_regs = shadow.a_regs /\ d.halted = shadow.halted /\ d.raised = shadow.raised
        /\ d.halted = cpu.halted /\ d.raised = "none" /\ d.tick_counter = cpu.tick_counter
        /\ \A a \in DataAddress \ stale : cpu.data_memory[a] = shadow.data_memory[a]
    BY <1>1, <1>4, <2>2 DEF TrapInv, TrapsAreTransparent, PortsAside
  <2>4. shadow.pc \in Word
    BY <1>4, <2>2, <2>3 DEF ProgramKeepsOut, PortsAside
  <2>5. /\ Polled.d_regs = d.d_regs /\ Polled.halted = d.halted
        /\ Polled.tick_counter >= d.tick_counter
        /\ Polled.raised = "none" =>
              Polled.a_regs = [d.a_regs EXCEPT ![STACK_POINTER] = Sp(d) - 2 * WORD_BYTES]
    BY <1>1, <2>1, <2>2, TrapKeeps
  <2>6. Sp(d) = Sp(shadow)
    BY <2>3 DEF Sp
  <2>7. ASSUME Polled.raised = "none", SavedWords(Polled) \subseteq DataAddress
        PROVE  /\ Polled.data_memory[Sp(Polled)] = FlagsWord(shadow.flags)
               /\ Polled.data_memory[Sp(Polled) + WORD_BYTES] = shadow.pc
    <3>1. Sp(d) \in Int /\ d.a_regs \in [REGISTERS -> Word]
      BY SpType DEF MachineState
    <3>2. Sp(Polled) = Sp(d) - 2 * WORD_BYTES
      BY <2>5, <2>7, <3>1 DEF Sp, REGISTERS, STACK_POINTER
    <3>3. Sp(Polled) + WORD_BYTES = Sp(d) - WORD_BYTES
      BY <3>1, <3>2 DEF WORD_BYTES
    <3>4. Room(d) \subseteq DataAddress
      BY <2>7, <3>2, <3>3 DEF Room, SavedWords
    <3>. QED  BY <1>1, <2>1, <2>2, <2>3, <2>4, <3>2, <3>3, <3>4, TrapSaves
  <2>8. Polled.tick_counter >= shadow.tick_counter
    BY <1>1, <1>2, <2>3, <2>5 DEF MachineState
  <2>. QED  BY <1>1, <1>2, <1>4, <2>3, <2>4, <2>5, <2>6, <2>7, <2>8
<1>. QED  BY <1>3, <1>4

\* Whatever it executes but IRET, a handler goes on.
LEMMA HandlerGoesOn ==
    ASSUME TypeOK, Step, ~InProgram, Fetches => Decoded.instr.opcode # "IRET"
    PROVE  cpu'.in_interrupt_handler
<1>1. cpu \in MachineState /\ IsImage(image) /\ Polled.in_interrupt_handler
  BY DEF TypeOK, InProgram
<1>2. Polled \in MachineState
  BY PolledInHandler
<1>3. Running /\ cpu' = Attempted(Polled)
  BY <1>1, StepAttempts
<1>4. CASE Polled.raised # "none"
  BY <1>1, <1>3, <1>4 DEF Attempted
<1>5. CASE Polled.raised = "none" /\ Polled.pc \notin DOMAIN image.code
  BY <1>1, <1>2, <1>3, <1>5 DEF Attempted, Raise, MachineState
<1>6. CASE Polled.raised = "none" /\ Polled.pc \in DOMAIN image.code
  <2>. DEFINE s == Fetched
              k == [live |-> {}, masked |-> TRUE, schedule |-> s.input_schedule]
  <2>1. Fetches /\ cpu' = Executed(s, Decoded.instr)
    BY <1>3, <1>6 DEF Fetches, Attempted, Fetched, Decoded
  <2>2. s \in MachineState /\ s.in_interrupt_handler
    BY <1>1, <1>2, <2>1, FetchType DEF Same, Fetched, MachineState
  <2>3. Twins(k, {}, s, s)
    BY <2>2 DEF Twins, MachineState
  <2>4. Readable(k, s, s, Reads)
    BY DEF Readable, Legible
  <2>. HIDE DEF k
  <2>5. Twins(k, Writes, cpu', cpu')
    BY <1>1, <2>1, <2>3, <2>4, ExecutedTwins
  <2>. QED  BY <2>5 DEF Twins, k
<1>. QED  BY <1>4, <1>5, <1>6

\* Its IRET brings the two processors together.
LEMMA HandlerReturns ==
    ASSUME TrapInv, ProgramKeepsOut, HandlerRestores, SIGN_BIT >= 16, Step, ~InProgram,
           Fetches, Decoded.instr.opcode = "IRET"
    PROVE  /\ cpu'.pc = shadow.pc /\ cpu'.flags = shadow.flags
           /\ cpu'.d_regs = shadow.d_regs /\ cpu'.a_regs = shadow.a_regs
           /\ cpu'.halted = shadow.halted /\ cpu'.raised = shadow.raised
           /\ ~cpu'.in_interrupt_handler
<1>. DEFINE saved == IF cpu.in_interrupt_handler THEN entered ELSE Polled
            u == Fetched
<1>1. /\ TypeOK /\ cpu \in MachineState /\ IsImage(image) /\ shadow \in MachineState
      /\ Running /\ Polled.raised = "none"
  BY DEF TrapInv, TypeOK, Behind, Fetches
<1>2. /\ Polled \in MachineState /\ saved \in MachineState /\ ~Polled.halted
      /\ shadow.raised = "none" /\ ~shadow.halted /\ shadow.pc \in Word
      /\ saved.d_regs = shadow.d_regs
      /\ saved.a_regs = [shadow.a_regs EXCEPT ![STACK_POINTER] = Sp(shadow) - 2 * WORD_BYTES]
      /\ SavedWords(saved) \subseteq DataAddress =>
            /\ saved.data_memory[Sp(saved)] = FlagsWord(shadow.flags)
            /\ saved.data_memory[Sp(saved) + WORD_BYTES] = shadow.pc
  BY <1>1, HandlerPolled
<1>3. /\ Polled.d_regs = saved.d_regs /\ Polled.a_regs = saved.a_regs
      /\ \A a \in SavedWords(saved) :
            a \in DataAddress /\ Polled.data_memory[a] = saved.data_memory[a]
  BY DEF HandlerRestores
<1>. HIDE DEF saved
<1>4. /\ u \in MachineState /\ u.raised = "none" /\ ~u.halted
      /\ u.d_regs = Polled.d_regs /\ u.a_regs = Polled.a_regs
      /\ u.data_memory = Polled.data_memory
  <2>1. u \in MachineState
    BY <1>1, FetchType DEF Same
  <2>. QED  BY <1>1, <1>2, <2>1 DEF Fetched, MachineState
<1>5. cpu' = Iret(u)
  <2>1. cpu' = Executed(u, Decoded.instr)
    BY <1>1, StepAttempts DEF Fetches, Attempted, Fetched, Decoded
  <2>2. Len(Decoded.instr.operands) \in Nat
    BY <1>1, FetchType DEF Ops
  <2>3. ~(Len(Decoded.instr.operands) < Arity("IRET"))
    BY <2>2 DEF Arity, AluOps, JumpOps
  <2>. QED  BY <2>1, <2>3 DEF Executed, AluOps, JumpOps
<1>. HIDE DEF u
<1>6. Sp(u) = Sp(saved) /\ SavedWords(u) = SavedWords(saved)
  BY <1>3, <1>4 DEF Sp, SavedWords
<1>7. /\ SavedWords(u) \subseteq DataAddress
      /\ u.data_memory[Sp(u)] = FlagsWord(shadow.flags)
      /\ u.data_memory[Sp(u) + WORD_BYTES] = shadow.pc
  BY <1>2, <1>3, <1>4, <1>6 DEF SavedWords
<1>8. shadow.flags \in Flags /\ shadow.a_regs \in [REGISTERS -> Word] /\ Sp(shadow) \in Int
  BY <1>1, SpType DEF MachineState
<1>9. /\ cpu'.raised = "none" /\ cpu'.halted = u.halted
      /\ cpu'.pc = shadow.pc /\ cpu'.flags = shadow.flags
      /\ ~cpu'.in_interrupt_handler
      /\ cpu'.d_regs = u.d_regs
      /\ cpu'.a_regs = [u.a_regs EXCEPT ![STACK_POINTER] = Sp(u) + 2 * WORD_BYTES]
  BY <1>2, <1>4, <1>5, <1>7, <1>8, IretResumes
<1>10. Sp(u) + 2 * WORD_BYTES = Sp(shadow)
  BY <1>2, <1>6, <1>8 DEF Sp, REGISTERS, STACK_POINTER, WORD_BYTES
<1>11. cpu'.a_regs = shadow.a_regs
  BY <1>2, <1>3, <1>4, <1>8, <1>9, <1>10 DEF Sp, REGISTERS, STACK_POINTER
<1>12. cpu'.halted = shadow.halted
  BY <1>1, <1>2, <1>4, <1>9 DEF MachineState
<1>. QED  BY <1>2, <1>3, <1>4, <1>9, <1>11, <1>12

\* and so does a step of the handler.
LEMMA HandlerStepSafe ==
    ASSUME TrapInv, ProgramKeepsOut, HandlerRestores, SIGN_BIT >= 16, HandlerStep
    PROVE  TrapInv'
<1>. DEFINE saved == IF cpu.in_interrupt_handler THEN entered ELSE Polled
<1>1. /\ TypeOK /\ cpu \in MachineState /\ IsImage(image) /\ Behind
      /\ Step /\ ~InProgram /\ Next /\ shadow' = shadow
      /\ entered' = saved
      /\ stale' = stale \cup {a \in DataAddress : cpu'.data_memory[a] # cpu.data_memory[a]}
  BY DEF TrapInv, TypeOK, HandlerStep, Next
<1>2. Running
  BY <1>1, StepAttempts
<1>3. TypeOK'
  BY <1>1, TypeStep
<1>4. cpu.tick_counter \in Nat /\ cpu'.tick_counter >= cpu.tick_counter
  BY <1>1, StepType DEF MachineState
<1>5. /\ saved \in MachineState
      /\ shadow.raised = "none" /\ ~shadow.halted /\ shadow.pc \in Word
      /\ \A a \in DataAddress \ stale : cpu.data_memory[a] = shadow.data_memory[a]
      /\ Polled.raised = "none" =>
            /\ saved.d_regs = shadow.d_regs
            /\ saved.a_regs = [shadow.a_regs EXCEPT ![STACK_POINTER] = Sp(shadow) - 2 * WORD_BYTES]
            /\ SavedWords(saved) \subseteq DataAddress =>
                  /\ saved.data_memory[Sp(saved)] = FlagsWord(shadow.flags)
                  /\ saved.data_memory[Sp(saved) + WORD_BYTES] = shadow.pc
  BY <1>1, <1>2, HandlerPolled
<1>. HIDE DEF saved
<1>6. Behind' /\ shadow'.tick_counter <= cpu'.tick_counter
  <2>1. shadow.tick_counter \in Nat /\ cpu'.tick_counter \in Nat
    BY <1>1, <1>3 DEF Behind, TypeOK, MachineState
  <2>. QED  BY <1>1, <1>4, <1>5, <2>1 DEF Behind
<1>7. \A a \in DataAddress \ stale' : cpu'.data_memory[a] = shadow'.data_memory[a]
  BY <1>1, <1>5
<1>8. CASE Fetches /\ Decoded.instr.opcode = "IRET"
  <2>1. /\ cpu'.pc = shadow'.pc /\ cpu'.flags = shadow'.flags
        /\ cpu'.d_regs = shadow'.d_regs /\ cpu'.a_regs = shadow'.a_regs
        /\ cpu'.halted = shadow'.halted /\ cpu'.raised = shadow'.raised
        /\ ~cpu'.in_interrupt_handler
    BY <1>1, <1>8, HandlerReturns
  <2>2. cpu'.tick_counter >= shadow'.tick_counter
    BY <1>1, <1>3, <1>6 DEF Behind, TypeOK, MachineState
  <2>3. TrapsAreTransparent'
    BY <1>7, <2>1, <2>2 DEF TrapsAreTransparent
  <2>. QED  BY <1>3, <1>6, <2>1, <2>3 DEF TrapInv
<1>9. CASE ~(Fetches /\ Decoded.instr.opcode = "IRET")
  <2>1. cpu'.in_interrupt_handler
    BY <1>1, <1>9, HandlerGoesOn
  <2>2. TrapsAreTransparent'
    BY <2>1 DEF TrapsAreTransparent
  <2>3. ASSUME cpu'.raised = "none" PROVE Suspended'
    <3>1. Polled.raised = "none"
      BY <1>1, <2>3, StepAttempts DEF Attempted
    <3>. QED  BY <1>1, <1>5, <1>7, <3>1 DEF Suspended, Sp, SavedWords
  <2>. QED  BY <1>3, <1>6, <2>2, <2>3 DEF TrapInv
<1>. QED  BY <1>8, <1>9

\* A processor that has not begun is undisturbed.
LEMMA TrapInvInit == TrapInit => TrapInv
<1>. SUFFICES ASSUME TrapInit PROVE TrapInv
  OBVIOUS
<1>1. PICK schedule \in Schedules : cpu = NewMachine(image, schedule)
  BY DEF TrapInit, Init
<1>2. TypeOK /\ cpu \in MachineState /\ IsImage(image)
  BY TypeInit DEF TrapInit, TypeOK
<1>3. shadow = NewMachine(image, <<>>) /\ entered = cpu /\ stale = {}
  BY DEF TrapInit
<1>4. shadow \in MachineState
  <2>1. <<>> \in Schedule
    BY DEF Schedule
  <2>2. NewMachine(image, <<>>) \in MachineState
    BY <1>2, <2>1, NewMachineType
  <2>. QED  BY <1>3, <2>2
<1>5. SortedSchedule(<<>>) = <<>>
  BY DEF SortedSchedule
<1>6. Behind
  BY <1>1, <1>2, <1>3, <1>4, <1>5 DEF Behind, NewMachine
<1>7. TrapsAreTransparent /\ ~cpu.in_interrupt_handler
  BY <1>1, <1>3 DEF TrapsAreTransparent, NewMachine
<1>. QED  BY <1>2, <1>6, <1>7 DEF TrapInv

LEMMA TrapInvStep ==
    ASSUME SIGN_BIT >= 16
    PROVE  TrapInv /\ HandlerRestores /\ ProgramKeepsOut /\ [TrapNext]_trapVars => TrapInv'
<1>. SUFFICES ASSUME TrapInv, HandlerRestores, ProgramKeepsOut, [TrapNext]_trapVars
              PROVE  TrapInv'
  OBVIOUS
<1>1. CASE ProgramStep
  BY <1>1, ProgramStepSafe
<1>2. CASE HandlerStep
  BY <1>2, HandlerStepSafe
<1>3. CASE UNCHANGED trapVars
  BY <1>3 DEF TrapInv, TypeOK, IsImage, Behind, TrapsAreTransparent, Suspended, trapVars,
              SavedWords, Sp
<1>. QED  BY <1>1, <1>2, <1>3 DEF TrapNext

-----------------------------------------------------------------------------
(* The theorems.                                                           *)

\* Whatever the program, the handler and the times of the events: if handlers
\* restore what they use before their IRET and the program does not look at
\* what an interrupt leaves, an interrupt does not change what the program
\* computes.
THEOREM TrapsTransparent ==
    ASSUME SIGN_BIT >= 16
    PROVE  TrapSpec /\ []HandlerRestores /\ []ProgramKeepsOut => []TrapsAreTransparent
<1>1. TrapInv => TrapsAreTransparent
  BY DEF TrapInv
<1>. QED  BY <1>1, TrapInvInit, TrapInvStep, PTL DEF TrapSpec

\* Nor does the comparison hold because one of the two has stopped: whenever
\* the first can run an instruction of the program, so can the second.
THEOREM UndisturbedGoesOn ==
    ASSUME SIGN_BIT >= 16
    PROVE  TrapSpec /\ []HandlerRestores /\ []ProgramKeepsOut
              => [](Running /\ InProgram => Undisturbed!Running)
<1>1. TrapInv => (Running /\ InProgram => Undisturbed!Running)
  <2>. SUFFICES ASSUME TrapInv, Running, InProgram PROVE Undisturbed!Running
    OBVIOUS
  <2>1. ~cpu.in_interrupt_handler
    BY PolledInProgram DEF TrapInv
  <2>2. cpu.tick_counter \in Nat /\ shadow.tick_counter \in Nat /\ Limit \in Nat
    BY MachineAssumption DEF TrapInv, TypeOK, Behind, MachineState, MachineAssumption
  <2>. QED  BY <2>1, <2>2 DEF TrapInv, TrapsAreTransparent, Running, Undisturbed!Running
<1>. QED  BY <1>1, TrapInvInit, TrapInvStep, PTL DEF TrapSpec
===============================================================================
