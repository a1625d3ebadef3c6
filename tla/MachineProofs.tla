----------------------------- MODULE MachineProofs -----------------------------
(***************************************************************************)
(* Proofs about Machine, for every word width, memory size, set of images, *)
(* set of schedules and budget.                                            *)
(***************************************************************************)
EXTENDS Machine, BasicLemmas

-----------------------------------------------------------------------------
(* The order of the input.                                                 *)

\* The events of a schedule that pop before the i-th.
Earlier(s, i) == {j \in DOMAIN s : PopsBefore(s, j, i)}
Rank(s, i) == Cardinality(Earlier(s, i))

\* A schedule is a sequence of events.
LEMMA EventsOf ==
    ASSUME NEW s \in Schedule
    PROVE  /\ Len(s) \in Nat /\ DOMAIN s = 1 .. Len(s)
           /\ \A k \in DOMAIN s : s[k] \in [tick : Nat, char : Char] /\ s[k].tick \in Nat
<1>. DEFINE Event == [tick : Nat, char : Char]
<1>1. s \in Seq(Event)
  BY DEF Schedule
<1>. HIDE DEF Event
<1>2. Len(s) \in Nat /\ DOMAIN s = 1 .. Len(s)
  BY <1>1
<1>3. \A k \in DOMAIN s : s[k] \in Event
  BY <1>1
<1>. QED  BY <1>2, <1>3 DEF Event

\* Popping before is a total order of the events, and the rank of an event
\* grows along it.
LEMMA RankGrows ==
    ASSUME NEW s \in Schedule, NEW i \in DOMAIN s, NEW j \in DOMAIN s
    PROVE  /\ Rank(s, i) \in 0 .. (Len(s) - 1)
           /\ i # j => PopsBefore(s, i, j) \/ PopsBefore(s, j, i)
           /\ PopsBefore(s, i, j) => Rank(s, i) < Rank(s, j)
<1>. DEFINE n == Len(s)
<1>1. n \in Nat /\ DOMAIN s = 1 .. n /\ \A k \in 1 .. n : s[k].tick \in Nat
  BY EventsOf
<1>. HIDE DEF n
<1>2. IsFiniteSet(1 .. n) /\ Cardinality(1 .. n) = n
  BY <1>1, FS_Interval
<1>3. ASSUME NEW k \in 1 .. n
      PROVE  /\ IsFiniteSet(Earlier(s, k)) /\ Rank(s, k) \in Nat
             /\ Rank(s, k) <= n - 1
  <2>1. IsFiniteSet((1 .. n) \ {k}) /\ Cardinality((1 .. n) \ {k}) = n - 1
    BY <1>2, FS_RemoveElement
  <2>2. Earlier(s, k) \subseteq (1 .. n) \ {k}
    BY <1>1 DEF Earlier, PopsBefore
  <2>3. /\ IsFiniteSet(Earlier(s, k))
        /\ Cardinality(Earlier(s, k)) <= Cardinality((1 .. n) \ {k})
    BY <2>1, <2>2, FS_Subset
  <2>4. Cardinality(Earlier(s, k)) \in Nat
    BY <2>3, FS_CardinalityType
  <2>. QED  BY <2>1, <2>3, <2>4 DEF Rank
<1>4. i # j => PopsBefore(s, i, j) \/ PopsBefore(s, j, i)
  BY <1>1 DEF PopsBefore
<1>5. ASSUME PopsBefore(s, i, j) PROVE Rank(s, i) < Rank(s, j)
  <2>1. Earlier(s, i) \subseteq Earlier(s, j)
    BY <1>1, <1>5 DEF Earlier, PopsBefore
  <2>2. i \in Earlier(s, j) /\ i \notin Earlier(s, i)
    BY <1>1, <1>5 DEF Earlier, PopsBefore
  <2>3. /\ Cardinality(Earlier(s, i)) <= Cardinality(Earlier(s, j))
        /\ Cardinality(Earlier(s, i)) # Cardinality(Earlier(s, j))
    BY <1>1, <1>3, <2>1, <2>2, FS_Subset
  <2>. QED  BY <1>1, <1>3, <2>3 DEF Rank
<1>. QED  BY <1>1, <1>3, <1>4, <1>5

\* The event that pops k-th, whatever the schedule, exists and is unique:
\* sorting is a permutation of the events, by their ticks, and in the reverse
\* of their order in the file within a tick (machine.py:72-74,494-495).
THEOREM SortedScheduleCorrect ==
    ASSUME NEW s \in Schedule
    PROVE  \E p \in Bijection(DOMAIN s, DOMAIN s) :
              /\ SortedSchedule(s) = [k \in DOMAIN s |-> s[p[k]]]
              /\ \A k, l \in DOMAIN s : k < l => PopsBefore(s, p[k], p[l])
<1>. DEFINE n == Len(s)
            place == [i \in 1 .. n |-> Rank(s, i) + 1]
            p == [k \in 1 .. n |-> CHOOSE i \in 1 .. n : Rank(s, i) = k - 1]
<1>1. n \in Nat /\ DOMAIN s = 1 .. n
  BY EventsOf
<1>2. place \in [1 .. n -> 1 .. n]
  BY <1>1, RankGrows
<1>3. ASSUME NEW i \in 1 .. n, NEW j \in 1 .. n, Rank(s, i) = Rank(s, j)
      PROVE  i = j
  <2>1. Rank(s, i) \in Int /\ Rank(s, j) \in Int
    BY <1>1, RankGrows
  <2>2. ~PopsBefore(s, i, j) /\ ~PopsBefore(s, j, i)
    BY <1>1, <1>3, <2>1, RankGrows
  <2>. QED  BY <1>1, <2>2, RankGrows
<1>4. place \in Injection(1 .. n, 1 .. n)
  BY <1>1, <1>2, <1>3, RankGrows DEF Injection, IsInjective
<1>5. place \in Surjection(1 .. n, 1 .. n)
  BY <1>1, <1>4, FS_Interval, FS_Injection
<1>6. ASSUME NEW k \in 1 .. n PROVE \E i \in 1 .. n : Rank(s, i) = k - 1
  <2>1. PICK i \in 1 .. n : place[i] = k
    BY <1>5 DEF Surjection
  <2>. QED  BY <1>1, <2>1, RankGrows
<1>7. ASSUME NEW k \in 1 .. n PROVE p[k] \in 1 .. n /\ Rank(s, p[k]) = k - 1
  BY <1>6, <1>7
<1>. HIDE DEF p
<1>8. ASSUME NEW k \in 1 .. n, NEW l \in 1 .. n, k < l PROVE PopsBefore(s, p[k], p[l])
  <2>1. Rank(s, p[k]) < Rank(s, p[l])
    BY <1>1, <1>7, <1>8
  <2>2. p[k] \in DOMAIN s /\ p[l] \in DOMAIN s /\ Rank(s, p[k]) \in Int /\ Rank(s, p[l]) \in Int
    BY <1>1, <1>7
  <2>3. p[k] # p[l] /\ ~PopsBefore(s, p[l], p[k])
    BY <2>1, <2>2, RankGrows
  <2>. QED  BY <2>2, <2>3, RankGrows
<1>. USE DEF p
<1>9. p \in Bijection(1 .. n, 1 .. n)
  <2>1. p \in [1 .. n -> 1 .. n]
    BY <1>7
  <2>2. \A k, l \in 1 .. n : p[k] = p[l] => k = l
    BY <1>1, <1>7
  <2>3. \A i \in 1 .. n : \E k \in 1 .. n : p[k] = i
    <3>. TAKE i \in 1 .. n
    <3>1. Rank(s, i) + 1 \in 1 .. n
      BY <1>1, RankGrows
    <3>2. Rank(s, p[Rank(s, i) + 1]) = Rank(s, i) /\ p[Rank(s, i) + 1] \in 1 .. n
      BY <1>1, <1>7, <3>1, RankGrows
    <3>. QED  BY <1>3, <3>1, <3>2
  <2>. QED  BY <2>1, <2>2, <2>3 DEF Bijection, Injection, IsInjective, Surjection
<1>10. SortedSchedule(s) = [k \in 1 .. n |-> s[p[k]]]
  BY <1>1 DEF SortedSchedule, Rank, Earlier
<1>. HIDE DEF p
<1>. QED  BY <1>1, <1>8, <1>9, <1>10

\* In particular it is a schedule, whose ticks do not decrease.
LEMMA SortedScheduleType ==
    ASSUME NEW s \in Schedule
    PROVE  /\ SortedSchedule(s) \in Schedule
           /\ \A k, l \in DOMAIN SortedSchedule(s) :
                 k < l => SortedSchedule(s)[k].tick <= SortedSchedule(s)[l].tick
<1>1. PICK p \in Bijection(DOMAIN s, DOMAIN s) :
              /\ SortedSchedule(s) = [k \in DOMAIN s |-> s[p[k]]]
              /\ \A k, l \in DOMAIN s : k < l => PopsBefore(s, p[k], p[l])
  BY SortedScheduleCorrect
<1>2. \A k \in DOMAIN s : p[k] \in DOMAIN s
  BY <1>1 DEF Bijection, Injection, Surjection
<1>3. /\ Len(s) \in Nat /\ DOMAIN s = 1 .. Len(s)
      /\ \A k \in DOMAIN s : s[k] \in [tick : Nat, char : Char] /\ s[k].tick \in Nat
  BY EventsOf
<1>4. SortedSchedule(s) \in Schedule
  BY <1>1, <1>2, <1>3 DEF Schedule
<1>5. \A k, l \in DOMAIN s : k < l => s[p[k]].tick <= s[p[l]].tick
  BY <1>1, <1>2, <1>3 DEF PopsBefore
<1>. QED  BY <1>1, <1>4, <1>5

-----------------------------------------------------------------------------
(* The state after each micro-step is a machine state of the same tick.    *)

Same(t, s) == t \in MachineState /\ t.tick_counter = s.tick_counter

\* The helpers that change one field keep the types and the clock.
LEMMA JumpToType ==
    ASSUME NEW s \in MachineState, NEW pc \in ProgramCounter
    PROVE  Same(JumpTo(s, pc), s)
BY DEF JumpTo, Then, MachineState, Same

\* Setting the flags.
LEMMA SetFlagsType ==
    ASSUME NEW s \in MachineState, NEW f \in Flags
    PROVE  Same(SetFlags(s, f), s)
BY DEF SetFlags, Then, MachineState, Same

\* Raising an exception.
LEMMA RaiseType ==
    ASSUME NEW s \in MachineState, NEW e \in Exceptions
    PROVE  Same(Raise(s, e), s)
BY DEF Raise, MachineState, Same

\* Moving the stack pointer to a word.
LEMMA SetSpType ==
    ASSUME NEW s \in MachineState, NEW sp, s.raised = "none" => sp \in Word
    PROVE  Same(SetSp(s, sp), s)
BY DEF SetSp, Then, MachineState, REGISTERS, STACK_POINTER, Same

\* The clock is the one field that Tick changes.
LEMMA TickType ==
    ASSUME NEW s \in MachineState, NEW k \in Nat
    PROVE  /\ Tick(s, k) \in MachineState
           /\ \/ Tick(s, k).tick_counter = s.tick_counter + k
              \/ Tick(s, k).tick_counter = s.tick_counter /\ Tick(s, k).raised # "none"
BY DEF Tick, Then, MachineState

\* A read of any address gives a word.
LEMMA ReadWordType ==
    ASSUME NEW s \in MachineState, NEW a \in Int
    PROVE  ReadWord(s, a) \in Word
<1>. 0 \in Word /\ 1 \in Word /\ Char \subseteq Word
  BY IsaAssumption DEF Word, Char, IsaAssumption, DataMemorySize, WORD_BYTES
<1>. s.input_status \in Word /\ s.input_data \in Word
  BY DEF MachineState
<1>. IsMemory(a) => s.data_memory[a] \in Word
  BY DEF IsMemory, MachineState
<1>. QED  BY DEF ReadWord

\* An access that does not raise was to a port or to the memory.
Accessible(a) == IsPort(a) \/ IsMemory(a)

\* A read keeps the types; one that does not raise was of an accessible address.
LEMMA AfterReadType ==
    ASSUME NEW s \in MachineState, NEW a \in Int
    PROVE  /\ Same(AfterRead(s, a), s)
           /\ AfterRead(s, a).raised = "none" => s.raised = "none" /\ Accessible(a)
           /\ AfterRead(s, a).a_regs = s.a_regs
<1>1. CASE s.raised # "none"
  BY <1>1 DEF AfterRead, Then, Same
<1>2. CASE s.raised = "none" /\ to_u32(a) = IO_INPUT_DATA
  <2>1. AfterRead(s, a) = [s EXCEPT !.input_status = 0]
    BY <1>2 DEF AfterRead, Then
  <2>2. IsPort(a)
    BY <1>2 DEF IsPort, Ports
  <2>. QED  BY <1>2, <2>1, <2>2 DEF Same, MachineState, Accessible
<1>3. CASE s.raised = "none" /\ to_u32(a) # IO_INPUT_DATA
  <2>1. AfterRead(s, a) = IF Accessible(a) THEN s ELSE Raise(s, "ValueError")
    BY <1>3 DEF AfterRead, Then, Accessible
  <2>. QED  BY <1>3, <2>1 DEF Same, MachineState, Raise, Exceptions
<1>. QED  BY <1>1, <1>2, <1>3

\* So does a write, of any integer.
LEMMA WriteWordType ==
    ASSUME NEW s \in MachineState, NEW a \in Int, NEW v \in Int
    PROVE  /\ Same(WriteWord(s, a, v), s)
           /\ WriteWord(s, a, v).raised = "none" => s.raised = "none" /\ Accessible(a)
           /\ WriteWord(s, a, v).a_regs = s.a_regs
<1>1. CASE s.raised # "none"
  BY <1>1 DEF WriteWord, Then, Same
<1>2. CASE s.raised = "none" /\ to_u32(a) = IO_OUTPUT_DATA
  <2>1. v % 256 \in 0 .. 255
    OBVIOUS
  <2>2. Append(s.output_buffer, v % 256) \in Seq(0 .. 255)
    BY <2>1 DEF MachineState
  <2>3. WriteWord(s, a, v) = [s EXCEPT !.output_buffer = Append(@, v % 256)]
    BY <1>2 DEF WriteWord, Then
  <2>4. IsPort(a)
    BY <1>2 DEF IsPort, Ports
  <2>. QED
    BY <1>2, <2>2, <2>3, <2>4 DEF Same, MachineState, Accessible
<1>3. CASE s.raised = "none" /\ to_u32(a) # IO_OUTPUT_DATA /\ IsPort(a)
  BY <1>3 DEF WriteWord, Then, Same, MachineState, Accessible
<1>4. CASE s.raised = "none" /\ ~IsPort(a) /\ IsMemory(a)
  <2>1. [s.data_memory EXCEPT ![a] = to_i32(v)] \in [DataAddress -> Word]
    BY Conversions DEF MachineState
  <2>2. WriteWord(s, a, v) = [s EXCEPT !.data_memory[a] = to_i32(v)]
    BY <1>4 DEF WriteWord, Then, IsPort, Ports
  <2>. QED
    BY <1>4, <2>1, <2>2 DEF Same, MachineState, Accessible
<1>5. CASE s.raised = "none" /\ ~IsPort(a) /\ ~IsMemory(a)
  <2>1. WriteWord(s, a, v) = Raise(s, "ValueError")
    BY <1>5 DEF WriteWord, Then, IsPort, Ports
  <2>. QED
    BY <1>5, <2>1 DEF Same, MachineState, Raise, Exceptions
<1>. QED  BY <1>1, <1>2, <1>3, <1>4, <1>5

\* A port or a memory word is reached with a word on either side of it.
LEMMA StackStep ==
    ASSUME NEW sp \in Word
    PROVE  /\ Accessible(sp - WORD_BYTES) => sp - WORD_BYTES \in Word
           /\ Accessible(sp) => sp + WORD_BYTES \in Word
<1>1. ASSUME NEW a \in Int, IsMemory(a)
      PROVE  a \in 0 .. (SIGN_BIT - 2 * WORD_BYTES)
  BY <1>1, IsaAssumption DEF IsMemory, DataAddress, IsaAssumption, DataMemorySize, WORD_BYTES
<1>2. ASSUME NEW a \in (-SIGN_BIT - WORD_BYTES) .. (SIGN_BIT - 1), IsPort(a)
      PROVE  a \in (-SIGN_BIT) .. -1
  <2>1. to_u32(a) >= SIGN_BIT
    BY <1>2, IsaAssumption
    DEF IsPort, Ports, IsaAssumption, IO_INPUT_STATUS, IO_OUTPUT_DATA, IO_OUTPUT_STATUS
  <2>2. CASE a >= 0
    <3>1. to_u32(a) = a
      BY <2>2, IsaAssumption DEF to_u32, IsaAssumption
    <3>. QED  BY <2>1, <3>1, IsaAssumption DEF IsaAssumption
  <2>3. CASE a < -SIGN_BIT
    <3>1. to_u32(a) = a + 2 * SIGN_BIT
      BY <2>3, IsaAssumption
      DEF to_u32, IsaAssumption, DataMemorySize, WORD_BYTES
    <3>. QED  BY <2>1, <2>3, <3>1, IsaAssumption DEF IsaAssumption
  <2>. QED  BY <2>2, <2>3, IsaAssumption DEF IsaAssumption, WORD_BYTES
<1>3. ASSUME Accessible(sp - WORD_BYTES) PROVE sp - WORD_BYTES \in Word
  BY <1>1, <1>2, <1>3, IsaAssumption DEF Accessible, Word, WORD_BYTES, IsaAssumption
<1>4. ASSUME Accessible(sp) PROVE sp + WORD_BYTES \in Word
  BY <1>1, <1>2, <1>4, IsaAssumption
  DEF Accessible, Word, WORD_BYTES, IsaAssumption, DataMemorySize
<1>. QED  BY <1>3, <1>4

\* The stack pointer is a word.
LEMMA SpType ==
    ASSUME NEW s \in MachineState
    PROVE  Sp(s) \in Word /\ Sp(s) \in Int /\ Sp(s) - WORD_BYTES \in Int
<1>1. Sp(s) \in Word
  <2>1. s.a_regs \in [REGISTERS -> Word]
    BY DEF MachineState
  <2>. QED  BY <2>1 DEF Sp, REGISTERS, STACK_POINTER
<1>. QED  BY <1>1, IsaAssumption DEF Word, WORD_BYTES, IsaAssumption

\* A push keeps the types: the new stack pointer was just accessed.
LEMMA PushValueType ==
    ASSUME NEW s \in MachineState, NEW v \in Int
    PROVE  Same(PushValue(s, v), s)
<1>. DEFINE written == WriteWord(s, Sp(s) - WORD_BYTES, v)
<1>1. /\ Same(written, s)
      /\ written.raised = "none" => Accessible(Sp(s) - WORD_BYTES)
  BY WriteWordType, SpType
<1>2. written.raised = "none" => Sp(s) - WORD_BYTES \in Word
  BY <1>1, StackStep, SpType
<1>3. Same(SetSp(written, Sp(s) - WORD_BYTES), written)
  BY <1>1, <1>2, SetSpType DEF Same
<1>. QED  BY <1>1, <1>3 DEF PushValue, Same

\* So does a pop: the old stack pointer was accessed.
LEMMA PopType ==
    ASSUME NEW s \in MachineState
    PROVE  PoppedValue(s) \in Word /\ Same(AfterPop(s), s)
<1>. DEFINE read == AfterRead(s, Sp(s))
<1>1. Same(read, s) /\ (read.raised = "none" => Accessible(Sp(s)))
  BY AfterReadType, SpType
<1>2. read.raised = "none" => Sp(s) + WORD_BYTES \in Word
  BY <1>1, StackStep, SpType
<1>3. Same(SetSp(read, Sp(s) + WORD_BYTES), read)
  BY <1>1, <1>2, SetSpType DEF Same
<1>4. PoppedValue(s) \in Word
  BY ReadWordType, SpType DEF PoppedValue
<1>. QED  BY <1>1, <1>3, <1>4 DEF AfterPop, Same

-----------------------------------------------------------------------------
(* Operands.                                                               *)

\* The fields of an operand, by its kind.
LEMMA OperandFields ==
    ASSUME NEW op \in Operand
    PROVE  /\ op.kind \in OperandKind
           /\ op.kind = "IMM" => op.value \in Word
           /\ op.kind = "ABS" => op.value \in Unsigned
           /\ op.kind \in {"DREG", "AREG", "IND_A", "IND_A_DISP"} => op.value \in REGISTERS
           /\ op.kind = "IND_A_DISP" => op.offset \in Word
BY DEF Operand, OperandKind

\* The registers hold words.
LEMMA Registers ==
    ASSUME NEW s \in MachineState, NEW r \in REGISTERS
    PROVE  s.d_regs[r] \in Word /\ s.a_regs[r] \in Word
<1>. s.d_regs \in [REGISTERS -> Word] /\ s.a_regs \in [REGISTERS -> Word]
  BY DEF MachineState
<1>. QED  OBVIOUS

\* The address of a memory operand is an integer.
LEMMA ResolveAddressType ==
    ASSUME NEW s \in MachineState, NEW op \in Operand,
           op.kind \in {"ABS", "IND_A", "IND_A_DISP"}
    PROVE  ResolveAddress(s, op) \in Int
<1>1. CASE op.kind = "ABS"
  BY <1>1, OperandFields, WordInt DEF ResolveAddress
<1>2. CASE op.kind = "IND_A"
  BY <1>2, OperandFields, Registers, WordInt DEF ResolveAddress
<1>3. CASE op.kind = "IND_A_DISP"
  <2>1. s.a_regs[op.value] \in Int /\ op.offset \in Int
    BY <1>3, OperandFields, Registers, WordInt
  <2>. QED  BY <1>3, <2>1 DEF ResolveAddress
<1>. QED  BY <1>1, <1>2, <1>3

\* Reading an operand gives a word and keeps the types.
LEMMA ReadOperandType ==
    ASSUME NEW s \in MachineState, NEW op \in Operand
    PROVE  ReadOperand(s, op) \in Word /\ Same(AfterReadOperand(s, op), s)
<1>1. CASE op.kind = "IMM"
  BY <1>1, OperandFields DEF ReadOperand, AfterReadOperand, Same
<1>2. CASE op.kind \in {"DREG", "AREG"}
  BY <1>2, OperandFields, Registers DEF ReadOperand, AfterReadOperand, InRegister, Same
<1>3. CASE op.kind \in {"ABS", "IND_A", "IND_A_DISP"}
  <2>1. ResolveAddress(s, op) \in Int
    BY <1>3, ResolveAddressType
  <2>2. /\ ReadOperand(s, op) = ReadWord(s, ResolveAddress(s, op))
        /\ AfterReadOperand(s, op) = AfterRead(s, ResolveAddress(s, op))
    BY <1>3 DEF ReadOperand, AfterReadOperand, InRegister
  <2>. QED  BY <2>1, <2>2, ReadWordType, AfterReadType
<1>. QED  BY <1>1, <1>2, <1>3, OperandFields DEF OperandKind

\* Writing an operand keeps the types.
LEMMA WriteOperandType ==
    ASSUME NEW s \in MachineState, NEW op \in Operand, NEW v \in Int
    PROVE  Same(WriteOperand(s, op, v), s)
<1>1. CASE op.kind = "IMM"
  BY <1>1, RaiseType DEF WriteOperand, Exceptions
<1>2. CASE op.kind = "DREG"
  <2>1. [s.d_regs EXCEPT ![op.value] = to_i32(v)] \in [REGISTERS -> Word]
    BY <1>2, OperandFields, Conversions DEF MachineState
  <2>2. WriteOperand(s, op, v) = Then(s, [s EXCEPT !.d_regs[op.value] = to_i32(v)])
    BY <1>2 DEF WriteOperand
  <2>3. Same([s EXCEPT !.d_regs[op.value] = to_i32(v)], s)
    BY <2>1 DEF Same, MachineState
  <2>. QED  BY <2>2, <2>3 DEF Then, Same
<1>3. CASE op.kind = "AREG"
  <2>1. [s.a_regs EXCEPT ![op.value] = to_i32(v)] \in [REGISTERS -> Word]
    BY <1>3, OperandFields, Conversions DEF MachineState
  <2>2. WriteOperand(s, op, v) = Then(s, [s EXCEPT !.a_regs[op.value] = to_i32(v)])
    BY <1>3 DEF WriteOperand
  <2>3. Same([s EXCEPT !.a_regs[op.value] = to_i32(v)], s)
    BY <2>1 DEF Same, MachineState
  <2>. QED  BY <2>2, <2>3 DEF Then, Same
<1>4. CASE op.kind \in {"ABS", "IND_A", "IND_A_DISP"}
  <2>1. WriteOperand(s, op, v) = WriteWord(s, ResolveAddress(s, op), v)
    BY <1>4 DEF WriteOperand
  <2>. QED  BY <1>4, <2>1, ResolveAddressType, WriteWordType
<1>. QED  BY <1>1, <1>2, <1>3, <1>4, OperandFields DEF OperandKind

\* Every word and every unsigned word may be jumped to.
LEMMA WordIsTarget == Word \subseteq ProgramCounter /\ Unsigned \subseteq ProgramCounter
BY IsaAssumption DEF Word, Unsigned, ProgramCounter, U32_MAX, IsaAssumption

\* The target of a jump is a program counter.
LEMMA JumpTargetType ==
    ASSUME NEW s \in MachineState, NEW op \in Operand
    PROVE  JumpTarget(s, op) \in ProgramCounter /\ Same(AfterJumpTarget(s, op), s)
<1>1. JumpTarget(s, op) \in Word \cup Unsigned
  BY OperandFields, Registers, ReadOperandType DEF JumpTarget, OperandKind
<1>2. Same(AfterJumpTarget(s, op), s)
  BY ReadOperandType DEF AfterJumpTarget, Same
<1>. QED  BY <1>1, <1>2, WordIsTarget

-----------------------------------------------------------------------------
(* Instructions.                                                           *)

\* A step of at most four ticks, the cost of the dearest instruction; and one
\* that spends some or raises an exception, as every instruction does.
Spends(t, s) ==
    /\ t \in MachineState
    /\ s.tick_counter <= t.tick_counter /\ t.tick_counter <= s.tick_counter + 4
Works(t, s) ==
    /\ Spends(t, s)
    /\ t.tick_counter > s.tick_counter \/ t.raised # "none"

\* What spends no ticks before Tick spends those of Tick after it.
LEMMA TickWorks ==
    ASSUME NEW s \in MachineState, NEW t, Same(t, s), NEW k \in 1 .. 4
    PROVE  Works(Tick(t, k), s)
<1>1. s.tick_counter \in Nat /\ t.tick_counter = s.tick_counter
  BY DEF MachineState, Same
<1>2. Tick(t, k) \in MachineState
  BY TickType DEF Same
<1>3. \/ Tick(t, k).tick_counter = t.tick_counter + k
      \/ Tick(t, k).tick_counter = t.tick_counter /\ Tick(t, k).raised # "none"
  BY TickType DEF Same
<1>. QED  BY <1>1, <1>2, <1>3 DEF Spends, Works

\* An exception spends none.
LEMMA RaiseWorks ==
    ASSUME NEW s \in MachineState, NEW t, Same(t, s), NEW e \in Exceptions \ {"none"}
    PROVE  Works(Raise(t, e), s)
<1>1. Same(Raise(t, e), t)
  BY RaiseType DEF Same
<1>2. s.tick_counter \in Nat
  BY DEF MachineState
<1>3. Raise(t, e).raised # "none"
  BY DEF Raise, Same, MachineState
<1>. QED  BY <1>1, <1>2, <1>3 DEF Same, Spends, Works

\* Each instruction keeps the types and spends one to four ticks or raises: MOVE,
LEMMA MoveType ==
    ASSUME NEW s \in MachineState, NEW src \in Operand, NEW dest \in Operand
    PROVE  Works(Move(s, src, dest), s)
<1>. DEFINE val == ReadOperand(s, src)
            read == AfterReadOperand(s, src)
            written == WriteOperand(read, dest, val)
<1>1. val \in Int /\ Same(read, s)
  BY ReadOperandType, WordInt
<1>2. Same(written, read)
  BY <1>1, WriteOperandType DEF Same
<1>3. Same(SetFlags(written, NzFlags(val)), written)
  BY <1>1, <1>2, NzFlagsType, SetFlagsType DEF Same
<1>4. Same(SetFlags(written, NzFlags(val)), s)
  BY <1>1, <1>2, <1>3 DEF Same
<1>. QED  BY <1>4, TickWorks DEF Move

\* LEA,
LEMMA LeaType ==
    ASSUME NEW s \in MachineState, NEW src \in Operand, NEW dest \in Operand
    PROVE  Works(Lea(s, src, dest), s)
<1>1. CASE dest.kind # "AREG" \/ src.kind = "IMM" \/ InRegister(src)
  <2>1. Same(s, s)
    BY DEF Same
  <2>. QED  BY <1>1, <2>1, RaiseWorks DEF Lea, Exceptions
<1>2. CASE ~(dest.kind # "AREG" \/ src.kind = "IMM" \/ InRegister(src))
  <2>1. src.kind \in {"ABS", "IND_A", "IND_A_DISP"}
    BY <1>2, OperandFields DEF OperandKind, InRegister
  <2>2. Same(WriteOperand(s, dest, ResolveAddress(s, src)), s)
    BY <2>1, ResolveAddressType, WriteOperandType
  <2>. QED  BY <1>2, <2>2, TickWorks DEF Lea
<1>. QED  BY <1>1, <1>2

\* PUSH,
LEMMA PushType ==
    ASSUME NEW s \in MachineState, NEW src \in Operand
    PROVE  Works(Push(s, src), s)
<1>1. ReadOperand(s, src) \in Int /\ Same(AfterReadOperand(s, src), s)
  BY ReadOperandType, WordInt
<1>2. Same(PushValue(AfterReadOperand(s, src), ReadOperand(s, src)), s)
  BY <1>1, PushValueType DEF Same
<1>. QED  BY <1>2, TickWorks DEF Push

\* POP,
LEMMA PopInstrType ==
    ASSUME NEW s \in MachineState, NEW dest \in Operand
    PROVE  Works(Pop(s, dest), s)
<1>1. PoppedValue(s) \in Int /\ Same(AfterPop(s), s)
  BY PopType, WordInt
<1>2. Same(WriteOperand(AfterPop(s), dest, PoppedValue(s)), s)
  BY <1>1, WriteOperandType DEF Same
<1>. QED  BY <1>2, TickWorks DEF Pop

\* the two-operand operations,
LEMMA AluInstrType ==
    ASSUME NEW s \in MachineState, NEW opcode \in AluOps,
           NEW srcOp \in Operand, NEW destOp \in Operand
    PROVE  Works(AluInstr(s, opcode, srcOp, destOp), s)
<1>. DEFINE s1 == AfterReadOperand(s, srcOp)
            s2 == AfterReadOperand(s1, destOp)
            src == ReadOperand(s, srcOp)
            dest == ReadOperand(s1, destOp)
            flagged == SetFlags(s2, AluFlags(opcode, dest, src))
            stored == IF StoresResult(opcode)
                        THEN WriteOperand(flagged, destOp, AluResult(opcode, dest, src))
                        ELSE flagged
<1>1. src \in Word /\ Same(s1, s)
  BY ReadOperandType
<1>2. dest \in Word /\ Same(s2, s)
  BY <1>1, ReadOperandType DEF Same
<1>3. CASE DividesByZero(opcode, src)
  BY <1>2, <1>3, RaiseWorks DEF AluInstr, Exceptions
<1>4. CASE ~DividesByZero(opcode, src)
  <2>1. AluFlags(opcode, dest, src) \in Flags /\ AluResult(opcode, dest, src) \in Int
    BY <1>1, <1>2, <1>4, AluFlagsType, AluResultType, WordInt
  <2>2. Same(flagged, s)
    BY <1>2, <2>1, SetFlagsType DEF Same
  <2>3. Same(WriteOperand(flagged, destOp, AluResult(opcode, dest, src)), s)
    BY <2>1, <2>2, WriteOperandType DEF Same
  <2>4. Same(stored, s)
    BY <2>2, <2>3
  <2>5. Works(Tick(stored, 2), s)
    BY <2>4, TickWorks
  <2>. QED  BY <1>4, <2>5 DEF AluInstr
<1>. QED  BY <1>3, <1>4

\* NEG,
LEMMA NegType ==
    ASSUME NEW s \in MachineState, NEW dest \in Operand
    PROVE  Works(Neg(s, dest), s)
<1>. DEFINE val == ReadOperand(s, dest)
            flagged == SetFlags(AfterReadOperand(s, dest), NegFlags(val))
<1>1. val \in Int /\ Same(AfterReadOperand(s, dest), s)
  BY ReadOperandType, WordInt
<1>2. NegFlags(val) \in Flags /\ NegResult(val) \in Int
  BY <1>1, UnaryType, WordInt
<1>3. Same(flagged, s)
  BY <1>1, <1>2, SetFlagsType DEF Same
<1>4. Same(WriteOperand(flagged, dest, NegResult(val)), s)
  BY <1>2, <1>3, WriteOperandType DEF Same
<1>. QED  BY <1>4, TickWorks DEF Neg

\* NOT,
LEMMA NotType ==
    ASSUME NEW s \in MachineState, NEW dest \in Operand
    PROVE  Works(Not(s, dest), s)
<1>. DEFINE result == NotResult(ReadOperand(s, dest))
            flagged == SetFlags(AfterReadOperand(s, dest), NzFlags(result))
<1>1. ReadOperand(s, dest) \in Int /\ Same(AfterReadOperand(s, dest), s)
  BY ReadOperandType, WordInt
<1>2. result \in Int
  BY <1>1, UnaryType, WordInt
<1>3. Same(flagged, s)
  BY <1>1, <1>2, NzFlagsType, SetFlagsType DEF Same
<1>4. Same(WriteOperand(flagged, dest, result), s)
  BY <1>2, <1>3, WriteOperandType DEF Same
<1>. QED  BY <1>4, TickWorks DEF Not

\* the jumps,
LEMMA JumpType ==
    ASSUME NEW s \in MachineState, NEW opcode, NEW op \in Operand
    PROVE  Works(Jump(s, opcode, op), s)
<1>. DEFINE resolved == AfterJumpTarget(s, op)
<1>1. JumpTarget(s, op) \in ProgramCounter /\ Same(resolved, s)
  BY JumpTargetType
<1>2. Same(JumpTo(resolved, JumpTarget(s, op)), s)
  BY <1>1, JumpToType DEF Same
<1>. QED  BY <1>1, <1>2, TickWorks DEF Jump

\* CALL,
LEMMA CallType ==
    ASSUME NEW s \in MachineState, NEW op \in Operand
    PROVE  Works(Call(s, op), s)
<1>. DEFINE resolved == AfterJumpTarget(s, op)
            pushed == PushValue(resolved, s.pc)
<1>1. JumpTarget(s, op) \in ProgramCounter /\ Same(resolved, s)
  BY JumpTargetType
<1>2. s.pc \in Int
  BY IsaAssumption DEF MachineState, ProgramCounter, U32_MAX, IsaAssumption
<1>3. Same(pushed, s)
  BY <1>1, <1>2, PushValueType DEF Same
<1>4. Same(JumpTo(pushed, JumpTarget(s, op)), s)
  BY <1>1, <1>3, JumpToType DEF Same
<1>. QED  BY <1>4, TickWorks DEF Call

\* RET,
LEMMA RetType ==
    ASSUME NEW s \in MachineState
    PROVE  Works(Ret(s), s)
<1>1. PoppedValue(s) \in ProgramCounter /\ Same(AfterPop(s), s)
  BY PopType, WordIsTarget
<1>2. Same(JumpTo(AfterPop(s), PoppedValue(s)), s)
  BY <1>1, JumpToType DEF Same
<1>. QED  BY <1>2, TickWorks DEF Ret

\* and IRET.
LEMMA IretType ==
    ASSUME NEW s \in MachineState
    PROVE  Works(Iret(s), s)
<1>. DEFINE flagged == SetFlags(AfterPop(s), FlagsOf(PoppedValue(s)))
            resumed == JumpTo(AfterPop(flagged), PoppedValue(flagged))
            unmasked == [resumed EXCEPT !.in_interrupt_handler = FALSE]
<1>1. Same(flagged, s)
  BY PopType, FlagsOfType, SetFlagsType DEF Same
<1>2. PoppedValue(flagged) \in ProgramCounter /\ Same(AfterPop(flagged), flagged)
  BY <1>1, PopType, WordIsTarget DEF Same
<1>3. Same(resumed, s)
  BY <1>1, <1>2, JumpToType DEF Same
<1>4. Same(unmasked, resumed)
  BY <1>3 DEF Same, MachineState
<1>5. Same(Then(resumed, unmasked), s)
  BY <1>3, <1>4 DEF Then, Same
<1>. QED  BY <1>5, TickWorks DEF Iret

-----------------------------------------------------------------------------
(* The interrupt check and the fetch.                                      *)

\* The packed flags are an integer.
LEMMA FlagsWordInt == ASSUME NEW f \in Flags PROVE FlagsWord(f) \in Int
BY DEF FlagsWord

\* The parts of a sequence.
LEMMA HeadTail ==
    ASSUME NEW S, NEW q \in Seq(S), q # <<>>
    PROVE  Head(q) \in S /\ Tail(q) \in Seq(S)
OBVIOUS

\* Delivering an event keeps the types and the clock.
LEMMA DeliverInputType ==
    ASSUME NEW s \in MachineState, InputIsDue(s)
    PROVE  Same(DeliverInput(s), s)
<1>1. s.input_schedule \in Seq([tick : Nat, char : Char]) /\ s.input_schedule # <<>>
  BY DEF MachineState, Schedule, InputIsDue
<1>2. Head(s.input_schedule) \in [tick : Nat, char : Char]
  BY <1>1, HeadTail
<1>3. Tail(s.input_schedule) \in Schedule
  BY <1>1, HeadTail DEF Schedule
<1>4. Head(s.input_schedule).char \in Char
  BY <1>2
<1>. QED  BY <1>3, <1>4 DEF DeliverInput, Same, MachineState

\* A trap keeps the types and spends at most four ticks.
LEMMA TriggerInterruptType ==
    ASSUME NEW s \in MachineState, IsImage(image)
    PROVE  Spends(TriggerInterrupt(s), s)
<1>. DEFINE masked == [s EXCEPT !.in_interrupt_handler = TRUE]
            saved == PushValue(PushValue(masked, s.pc), FlagsWord(s.flags))
<1>1. CASE image.interrupt_vectors = <<>>
  BY <1>1 DEF TriggerInterrupt, Spends, MachineState
<1>2. CASE image.interrupt_vectors # <<>>
  <2>1. image.interrupt_vectors[1] \in ProgramCounter
    <3>1. image.interrupt_vectors \in Seq(Unsigned)
      BY DEF IsImage
    <3>2. image.interrupt_vectors[1] \in Unsigned
      BY <1>2, <3>1
    <3>. QED  BY <3>2, WordIsTarget
  <2>2. Same(masked, s)
    BY DEF Same, MachineState
  <2>3. s.pc \in Int /\ FlagsWord(s.flags) \in Int
    BY IsaAssumption, FlagsWordInt
    DEF MachineState, ProgramCounter, U32_MAX, IsaAssumption
  <2>4. Same(PushValue(masked, s.pc), s)
    BY <2>2, <2>3, PushValueType DEF Same
  <2>5. Same(saved, s)
    BY <2>3, <2>4, PushValueType DEF Same
  <2>6. Same(JumpTo(saved, image.interrupt_vectors[1]), s)
    BY <2>1, <2>5, JumpToType DEF Same
  <2>. QED  BY <1>2, <2>6, TickWorks DEF TriggerInterrupt, Works
<1>. QED  BY <1>1, <1>2

\* So does the interrupt check as a whole.
LEMMA CheckInterruptsType ==
    ASSUME NEW s \in MachineState, IsImage(image)
    PROVE  Spends(CheckInterrupts(s), s)
<1>1. CASE ~InputIsDue(s)
  BY <1>1 DEF CheckInterrupts, Spends, MachineState
<1>2. CASE InputIsDue(s)
  <2>1. Same(DeliverInput(s), s)
    BY <1>2, DeliverInputType
  <2>2. Spends(TriggerInterrupt(DeliverInput(s)), s)
    BY <2>1, TriggerInterruptType DEF Same, Spends
  <2>3. Spends(DeliverInput(s), s)
    BY <2>1 DEF Same, Spends, MachineState
  <2>. QED  BY <1>2, <2>2, <2>3 DEF CheckInterrupts
<1>. QED  BY <1>1, <1>2

\* A fetch keeps the types and gives an instruction with operands.
LEMMA FetchType ==
    ASSUME cpu \in MachineState, IsImage(image), Fetches
    PROVE  /\ Same(Fetched, Polled)
           /\ Decoded.instr.opcode \in OpCode
           /\ Ops \in Seq(Operand)
<1>1. Polled.pc \in DOMAIN image.code
  BY DEF Fetches
<1>2. /\ Decoded.instr.opcode \in OpCode
      /\ Decoded.instr.operands \in Seq(Operand)
      /\ Decoded.next \in Unsigned
  BY <1>1 DEF IsImage, Decoded
<1>3. Polled \in MachineState
  BY CheckInterruptsType DEF Polled, Spends
<1>4. Decoded.next \in ProgramCounter
  BY <1>2, WordIsTarget
<1>5. Same(Fetched, Polled)
  BY <1>3, <1>4 DEF Fetched, Same, MachineState
<1>. QED  BY <1>2, <1>5 DEF Ops

-----------------------------------------------------------------------------
(* One call of step(): four ticks at most for the interrupt, four at most  *)
(* for the instruction.                                                    *)

\* Each action keeps the types and spends at most eight ticks, and some unless it raises.
LEMMA StepType ==
    ASSUME cpu \in MachineState, IsImage(image), Step
    PROVE  /\ cpu' \in MachineState
           /\ cpu'.tick_counter \in cpu.tick_counter .. (cpu.tick_counter + 8)
           /\ cpu'.tick_counter > cpu.tick_counter \/ cpu'.raised # "none"
<1>1. Spends(Polled, cpu)
  BY CheckInterruptsType DEF Polled
<1>2. /\ Fetches => Fetched \in MachineState
      /\ Fetches => Fetched.tick_counter = Polled.tick_counter
      /\ Fetches => Decoded.instr.opcode \in OpCode /\ Ops \in Seq(Operand)
  BY FetchType DEF Same
<1>3. ASSUME NEW n \in Nat, Fetches, Len(Ops) >= n
      PROVE  \A k \in 1 .. n : Ops[k] \in Operand
  BY <1>2, <1>3
<1>4. SUFFICES \/ Works(cpu', Polled)
               \/ Fetches /\ Works(cpu', Fetched)
  <2>1. cpu.tick_counter \in Nat /\ Polled.tick_counter \in Nat
    BY <1>1 DEF Spends, MachineState
  <2>2. ASSUME Works(cpu', Polled)
        PROVE  /\ cpu' \in MachineState
               /\ cpu'.tick_counter \in cpu.tick_counter .. (cpu.tick_counter + 8)
               /\ cpu'.tick_counter > cpu.tick_counter \/ cpu'.raised # "none"
    <3>1. cpu' \in MachineState /\ cpu'.tick_counter \in Nat
      BY <2>2 DEF Works, Spends, MachineState
    <3>. QED  BY <1>1, <2>1, <2>2, <3>1 DEF Spends, Works
  <2>3. ASSUME Fetches, Works(cpu', Fetched) PROVE Works(cpu', Polled)
    BY <1>2, <2>3 DEF Spends, Works
  <2>. QED  BY <2>2, <2>3
<1>5. CASE NopStep
  <2>1. Same(Fetched, Fetched) /\ Fetches /\ Fetched \in MachineState
    BY <1>2, <1>5 DEF NopStep, Executing, Same
  <2>. QED  BY <1>5, <2>1, TickWorks DEF NopStep
<1>6. CASE HaltStep
  <2>1. Same([Fetched EXCEPT !.halted = TRUE], Fetched) /\ Fetches /\ Fetched \in MachineState
    BY <1>2, <1>6 DEF HaltStep, Executing, Same, MachineState
  <2>. QED  BY <1>6, <2>1, TickWorks DEF HaltStep
<1>7. CASE MoveStep
  <2>1. Fetches /\ Decoded.instr.opcode = "MOVE" /\ Len(Ops) >= 2
    BY <1>7 DEF MoveStep, Executing, Arity, AluOps, JumpOps
  <2>2. Ops[1] \in Operand /\ Ops[2] \in Operand
    BY <1>3, <2>1
  <2>. QED  BY <1>2, <1>7, <2>1, <2>2, MoveType DEF MoveStep
<1>8. CASE LeaStep
  <2>1. Fetches /\ Decoded.instr.opcode = "LEA" /\ Len(Ops) >= 2
    BY <1>8 DEF LeaStep, Executing, Arity, AluOps, JumpOps
  <2>2. Ops[1] \in Operand /\ Ops[2] \in Operand
    BY <1>3, <2>1
  <2>. QED  BY <1>2, <1>8, <2>1, <2>2, LeaType DEF LeaStep
<1>9. CASE PushStep
  <2>1. Fetches /\ Decoded.instr.opcode = "PUSH" /\ Len(Ops) >= 1
    BY <1>9 DEF PushStep, Executing, Arity, AluOps
  <2>2. Ops[1] \in Operand
    BY <1>3, <2>1
  <2>. QED  BY <1>2, <1>9, <2>1, <2>2, PushType DEF PushStep
<1>10. CASE PopStep
  <2>1. Fetches /\ Decoded.instr.opcode = "POP" /\ Len(Ops) >= 1
    BY <1>10 DEF PopStep, Executing, Arity, AluOps
  <2>2. Ops[1] \in Operand
    BY <1>3, <2>1
  <2>. QED  BY <1>2, <1>10, <2>1, <2>2, PopInstrType DEF PopStep
<1>11. CASE AluStep
  <2>1. Fetches /\ Decoded.instr.opcode \in AluOps /\ Len(Ops) >= 2
    BY <1>11 DEF AluStep, Executing, Arity, AluOps, JumpOps
  <2>2. Ops[1] \in Operand /\ Ops[2] \in Operand
    BY <1>3, <2>1
  <2>. QED  BY <1>2, <1>11, <2>1, <2>2, AluInstrType DEF AluStep
<1>12. CASE NegStep
  <2>1. Fetches /\ Decoded.instr.opcode = "NEG" /\ Len(Ops) >= 1
    BY <1>12 DEF NegStep, Executing, Arity, AluOps
  <2>2. Ops[1] \in Operand
    BY <1>3, <2>1
  <2>. QED  BY <1>2, <1>12, <2>1, <2>2, NegType DEF NegStep
<1>13. CASE NotStep
  <2>1. Fetches /\ Decoded.instr.opcode = "NOT" /\ Len(Ops) >= 1
    BY <1>13 DEF NotStep, Executing, Arity, AluOps
  <2>2. Ops[1] \in Operand
    BY <1>3, <2>1
  <2>. QED  BY <1>2, <1>13, <2>1, <2>2, NotType DEF NotStep
<1>14. CASE JumpStep
  <2>1. Fetches /\ Decoded.instr.opcode \in JumpOps /\ Len(Ops) >= 1
    BY <1>14 DEF JumpStep, Executing, Arity, AluOps, JumpOps
  <2>2. Ops[1] \in Operand
    BY <1>3, <2>1
  <2>. QED  BY <1>2, <1>14, <2>1, <2>2, JumpType DEF JumpStep
<1>15. CASE CallStep
  <2>1. Fetches /\ Decoded.instr.opcode = "CALL" /\ Len(Ops) >= 1
    BY <1>15 DEF CallStep, Executing, Arity, AluOps
  <2>2. Ops[1] \in Operand
    BY <1>3, <2>1
  <2>. QED  BY <1>2, <1>15, <2>1, <2>2, CallType DEF CallStep
<1>16. CASE RetStep
  BY <1>2, <1>16, RetType DEF RetStep, Executing
<1>17. CASE IretStep
  BY <1>2, <1>17, IretType DEF IretStep, Executing
<1>18. CASE EiStep
  <2>1. /\ Same([Fetched EXCEPT !.interrupts_enabled = TRUE], Fetched)
        /\ Fetches /\ Fetched \in MachineState
    BY <1>2, <1>18 DEF EiStep, Executing, Same, MachineState
  <2>. QED  BY <1>18, <2>1, TickWorks DEF EiStep
<1>19. CASE DiStep
  <2>1. /\ Same([Fetched EXCEPT !.interrupts_enabled = FALSE], Fetched)
        /\ Fetches /\ Fetched \in MachineState
    BY <1>2, <1>19 DEF DiStep, Executing, Same, MachineState
  <2>. QED  BY <1>19, <2>1, TickWorks DEF DiStep
<1>20. CASE MissingOperand
  <2>1. Same(Fetched, Fetched) /\ Fetches /\ Fetched \in MachineState
    BY <1>2, <1>20 DEF MissingOperand, Same
  <2>. QED  BY <1>20, <2>1, RaiseWorks DEF MissingOperand, Exceptions
<1>21. CASE FetchError
  <2>1. Same([Polled EXCEPT !.halted = TRUE], Polled) /\ Polled \in MachineState
    BY <1>1 DEF Same, Spends, MachineState
  <2>. QED  BY <1>21, <2>1, RaiseWorks DEF FetchError, Exceptions
<1>22. CASE TrapError
  BY <1>1, <1>22 DEF TrapError, Spends, Works, MachineState
<1>. QED
  BY <1>5, <1>6, <1>7, <1>8, <1>9, <1>10, <1>11, <1>12, <1>13, <1>14, <1>15,
     <1>16, <1>17, <1>18, <1>19, <1>20, <1>21, <1>22 DEF Step

\* A new machine is well typed.
LEMMA NewMachineType ==
    ASSUME NEW im, IsImage(im), NEW schedule \in Schedule
    PROVE  NewMachine(im, schedule) \in MachineState
<1>1. im.entry_point \in ProgramCounter
  BY WordIsTarget DEF IsImage
<1>2. 0 \in Word /\ 0 \in Char /\ DataMemorySize \in Word
  BY IsaAssumption DEF IsaAssumption, Word, Char, DataMemorySize, WORD_BYTES
<1>3. InitialMemory(im.data) \in [DataAddress -> Word]
  <2>1. ASSUME NEW a \in DataAddress, a \div WORD_BYTES < Len(im.data)
        PROVE  to_i32(im.data[a \div WORD_BYTES + 1]) \in Word
    <3>1. a \div WORD_BYTES + 1 \in 1 .. Len(im.data)
      <4>1. im.data \in Seq(Word)
        BY DEF IsImage
      <4>2. a \in Nat
        BY DEF DataAddress
      <4>. QED  BY <2>1, <4>1, <4>2 DEF WORD_BYTES
    <3>2. im.data \in Seq(Word)
      BY DEF IsImage
    <3>3. im.data[a \div WORD_BYTES + 1] \in Word
      BY <3>1, <3>2
    <3>4. im.data[a \div WORD_BYTES + 1] \in Int
      BY <3>3, WordInt
    <3>. QED  BY <3>4, Conversions
  <2>. QED  BY <1>2, <2>1 DEF InitialMemory
<1>. QED
  BY <1>1, <1>2, <1>3, SortedScheduleType DEF NewMachine, MachineState, Flags, Exceptions

-----------------------------------------------------------------------------
(* The theorems.                                                           *)

\* The type invariant holds of a new machine and is kept by each step.
LEMMA TypeInit == Init => TypeOK
<1>. SUFFICES ASSUME Init PROVE TypeOK
  OBVIOUS
<1>1. PICK schedule \in Schedules : cpu = NewMachine(image, schedule)
  BY DEF Init
<1>2. IsImage(image) /\ schedule \in Schedule
  BY MachineAssumption DEF Init, MachineAssumption
<1>. QED  BY <1>1, <1>2, NewMachineType DEF TypeOK

LEMMA TypeStep == TypeOK /\ [Next]_vars => TypeOK'
<1>. SUFFICES ASSUME TypeOK, [Next]_vars PROVE TypeOK'
  OBVIOUS
<1>1. CASE Next
  <2>1. IsImage(image)'
    BY <1>1 DEF Next, TypeOK, IsImage
  <2>. QED  BY <1>1, <2>1, StepType DEF TypeOK, Next
<1>2. CASE UNCHANGED vars
  BY <1>2 DEF TypeOK, vars, IsImage
<1>. QED  BY <1>1, <1>2

\* Whatever the images, the schedules and the width of a word, the registers,
\* the memory, PC, the flags and the ports keep their types; in particular
\* the stack pointer, which push and pop do not reduce, stays a word.
THEOREM TypeCorrect == Spec => []TypeOK
BY TypeInit, TypeStep, PTL DEF Spec

\* run(limit) never exceeds its budget by more than seven ticks.
THEOREM BoundedRun == Spec => []TicksBounded
<1>1. Init => TicksBounded
  BY MachineAssumption DEF Init, NewMachine, TicksBounded, MaxOvershoot, MachineAssumption
<1>2. TypeOK /\ TicksBounded /\ [Next]_vars => TicksBounded'
  <2>1. SUFFICES ASSUME TypeOK, TicksBounded, [Next]_vars PROVE TicksBounded'
    OBVIOUS
  <2>2. CASE Next
    <3>1. cpu.tick_counter < Limit
      BY <2>2 DEF Next, Step, Running, Fetches, Executing, MissingOperand, FetchError, TrapError,
         NopStep, HaltStep, MoveStep, LeaStep, PushStep, PopStep, AluStep, NegStep, NotStep,
         JumpStep, CallStep, RetStep, IretStep, EiStep, DiStep
    <3>2. cpu' \in MachineState /\ cpu'.tick_counter \in cpu.tick_counter .. (cpu.tick_counter + 8)
      BY <2>1, <2>2, StepType DEF TypeOK, Next
    <3>3. cpu.tick_counter \in Nat /\ cpu'.tick_counter \in Nat
      BY <2>1, <3>2 DEF TypeOK, MachineState
    <3>. QED  BY <3>1, <3>2, <3>3, MachineAssumption
              DEF TicksBounded, MaxOvershoot, MachineAssumption
  <2>3. CASE UNCHANGED vars
    BY <2>1, <2>3 DEF TicksBounded, vars
  <2>. QED  BY <2>1, <2>2, <2>3
<1>. QED  BY <1>1, <1>2, TypeCorrect, PTL DEF Spec

\* No program can make run() spin: each step brings the end of the budget
\* nearer or ends the run.
THEOREM StepsSpendTime == Spec => EveryStepSpends
<1>1. TypeOK /\ [Next]_vars => [cpu'.tick_counter > cpu.tick_counter \/ cpu'.raised # "none"]_vars
  <2>1. SUFFICES ASSUME TypeOK, Next
                 PROVE  cpu'.tick_counter > cpu.tick_counter \/ cpu'.raised # "none"
    OBVIOUS
  <2>. QED  BY <2>1, StepType DEF TypeOK, Next
<1>. QED  BY <1>1, TypeCorrect, PTL DEF Spec, EveryStepSpends

-----------------------------------------------------------------------------
(* An instruction that fails has had no effect on the data of the program. *)

\* t has the data of s: every register but A7, the memory and the output.
Kept(t, s) ==
    /\ t.d_regs = s.d_regs
    /\ t.data_memory = s.data_memory
    /\ t.output_buffer = s.output_buffer
    /\ \A r \in REGISTERS \ {STACK_POINTER} : t.a_regs[r] = s.a_regs[r]

\* An operation that can fail, and one that cannot and touches no data.
Fails(t, s) == t.raised # "none" => Kept(t, s)
Quiet(t, s) == Kept(t, s) /\ t.raised = s.raised

\* How the notions above compose along a sequence of operators.
LEMMA Compose ==
    ASSUME NEW s, NEW t, NEW u
    PROVE  /\ Kept(t, s) /\ Kept(u, t) => Kept(u, s)
           /\ Kept(t, s) /\ Fails(u, t) => Fails(u, s)
           /\ Fails(t, s) /\ Quiet(u, t) => Fails(u, s)
           /\ Kept(t, s) => Fails(t, s)
           /\ Kept(s, s) /\ Quiet(s, s)
BY DEF Kept, Fails, Quiet

\* The helpers that cannot fail are quiet: jumps,
LEMMA JumpToQuiet ==
    ASSUME NEW s \in MachineState, NEW pc PROVE Quiet(JumpTo(s, pc), s)
BY DEF JumpTo, Then, MachineState, Quiet, Kept

\* flags,
LEMMA SetFlagsQuiet ==
    ASSUME NEW s \in MachineState, NEW f PROVE Quiet(SetFlags(s, f), s)
BY DEF SetFlags, Then, MachineState, Quiet, Kept

\* ticks,
LEMMA TickQuiet ==
    ASSUME NEW s \in MachineState, NEW k PROVE Quiet(Tick(s, k), s)
BY DEF Tick, Then, MachineState, Quiet, Kept

\* and the stack pointer, which is not part of the data.
LEMMA SetSpQuiet ==
    ASSUME NEW s \in MachineState, NEW sp PROVE Quiet(SetSp(s, sp), s)
<1>1. CASE s.raised # "none"
  BY <1>1, Compose DEF SetSp, Then
<1>2. CASE s.raised = "none"
  <2>1. SetSp(s, sp) = [s EXCEPT !.a_regs[STACK_POINTER] = sp]
    BY <1>2 DEF SetSp, Then
  <2>2. s.a_regs \in [REGISTERS -> Word]
    BY DEF MachineState
  <2>3. \A r \in REGISTERS \ {STACK_POINTER} : SetSp(s, sp).a_regs[r] = s.a_regs[r]
    BY <2>1, <2>2 DEF MachineState
  <2>. QED  BY <2>1, <2>3 DEF Quiet, Kept, MachineState
<1>. QED  BY <1>1, <1>2

\* An exception by itself changes no data.
LEMMA RaiseKeeps ==
    ASSUME NEW s \in MachineState, NEW e PROVE Kept(Raise(s, e), s)
BY DEF Raise, MachineState, Kept

\* A read changes no data, only the input status.
LEMMA AfterReadKeeps ==
    ASSUME NEW s \in MachineState, NEW a PROVE Kept(AfterRead(s, a), s)
<1>1. Kept([s EXCEPT !.input_status = 0], s)
  BY DEF Kept, MachineState
<1>. QED  BY <1>1, RaiseKeeps, Compose DEF AfterRead, Then

\* A write that fails has written nothing.
LEMMA WriteWordFails ==
    ASSUME NEW s \in MachineState, NEW a, NEW v PROVE Fails(WriteWord(s, a, v), s)
<1>1. CASE s.raised # "none"
  BY <1>1, Compose DEF WriteWord, Then
<1>2. CASE s.raised = "none"
  <2>1. [s EXCEPT !.output_buffer = Append(@, v % 256)].raised = "none"
    BY <1>2 DEF MachineState
  <2>2. [s EXCEPT !.data_memory[a] = to_i32(v)].raised = "none"
    BY <1>2 DEF MachineState
  <2>3. \/ WriteWord(s, a, v) = [s EXCEPT !.output_buffer = Append(@, v % 256)]
        \/ WriteWord(s, a, v) = s
        \/ WriteWord(s, a, v) = [s EXCEPT !.data_memory[a] = to_i32(v)]
        \/ WriteWord(s, a, v) = Raise(s, "ValueError")
    BY <1>2 DEF WriteWord, Then
  <2>. QED  BY <1>2, <2>1, <2>2, <2>3, RaiseKeeps DEF Fails
<1>. QED  BY <1>1, <1>2

\* A push that fails has written nothing.
LEMMA PushValueFails ==
    ASSUME NEW s \in MachineState, NEW v \in Int PROVE Fails(PushValue(s, v), s)
<1>. DEFINE written == WriteWord(s, Sp(s) - WORD_BYTES, v)
<1>1. written \in MachineState /\ Fails(written, s)
  BY WriteWordType, WriteWordFails, SpType DEF Same
<1>2. Quiet(SetSp(written, Sp(s) - WORD_BYTES), written)
  BY <1>1, SetSpQuiet
<1>. QED  BY <1>1, <1>2, Compose DEF PushValue

\* A pop changes no data.
LEMMA AfterPopKeeps ==
    ASSUME NEW s \in MachineState PROVE Kept(AfterPop(s), s)
<1>. DEFINE read == AfterRead(s, Sp(s))
<1>1. read \in MachineState /\ Kept(read, s)
  BY AfterReadType, AfterReadKeeps, SpType DEF Same
<1>2. Kept(SetSp(read, Sp(s) + WORD_BYTES), read)
  BY <1>1, SetSpQuiet DEF Quiet
<1>. QED  BY <1>1, <1>2, Compose DEF AfterPop

\* Reading an operand changes no data.
LEMMA AfterReadOperandKeeps ==
    ASSUME NEW s \in MachineState, NEW op PROVE Kept(AfterReadOperand(s, op), s)
BY AfterReadKeeps, Compose DEF AfterReadOperand

\* Writing an operand fails before it changes anything.
LEMMA WriteOperandFails ==
    ASSUME NEW s \in MachineState, NEW op \in Operand, NEW v
    PROVE  Fails(WriteOperand(s, op, v), s)
<1>1. CASE op.kind = "IMM"
  BY <1>1, RaiseKeeps, Compose DEF WriteOperand
<1>2. CASE op.kind = "DREG"
  <2>1. WriteOperand(s, op, v) = Then(s, [s EXCEPT !.d_regs[op.value] = to_i32(v)])
    BY <1>2 DEF WriteOperand
  <2>2. [s EXCEPT !.d_regs[op.value] = to_i32(v)].raised = s.raised
    BY DEF MachineState
  <2>. QED  BY <2>1, <2>2, Compose DEF Then, Fails
<1>3. CASE op.kind = "AREG"
  <2>1. WriteOperand(s, op, v) = Then(s, [s EXCEPT !.a_regs[op.value] = to_i32(v)])
    BY <1>3 DEF WriteOperand
  <2>2. [s EXCEPT !.a_regs[op.value] = to_i32(v)].raised = s.raised
    BY DEF MachineState
  <2>. QED  BY <2>1, <2>2, Compose DEF Then, Fails
<1>4. CASE op.kind \in {"ABS", "IND_A", "IND_A_DISP"}
  BY <1>4, WriteWordFails DEF WriteOperand
<1>. QED  BY <1>1, <1>2, <1>3, <1>4, OperandFields DEF OperandKind

\* Once its result is stored, an instruction only sets flags, PC or the clock.
LEMMA TickFails ==
    ASSUME NEW s, NEW t \in MachineState, Fails(t, s), NEW k
    PROVE  Fails(Tick(t, k), s)
BY TickQuiet, Compose

\* A jump after an operation that may have failed.
LEMMA JumpToFails ==
    ASSUME NEW s, NEW t \in MachineState, NEW pc \in ProgramCounter
    PROVE  /\ JumpTo(t, pc) \in MachineState
           /\ Fails(t, s) => Fails(JumpTo(t, pc), s)
           /\ Kept(t, s) => Kept(JumpTo(t, pc), s)
<1>1. JumpTo(t, pc) \in MachineState
  BY JumpToType DEF Same
<1>2. Quiet(JumpTo(t, pc), t) /\ Kept(JumpTo(t, pc), t)
  BY JumpToQuiet DEF Quiet
<1>. QED  BY <1>1, <1>2, Compose

-----------------------------------------------------------------------------
(* Instructions.                                                           *)

\* For each instruction, a failure leaves the data: MOVE,
LEMMA MoveFails ==
    ASSUME NEW s \in MachineState, NEW src \in Operand, NEW dest \in Operand
    PROVE  Fails(Move(s, src, dest), s)
<1>. DEFINE val == ReadOperand(s, src)
            read == AfterReadOperand(s, src)
            written == WriteOperand(read, dest, val)
<1>1. val \in Int /\ read \in MachineState /\ Kept(read, s)
  BY ReadOperandType, AfterReadOperandKeeps, WordInt DEF Same
<1>2. written \in MachineState /\ Fails(written, s)
  BY <1>1, WriteOperandType, WriteOperandFails, Compose DEF Same
<1>3. /\ SetFlags(written, NzFlags(val)) \in MachineState
      /\ Quiet(SetFlags(written, NzFlags(val)), written)
  BY <1>1, <1>2, NzFlagsType, SetFlagsType, SetFlagsQuiet DEF Same
<1>4. Fails(SetFlags(written, NzFlags(val)), s)
  BY <1>2, <1>3, Compose
<1>. QED  BY <1>3, <1>4, TickFails DEF Move

\* LEA,
LEMMA LeaFails ==
    ASSUME NEW s \in MachineState, NEW src \in Operand, NEW dest \in Operand
    PROVE  Fails(Lea(s, src, dest), s)
<1>1. CASE dest.kind # "AREG" \/ src.kind = "IMM" \/ InRegister(src)
  BY <1>1, RaiseKeeps, Compose DEF Lea
<1>2. CASE ~(dest.kind # "AREG" \/ src.kind = "IMM" \/ InRegister(src))
  <2>1. src.kind \in {"ABS", "IND_A", "IND_A_DISP"}
    BY <1>2, OperandFields DEF OperandKind, InRegister
  <2>2. /\ WriteOperand(s, dest, ResolveAddress(s, src)) \in MachineState
        /\ Fails(WriteOperand(s, dest, ResolveAddress(s, src)), s)
    BY <2>1, ResolveAddressType, WriteOperandType, WriteOperandFails DEF Same
  <2>. QED  BY <1>2, <2>2, TickFails DEF Lea
<1>. QED  BY <1>1, <1>2

\* PUSH,
LEMMA PushFails ==
    ASSUME NEW s \in MachineState, NEW src \in Operand
    PROVE  Fails(Push(s, src), s)
<1>. DEFINE read == AfterReadOperand(s, src)
<1>1. ReadOperand(s, src) \in Int /\ read \in MachineState /\ Kept(read, s)
  BY ReadOperandType, AfterReadOperandKeeps, WordInt DEF Same
<1>2. /\ PushValue(read, ReadOperand(s, src)) \in MachineState
      /\ Fails(PushValue(read, ReadOperand(s, src)), s)
  BY <1>1, PushValueType, PushValueFails, Compose DEF Same
<1>. QED  BY <1>2, TickFails DEF Push

\* POP, although A7 has moved,
LEMMA PopFails ==
    ASSUME NEW s \in MachineState, NEW dest \in Operand
    PROVE  Fails(Pop(s, dest), s)
<1>1. PoppedValue(s) \in Int /\ AfterPop(s) \in MachineState /\ Kept(AfterPop(s), s)
  BY PopType, AfterPopKeeps, WordInt DEF Same
<1>2. /\ WriteOperand(AfterPop(s), dest, PoppedValue(s)) \in MachineState
      /\ Fails(WriteOperand(AfterPop(s), dest, PoppedValue(s)), s)
  BY <1>1, WriteOperandType, WriteOperandFails, Compose DEF Same
<1>. QED  BY <1>2, TickFails DEF Pop

\* Flags, then the result: what AluInstr, Neg and Not do once they have read.
LEMMA FlagAndStoreFails ==
    ASSUME NEW s, NEW t \in MachineState, Kept(t, s), NEW f \in Flags,
           NEW dest \in Operand, NEW v \in Int
    PROVE  /\ Fails(Tick(WriteOperand(SetFlags(t, f), dest, v), 2), s)
           /\ Fails(Tick(SetFlags(t, f), 2), s)
<1>1. SetFlags(t, f) \in MachineState /\ Kept(SetFlags(t, f), s)
  BY SetFlagsType, SetFlagsQuiet, Compose DEF Same, Quiet
<1>2. /\ WriteOperand(SetFlags(t, f), dest, v) \in MachineState
      /\ Fails(WriteOperand(SetFlags(t, f), dest, v), s)
  BY <1>1, WriteOperandType, WriteOperandFails, Compose DEF Same
<1>. QED  BY <1>1, <1>2, TickFails, Compose

\* the two-operand operations, although the flags may be set,
LEMMA AluInstrFails ==
    ASSUME NEW s \in MachineState, NEW opcode \in AluOps,
           NEW srcOp \in Operand, NEW destOp \in Operand
    PROVE  Fails(AluInstr(s, opcode, srcOp, destOp), s)
<1>. DEFINE s1 == AfterReadOperand(s, srcOp)
            s2 == AfterReadOperand(s1, destOp)
            src == ReadOperand(s, srcOp)
            dest == ReadOperand(s1, destOp)
<1>1. src \in Word /\ s1 \in MachineState /\ Kept(s1, s)
  BY ReadOperandType, AfterReadOperandKeeps DEF Same
<1>2. dest \in Word /\ s2 \in MachineState /\ Kept(s2, s)
  BY <1>1, ReadOperandType, AfterReadOperandKeeps, Compose DEF Same
<1>3. CASE DividesByZero(opcode, src)
  <2>1. Fails(Raise(s2, "ZeroDivisionError"), s)
    BY <1>2, RaiseKeeps, Compose
  <2>. QED  BY <1>3, <2>1 DEF AluInstr
<1>4. CASE ~DividesByZero(opcode, src)
  <2>1. AluFlags(opcode, dest, src) \in Flags /\ AluResult(opcode, dest, src) \in Int
    BY <1>1, <1>2, <1>4, AluFlagsType, AluResultType, WordInt
  <2>. DEFINE flagged == SetFlags(s2, AluFlags(opcode, dest, src))
  <2>2. /\ Fails(Tick(WriteOperand(flagged, destOp, AluResult(opcode, dest, src)), 2), s)
        /\ Fails(Tick(flagged, 2), s)
    BY <1>2, <2>1, FlagAndStoreFails
  <2>. QED  BY <1>4, <2>2 DEF AluInstr
<1>. QED  BY <1>3, <1>4

\* NEG and NOT,
LEMMA UnaryFails ==
    ASSUME NEW s \in MachineState, NEW dest \in Operand
    PROVE  Fails(Neg(s, dest), s) /\ Fails(Not(s, dest), s)
<1>. DEFINE val == ReadOperand(s, dest)
<1>1. val \in Int /\ AfterReadOperand(s, dest) \in MachineState
  BY ReadOperandType, WordInt DEF Same
<1>2. Kept(AfterReadOperand(s, dest), s)
  BY AfterReadOperandKeeps
<1>3. NegResult(val) \in Int /\ NotResult(val) \in Int /\ NegFlags(val) \in Flags
  BY <1>1, UnaryType, WordInt
<1>4. NzFlags(NotResult(val)) \in Flags
  BY <1>3, NzFlagsType
<1>. QED  BY <1>1, <1>2, <1>3, <1>4, FlagAndStoreFails DEF Neg, Not

\* the jumps,
LEMMA JumpFails ==
    ASSUME NEW s \in MachineState, NEW opcode, NEW op \in Operand
    PROVE  Fails(Jump(s, opcode, op), s)
<1>. DEFINE resolved == AfterJumpTarget(s, op)
<1>1. resolved \in MachineState /\ JumpTarget(s, op) \in ProgramCounter
  BY JumpTargetType DEF Same
<1>2. Kept(resolved, s)
  BY AfterReadOperandKeeps, Compose DEF AfterJumpTarget
<1>3. /\ JumpTo(resolved, JumpTarget(s, op)) \in MachineState
      /\ Fails(JumpTo(resolved, JumpTarget(s, op)), s)
  BY <1>1, <1>2, JumpToFails, Compose
<1>. QED  BY <1>1, <1>2, <1>3, TickFails, Compose DEF Jump

\* CALL, whose target is read before its push,
LEMMA CallFails ==
    ASSUME NEW s \in MachineState, NEW op \in Operand
    PROVE  Fails(Call(s, op), s)
<1>. DEFINE resolved == AfterJumpTarget(s, op)
            pushed == PushValue(resolved, s.pc)
<1>1. resolved \in MachineState /\ JumpTarget(s, op) \in ProgramCounter
  BY JumpTargetType DEF Same
<1>2. Kept(resolved, s)
  BY AfterReadOperandKeeps, Compose DEF AfterJumpTarget
<1>3. s.pc \in Int
  BY IsaAssumption DEF MachineState, ProgramCounter, U32_MAX, IsaAssumption
<1>4. pushed \in MachineState /\ Fails(pushed, s)
  BY <1>1, <1>2, <1>3, PushValueType, PushValueFails, Compose DEF Same
<1>5. /\ JumpTo(pushed, JumpTarget(s, op)) \in MachineState
      /\ Fails(JumpTo(pushed, JumpTarget(s, op)), s)
  BY <1>1, <1>4, JumpToFails
<1>. QED  BY <1>5, TickFails DEF Call

\* RET,
LEMMA RetFails ==
    ASSUME NEW s \in MachineState
    PROVE  Fails(Ret(s), s)
<1>1. PoppedValue(s) \in ProgramCounter /\ AfterPop(s) \in MachineState
  BY PopType, WordIsTarget DEF Same
<1>2. /\ JumpTo(AfterPop(s), PoppedValue(s)) \in MachineState
      /\ Kept(JumpTo(AfterPop(s), PoppedValue(s)), s)
  BY <1>1, AfterPopKeeps, JumpToFails
<1>. QED  BY <1>2, TickFails, Compose DEF Ret

\* and IRET.
LEMMA IretFails ==
    ASSUME NEW s \in MachineState
    PROVE  Fails(Iret(s), s)
<1>. DEFINE flagged == SetFlags(AfterPop(s), FlagsOf(PoppedValue(s)))
            resumed == JumpTo(AfterPop(flagged), PoppedValue(flagged))
            unmasked == [resumed EXCEPT !.in_interrupt_handler = FALSE]
<1>1. AfterPop(s) \in MachineState /\ Kept(AfterPop(s), s)
  BY PopType, AfterPopKeeps DEF Same
<1>2. flagged \in MachineState /\ Kept(flagged, s)
  BY <1>1, FlagsOfType, SetFlagsType, SetFlagsQuiet, Compose DEF Same, Quiet
<1>3. /\ PoppedValue(flagged) \in ProgramCounter
      /\ AfterPop(flagged) \in MachineState /\ Kept(AfterPop(flagged), s)
  BY <1>2, PopType, WordIsTarget, AfterPopKeeps, Compose DEF Same
<1>4. resumed \in MachineState /\ Kept(resumed, s)
  BY <1>3, JumpToFails
<1>5. unmasked \in MachineState /\ Kept(unmasked, resumed)
  BY <1>4 DEF MachineState, Kept
<1>6. Then(resumed, unmasked) \in MachineState /\ Fails(Then(resumed, unmasked), s)
  BY <1>4, <1>5, Compose DEF Then
<1>. QED  BY <1>6, TickFails DEF Iret

-----------------------------------------------------------------------------
(* The whole step.                                                         *)

\* Each action that ends in an exception has kept the data.
LEMMA StepFails ==
    ASSUME cpu \in MachineState, IsImage(image), Step
    PROVE  Fails(cpu', Polled)
<1>1. Polled \in MachineState
  BY CheckInterruptsType DEF Polled, Spends
<1>2. /\ Fetches => Fetched \in MachineState
      /\ Fetches => Decoded.instr.opcode \in OpCode /\ Ops \in Seq(Operand)
  BY FetchType DEF Same
<1>3. Kept(Fetched, Polled)
  BY <1>1 DEF Fetched, Kept, MachineState
<1>4. ASSUME NEW n \in Nat, Fetches, Len(Ops) >= n
      PROVE  \A k \in 1 .. n : Ops[k] \in Operand
  BY <1>2, <1>4
<1>5. SUFFICES Fails(cpu', Polled) \/ Fails(cpu', Fetched)
  BY <1>3, Compose
<1>6. CASE NopStep
  BY <1>2, <1>6, Compose, TickFails DEF NopStep, Executing
<1>7. CASE HaltStep
  <2>1. /\ Fetches
        /\ [Fetched EXCEPT !.halted = TRUE] \in MachineState
        /\ Kept([Fetched EXCEPT !.halted = TRUE], Fetched)
    BY <1>2, <1>7 DEF HaltStep, Executing, MachineState, Kept
  <2>. QED  BY <1>7, <2>1, Compose, TickFails DEF HaltStep
<1>8. CASE MoveStep \/ LeaStep \/ AluStep
  <2>1. Fetches /\ Len(Ops) >= 2
    BY <1>8 DEF MoveStep, LeaStep, AluStep, Executing, Arity, AluOps, JumpOps
  <2>2. Ops[1] \in Operand /\ Ops[2] \in Operand /\ Fetched \in MachineState
    BY <1>2, <1>4, <2>1
  <2>3. CASE MoveStep
    BY <2>2, <2>3, MoveFails DEF MoveStep
  <2>4. CASE LeaStep
    BY <2>2, <2>4, LeaFails DEF LeaStep
  <2>5. CASE AluStep
    BY <2>2, <2>5, AluInstrFails DEF AluStep, Executing
  <2>. QED  BY <1>8, <2>3, <2>4, <2>5
<1>9. CASE PushStep \/ PopStep \/ NegStep \/ NotStep \/ JumpStep \/ CallStep
  <2>1. Fetches /\ Len(Ops) >= 1
    BY <1>9 DEF PushStep, PopStep, NegStep, NotStep, JumpStep, CallStep,
       Executing, Arity, AluOps, JumpOps
  <2>2. Ops[1] \in Operand /\ Fetched \in MachineState
    BY <1>2, <1>4, <2>1
  <2>3. CASE PushStep
    BY <2>2, <2>3, PushFails DEF PushStep
  <2>4. CASE PopStep
    BY <2>2, <2>4, PopFails DEF PopStep
  <2>5. CASE NegStep
    BY <2>2, <2>5, UnaryFails DEF NegStep
  <2>6. CASE NotStep
    BY <2>2, <2>6, UnaryFails DEF NotStep
  <2>7. CASE JumpStep
    BY <2>2, <2>7, JumpFails DEF JumpStep
  <2>8. CASE CallStep
    BY <2>2, <2>8, CallFails DEF CallStep
  <2>. QED  BY <1>9, <2>3, <2>4, <2>5, <2>6, <2>7, <2>8
<1>10. CASE RetStep
  BY <1>2, <1>10, RetFails DEF RetStep, Executing
<1>11. CASE IretStep
  BY <1>2, <1>11, IretFails DEF IretStep, Executing
<1>12. CASE EiStep
  <2>1. /\ Fetches
        /\ [Fetched EXCEPT !.interrupts_enabled = TRUE] \in MachineState
        /\ Kept([Fetched EXCEPT !.interrupts_enabled = TRUE], Fetched)
    BY <1>2, <1>12 DEF EiStep, Executing, MachineState, Kept
  <2>. QED  BY <1>12, <2>1, Compose, TickFails DEF EiStep
<1>13. CASE DiStep
  <2>1. /\ Fetches
        /\ [Fetched EXCEPT !.interrupts_enabled = FALSE] \in MachineState
        /\ Kept([Fetched EXCEPT !.interrupts_enabled = FALSE], Fetched)
    BY <1>2, <1>13 DEF DiStep, Executing, MachineState, Kept
  <2>. QED  BY <1>13, <2>1, Compose, TickFails DEF DiStep
<1>14. CASE MissingOperand
  BY <1>2, <1>14, RaiseKeeps, Compose DEF MissingOperand
<1>15. CASE FetchError
  <2>1. /\ [Polled EXCEPT !.halted = TRUE] \in MachineState
        /\ Kept([Polled EXCEPT !.halted = TRUE], Polled)
    BY <1>1 DEF MachineState, Kept
  <2>. QED  BY <1>15, <2>1, RaiseKeeps, Compose DEF FetchError
<1>16. CASE TrapError
  BY <1>16, Compose DEF TrapError
<1>. QED
  BY <1>6, <1>7, <1>8, <1>9, <1>10, <1>11, <1>12, <1>13, <1>14, <1>15, <1>16 DEF Step

\* Whatever the program, an instruction that ends in an exception leaves the
\* data registers, A0-A6, the memory and the output as the interrupt check
\* left them.
THEOREM FaultsKeepData == Spec => FaultKeepsData
<1>1. TypeOK /\ [Next]_vars =>
          [cpu'.raised # "none" =>
              /\ cpu'.d_regs = Polled.d_regs
              /\ cpu'.data_memory = Polled.data_memory
              /\ cpu'.output_buffer = Polled.output_buffer
              /\ \A r \in REGISTERS \ {STACK_POINTER} : cpu'.a_regs[r] = Polled.a_regs[r]]_vars
  BY StepFails DEF Next, TypeOK, Fails, Kept
<1>. QED  BY <1>1, TypeCorrect, PTL DEF Spec, FaultKeepsData

-----------------------------------------------------------------------------
(* A step is a function of the state.                                      *)

\* What an instruction makes of a state in which PC already points past it,
Executed(s, instr) ==
    LET opcode == instr.opcode
        op == instr.operands
    IN IF Len(op) < Arity(opcode) THEN Raise(s, "IndexError") ELSE
       CASE opcode = "NOP" -> Tick(s, 1)
         [] opcode = "HALT" -> Tick([s EXCEPT !.halted = TRUE], 1)
         [] opcode = "EI" -> Tick([s EXCEPT !.interrupts_enabled = TRUE], 1)
         [] opcode = "DI" -> Tick([s EXCEPT !.interrupts_enabled = FALSE], 1)
         [] opcode = "RET" -> Ret(s)
         [] opcode = "IRET" -> Iret(s)
         [] opcode = "PUSH" -> Push(s, op[1])
         [] opcode = "POP" -> Pop(s, op[1])
         [] opcode = "NEG" -> Neg(s, op[1])
         [] opcode = "NOT" -> Not(s, op[1])
         [] opcode = "CALL" -> Call(s, op[1])
         [] opcode \in JumpOps -> Jump(s, opcode, op[1])
         [] opcode = "MOVE" -> Move(s, op[1], op[2])
         [] opcode = "LEA" -> Lea(s, op[1], op[2])
         [] opcode \in AluOps -> AluInstr(s, opcode, op[1], op[2])

\* and a step of a state in which the interrupt check has been made.
Attempted(s) ==
    IF s.raised # "none" THEN s
    ELSE IF s.pc \notin DOMAIN image.code THEN Raise([s EXCEPT !.halted = TRUE], "ValueError")
    ELSE Executed([s EXCEPT !.pc = image.code[s.pc].next], image.code[s.pc].instr)

\* The same as the disjunction of the actions.
Acts(s, opcode, ops, t) ==
    \/ Len(ops) < Arity(opcode) /\ t = Raise(s, "IndexError")
    \/ /\ Len(ops) >= Arity(opcode)
       /\ \/ opcode \in {"NOP"} /\ t = Tick(s, 1)
          \/ opcode \in {"HALT"} /\ t = Tick([s EXCEPT !.halted = TRUE], 1)
          \/ opcode \in {"MOVE"} /\ t = Move(s, ops[1], ops[2])
          \/ opcode \in {"LEA"} /\ t = Lea(s, ops[1], ops[2])
          \/ opcode \in {"PUSH"} /\ t = Push(s, ops[1])
          \/ opcode \in {"POP"} /\ t = Pop(s, ops[1])
          \/ opcode \in AluOps /\ t = AluInstr(s, opcode, ops[1], ops[2])
          \/ opcode \in {"NEG"} /\ t = Neg(s, ops[1])
          \/ opcode \in {"NOT"} /\ t = Not(s, ops[1])
          \/ opcode \in JumpOps /\ t = Jump(s, opcode, ops[1])
          \/ opcode \in {"CALL"} /\ t = Call(s, ops[1])
          \/ opcode \in {"RET"} /\ t = Ret(s)
          \/ opcode \in {"IRET"} /\ t = Iret(s)
          \/ opcode \in {"EI"} /\ t = Tick([s EXCEPT !.interrupts_enabled = TRUE], 1)
          \/ opcode \in {"DI"} /\ t = Tick([s EXCEPT !.interrupts_enabled = FALSE], 1)

LEMMA ActsAsExecuted ==
    ASSUME NEW s, NEW instr, NEW t, instr.opcode \in OpCode, Len(instr.operands) \in Nat
    PROVE  Acts(s, instr.opcode, instr.operands, t) <=> t = Executed(s, instr)
<1>. DEFINE opcode == instr.opcode
            n == Len(instr.operands)
<1>1. n \in Nat /\ Arity(opcode) \in Nat /\ opcode \in OpCode
  BY DEF Arity
<1>2. CASE n < Arity(opcode)
  BY <1>1, <1>2 DEF Acts, Executed
<1>3. CASE n >= Arity(opcode)
  BY <1>1, <1>3 DEF Acts, Executed, OpCode, AluOps, JumpOps
<1>. QED  BY <1>1, <1>2, <1>3

\* Every step is the step of that function, and whoever runs can take it.
LEMMA StepAttempts ==
    ASSUME IsImage(image)
    PROVE  Step <=> Running /\ cpu' = Attempted(Polled)
<1>1. CASE ~Fetches
  BY <1>1
  DEF Fetches, Attempted, Step, NopStep, HaltStep, MoveStep, LeaStep, PushStep, PopStep, AluStep,
      NegStep, NotStep, JumpStep, CallStep, RetStep, IretStep, EiStep, DiStep, Executing,
      MissingOperand, FetchError, TrapError
<1>2. CASE Fetches
  <2>1. Step <=> Acts(Fetched, Decoded.instr.opcode, Ops, cpu')
    <3>1. ~FetchError /\ ~TrapError
      BY <1>2 DEF Fetches, FetchError, TrapError
    <3>. QED
      BY <1>2, <3>1
      DEF Acts, Step, NopStep, HaltStep, MoveStep, LeaStep, PushStep, PopStep, AluStep, NegStep,
          NotStep, JumpStep, CallStep, RetStep, IretStep, EiStep, DiStep, Executing, MissingOperand
  <2>2. Decoded.instr.opcode \in OpCode /\ Len(Ops) \in Nat
    BY <1>2 DEF Fetches, IsImage, Ops, Decoded
  <2>3. Running /\ Attempted(Polled) = Executed(Fetched, Decoded.instr)
    BY <1>2 DEF Fetches, Attempted, Fetched, Decoded
  <2>. QED  BY <2>1, <2>2, <2>3, ActsAsExecuted DEF Ops
<1>. QED  BY <1>1, <1>2

\* A step is determined by the state, and a processor that runs can take it:
\* no image and no input leave step() without something to do
\* (machine.py:152-169).
THEOREM StepIsAFunction ==
    ASSUME IsImage(image)
    PROVE  Next <=> Running /\ cpu' = Attempted(Polled) /\ UNCHANGED image
BY StepAttempts DEF Next
=============================================================================
