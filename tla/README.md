# A verification project for lab4

lab4 is a small tool chain: a compiler from the language `alg` to the byte code
of a 32-bit CISC processor with separate code and data memories, and a simulator
of that processor that counts ticks and takes its input through traps at
scheduled ticks. This directory holds TLA+ models of it, the TLC runs that check
them and the proofs that TLAPS checks. Paths below are relative to the root of
the repository.

## 1. The system

| Component | Source | State it keeps | Operations | Interacts with |
|---|---|---|---|---|
| processor | `src/lab4/machine.py` | PC, D0-D7, A0-A7, flags, 16 KB data memory, ticks, output buffer, input schedule and port, trap enable and mask | `step`, `run`; `read_word`, `write_word`, `push_value`, `pop_value`, `_check_interrupts`, one branch for each opcode | decodes the image it is given on each step; is driven by the command line |
| arithmetic | `machine.py:390-466`, `:223-275` | none (the flags) | 11 two-operand operations, NEG, NOT, the conditions of 7 jumps | called by `step` |
| instruction set | `src/lab4/isa.py` | none | word conversions, constructors of operands | everything |
| binary format | `src/lab4/binary.py` | none | encode and decode operands, instructions, code, images | assembly builder, processor, disassembler, command line |
| assembly builder | `src/lab4/assembly.py` | elements, references to labels | `add`, `label`, `build` | the code generator fills it |
| code generator | `src/lab4/compiler.py`, `ast.py` | builder, symbols and next slot of the function, label counter, static data, literals | one method for each kind of node, the system library | parser before it, builder behind it |
| lexer | `src/lab4/lexer.py` | text, position, line, column | `next_token` and a method for each kind of token | the parser calls it until EOF |
| parser | `src/lab4/parser.py` | tokens, current token | `parse`, one method for each rule of the grammar | lexer before it, code generator behind it |
| disassembler | `src/lab4/disasm.py` | none | `disassemble_image` | binary format, command line |
| command line | `src/lab4/cli.py` | the binary file, the results | `translate`, `run`, `disasm`, the input schedule | all of the above; its commands share files only |

What is hard in it:

* **Interleaving.** There are no threads, but the commands are processes that
  share a file, and a trap comes between any two
  instructions, at a tick nobody chose. The hardware saves PC and the flags; who
  saves the registers is a matter of the handler.
* **Unreliable delivery.** The input port holds one character. The next one
  replaces it, read or not, and an event that comes while traps are masked or
  disabled never traps later.
* **Ordering.** The schedule is sorted in reverse and popped from the end.
* **Partial failure.** An instruction reads, moves the stack pointer, sets flags
  and writes in turn; a Python exception can leave it in between. A translation
  that is killed leaves part of a file; a program of many that one compiler
  object is given leaves what had been generated when it was refused.
* **Looking ahead.** Lexer and parser decide by the next one or two characters or
  tokens, up to the very end of the text, what a declarative grammar leaves to a
  choice of all.
* **Numeric edges.** Python integers stand for 32-bit words; each operation must
  wrap, carry and overflow by itself. Some values are deliberately not reduced:
  the stack pointer, effective addresses.
* **Limits.** The tick budget of `run`, the stack that grows into the static
  data, the frame whose size the compiler counts.

`PROJECT.json` lists these as hazards, each at its line.

What makes each component correct:

* processor: the input port loses only what it overwrites, and delivers the rest
  once and in order; a trap is invisible to the program when the handler saves
  what it uses; failing instructions leave the program's data alone; the run
  ends, close to its budget;
* arithmetic: results and flags mean what the jumps assume they mean;
* binary format, builder: what is decoded is what was encoded, at the offset the
  label stands for;
* lexer, parser: tokens and trees are those of the language's definition, and
  what it does not define is refused;
* code generator: the compiled program does what the source says, and a program
  is refused if its names mean nothing;
* command line: an incomplete file is never taken for a program; what is saved is
  the output of the program and the input that were read.

## 2. The modules

    Isa ─┬─ Alu ─┬─ Machine ─┬─ MachineInput (refines InputPort) ── MCEcho
         │       │           ├─ TrapTransparency ── MCTransparency
         │       │           ├─ MCGadgets
         │       │           ├─ CompiledPrograms ── MCCompiled
         │       │           └─ Toolchain (with Assembly, Disasm) ── MCToolchain
         │       ├─ AluLaws
         │       └─ AlgSemantics (with Syntax) ── CompiledPrograms
         └─ Binary ─┬─ Disasm
                    └─ Assembly ─┬─ Building ── MCBuilding
                                 └─ Compiler (with Syntax) ─┬─ Programs ── MCEcho, MCTransparency,
                                                            │              MCGadgets, MCCompiled
                                                            └─ Translator ── MCTranslator
    Text ─┬─ Lexer ── Parser (with Syntax) ── Translator
          └─ Grammar (with Syntax) ── Translator
    BasicLemmas (of Alu) ─┬─ AluProofs (of AluLaws)
                          ├─ MachineProofs (of Machine) ─┬─ InputProofs (of MachineInput)
                          │                              └─ TrapProofs (of TrapTransparency)
                          └─ BinaryProofs (of Binary) ─┬─ BuildingProofs (of Building)
                                                       └─ ToolchainProofs (of Toolchain)

| Module | What it is |
|---|---|
| `Isa` | words, the address space, registers, operands, opcodes; the constants of the whole project and the assumptions on them |
| `Alu` | result and flags of every operation, conditions of the jumps, the word of flags |
| `Machine` | class `Machine` as a state machine; also `TypeOK`, `TicksBounded`, `EveryStepSpends`, `RunEnds`, `FaultKeepsData` |
| `InputPort` | abstract specification of the input device, without a processor |
| `MachineInput` | `Machine` with history variables at the port; the refinement of `InputPort` and the echo properties |
| `TrapTransparency` | two processors in step, one with input and one without; what handler and program have to keep to, and what they get for it |
| `AluLaws` | straight-line code on two registers and the laws of arithmetic |
| `Syntax` | syntax trees, as the parser makes them |
| `Binary`, `Assembly`, `Compiler` | the path from syntax trees to bytes and back to instructions, as functions |
| `Disasm` | the lines of a listing |
| `Toolchain` | the three commands on one binary file, written byte by byte; a run is `Machine` on what was read |
| `Text` | characters, their classes and codes |
| `Lexer`, `Parser` | the path from characters to syntax trees, method by method |
| `Grammar` | the language as the README defines it: what a text divides into, and the set of trees it derives; the abstract specification of lexer and parser |
| `Translator` | a text that is edited and translated, by lexer, parser and code generator in turn |
| `Building` | an `AssemblyBuilder` in use: any order of `add`, `label` and `build` |
| `AlgSemantics` | what a program means: an interpreter of syntax trees without stack, frames or registers; the abstract specification of the code generator |
| `CompiledPrograms` | `Machine` running compiled programs beside their meaning, with histories of the calls that have not returned and of the height of the frame at each instruction |
| `Programs` | the programs that are run, `examples/cat.alg` among them |
| `MC*` | images and input schedules for TLC |
| `BasicLemmas` | induction and recursion on intervals of numbers, as lemmas about sets; words, bits and the types of results |
| `AluProofs`, `MachineProofs`, `InputProofs`, `TrapProofs`, `BinaryProofs`, `BuildingProofs`, `ToolchainProofs` | lemmas and theorems |

### How Machine corresponds to the code

`cpu` is a record of the attributes of the Python object, under their names (the
four flags make one record; `log` is left out because nothing reads it).
`raised` names the exception that left `step`, with the state it left behind.

One action is one call of `step` by the loop of `run`: `Polled` is the state
after `_check_interrupts`, `Fetched` the state after the fetch, and there is one
action for each branch of the `match`, `NopStep` to `IretStep`, one for a missing
operand (`IndexError`), one for a failing fetch and one for a trap that fails.
Inside an action the effects are composed in the order of the statements:
`AfterRead(s, a)` is the state after `read_word(a)`, which may clear the input
status, and the value comes from `ReadWord(s, a)`. Every such operator leaves a
state alone in which an exception is pending, so that
`Tick(SetFlags(WriteOperand(...)))` reads as the branch does. Details kept on
purpose: the destination of an arithmetic instruction is read after the side
effect of the source; flags are set before the result is stored; POP has moved
A7 by the time its destination is written; CALL reads its target before it
pushes; IRET restores the flags before PC and unmasks traps whether or not one
was being handled; writes to input ports are ignored; `[An]` as a jump target is
the register, `[An+d]` a word of memory.

An image's code maps every offset at which `decode_instruction` succeeds to the
instruction and the offset after it, so that a jump into the middle of an
instruction does what it does in the program. `Loaded` in `Assembly` builds it
from the bytes.

`Lexer`, `Parser` and `Compiler` are written method by method on a record of the
object's attributes, which goes from one operator to the next as `self` does.
Labels are strings, a function's being its name. A method that raises leaves a
mark (`failed`, `error`) after which nothing more happens to the record. In the
parser it also goes to EOF, so that every loop of a caller ends. The four methods
of the binary operators differ in their token types and are one, with a level.
`Assembly` does the same for the builder: `Add`, `Label` and `Build` are its
methods, and `failed` says that `label` has raised.

`Generate` is `compile` up to `build` from any state of the compiler. What an
earlier call left in the builder and in the label counter stays, as in the
program, where `compile` clears the data and the literals only
(`compiler.py:55`).

`Toolchain` has one action for each thing another process can come between:
opening the file, each byte, each step of the processor. `disasm`, and `run` up to
the processor, read the file at once. `translate` does not overlap with another
`translate`, and there is one `run` at a time.

`Grammar` and `AlgSemantics` are not translations. `Grammar` takes a text apart
by trying every division of it and keeps the set of trees of each phrase, where
the program scans and predicts; what it shares with it are the classes of
characters and the constructors of trees. Its rules are those of README.md:160-194
throughout, also where the parser has others.

`AlgSemantics` says what an expression, a statement and
a call mean, on variables that belong to the call (README.md:199), so that the
code generator can be wrong about it. What it shares with the program is the
order of evaluation (operands from the left, arguments from the last), the
wrap-around of words and division, which has laws of its own in `AluLaws`.

An operator whose comment begins with "Variant" is a deliberately wrong version
of the one that follows it: a plausible slip in that piece of code. Nothing uses
them; they serve to see each property fail when the code is wrong
(`PROJECT.json`, "mutants").

### What it means that a trap is invisible

`TrapTransparency` runs a second processor, `shadow`, beside the first: the same
program without input. It takes a step whenever the first executes an instruction
of the program, and waits while the first executes those of the handler; the trap
itself belongs to the first of these. `TrapsAreTransparent` compares the two
outside the handler: PC, flags, all registers, whether they have halted or
raised, and the memory. Two things cannot agree. The clock of the first is ahead.
And the words that the trap pushes stay below A7 when IRET has popped them, as
does whatever else the handler has changed; `stale` follows these addresses until
an instruction of the program writes them (`Writes`).

Not every program and not every handler can be interrupted unseen, since the
hardware saves PC and the flags only. Two predicates say what it takes.
`HandlerRestores`: when a handler executes IRET, the registers, A7 among them, and
the two words pushed are those that the trap left (`entered`), and the two words
are memory. `ProgramKeepsOut`: the program does not read a stale word (`Reads` has
the addresses that an instruction reads) nor the input port, and its PC fits into
a word, which is what the stack saves of it. Both are checked in `TrapsSaving`, of
a compiled program and a handler that saves its registers; that they suffice is a
theorem.

### Abstractions

* The word is `WORD_BITS` wide (12, 8 or 6 bits in the runs, any width in the
  proofs), the memory has `DATA_MEMORY_SIZE_WORDS` words, and the ports start at
  `IO_INPUT_DATA` in the upper half of the address space, as in the program. A
  word still has four bytes. Shift counts are taken modulo the width, `& 31` at
  32 bits.
* `int(dest / src)` is exact integer division: a quotient of 32-bit integers is
  represented well enough by a double that truncation cannot go wrong.
* Images have at most as much data as the memory has words; more is an exception
  of the constructor.
* `AlgSemantics` leaves out the input ports and interrupts. It gives each
  evaluation of a string or `allocate_buffer` an address of its own; the
  compiler gives each place in the text one. The programs of the runs do not
  look at the difference.
* Texts consist of printable ASCII, newlines and tabs. Python's `isalpha`,
  `isdigit` and `isspace` know more; a digit that `int` refuses, such as a
  superscript, is an exception of the parser that is not modelled.
* Types are checked by the parser where they stand and are not in the trees:
  README.md:201 calls the typing static, but nothing behind the parser reads
  them.
* `Toolchain` takes what `compile` makes of each source as given, as the image and
  the instructions that its code encodes; the images of the run are small, with
  and without each section. `Translator` and `CompiledPrograms` say what `compile`
  makes.
* `Building` is given operands whose numbers fit their fields, as those of the
  compiler do; the code would reduce others to a word when it encodes them.
* Mnemonics, the wording of messages and the log are left out.

## 3. The runs

| Run | Shows | Bounds |
|---|---|---|
| `Echo` | a polling echo, compiled from `alg`, and handlers that save D0 and A0, above a computing and a jumping loop, print the input without gaps and to its end; the run ends | 3 characters, every 11th of the first ticks of a turn of the loop, distances 120, 121, 127, budget 600 |
| `InputLoss` | with characters that come too fast: the port holds the last event, the program prints what it has read, once and in order, each event that has come is in the port, read or lost, none comes early or waits behind one that is not due, and the processor refines `InputPort` | two of these programs, every first tick from 30 to 75, distances 0, 1, 19, 45, some schedules in reverse |
| `TrapsSaving` | the handler gives back what it took, the program keeps out of what interrupts leave, and it behaves as the one that was never interrupted | one event at each tick up to 200, or two at distance 0, 1, 13, 30; the program has a loop, a call and a stack of temporaries |
| `Gadgets` | types, tick bound, no step without ticks, what a fault leaves | every pair from 16 instructions, after each of 3 set-ups, with 2 handlers, 5 schedules, 30 ticks, 4 words of memory |
| `Alu` | the laws of arithmetic | all pairs of 6-bit words, all operations in sequence |
| `Building` | a sweep of the bytes of a built program finds what was added, with references and vectors at their labels | 6 elements from 4 instructions and 2 labels, 3 tables of vectors, entry point 0 |
| `Toolchain` | an incomplete file is refused, a listing is that of the last translation, a run saves what its program prints for its text, or nothing | 3 translations of 6 sources, 3 input texts of up to 2 characters, killed or read after any byte; 40 ticks, 4 words of memory |
| `Translator` | tokens, trees and refusals are those of the language | 5 texts of up to 50 characters with every rule, one edit anywhere with 17 pieces; 363 expressions; texts with up to three minus signs and with `void` declarations; every text of up to 5 characters for comments and 3 for the rest |
| `Compiled` | compiled programs do what the interpreter says, each return finds what its call left, and the frame has one height at each instruction | 242 expressions: two operators in each order with calls and a unary minus between them; 21 programs with recursion, nested loops and returns, redeclared variables, printing, buffers, division by zero; 54 sessions in which the compiler has refused one or two programs before, of which it accepts the last program in 19 and in the others fails on a label or a reference left in the builder |
| `CatSpaced`, `BareBlock`, `DivisionFloor` | disagreements of code and documentation, below | |

The bounds are chosen so that the interesting case happens and the runs stay
short. The distance of `Echo` is just above the longest time the polling loop
needs for a character; the phases and distances together let events meet the
programs all over their loops. In `TrapsSaving` the ticks cover the whole
program, start-up and HALT included; the distances put the second event before,
into and after the first handler. In `Gadgets` the third set-up leaves a single
word of stack, so that a trap fails after its first push; the last schedule has
two events at one tick. A 6-bit word has every case of sign, carry and overflow
that a 32-bit word has, and the proofs cover the rest. `Gadgets` fires every
action. In `Building` the pool has an instruction of each length and one with
two references, and six elements suffice for a reference across others in both
directions. In `Toolchain` two sources have files of one length, so that a file
put together of both would be complete; one divides by zero after it has
printed, one has more data than the memory and one does not compile. Its input
comes at the ticks of the program's own schedule. In `Translator` an edit may
close or open a comment, a string, a block or an argument, turn a word into
another or join two tokens; one in eight edited texts is still a program. In
`Compiled` the words of 12 bits hold the addresses of a
program with its library; the budget of 3000 ticks is three times what the
longest program takes, and the property fails if it is not enough.

`CHECK_DEADLOCK FALSE` is said where the system stops: `run` ends, and a text is
not translated twice.

### Fairness

`Spec` has weak fairness of `Next`. `run` is a loop in one thread that calls
`step` as long as its condition holds, so a step that can be taken is taken.
Nothing is assumed of the program or of the input. Termination (`RunEnds`, in
`Echo` on programs that loop for ever) follows from the ticks, not from the
program; `EveryStepSpends` is the safety property behind it, checked on every
pair of instructions and proved for all programs.

### What the runs found

* **CatSpaced.** A compiled handler saves A6 only. When a trap comes inside an
  expression of the main program, D0 and A0 come back overwritten. The loop
  `while (1 == 1)` of `examples/cat.alg` then compares 1 with a character and
  ends; main returns and the processor halts with input pending. The real
  program, run with the 150 ticks of the golden test, prints "hello" for a third
  of the first ticks from 100 to 799; 500, the one the test uses, is among them.
  Seen from the interrupted program: with `Images <- CompiledImages` in
  `TrapsSaving.cfg`, `HandlerRestores` and with it `TrapsAreTransparent` fail;
  `ProgramKeepsOut` holds, so that the handler alone is to blame.
* **BareBlock.** The frame of a function has no room for the variables of a block
  that stands among the statements by itself. They lie where the next push
  goes: `{ int a = 5; r = 1 + (2 * a); }` leaves 3 in `r`, in the real program
  too.
* **DivisionFloor.** README.md:300 gives DIV as a floor; the code rounds toward
  zero (`machine.py:422`), and the remainder of MOD goes with that. `DivisionLaw`,
  which holds, states what the code does: the two operations fit together.
  `DividesByFloor` states the README's formula, which fails for a quotient that
  is negative and not whole, -32 / 3 for one.

More have no run of their own:

* The grammar gives a primary one minus sign at most (README.md:187,
  `parser.py:256`); the parser takes any number (`parser.py:259`). The grammar
  has `void` among the types of variables and parameters (README.md:162, :164,
  :175); the parser refuses it there (`parser.py:125`, :141). `Grammar` has the
  rules of the README. `ParsesByTheGrammar` names these two departures
  (`FurtherMinuses`, `DeclaresVoid`) and says that there is no other; the
  `Departures` of `MCTranslator` are texts with either and with both.
* `build(entry_point=10)` counts labels from 10 and places the code at 0, so that
  each reference is ten bytes beyond its label, against the docstrings at
  `assembly.py:33` and :46. `tests/test_assembly.py:41` builds such a program and
  looks at its entry point only. `compile` always builds with 0. In
  `Building.cfg`, `EntryPoints <- AtTen` shows it: `BuildsTheListing` and
  `VectorsAreHandlers` fail.
* `print_int` of the least integer (`compiler.py:439`) prints `-./,),(-*,(` at 32
  bits, since the negation of that integer is itself; README.md:201 says that
  signed integers of 32 bits are supported. `Compiled` leaves that integer out
  and prints those around it. In `BareBlock.cfg`, `Sessions <- PrintLeast` shows
  it: `ComputesTheMeaning` fails.
* The command line schedules one character each 10 ticks (`cli.py:23`). The
  handler of `cat.alg` takes longer, a new character replaces the unread one,
  and no trap follows for what arrived while traps were masked: with "hello" the
  program prints two characters. In `CatSpaced.cfg`, `FirstTicks <- FirstChar10`
  and `Gaps <- Gap10` show it.
* A name may be declared twice. The second declaration takes a new slot at once:
  in `int x = x + 1` the initialiser reads the slot, not the old `x`, and after a
  declaration in a branch that was not taken the name means a slot that nothing
  has written. Neither is documented; `Compiled` redeclares names where every
  reading agrees.
* A function named as a generated label, such as `endif_1`, is refused or not
  depending on the numbers of labels, and a call of an `endif_1` that nobody has
  declared jumps into the middle of a function.
* docs/design.md:33 asks that a run can be stopped at any tick. The limit is
  compared between steps, and a step with a trap spends up to eight ticks, so
  that a run may end up to seven ticks late (`TicksBounded`).
* README.md:110 and :347 speak of a header of 12 bytes; the file has one of 24
  (`binary.py`). README.md:111 and :348 name a listing that `translate` writes
  beside the binary; it writes the binary only (`cli.py:73`), and `disasm` prints
  a listing.

## 4. The proofs

TLAPS checks, for every value of the constants that the assumptions below allow:
every word width, memory size, program, schedule, budget, listing and source.

| Theorem | Says |
|---|---|
| `AluTypeCorrect` | operations leave words and four booleans |
| `ComparisonCorrect` | after CMP, JE, JNE, JL, JLE, JG, JGE decide the signed order |
| `OverflowCorrect` | V and C mean that the sum or difference does not fit |
| `NegationCorrect` | NEG is `0 - x`, flags included |
| `DivisionCorrect` | quotient and remainder recombine, MIN / -1 included |
| `BitwiseCorrect` | AND and OR add up to the sum, XOR is their difference, NOT obeys De Morgan |
| `ShiftsCorrect` | SHL multiplies by a power of two, SHR divides the unsigned word by one |
| `TypeCorrect` | `Spec => []TypeOK` |
| `BoundedRun` | `Spec => []TicksBounded`: at most 7 ticks beyond the limit |
| `StepsSpendTime` | `Spec => EveryStepSpends`: each step spends ticks or raises |
| `FaultsKeepData` | `Spec => FaultKeepsData` |
| `StepIsAFunction` | `Next` is one function of the state, defined whenever the processor runs |
| `SortedScheduleCorrect` | sorting a schedule permutes its events and pops them by their ticks |
| `PortKeepsTheLast` | `InputSpec => []PortHoldsLastEvent` |
| `OneFateForEach` | `InputSpec => []EveryEventHasOneFate` |
| `InputInTime` | `InputSpec => []EventsComeInTime` |
| `ImplementsPort` | `InputSpec => ImplementsInputPort`: the processor refines `InputPort` |
| `TrapReturns` | a trap and the IRET of a handler that leaves its two words on the stack bring back PC, flags and A7 |
| `TrapsTransparent` | `TrapSpec /\ []HandlerRestores /\ []ProgramKeepsOut => []TrapsAreTransparent` |
| `UndisturbedGoesOn` | under the same hypotheses, the second processor can take a step whenever the first runs the program |
| `RoundTrip` | the file of an image reads as the image |
| `OnlyTheWholeFile` | a proper beginning of a file, or a file with something after it, is refused |
| `CodeRoundTrip` | a sweep of encoded instructions decodes them, one after the other to the end |
| `BuilderHoldsTheListing` | `BuildingSpec => []BuildingInv`, the inductive invariant of the builder |
| `ListingIsBuilt` | `BuildingSpec => []BuildsTheListing`, for entry point 0 |
| `HandlersAreFound` | `BuildingSpec => []VectorsAreHandlers`, for entry point 0 |
| `ReadsOnlyWhole` | `ToolSpec => []ReadsOnlyCompleteFiles` |
| `ListsOnlyTheTranslated` | `ToolSpec => []ListsTheTranslated` |

### Assumptions

* `IsaAssumption`: positive sizes; the memory and the word after it have positive
  addresses; the ports lie in the negative half of the signed address space and
  their end is below -4. All hold of the program's constants (16384 and
  0xFFFF0000).
* `BitsAssumption`: the sign bit is the top bit, and the weight of a bit is twice
  that of the one before it. This is what the definition of a power says; the
  provers know nothing of `^`.
* `FieldAssumption`: a word fits into four bytes.
* `MachineAssumption`: images and schedules are well formed. An image's code is
  any function from offsets to instructions, made by the compiler or not.
* `BuildingAssumption`: the operands of the pool fit their fields, an instruction
  has at most two of them, and the longest program (14 bytes an element) has
  offsets that are unsigned words. The builder in the code would make a wrong
  program of more than 4 GB.
* `ToolAssumption`: what compiles is an image whose parts a header can count, and
  its code is the encoding of the instructions given with it. That `compile`
  makes such images is `ListingIsBuilt` for the builder behind it.

`ListingIsBuilt` and `HandlersAreFound` have the entry point 0 as a hypothesis.
Without it they are false: `EntryPoints <- AtTen` in `Building.cfg` gives a
counterexample. `TrapReturns`,
`TrapsTransparent` and `UndisturbedGoesOn` have `SIGN_BIT >= 16`: a word has to hold
four flags.

The hypotheses of `TrapsTransparent` are about handler and program, which the
processor cannot vouch for. `TrapsSaving` has a pair for which both hold throughout;
the compiled handler of `CatSpaced` does not keep to the first.

### Arguments

*Types.* `TypeOK` is inductive as it stands. The interesting part is A7:
`push_value` and `pop_value` are the only places that set a register without
`to_i32` (`machine.py:138`, `:145`). The new A7 is a word because the access
comes first and is checked: a pushed word went to a memory address or to a port,
and a popped one came from there; neither is the last word of the signed range
(`StackStep`, `PushValueType` and `PopType` in `MachineProofs`, from the
definition `Accessible`). The proof goes operator by operator:
each keeps the type of a state, then one step for each action.

*Ticks and faults.* `BoundedRun` adds
that an operator spends at most its ticks and that the loop condition bounds the
ticks before the step; the worst step is a trap and an IRET. The same lemmas give
the lower bound of `StepsSpendTime`: an operator that does not raise spends at
least a tick (`Works`). `FaultsKeepData`
needs the type invariant and, for each instruction, that what raises is the
first thing that would have changed data: the lemmas say of each operator what a
raised exception implies.

*Input.* The schedule is popped from the end of a list sorted in reverse, so that
it is a matter of proof which event comes next. Each event has as its rank the
number of those that pop before it; ranks are distinct and below the length, and
by counting they are a permutation (`SortedScheduleCorrect`). `InputInv` adds to
the types that `due` is ordered by ticks, that the events still to come are its
tail, that none has come before its tick, and that the data register is that of
the last one that has. It is inductive because only the interrupt check delivers events, and the most an
instruction can do to the port is acknowledge it: one lemma for each operator says
so. The refinement maps a step of the processor to an arrival, a read, both or a
stutter of `InputPort`. That every event that has come is in the port, read or lost
is an invariant of the abstract port, which the refinement carries over
(`OneFateForEach`).

*Traps.* The invariant, `TrapInv`, adds to `TrapsAreTransparent` what holds while
it says nothing: during a handler the shadow stands at the interrupted
instruction, `entered` has its registers with A7 two words lower, the two words
hold its flags and PC, and outside `stale` the memories agree. A step of the
handler keeps this since `stale` grows by what it changes, and since nothing but
IRET leaves the handler (`HandlerGoesOn`). IRET meets `HandlerRestores`, which
turns what is known of `entered` into what IRET pops (`HandlerReturns`, by
`TrapSaves` and `IretResumes`). A step of the program is the harder part. That both
processors do the same follows from two facts: a step is a function of the state
(`StepIsAFunction`; `Undisturbed` is the same function, which takes a lemma for each
operator that it instantiates), and this function does not look at where the two
differ (`ExecutedTwins`). `Twins(k, W, s, t)` says that two states in the middle of
an instruction agree but for clock and ports, on the words in `k.live` and on those
in `W` that the instruction has written. Each helper keeps twins twins, and those
that read the bus give the same value if the word is legible; instructions are
composed of the helpers. The same lemma with both states equal shows that no
instruction but IRET leaves a handler.

*Bytes.* A file is a header and three sections, of fields at fixed distances.
`RoundTrip` follows where each field begins and what a field of four bytes reads
as; the word is reduced at each byte, so that this holds for every width up to
32. For `OnlyTheWholeFile` the header alone decides the length that is accepted.
Code has no fixed distances: `JoinExists` and `JoinGrows` say where each part of a
concatenation begins, `InstructionRoundTrip` decodes one instruction wherever it
stands, operand by operand, and `SweepVisits` that the sweep meets these places and
no others.

*Builder.* `BuildingInv`: the builder's elements are the listing with `abs(0)` for
each label, its references are exactly those in the listing, numbered by how many
instructions precede (`Count`), and no label stands twice. `BuildsTheListing` by
itself is not inductive, as it says nothing between two builds. `add` keeps the
invariant since the number it gives to a reference is how many instructions there
are, labels not counted; distinct instructions have distinct numbers
(`CountIsInjective`), so that patching changes each reference and nothing else
(`PatchedAre`). The first pass measures instructions with placeholders and the
second encodes them with addresses; the length is the same, since the kinds of the
operands decide it (`KindsDecideLength`). With that the offsets of the first pass
are the places of the sweep (`CodeIsAssembled`), and `CodeRoundTrip` gives the
instructions there.

*Files between commands.* `ToolInv`: the file holds the first bytes of what the
last translation that compiled writes, or all and something appended, and what is
pending is the rest of it. Only a complete file reads as an image
(`OnlyTheWholeFile`), and what it reads as is the translation's image
(`RoundTrip`), with its instructions (`CodeRoundTrip`).

*Arithmetic.* Sums and differences are proved from the definition of `to_i32` on
the range they can have; products, which no backend relates to a
modulus, are treated by a lemma on the sign of a quotient. The bitwise operations
are sums over sets of bits: that a sum over a set is that over the set without one
element and the weight of it, that the bits of a word add up to it and that shifting
moves them are shown by induction on the number of bits.

*Induction.* The library's induction theorems take an operator as a parameter,
which the provers cannot instantiate. `BasicLemmas` has them for sets instead: a set
with the first number of an interval, and with each number the next, has the whole
interval (`InductionUpTo`), from the least element of a set of naturals. `Recursion`
shows in the same way that a recursive function exists, without which its
definition could not be unfolded.

### Only model-checked

* `RunEnds` and `EchoesEverything`: liveness.
* `EchoesInput` and `EchoesWhatItReads`: they are about given programs and
  handlers, as are `SavesThePromised` and the hypotheses `HandlerRestores` and
  `ProgramKeepsOut`. What holds of every program and handler is proved
  (`OneFateForEach`, `TrapReturns`, `TrapsTransparent`).
* Everything in the modules with RECURSIVE operators (`Lexer`, `Parser`,
  `Grammar`, `Compiler`, `AlgSemantics` and what extends them): the prover loses
  its backends there. This includes `TokensAreThePieces`, `ParsesByTheGrammar`,
  `CompilesMeaningfulNames`, `ComputesTheMeaning`, `BalancedStack` and
  `ReturnsToItsCall`.

## 5. Not modelled

The arguments of the command line and its messages, the source, input and result
files (each read or written in one call), Unicode beyond ASCII, mnemonics and the
layout of a listing, the log of the processor: nothing in the program reads what
they produce. Of the examples only `cat.alg` is run; the others add straight-line
code, loops and library calls of the kinds that `Compiled` has. Vendored code and
generated code there is none.

## 6. What could follow

1. A theorem on compiled code: that what `Compiler` emits keeps out of the words
   below A7 and so satisfies `ProgramKeepsOut`. It needs the generator without
   RECURSIVE operators, by recursion on a well-founded set of trees.
2. Compiled programs interrupted by compiled handlers that share memory with them
   at fixed addresses (`examples/hello_user_name.alg`, `sort.alg`), with the
   interpreter as their meaning.
3. `Binary`: decoding of bytes that no encoder made, with register numbers, counts
   and operand kinds out of range.
