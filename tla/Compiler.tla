------------------------------- MODULE Compiler -------------------------------
(***************************************************************************)
(* The code generator: class Compiler of src/lab4/compiler.py, from the    *)
(* syntax tree of an alg program to a program image.                       *)
(*                                                                         *)
(* The compiler is a record c of the attributes of the Python object; each *)
(* operator below is one of its methods, from c to c.  A method that       *)
(* raises sets error, after which the builder and the label counter stay   *)
(* as they are; the other attributes do not outlive a call of compile().   *)
(***************************************************************************)
EXTENDS Assembly, Syntax

-----------------------------------------------------------------------------
(* The compiler's state and its output.                                    *)

NewCompiler ==
    [builder |-> EmptyBuilder,
     local_symbols |-> <<>>,         \* a function from names to offsets from A6
     next_local_offset |-> -4,
     label_counter |-> 0,
     static_data |-> <<>>,
     string_literals |-> <<>>,       \* a function from literals to addresses
     current_func_name |-> "",
     error |-> FALSE]

Fail(c) == [c EXCEPT !.error = TRUE]
\* Nothing is emitted after an error.  label() may raise as well.
Emit(c, listing) ==
    IF c.error THEN c
    ELSE LET extended == Extend(c.builder, listing)
         IN [c EXCEPT !.builder = extended, !.error = extended.failed]

\* _new_label(prefix) for the k-th label from now on.  The label of a function
\* is its name.
FreshLabel(c, prefix, k) == prefix \o "_" \o ToString(c.label_counter + k)
UseLabels(c, count) == IF c.error THEN c ELSE [c EXCEPT !.label_counter = @ + count]

Bind(symbols, name, offset) ==
    [x \in DOMAIN symbols \cup {name} |-> IF x = name THEN offset ELSE symbols[x]]

D0 == dreg(0)
D1 == dreg(1)
D2 == dreg(2)
A0 == areg(0)
A1 == areg(1)
FP == areg(FRAME_POINTER)
SP == areg(STACK_POINTER)
Local(offset) == ind_areg_disp(FRAME_POINTER, offset)

\* The stack pointer and the frame pointer are all that a function saves;
\* on_input, the interrupt handler, only differs in its last instruction.
Epilogue(c) ==
    Emit(c, <<I("MOVE", <<FP, SP>>), I("POP", <<FP>>),
              I(IF c.current_func_name = "on_input" THEN "IRET" ELSE "RET", <<>>)>>)

-----------------------------------------------------------------------------
(* Expressions: the value is left in D0.                                   *)

Arithmetic == [plus |-> "ADD", minus |-> "SUB", times |-> "MUL", div |-> "DIV", mod |-> "MOD"]
Comparison == [eq |-> "JE", ne |-> "JNE", lt |-> "JL", le |-> "JLE", gt |-> "JG", ge |-> "JGE"]

\* Left operand in D1, right operand in D0.
Combine(c, op) ==
    IF op \in DOMAIN Arithmetic
      THEN Emit(c, <<I(Arithmetic[op], <<D0, D1>>), I("MOVE", <<D1, D0>>)>>)
    ELSE IF op \in DOMAIN Comparison
      THEN LET true == FreshLabel(c, "cmp_true", 1)
               end == FreshLabel(c, "cmp_end", 2)
           IN Emit(UseLabels(c, 2), <<
                  I("CMP", <<D0, D1>>),
                  I(Comparison[op], <<Ref(true)>>),
                  I("MOVE", <<imm(0), D0>>),
                  I("JMP", <<Ref(end)>>),
                  Lbl(true),
                  I("MOVE", <<imm(1), D0>>),
                  Lbl(end)>>)
    ELSE Fail(c)

\* A literal is stored once: its length, then its characters, a word each.
StoreLiteral(c, chars) ==
    IF chars \in DOMAIN c.string_literals THEN c
    ELSE [c EXCEPT !.string_literals = Bind(@, chars, Len(c.static_data) * WORD_BYTES),
                   !.static_data = @ \o <<Len(chars)>> \o chars]

Reserve(c, words) == [c EXCEPT !.static_data = @ \o [i \in 1 .. words |-> 0]]

RECURSIVE CompileExpr(_, _), CompileArgs(_, _), CompileCall(_, _)

\* Arguments are pushed from the last to the first.
CompileArgs(c, args) ==
    IF args = <<>> THEN c
    ELSE CompileArgs(Emit(CompileExpr(c, Last(args)), <<I("PUSH", <<D0>>)>>), Front(args))

\* Variant: one word is dropped, however many arguments there are.
DropOneArg(args) == IF args = <<>> THEN <<>> ELSE <<I("ADD", <<imm(4), SP>>)>>
\* The caller takes the arguments from the stack again.
DropArgs(args) == IF args = <<>> THEN <<>> ELSE <<I("ADD", <<imm(Len(args) * 4), SP>>)>>

\* A built-in with too few arguments is an IndexError.
NeedsArgument(e) == e.name \in {"read_io", "write_io", "allocate_buffer"}

CompileCall(c, e) ==
    CASE NeedsArgument(e) /\ e.args = <<>> -> Fail(c)
      [] e.name = "enable_interrupts" -> Emit(c, <<I("EI", <<>>)>>)
      [] e.name = "disable_interrupts" -> Emit(c, <<I("DI", <<>>)>>)
      [] e.name = "read_io" ->
            Emit(CompileExpr(c, e.args[1]),
                 <<I("MOVE", <<D0, A0>>), I("MOVE", <<ind_areg(0), D0>>)>>)
      [] e.name = "write_io" ->
            LET address == Emit(CompileExpr(c, e.args[1]), <<I("PUSH", <<D0>>)>>)
            IN IF Len(e.args) = 1 THEN Fail(address)
               ELSE Emit(CompileExpr(address, e.args[2]),
                         <<I("POP", <<A0>>), I("MOVE", <<D0, ind_areg(0)>>)>>)
      [] e.name = "allocate_buffer" ->
            IF e.args[1].tag # "NumLiteral" THEN Fail(c)
            ELSE Emit(Reserve(c, e.args[1].value),
                      <<I("MOVE", <<imm(Len(c.static_data) * WORD_BYTES), D0>>)>>)
      [] OTHER ->
            Emit(CompileArgs(c, e.args), <<I("CALL", <<Ref(e.name)>>)>> \o DropArgs(e.args))

CompileExpr(c, e) ==
    CASE e.tag = "NumLiteral" -> Emit(c, <<I("MOVE", <<imm(e.value), D0>>)>>)
      [] e.tag = "Identifier" ->
            IF e.name \notin DOMAIN c.local_symbols THEN Fail(c)
            ELSE Emit(c, <<I("MOVE", <<Local(c.local_symbols[e.name]), D0>>)>>)
      [] e.tag = "StrLiteral" ->
            LET stored == StoreLiteral(c, e.value)
            IN Emit(stored, <<I("MOVE", <<imm(stored.string_literals[e.value]), D0>>)>>)
      [] e.tag = "BinOp" ->
            LET left == Emit(CompileExpr(c, e.left), <<I("PUSH", <<D0>>)>>)
                right == Emit(CompileExpr(left, e.right), <<I("POP", <<D1>>)>>)
            IN Combine(right, e.op)
      [] e.tag = "UnaryOp" ->
            LET operand == CompileExpr(c, e.expr)
            IN IF e.op = "minus" THEN Emit(operand, <<I("NEG", <<D0>>)>>) ELSE Fail(operand)
      [] e.tag = "Call" -> CompileCall(c, e)

-----------------------------------------------------------------------------
(* Statements.                                                             *)

Store(c, name) == Emit(c, <<I("MOVE", <<D0, Local(c.local_symbols[name])>>)>>)

\* Variant: the slots begin at A6 itself.
DeclareAtFrame(c, name) ==
    [c EXCEPT !.local_symbols = Bind(@, name, c.next_local_offset + 4),
              !.next_local_offset = @ - 4]

\* A declaration takes the next slot of the frame and hides an earlier one of
\* the same name until the end of the function.
Declare(c, name) ==
    [c EXCEPT !.local_symbols = Bind(@, name, c.next_local_offset),
              !.next_local_offset = @ - 4]

RECURSIVE CompileStatement(_, _), CompileStatements(_, _), CompileIf(_, _), CompileWhile(_, _)

CompileStatements(c, statements) ==
    IF statements = <<>> THEN c
    ELSE CompileStatements(CompileStatement(c, Head(statements)), Tail(statements))

CompileIf(c, s) ==
    LET else == FreshLabel(c, "else", 1)
        endif == FreshLabel(c, "endif", 2)
        hasElse == s.else_branch # None
        test == Emit(CompileExpr(UseLabels(c, 2), s.cond),
                     <<I("CMP", <<imm(0), D0>>),
                       I("JE", <<Ref(IF hasElse THEN else ELSE endif)>>)>>)
        then == CompileStatement(test, s.then_branch)
        both == IF hasElse
                  THEN CompileStatement(Emit(then, <<I("JMP", <<Ref(endif)>>), Lbl(else)>>),
                                        s.else_branch)
                  ELSE then
    IN Emit(both, <<Lbl(endif)>>)

CompileWhile(c, s) ==
    LET start == FreshLabel(c, "while_start", 1)
        end == FreshLabel(c, "while_end", 2)
        test == Emit(CompileExpr(Emit(UseLabels(c, 2), <<Lbl(start)>>), s.cond),
                     <<I("CMP", <<imm(0), D0>>), I("JE", <<Ref(end)>>)>>)
    IN Emit(CompileStatement(test, s.body), <<I("JMP", <<Ref(start)>>), Lbl(end)>>)

CompileStatement(c, s) ==
    CASE s.tag = "VarDecl" ->
            LET declared == Declare(c, s.name)
            IN IF s.init = None THEN declared ELSE Store(CompileExpr(declared, s.init), s.name)
      [] s.tag = "Assign" ->
            IF s.name \notin DOMAIN c.local_symbols THEN Fail(c)
            ELSE Store(CompileExpr(c, s.value), s.name)
      [] s.tag = "Return" -> Epilogue(IF s.value = None THEN c ELSE CompileExpr(c, s.value))
      [] s.tag = "If" -> CompileIf(c, s)
      [] s.tag = "While" -> CompileWhile(c, s)
      [] s.tag = "ExprStmt" -> CompileExpr(c, s.expr)
      [] s.tag = "Block" -> CompileStatements(c, s.statements)

\* _count_local_variables: the slots of the frame.  It looks into the
\* branches of If and the body of While, not into a Block among statements.
RECURSIVE CountLocalVariables(_)
\* Variant: the else branch is forgotten.
CountWithoutElse(block) ==
    LET Slots(s) ==
            CASE s.tag = "VarDecl" -> 1
              [] s.tag = "If" -> CountLocalVariables(s.then_branch)
              [] s.tag = "While" -> CountLocalVariables(s.body)
              [] OTHER -> 0
    IN MapThenSumSet(LAMBDA i : Slots(block.statements[i]), DOMAIN block.statements)
CountLocalVariables(block) ==
    LET Slots(s) ==
            CASE s.tag = "VarDecl" -> 1
              [] s.tag = "If" -> CountLocalVariables(s.then_branch)
                                 + IF s.else_branch = None THEN 0
                                   ELSE CountLocalVariables(s.else_branch)
              [] s.tag = "While" -> CountLocalVariables(s.body)
              [] OTHER -> 0
    IN MapThenSumSet(LAMBDA i : Slots(block.statements[i]), DOMAIN block.statements)

-----------------------------------------------------------------------------
(* Functions and programs.                                                 *)

ParameterOffsets(params) ==
    [name \in ToSet(params) |->
        LET last == CHOOSE i \in DOMAIN params :
                        params[i] = name /\ \A j \in DOMAIN params : params[j] = name => j <= i
        IN 8 + (last - 1) * 4]

\* Variant: the variables of the function before are still known.
CompileFunctionKeepingLocals(c, f) ==
    LET slots == CountLocalVariables(f.body)
        entered == [c EXCEPT !.current_func_name = f.name,
                             !.local_symbols = ParameterOffsets(f.params) @@ @,
                             !.next_local_offset = -4]
        prologue == Emit(entered, <<Lbl(f.name), I("PUSH", <<FP>>), I("MOVE", <<SP, FP>>)>>
                        \o IF slots > 0 THEN <<I("SUB", <<imm(slots * 4), SP>>)>> ELSE <<>>)
    IN Epilogue(CompileStatements(prologue, f.body.statements))

CompileFunction(c, f) ==
    LET slots == CountLocalVariables(f.body)
        entered == [c EXCEPT !.current_func_name = f.name,
                             !.local_symbols = ParameterOffsets(f.params),
                             !.next_local_offset = -4]
        prologue == Emit(entered, <<Lbl(f.name), I("PUSH", <<FP>>), I("MOVE", <<SP, FP>>)>>
                        \o IF slots > 0 THEN <<I("SUB", <<imm(slots * 4), SP>>)>> ELSE <<>>)
    IN Epilogue(CompileStatements(prologue, f.body.statements))

RECURSIVE CompileFunctions(_, _)
CompileFunctions(c, funcs) ==
    IF funcs = <<>> THEN c ELSE CompileFunctions(CompileFunction(c, Head(funcs)), Tail(funcs))

\* The system library: print_string and print_int.
PrintString ==
    LET loop == "print_string_loop"
        end == "print_string_end"
    IN <<Lbl("print_string"), I("PUSH", <<FP>>), I("MOVE", <<SP, FP>>),
         I("MOVE", <<Local(8), A0>>),
         I("MOVE", <<ind_areg(0), D0>>),
         I("CMP", <<imm(0), D0>>), I("JE", <<Ref(end)>>),
         I("LEA", <<ind_areg_disp(0, 4), A1>>),
         I("MOVE", <<imm(0), D1>>),
         Lbl(loop),
         I("CMP", <<D0, D1>>), I("JE", <<Ref(end)>>),
         I("MOVE", <<ind_areg(1), D2>>), I("MOVE", <<D2, abs(IO_OUTPUT_DATA)>>),
         I("ADD", <<imm(4), A1>>), I("ADD", <<imm(1), D1>>),
         I("JMP", <<Ref(loop)>>),
         Lbl(end),
         I("MOVE", <<FP, SP>>), I("POP", <<FP>>), I("RET", <<>>)>>

\* Digits are computed by MOD and DIV, pushed, and printed last first.
PrintInt ==
    LET pos == "print_int_pos"
        nonzero == "print_int_nonzero"
        loop == "print_int_loop"
        print == "print_int_print_loop"
        end == "print_int_end"
    IN <<Lbl("print_int"), I("PUSH", <<FP>>), I("MOVE", <<SP, FP>>),
         I("MOVE", <<Local(8), D0>>),
         I("CMP", <<imm(0), D0>>), I("JGE", <<Ref(pos)>>),
         I("MOVE", <<imm(45), D1>>), I("MOVE", <<D1, abs(IO_OUTPUT_DATA)>>),
         I("NEG", <<D0>>),
         Lbl(pos),
         I("CMP", <<imm(0), D0>>), I("JNE", <<Ref(nonzero)>>),
         I("MOVE", <<imm(48), D1>>), I("MOVE", <<D1, abs(IO_OUTPUT_DATA)>>),
         I("JMP", <<Ref(end)>>),
         Lbl(nonzero),
         I("MOVE", <<imm(0), D2>>),
         Lbl(loop),
         I("CMP", <<imm(0), D0>>), I("JE", <<Ref(print)>>),
         I("MOVE", <<D0, D1>>), I("MOD", <<imm(10), D1>>), I("PUSH", <<D1>>),
         I("DIV", <<imm(10), D0>>), I("ADD", <<imm(1), D2>>),
         I("JMP", <<Ref(loop)>>),
         Lbl(print),
         I("CMP", <<imm(0), D2>>), I("JE", <<Ref(end)>>),
         I("POP", <<D1>>), I("ADD", <<imm(48), D1>>), I("MOVE", <<D1, abs(IO_OUTPUT_DATA)>>),
         I("SUB", <<imm(1), D2>>),
         I("JMP", <<Ref(print)>>),
         Lbl(end),
         I("MOVE", <<FP, SP>>), I("POP", <<FP>>), I("RET", <<>>)>>

FunctionNames(program) == {program[i].name : i \in DOMAIN program}

\* compile() up to build(), by a compiler in state c: main is required.  The
\* data is cleared, the builder and the label counter never are; the error of
\* an earlier call is over.
Started(c) ==
    [c EXCEPT !.static_data = <<>>, !.string_literals = <<>>,
              !.error = FALSE, !.builder.failed = FALSE]
\* Variant: the addresses of the literals are kept.
GenerateKeepingLiterals(c, program) ==
    IF "main" \notin FunctionNames(program) THEN Fail(Started(c))
    ELSE LET start == Emit([Started(c) EXCEPT !.string_literals = c.string_literals],
                           <<I("CALL", <<Ref("main")>>), I("HALT", <<>>)>>)
         IN Emit(Emit(CompileFunctions(start, program), PrintString), PrintInt)
Generate(c, program) ==
    IF "main" \notin FunctionNames(program) THEN Fail(Started(c))
    ELSE LET start == Emit(Started(c), <<I("CALL", <<Ref("main")>>), I("HALT", <<>>)>>)
         IN Emit(Emit(CompileFunctions(start, program), PrintString), PrintInt)

\* on_input becomes the vector of the input interrupt.
CompileWith(c, program) ==
    LET compiled == Generate(c, program)
    IN IF compiled.error THEN Malformed
       ELSE Build(compiled.builder, 0, compiled.static_data,
                  IF "on_input" \in FunctionNames(program) THEN <<Ref("on_input")>> ELSE <<>>)

Compile(program) == CompileWith(NewCompiler, program)
=============================================================================
