----------------------------- MODULE AlgSemantics -----------------------------
(***************************************************************************)
(* What an alg program means: an interpreter of its syntax tree, written   *)
(* down without stack, frames, registers or instructions, for the code     *)
(* that Compiler generates to be compared with.                            *)
(*                                                                         *)
(* Expressions are evaluated from left to right, arguments from the last   *)
(* to the first; a variable belongs to the call of its function; a word    *)
(* wraps around; dividing by zero ends the program.  The input ports and   *)
(* interrupts are left out.                                                *)
(***************************************************************************)
EXTENDS Alu, Syntax, Sequences, SequencesExt

\* A world is what evaluation works on: the variables of the current call,
\* the words that strings, buffers and write_io put into memory, the first
\* address that is free, the output, the value of the last expression, and
\* whether the current call has returned or the program has failed.
NewWorld ==
    [env |-> <<>>, memory |-> <<>>, free |-> 0, out |-> <<>>, value |-> 0,
     returned |-> FALSE, failed |-> FALSE]

Gives(w, v) == [w EXCEPT !.value = to_i32(v)]
Update(f, x, v) == [y \in DOMAIN f \cup {x} |-> IF y = x THEN v ELSE f[y]]
SetVariable(w, name) == [w EXCEPT !.env = Update(@, name, w.value)]
Outputs(w, codes) ==
    IF w.failed THEN w
    ELSE [w EXCEPT !.out = @ \o [k \in DOMAIN codes |-> codes[k] % 256]]

\* New words at the free address; the value is their address.
Allocate(w, words) ==
    LET address(k) == w.free + (k - 1) * WORD_BYTES
        places == {address(k) : k \in DOMAIN words}
    IN [w EXCEPT !.value = w.free,
                 !.free = address(Len(words) + 1),
                 !.memory = [a \in DOMAIN @ \cup places |->
                    IF a \in places THEN words[(a - w.free) \div WORD_BYTES + 1] ELSE @[a]]]

\* The decimal digits of a natural number, as character codes.
Digits(n) ==
    LET digits[m \in 0 .. n] ==
            IF m < 10 THEN <<48 + m>> ELSE Append(digits[m \div 10], 48 + (m % 10))
    IN digits[n]
Decimal(v) == IF v < 0 THEN <<45>> \o Digits(-v) ELSE Digits(v)

\* The string at an address: its length, then its characters.
StringAt(w, address) ==
    [k \in 1 .. w.memory[address] |-> w.memory[address + k * WORD_BYTES]]

Truth(condition) == IF condition THEN 1 ELSE 0
Apply(w, op, a, b) ==
    CASE op \in {"div", "mod"} /\ b = 0 -> [w EXCEPT !.failed = TRUE]
      [] op = "plus" -> Gives(w, a + b)
      [] op = "minus" -> Gives(w, a - b)
      [] op = "times" -> Gives(w, a * b)
      [] op = "div" -> Gives(w, Quotient(a, b))
      [] op = "mod" -> Gives(w, a - b * Quotient(a, b))
      [] op = "eq" -> Gives(w, Truth(a = b))
      [] op = "ne" -> Gives(w, Truth(a # b))
      [] op = "lt" -> Gives(w, Truth(a < b))
      [] op = "le" -> Gives(w, Truth(a <= b))
      [] op = "gt" -> Gives(w, Truth(a > b))
      [] op = "ge" -> Gives(w, Truth(a >= b))

-----------------------------------------------------------------------------
(* Evaluation of an expression, of arguments, of a call, of statements, in *)
(* the program p.                                                          *)

RECURSIVE Eval(_, _, _), EvalArgs(_, _, _), Exec(_, _, _)

\* The world after the arguments, and their values.
EvalArgs(p, w, args) ==
    IF args = <<>> THEN [world |-> w, values |-> <<>>]
    ELSE LET last == Eval(p, w, Last(args))
             others == EvalArgs(p, last, Front(args))
         IN [world |-> others.world, values |-> Append(others.values, last.value)]

\* A call of a function of the program: its variables are its own.
Invoke(p, w, f, values) ==
    LET params == f.params
        entered == [w EXCEPT !.env = [x \in ToSet(params) |->
                        values[CHOOSE i \in DOMAIN params : params[i] = x]]]
    IN [Exec(p, entered, f.body) EXCEPT !.env = w.env, !.returned = FALSE]

\* write_io takes its arguments from left to right; its value is what it wrote.
WriteTo(w, address, v) ==
    IF to_u32(address) = IO_OUTPUT_DATA THEN Outputs(w, <<v>>)
    ELSE [w EXCEPT !.memory = Update(@, address, v)]

Called(p, w, e) ==
    CASE e.name = "write_io" ->
            LET address == Eval(p, w, e.args[1])
                v == Eval(p, address, e.args[2])
            IN WriteTo(v, address.value, v.value)
      [] e.name = "read_io" ->
            LET address == Eval(p, w, e.args[1]) IN Gives(address, address.memory[address.value])
      [] e.name = "allocate_buffer" -> Allocate(w, [k \in 1 .. e.args[1].value |-> 0])
      [] e.name = "print_int" ->
            LET v == Eval(p, w, e.args[1]) IN Outputs(v, Decimal(v.value))
      [] e.name = "print_string" ->
            LET v == Eval(p, w, e.args[1]) IN Outputs(v, StringAt(v, v.value))
      [] OTHER ->
            LET args == EvalArgs(p, w, e.args)
                f == p[CHOOSE i \in DOMAIN p : p[i].name = e.name]
            IN Invoke(p, args.world, f, args.values)

Eval(p, w, e) ==
    CASE e.tag = "NumLiteral" -> Gives(w, e.value)
      [] e.tag = "Identifier" -> Gives(w, w.env[e.name])
      [] e.tag = "StrLiteral" -> Allocate(w, <<Len(e.value)>> \o e.value)
      [] e.tag = "UnaryOp" -> LET v == Eval(p, w, e.expr) IN Gives(v, -v.value)
      [] e.tag = "BinOp" ->
            LET left == Eval(p, w, e.left)
                right == Eval(p, left, e.right)
            IN Apply(right, e.op, left.value, right.value)
      [] e.tag = "Call" -> Called(p, w, e)

Exec(p, w, s) ==
    CASE w.returned \/ w.failed -> w
      [] s.tag = "VarDecl" -> IF s.init = None THEN w ELSE SetVariable(Eval(p, w, s.init), s.name)
      [] s.tag = "Assign" -> SetVariable(Eval(p, w, s.value), s.name)
      [] s.tag = "ExprStmt" -> Eval(p, w, s.expr)
      [] s.tag = "Return" ->
            [IF s.value = None THEN w ELSE Eval(p, w, s.value) EXCEPT !.returned = TRUE]
      [] s.tag = "Block" -> FoldLeft(LAMBDA v, t : Exec(p, v, t), w, s.statements)
      [] s.tag = "If" ->
            LET cond == Eval(p, w, s.cond)
            IN IF cond.value # 0 THEN Exec(p, cond, s.then_branch)
               ELSE IF s.else_branch = None THEN cond ELSE Exec(p, cond, s.else_branch)
      [] s.tag = "While" ->
            LET cond == Eval(p, w, s.cond)
            IN IF cond.failed \/ cond.value = 0 THEN cond ELSE Exec(p, Exec(p, cond, s.body), s)

\* The world in which main returns.
Meaning(program) == Eval(program, NewWorld, CallExpr("main", <<>>))
=============================================================================
