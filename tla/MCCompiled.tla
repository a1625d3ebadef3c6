------------------------------ MODULE MCCompiled ------------------------------
(* Programs for CompiledPrograms: small expressions of every shape, and a      *)
(* few programs with recursion, nested statements, output and memory.          *)
EXTENDS CompiledPrograms, Programs

MCSchedules == {<<>>}

Main(statements) == Function("main", <<>>, Block(statements))
Out(e) == WriteIo(Num(IO_OUTPUT_DATA), e)
Call1(f, x) == CallExpr(f, <<x>>)
Do(f, x) == ExprStmt(Call1(f, x))
If1(cond, statements) == IfElse(cond, Block(statements), None)
Negated(e) == UnaryOp("minus", e)
\* There are no negative literals.
Integer(n) == IF n < 0 THEN Negated(Num(-n)) ELSE Num(n)

-----------------------------------------------------------------------------
(* Two operators and a unary minus in each place, on three operands, one of *)
(* them the result of a call.                                               *)

Operators == DOMAIN Arithmetic \cup DOMAIN Comparison
Minus == Function("minus", <<"x", "y">>, Block(<<Return(BinOp("minus", Id("x"), Id("y")))>>))
A == Id("a")
B == Call1("twice", Id("b"))
C == CallExpr("minus", <<Id("c"), Negated(Num(2))>>)
Shapes(op1, op2) ==
    {BinOp(op2, BinOp(op1, A, B), C), BinOp(op1, A, BinOp(op2, B, Negated(C)))}
Expressions == UNION {Shapes(op1, op2) : op1, op2 \in Operators}
ExpressionProgram(e) ==
    <<Twice, Minus,
      Main(<<VarDecl("a", Integer(-7)), VarDecl("b", Num(3)), VarDecl("c", Num(3)), Return(e)>>)>>
ExpressionPrograms == {ExpressionProgram(e) : e \in Expressions}

-----------------------------------------------------------------------------
(* fact(n), fib(n), gcd(a, b) and even(n) by way of odd(n).                 *)

N == Id("n")
Less(e, n) == BinOp("minus", e, Num(n))
Fact ==
    Function("fact", <<"n">>, Block(<<
        If1(BinOp("le", N, Num(1)), <<Return(Num(1))>>),
        Return(BinOp("times", N, Call1("fact", Less(N, 1))))>>))
Fib ==
    Function("fib", <<"n">>, Block(<<
        If1(BinOp("lt", N, Num(2)), <<Return(N)>>),
        VarDecl("r", Call1("fib", Less(N, 1))),
        Return(BinOp("plus", Call1("fib", Less(N, 2)), Id("r")))>>))
Gcd ==
    Function("gcd", <<"a", "b">>, Block(<<
        If1(BinOp("eq", Id("b"), Num(0)), <<Return(A)>>),
        Return(CallExpr("gcd", <<Id("b"), BinOp("mod", A, Id("b"))>>))>>))
Parity(f, g, none) ==
    Function(f, <<"n">>, Block(<<
        IfElse(BinOp("eq", N, Num(0)), Block(<<Return(Num(none))>>),
               Block(<<VarDecl("m", Less(N, 1)), Return(Call1(g, Id("m")))>>))>>))
RecursivePrograms ==
    {<<Fact, Main(<<Return(Call1("fact", Num(5)))>>)>>,
     <<Fib, Main(<<Return(BinOp("plus", Num(1), Call1("fib", Num(5))))>>)>>,
     <<Gcd, Main(<<Return(CallExpr("gcd", <<Num(18), Num(12)>>))>>)>>,
     <<Parity("even", "odd", 1), Parity("odd", "even", 0),
       Main(<<Return(Call1("even", Num(5)))>>)>>}

-----------------------------------------------------------------------------
(* Nested statements, and returns from within them.                         *)

Increment(x) == Assign(x, BinOp("plus", Id(x), Num(1)))
\* The first i and j with i * j = goal, or -1.
Search ==
    Function("search", <<"goal">>, Block(<<
        VarDecl("i", Num(2)),
        While(BinOp("lt", Id("i"), Num(5)), Block(<<
            VarDecl("j", Num(2)),
            While(BinOp("le", Id("j"), Id("i")), Block(<<
                VarDecl("p", BinOp("times", Id("i"), Id("j"))),
                IfElse(BinOp("eq", Id("p"), Id("goal")),
                       Block(<<Do("print_int", Id("i")), Return(Id("j"))>>),
                       Block(<<VarDecl("big", BinOp("gt", Id("p"), Id("goal"))),
                               If1(Id("big"), <<Out(Num(43))>>)>>)),
                Increment("j")>>)),
            Increment("i")>>)),
        Return(Integer(-1))>>))
SearchPrograms ==
    {<<Search, Main(<<Return(BinOp("times", Num(10), Call1("search", Num(g))))>>)>> :
        g \in {4, 6, 7}}

\* Variables in both branches of an if, used by a call after them.
Branches(n) ==
    <<Twice, Main(<<
        VarDecl("r", Num(n)),
        IfElse(BinOp("gt", Id("r"), Num(0)),
               Block(<<VarDecl("x", Num(4)), Assign("r", Call1("twice", Id("x")))>>),
               Block(<<VarDecl("y", Num(5)), VarDecl("z", Num(6)),
                       Assign("r", BinOp("plus", Id("z"), Call1("twice", Id("y"))))>>)),
        Return(Id("r"))>>)>>
BranchPrograms == {Branches(n) : n \in {0, 1}}

-----------------------------------------------------------------------------
(* Output and memory.                                                       *)

PrintedNumbers == {0, 7, 10, 105, -1, -30, SIGN_BIT - 1, 1 - SIGN_BIT}
PrintProgram(n) == <<Main(<<Do("print_int", Integer(n)), Do("print_string", StrLiteral(<<33>>)), Return(Num(0))>>)>>

\* A literal used twice, an empty one, two buffers, and a string built in one.
Hello == StrLiteral(<<72, 105>>)
Copy ==
    Function("shout", <<"s">>, Block(<<
        Do("print_string", Id("s")), Out(Num(33)), Return(CallExpr("read_io", <<Id("s")>>))>>))
MemoryProgram ==
    <<Copy, Main(<<
        VarDecl("first", Call1("allocate_buffer", Num(2))),
        VarDecl("n", Call1("shout", Hello)),
        VarDecl("second", Call1("allocate_buffer", Num(3))),
        Do("print_string", StrLiteral(<<>>)),
        WriteIo(Id("second"), Num(2)),
        WriteIo(BinOp("plus", Id("second"), Num(4)), Num(97)),
        WriteIo(BinOp("plus", Id("second"), Num(8)), Num(98)),
        WriteIo(Id("first"), Num(1)),
        WriteIo(BinOp("plus", Id("first"), Num(4)), Num(99)),
        Do("print_string", Hello),
        Do("shout", Id("second")),
        Do("print_string", Id("first")),
        Return(Id("n"))>>)>>

\* Division by zero after some output, in the middle of an expression.
FailingProgram(op) ==
    <<Twice, Main(<<
        VarDecl("zero", Num(0)), Out(Num(42)),
        Return(BinOp("plus", Num(1), BinOp(op, Call1("twice", Num(4)), Id("zero"))))>>)>>

\* Variables declared again, in the place of a variable and of a parameter, and
\* seen after the block they are declared in; a call of many arguments in a loop.
Sixfold == Function("last", <<"a", "b", "c", "d", "e", "f">>, Block(<<Return(Id("f"))>>))
Redeclared ==
    <<Sixfold,
      Function("again", <<"n", "y">>, Block(<<
        VarDecl("x", Id("n")),
        If1(BinOp("gt", Id("x"), Num(0)),
            <<VarDecl("y", BinOp("plus", Id("x"), Id("n"))), VarDecl("z", Num(9))>>),
        While(BinOp("gt", Id("x"), Num(0)), Block(<<
            VarDecl("t", CallExpr("last", <<Num(1), Num(2), Num(3), Id("x"), Id("y"), Id("z")>>)),
            Do("print_int", Id("t")),
            Increment("z"),
            Assign("x", BinOp("minus", Id("x"), Num(1)))>>)),
        VarDecl("z", BinOp("times", Id("y"), Num(2))),
        Return(Id("z"))>>)),
      Main(<<Return(CallExpr("again", <<Num(3), Num(4)>>))>>)>>

StatementPrograms ==
    RecursivePrograms \cup SearchPrograms \cup BranchPrograms
        \cup {PrintProgram(n) : n \in PrintedNumbers}
        \cup {MemoryProgram, Redeclared, FailingProgram("div"), FailingProgram("mod")}

-----------------------------------------------------------------------------
(* Sessions: compilers that have refused other programs.                    *)

\* No main; an error in a function, after a literal and within a loop; an
\* error of the builder; none at all.  f is also the name of a function of
\* some of the programs that follow.
Refused ==
    {<<Function("f", <<>>, Block(<<Out(Num(1))>>))>>,
     <<Function("f", <<>>, Block(<<Do("print_string", Hello), Out(Id("x"))>>)), Main(<<>>)>>,
     <<Function("f", <<>>, Block(<<VarDecl("x", Hello), While(Num(1), Block(<<Out(Id("y"))>>))>>)),
       Main(<<>>)>>,
     <<Function("f", <<>>, Block(<<Do("g", Num(1))>>)), Main(<<>>)>>,
     <<Twice, Function("f", <<>>, Block(<<Do("twice", Num(1)), Out(Id("x"))>>)), Main(<<>>)>>,
     <<Main(<<>>)>>}
\* if (a < 2) { print_string("A"); } print_string("Hi"); return a;
Corrected(name, literals) ==
    <<Function(name, <<"a">>, Block(<<
        If1(BinOp("lt", A, Num(2)), <<Do("print_string", StrLiteral(<<65>>))>>),
        Do("print_string", StrLiteral(literals)),
        Return(A)>>)),
      Main(<<Return(Call1(name, Num(1)))>>)>>
LaterPrograms == {Corrected(name, <<72, 105>>) : name \in {"f", "h", "twice"}}
Retried ==
    {<<first, later>> : first \in Refused, later \in LaterPrograms}
        \cup {<<first, second, Corrected("h", <<72, 105>>)>> : first, second \in Refused}

AllSessions == {<<p>> : p \in ExpressionPrograms \cup StatementPrograms} \cup Retried

-----------------------------------------------------------------------------
(* Programs that go wrong.                                                  *)

\* fn int main() { int r = 0; { int a = 5; r = 1 + (2 * a); } return r; }
BareBlock ==
    {<<<<Main(<<VarDecl("r", Num(0)),
              Block(<<VarDecl("a", Num(5)),
                      Assign("r", BinOp("plus", Num(1), BinOp("times", Num(2), Id("a"))))>>),
              Return(Id("r"))>>)>>>>}

\* print_int of the least integer
PrintLeast == {<<PrintProgram(-SIGN_BIT)>>}
=============================================================================
