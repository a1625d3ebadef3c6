------------------------------- MODULE Programs -------------------------------
(***************************************************************************)
(* Programs that the model-checking modules run: alg programs as syntax    *)
(* trees for Compiler, and assembly listings for Assembly.                 *)
(***************************************************************************)
EXTENDS Compiler

Num(n) == NumLiteral(n)
Id(name) == Identifier(name)
ReadIo(address) == CallExpr("read_io", <<address>>)
WriteIo(address, value) == ExprStmt(CallExpr("write_io", <<address, value>>))
EnableInterrupts == ExprStmt(CallExpr("enable_interrupts", <<>>))

\* while (1 == 1) { ... }
Forever(statements) == While(BinOp("eq", Num(1), Num(1)), Block(statements))

\* examples/cat.alg
CatHandler ==
    Function("on_input", <<>>,
        Block(<<VarDecl("char", ReadIo(Num(IO_INPUT_DATA))),
                WriteIo(Num(IO_OUTPUT_DATA), Id("char"))>>))
Cat ==
    <<CatHandler,
      Function("main", <<>>,
          Block(<<EnableInterrupts, Forever(<<VarDecl("idle", Num(0))>>)>>))>>

\* The same echo without interrupts: main polls the status port.
PollingCat ==
    <<Function("main", <<>>,
          Block(<<Forever(<<
              IfElse(BinOp("eq", ReadIo(Num(IO_INPUT_STATUS)), Num(1)),
                     Block(<<WriteIo(Num(IO_OUTPUT_DATA), ReadIo(Num(IO_INPUT_DATA)))>>),
                     None)>>)>>))>>

\* cat.alg as assembly, with a handler that saves the registers it uses.
SavingHandler ==
    <<Lbl("on_input"),
      I("PUSH", <<D0>>), I("PUSH", <<A0>>),
      I("MOVE", <<imm(IO_INPUT_DATA), D0>>), I("MOVE", <<D0, A0>>),
      I("MOVE", <<ind_areg(0), D0>>), I("MOVE", <<D0, abs(IO_OUTPUT_DATA)>>),
      I("POP", <<A0>>), I("POP", <<D0>>), I("IRET", <<>>)>>
SavingCat ==
    <<I("EI", <<>>),
      Lbl("loop"),
      I("MOVE", <<imm(1), D0>>), I("PUSH", <<D0>>), I("MOVE", <<imm(1), D0>>), I("POP", <<D1>>),
      I("CMP", <<D0, D1>>), I("JE", <<Ref("loop")>>),
      I("HALT", <<>>)>> \o SavingHandler

\* The images of a set of alg programs, and of a set of listings whose label
\* on_input is the input vector.
OnInput == "on_input"
AlgImages(programs) == {Loaded(Compile(p)) : p \in programs}
ListingImages(listings) == {Loaded(Build(Assemble(l), 0, <<>>, <<Ref(OnInput)>>)) : l \in listings}

\* An alg program without on_input, with the assembly handler in its place.
WithSavingHandler(program) ==
    LET compiled == Generate(NewCompiler, program)
    IN Loaded(Build(Extend(compiled.builder, SavingHandler), 0, compiled.static_data,
                    <<Ref(OnInput)>>))

\* fn int twice(int x) { return x + x; }
\* fn int main() { int i = 2; int s = 5;
\*                 while (i > 0) { s = s + twice(i) * 3; i = i - 1; } return s; }
Twice == Function("twice", <<"x">>, Block(<<Return(BinOp("plus", Id("x"), Id("x")))>>))
SumMain ==
    Function("main", <<>>,
        Block(<<EnableInterrupts,
                VarDecl("i", Num(2)), VarDecl("s", Num(5)),
                While(BinOp("gt", Id("i"), Num(0)),
                      Block(<<Assign("s", BinOp("plus", Id("s"),
                                  BinOp("times", CallExpr("twice", <<Id("i")>>), Num(3)))),
                              Assign("i", BinOp("minus", Id("i"), Num(1)))>>)),
                Return(Id("s"))>>))
Sum == <<Twice, SumMain>>

\* fn void on_input() { int c = read_io(IO_INPUT_DATA); }
ReadingHandler ==
    Function("on_input", <<>>, Block(<<VarDecl("c", ReadIo(Num(IO_INPUT_DATA)))>>))
InterruptedSum == Append(Sum, ReadingHandler)
=============================================================================
