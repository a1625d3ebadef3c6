-------------------------------- MODULE Syntax --------------------------------
(***************************************************************************)
(* Syntax trees of alg programs (src/lab4/ast.py), as the parser makes     *)
(* them.  Types are left out: the compiler does not look at them.          *)
(* Operators have names: plus, minus, times, div, mod, eq, ne, lt, le, gt, *)
(* ge.                                                                     *)
(***************************************************************************)

None == [tag |-> "None"]

NumLiteral(value) == [tag |-> "NumLiteral", value |-> value]
StrLiteral(chars) == [tag |-> "StrLiteral", value |-> chars]
Identifier(name) == [tag |-> "Identifier", name |-> name]
BinOp(op, left, right) == [tag |-> "BinOp", op |-> op, left |-> left, right |-> right]
UnaryOp(op, expr) == [tag |-> "UnaryOp", op |-> op, expr |-> expr]
CallExpr(name, args) == [tag |-> "Call", name |-> name, args |-> args]

VarDecl(name, init) == [tag |-> "VarDecl", name |-> name, init |-> init]
Assign(name, value) == [tag |-> "Assign", name |-> name, value |-> value]
IfElse(cond, then, else) ==
    [tag |-> "If", cond |-> cond, then_branch |-> then, else_branch |-> else]
While(cond, body) == [tag |-> "While", cond |-> cond, body |-> body]
Return(value) == [tag |-> "Return", value |-> value]
ExprStmt(expr) == [tag |-> "ExprStmt", expr |-> expr]
Block(statements) == [tag |-> "Block", statements |-> statements]

\* A program is a sequence of functions; params is a sequence of names.
Function(name, params, body) == [name |-> name, params |-> params, body |-> body]
=============================================================================
