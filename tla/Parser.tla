-------------------------------- MODULE Parser --------------------------------
(***************************************************************************)
(* The syntactic analyser: class Parser of src/lab4/parser.py, by          *)
(* recursive descent from tokens to syntax trees.                          *)
(*                                                                         *)
(* The parser is a record p of the attributes of the Python object; each   *)
(* operator below is one of its methods, from p to p, which leaves what    *)
(* the method returns in node.  A method that raises sets failed and goes  *)
(* to the end of the tokens, where nothing matches any more; what the      *)
(* others then return is of no account.                                    *)
(***************************************************************************)
EXTENDS Lexer, Syntax

PeekToken(p) == p.tokens[p.current + 1]
IsAtEnd(p) == PeekToken(p).type = "EOF"
PeekNext(p) == IF IsAtEnd(p) THEN Last(p.tokens) ELSE p.tokens[p.current + 2]
Previous(p) == p.tokens[p.current]          \* tokens[current - 1], from 0

Sees(p, types) == ~IsAtEnd(p) /\ PeekToken(p).type \in types
Pass(p) == IF IsAtEnd(p) THEN p ELSE [p EXCEPT !.current = @ + 1]
Reject(p) == [p EXCEPT !.failed = TRUE, !.current = Len(p.tokens) - 1]
Consume(p, type) == IF Sees(p, {type}) THEN Pass(p) ELSE Reject(p)
\* _advance, and an error if what was passed is none of the types.
PassOneOf(p, types) ==
    LET passed == Pass(p) IN IF Previous(passed).type \in types THEN passed ELSE Reject(passed)
Give(p, node) == [p EXCEPT !.node = node]

-----------------------------------------------------------------------------
(* Expressions, by levels of precedence.                                   *)

BinaryOperators ==
    <<{"EQ", "NE"}, {"LT", "LE", "GT", "GE"}, {"PLUS", "MINUS"}, {"MUL", "DIV", "MOD"}>>
OpName ==
    [EQ |-> "eq", NE |-> "ne", LT |-> "lt", LE |-> "le", GT |-> "gt", GE |-> "ge",
     PLUS |-> "plus", MINUS |-> "minus", MUL |-> "times", DIV |-> "div", MOD |-> "mod"]

RECURSIVE ParseLevel(_, _), ParseOperators(_, _), ParseUnary(_), ParseArguments(_, _),
          ParsePrimary(_)

ParseExpression(p) == ParseLevel(p, 1)

\* _equality, _comparison, _term and _factor: level k, from its left operand.
ParseLevel(p, k) ==
    IF k > Len(BinaryOperators) THEN ParseUnary(p) ELSE ParseOperators(ParseLevel(p, k + 1), k)
\* Variant: the right operand may hold operators of the same level.
ParseOperatorsRight(p, k) ==
    IF ~Sees(p, BinaryOperators[k]) THEN p
    ELSE LET right == ParseLevel(Pass(p), k)
         IN ParseOperators(
                Give(right, BinOp(OpName[PeekToken(p).type], p.node, right.node)), k)
ParseOperators(p, k) ==
    IF ~Sees(p, BinaryOperators[k]) THEN p
    ELSE LET right == ParseLevel(Pass(p), k + 1)
         IN ParseOperators(
                Give(right, BinOp(OpName[PeekToken(p).type], p.node, right.node)), k)

ParseUnary(p) ==
    IF ~Sees(p, {"MINUS"}) THEN ParsePrimary(p)
    ELSE LET operand == ParseUnary(Pass(p)) IN Give(operand, UnaryOp("minus", operand.node))

\* expression (',' expression)*
ParseArguments(p, args) ==
    LET arg == ParseExpression(p)
    IN IF Sees(arg, {"COMMA"}) THEN ParseArguments(Pass(arg), Append(args, arg.node))
       ELSE Give(arg, Append(args, arg.node))

ParseCall(p, name) ==
    LET args == IF Sees(p, {"RPAREN"}) THEN Give(p, <<>>) ELSE ParseArguments(p, <<>>)
    IN Give(Consume(args, "RPAREN"), CallExpr(name, args.node))

ParsePrimary(p) ==
    LET value == PeekToken(p).value
        group == ParseExpression(Pass(p))
    IN CASE Sees(p, {"NUMBER"}) -> Give(Pass(p), NumLiteral(NumberOf(value)))
         [] Sees(p, {"STRING_LITERAL"}) ->
                Give(Pass(p), StrLiteral([k \in DOMAIN value |-> ord[value[k]]]))
         [] Sees(p, {"IDENTIFIER"}) ->
                IF Sees(Pass(p), {"LPAREN"}) THEN ParseCall(Pass(Pass(p)), value)
                ELSE Give(Pass(p), Identifier(value))
         [] Sees(p, {"LPAREN"}) -> Consume(group, "RPAREN")
         [] OTHER -> Reject(p)

-----------------------------------------------------------------------------
(* Statements.                                                             *)

RECURSIVE ParseStatement(_), ParseStatements(_, _)

ParseStatements(p, statements) ==
    IF Sees(p, {"RBRACE"}) \/ IsAtEnd(p) THEN Give(p, statements)
    ELSE LET s == ParseStatement(p) IN ParseStatements(s, Append(statements, s.node))

ParseBlock(p) ==
    LET body == ParseStatements(Consume(p, "LBRACE"), <<>>)
    IN Give(Consume(body, "RBRACE"), Block(body.node))

\* '(' expression ')'
ParseCondition(p) ==
    LET cond == ParseExpression(Consume(p, "LPAREN")) IN Consume(cond, "RPAREN")

ParseVarDecl(p) ==
    LET name == Consume(Pass(p), "IDENTIFIER")
        init == IF Sees(name, {"ASSIGN"}) THEN ParseExpression(Pass(name)) ELSE Give(name, None)
    IN Give(Consume(init, "SEMICOLON"), VarDecl(Previous(name).value, init.node))

ParseIf(p) ==
    LET cond == ParseCondition(Pass(p))
        then == ParseBlock(cond)
        else == IF Sees(then, {"ELSE"}) THEN ParseBlock(Pass(then)) ELSE Give(then, None)
    IN Give(else, IfElse(cond.node, then.node, else.node))

ParseWhile(p) ==
    LET cond == ParseCondition(Pass(p))
        body == ParseBlock(cond)
    IN Give(body, While(cond.node, body.node))

ParseReturn(p) ==
    LET value == IF Sees(Pass(p), {"SEMICOLON"}) THEN Give(Pass(p), None)
                 ELSE ParseExpression(Pass(p))
    IN Give(Consume(value, "SEMICOLON"), Return(value.node))

\* An identifier before '=' is the target of an assignment.
ParseAssignOrExprStmt(p) ==
    IF PeekToken(p).type = "IDENTIFIER" /\ PeekNext(p).type = "ASSIGN"
      THEN LET value == ParseExpression(Pass(Pass(p)))
           IN Give(Consume(value, "SEMICOLON"), Assign(PeekToken(p).value, value.node))
      ELSE LET expr == ParseExpression(p)
           IN Give(Consume(expr, "SEMICOLON"), ExprStmt(expr.node))

ParseStatement(p) ==
    CASE Sees(p, {"INT", "STRING_KEYWORD"}) -> ParseVarDecl(p)
      [] Sees(p, {"IF"}) -> ParseIf(p)
      [] Sees(p, {"WHILE"}) -> ParseWhile(p)
      [] Sees(p, {"RETURN"}) -> ParseReturn(p)
      [] Sees(p, {"LBRACE"}) -> ParseBlock(p)
      [] OTHER -> ParseAssignOrExprStmt(p)

-----------------------------------------------------------------------------
(* Functions and programs.  Types are checked and left out of the tree.    *)

RECURSIVE ParseParameters(_, _), ParseFunctions(_, _), ReadTokens(_, _)

ParseParameters(p, params) ==
    LET name == Consume(PassOneOf(p, {"INT", "STRING_KEYWORD"}), "IDENTIFIER")
        all == Append(params, Previous(name).value)
    IN IF Sees(name, {"COMMA"}) THEN ParseParameters(Pass(name), all) ELSE Give(name, all)

ParseFunction(p) ==
    LET type == PassOneOf(Consume(p, "FN"), {"VOID", "INT", "STRING_KEYWORD"})
        name == Consume(type, "IDENTIFIER")
        open == Consume(name, "LPAREN")
        params == IF Sees(open, {"RPAREN"}) THEN Give(open, <<>>) ELSE ParseParameters(open, <<>>)
        body == ParseBlock(Consume(params, "RPAREN"))
    IN Give(body, Function(Previous(name).value, params.node, body.node))

ParseFunctions(p, functions) ==
    IF IsAtEnd(p) THEN Give(p, functions)
    ELSE LET f == ParseFunction(p) IN ParseFunctions(f, Append(functions, f.node))

\* The tokens of a text up to EOF, unless the lexer raises.
ReadTokens(lexer, tokens) ==
    LET next == next_token(lexer)
        read == Append(tokens, next.token)
    IN CASE next.lexer.failed -> [failed |-> TRUE, tokens |-> tokens]
         [] ~next.lexer.failed /\ next.token.type = "EOF" -> [failed |-> FALSE, tokens |-> read]
         [] OTHER -> ReadTokens(next.lexer, read)

\* Parser(Lexer(source)), which reads all tokens, and parse() of them.
NewParser(source) ==
    LET read == ReadTokens(NewLexer(source), <<>>)
    IN [tokens |-> read.tokens, current |-> 0, node |-> None, failed |-> read.failed]
Parse(parser) == IF parser.failed THEN parser ELSE ParseFunctions(parser, <<>>)
=============================================================================
