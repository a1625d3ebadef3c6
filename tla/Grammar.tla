------------------------------- MODULE Grammar -------------------------------
(***************************************************************************)
(* The language alg as README.md:160-194 defines it: which pieces a text   *)
(* divides into, and which syntax trees the grammar derives for them.      *)
(*                                                                         *)
(* Where the lexer scans and the parser decides by the next token, these   *)
(* definitions say what a piece is and try every division of the text: a   *)
(* phrase has the set of trees that its rule gives for all ways to split   *)
(* it.  An unambiguous grammar gives at most one.                          *)
(***************************************************************************)
EXTENDS Text, Syntax

-----------------------------------------------------------------------------
(* Lexical rules.                                                          *)

HasInside(s, first, last, c, d) == \E k \in first .. (last - 1) : s[k] = c /\ s[k + 1] = d

IsBlank(s) == Len(s) = 1 /\ s[1] \in Spaces
IsLineComment(s) == IsPrefix(<<"/", "/">>, s) /\ Newline \notin ToSet(s)
OpensComment(s) == IsPrefix(<<"/", "*">>, s)
IsBlockComment(s) ==
    /\ OpensComment(s) /\ Len(s) >= 4 /\ IsSuffix(<<"*", "/">>, s)
    /\ ~HasInside(s, 3, Len(s) - 1, "*", "/")
IsNumber(s) == s # <<>> /\ ToSet(s) \subseteq Decimals
IsWord(s) ==
    /\ s # <<>> /\ s[1] \notin Decimals
    /\ ToSet(s) \subseteq (Letters \cup Decimals \cup {"_"})
IsString(s) ==
    /\ Len(s) >= 2 /\ s[1] = "\"" /\ Last(s) = "\""
    /\ \A k \in 2 .. (Len(s) - 1) : s[k] \notin {"\"", Newline}
Symbols ==
    {<<c>> : c \in {"+", "-", "*", "/", "%", "<", ">", "=", ";", ",", "(", ")", "{", "}"}}
        \cup {<<c, "=">> : c \in {"=", "!", "<", ">"}}

IsSkipped(s) == IsBlank(s) \/ IsLineComment(s) \/ IsBlockComment(s)
IsPiece(s) == IsSkipped(s) \/ IsNumber(s) \/ IsWord(s) \/ IsString(s) \/ s \in Symbols

\* The length of the longest piece at the front of a text, 0 if there is
\* none.  A comment that is opened must be closed.
LongestPiece(s) ==
    LET pieces == {n \in 1 .. Len(s) : IsPiece(SubSeq(s, 1, n))}
        comments == {n \in pieces : IsBlockComment(SubSeq(s, 1, n))}
    IN Max({0} \cup IF OpensComment(s) THEN comments ELSE pieces)

\* Where the pieces of a text begin, one piece after the longest other, up
\* to the end, or to where no piece fits.
Cuts(source) ==
    LET from[at \in 0 .. Len(source)] ==
            LET length == IF at = Len(source) THEN 0
                          ELSE LongestPiece(SubSeq(source, at + 1, Len(source)))
            IN IF length = 0 THEN <<at>> ELSE <<at>> \o from[at + length]
    IN from[0]

IsDivided(source) == Last(Cuts(source)) = Len(source)

\* The line and the column of a position: lines end in a newline.
LineOf(source, position) ==
    1 + Cardinality({k \in 1 .. position : source[k] = Newline})
ColumnOf(source, position) ==
    position + 1 - Max({0} \cup {k \in 1 .. position : source[k] = Newline})

\* The pieces that count, with their places.
Lexemes(source) ==
    LET cuts == Cuts(source)
        piece(i) == SubSeq(source, cuts[i] + 1, cuts[i + 1])
        counting == SelectSeq([i \in 1 .. (Len(cuts) - 1) |-> i], LAMBDA i : ~IsSkipped(piece(i)))
    IN [k \in DOMAIN counting |->
            LET i == counting[k]
            IN [chars |-> piece(i), text |-> Joined(piece(i)),
                line |-> LineOf(source, cuts[i]), column |-> ColumnOf(source, cuts[i])]]

-----------------------------------------------------------------------------
(* Rules of the grammar.  ls, a phrase, is a sequence of lexemes; a rule    *)
(* gives the set of its trees.                                             *)

Text1(ls, i) == IF i \in DOMAIN ls THEN ls[i].text ELSE ""
Inner(ls, first, last) == SubSeq(ls, first, last)
From(ls, first) == SubSeq(ls, first, Len(ls))
Places(ls, texts) == {i \in DOMAIN ls : ls[i].text \in texts}
LastText(ls) == Text1(ls, Len(ls))

Types == {"void", "int", "string"}
Reserved == Types \cup {"fn", "if", "else", "while", "return"}
IsIdentifier(ls, i) == i \in DOMAIN ls /\ IsWord(ls[i].chars) /\ ls[i].text \notin Reserved
\* <type> <identifier>
IsTyped(ls, i) == Text1(ls, i) \in Types /\ IsIdentifier(ls, i + 1)

Rules ==
    <<("==" :> "eq") @@ ("!=" :> "ne"),
      ("<" :> "lt") @@ ("<=" :> "le") @@ (">" :> "gt") @@ (">=" :> "ge"),
      ("+" :> "plus") @@ ("-" :> "minus"),
      ("*" :> "times") @@ ("/" :> "div") @@ ("%" :> "mod")>>
Equality == 1
Unary == 5

RECURSIVE Phrases(_, _), Arguments(_)

Primaries(ls) ==
    CASE Len(ls) = 1 /\ IsNumber(ls[1].chars) -> {NumLiteral(NumberOf(ls[1].chars))}
      [] Len(ls) = 1 /\ IsString(ls[1].chars) ->
            {StrLiteral([k \in 1 .. (Len(ls[1].chars) - 2) |-> ord[ls[1].chars[k + 1]]])}
      [] Len(ls) = 1 /\ IsIdentifier(ls, 1) -> {Identifier(ls[1].text)}
      [] Len(ls) >= 3 /\ IsIdentifier(ls, 1) /\ ls[2].text = "(" /\ LastText(ls) = ")" ->
            {CallExpr(ls[1].text, args) :
                args \in IF Len(ls) = 3 THEN {<<>>} ELSE Arguments(Inner(ls, 3, Len(ls) - 1))}
      [] Len(ls) >= 3 /\ ls[1].text = "(" /\ LastText(ls) = ")" ->
            Phrases(Inner(ls, 2, Len(ls) - 1), Equality)
      [] OTHER -> {}

\* <equality>, <comparison>, <term>, <factor> (k from 1 to 4) and <unary>.
Phrases(ls, k) ==
    IF k = Unary
      THEN Primaries(ls) \cup
               IF Text1(ls, 1) = "-" THEN {UnaryOp("minus", e) : e \in Primaries(Tail(ls))} ELSE {}
      ELSE Phrases(ls, k + 1) \cup
               UNION {{BinOp(Rules[k][ls[i].text], left, right) :
                          left \in Phrases(Inner(ls, 1, i - 1), k),
                          right \in Phrases(From(ls, i + 1), k + 1)} :
                      i \in Places(ls, DOMAIN Rules[k])}
Expressions(ls) == Phrases(ls, Equality)

Arguments(ls) ==
    {<<e>> : e \in Expressions(ls)} \cup
        UNION {{<<e>> \o rest : e \in Expressions(Inner(ls, 1, i - 1)),
                                rest \in Arguments(From(ls, i + 1))} : i \in Places(ls, {","})}

RECURSIVE Statements(_), Blocks(_), Declarations(_), ProgramTrees(_)

Blocks(ls) ==
    IF Len(ls) >= 2 /\ ls[1].text = "{" /\ LastText(ls) = "}"
      THEN {Block(statements) : statements \in Statements(Inner(ls, 2, Len(ls) - 1))} ELSE {}

\* The blocks of an if: one, or two around "else".
Branches(ls) ==
    {<<then, None>> : then \in Blocks(ls)} \cup
        UNION {Blocks(Inner(ls, 1, i - 1)) \X Blocks(From(ls, i + 1)) : i \in Places(ls, {"else"})}

\* What begins with "(" <expression> ")", as pairs of its tree and the rest.
Conditions(ls) ==
    UNION {{<<cond, From(ls, i + 1)>> : cond \in Expressions(Inner(ls, 2, i - 1))} :
           i \in IF Text1(ls, 1) = "(" THEN Places(ls, {")"}) ELSE {}}

\* A statement that ends in ";", without it.
Simple(ls) ==
    CASE IsTyped(ls, 1) /\ Len(ls) = 2 -> {VarDecl(ls[2].text, None)}
      [] IsTyped(ls, 1) /\ Text1(ls, 3) = "=" ->
            {VarDecl(ls[2].text, init) : init \in Expressions(From(ls, 4))}
      [] Text1(ls, 1) = "return" ->
            {Return(value) : value \in IF Len(ls) = 1 THEN {None} ELSE Expressions(Tail(ls))}
      [] IsIdentifier(ls, 1) /\ Text1(ls, 2) = "=" ->
            {Assign(ls[1].text, value) : value \in Expressions(From(ls, 3))}
      [] OTHER -> {ExprStmt(expr) : expr \in Expressions(ls)}

StatementTrees(ls) ==
    CASE Text1(ls, 1) = "if" ->
            UNION {{IfElse(c[1], b[1], b[2]) : b \in Branches(c[2])} : c \in Conditions(Tail(ls))}
      [] Text1(ls, 1) = "while" ->
            UNION {{While(c[1], body) : body \in Blocks(c[2])} : c \in Conditions(Tail(ls))}
      [] LastText(ls) = ";" -> Simple(Front(ls))
      [] OTHER -> Blocks(ls)

Statements(ls) ==
    IF ls = <<>> THEN {<<>>}
    ELSE UNION {{<<s>> \o rest : s \in StatementTrees(Inner(ls, 1, i)),
                                 rest \in Statements(From(ls, i + 1))} :
                i \in Places(ls, {";", "}"})}

\* Parameters, as the sequence of their names.
Declarations(ls) ==
    IF ~IsTyped(ls, 1) THEN {}
    ELSE IF Len(ls) = 2 THEN {<<ls[2].text>>}
    ELSE IF ls[3].text # "," THEN {}
    ELSE {<<ls[2].text>> \o rest : rest \in Declarations(From(ls, 4))}

FunctionTrees(ls) ==
    IF ~(/\ Text1(ls, 1) = "fn" /\ IsTyped(ls, 2) /\ Text1(ls, 4) = "(")
      THEN {}
    ELSE UNION {{Function(ls[3].text, params, body) :
                    params \in IF i = 5 THEN {<<>>} ELSE Declarations(Inner(ls, 5, i - 1)),
                    body \in Blocks(From(ls, i + 1))} : i \in Places(ls, {")"}) \ (1 .. 4)}

ProgramTrees(ls) ==
    IF ls = <<>> THEN {<<>>}
    ELSE UNION {{<<f>> \o rest : f \in FunctionTrees(Inner(ls, 1, i)),
                                 rest \in ProgramTrees(From(ls, i + 1))} : i \in Places(ls, {"}"})}
=============================================================================
