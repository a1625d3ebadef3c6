-------------------------------- MODULE Lexer --------------------------------
(***************************************************************************)
(* The lexical analyser: class Lexer of src/lab4/lexer.py.                 *)
(*                                                                         *)
(* The lexer is a record lx of the attributes of the Python object, with   *)
(* failed for a ValueError; positions count from 0.  The value of a token  *)
(* is its sequence of characters; that of an identifier is a string, for   *)
(* the compiler to compare.                                                *)
(***************************************************************************)
EXTENDS Text

KEYWORDS ==
    [fn |-> "FN", int |-> "INT", string |-> "STRING_KEYWORD", void |-> "VOID", if |-> "IF",
     else |-> "ELSE", while |-> "WHILE", return |-> "RETURN"]

\* The characters that make a token, by themselves and before "=".
SingleChars ==
    ("+" :> "PLUS") @@ ("-" :> "MINUS") @@ ("*" :> "MUL") @@ ("/" :> "DIV") @@ ("%" :> "MOD")
        @@ (";" :> "SEMICOLON") @@ ("," :> "COMMA") @@ ("(" :> "LPAREN") @@ (")" :> "RPAREN")
        @@ ("{" :> "LBRACE") @@ ("}" :> "RBRACE")
        @@ ("=" :> "ASSIGN") @@ ("<" :> "LT") @@ (">" :> "GT")
BeforeEquals == ("=" :> "EQ") @@ ("!" :> "NE") @@ ("<" :> "LE") @@ (">" :> "GE")

Token(type, value, line, column) ==
    [type |-> type, value |-> value, line |-> line, column |-> column]

NewLexer(source) ==
    [source |-> source, position |-> 0, line |-> 1, column |-> 1, failed |-> FALSE]

EndOfText(lx) == lx.position >= Len(lx.source)
Current(lx) == lx.source[lx.position + 1]
PeekChar(lx) == IF lx.position + 1 >= Len(lx.source) THEN "" ELSE lx.source[lx.position + 2]

\* Variant: the column is not reset at the end of a line.
KeepColumn(lx, steps) ==
    LET passed == SubSeq(lx.source, lx.position + 1, lx.position + steps)
        newlines == {k \in DOMAIN passed : passed[k] = Newline}
    IN [lx EXCEPT !.position = @ + Len(passed),
                  !.line = @ + Cardinality(newlines),
                  !.column = @ + Len(passed)]
\* _advance, never beyond the end.
AdvanceLexer(lx, steps) ==
    LET passed == SubSeq(lx.source, lx.position + 1, Min({lx.position + steps, Len(lx.source)}))
        newlines == {k \in DOMAIN passed : passed[k] = Newline}
    IN [lx EXCEPT !.position = @ + Len(passed),
                  !.line = @ + Cardinality(newlines),
                  !.column = IF newlines = {} THEN @ + Len(passed)
                             ELSE Len(passed) - Max(newlines) + 1]

\* The lexer after the characters from here on that are in a set.
AdvanceWhile(lx, chars) ==
    LET stops == {k \in lx.position .. (Len(lx.source) - 1) : lx.source[k + 1] \notin chars}
    IN AdvanceLexer(lx, (IF stops = {} THEN Len(lx.source) ELSE Min(stops)) - lx.position)
AdvanceUntil(lx, chars) ==
    AdvanceWhile(lx, ToSet(lx.source) \ chars)

-----------------------------------------------------------------------------
(* Blanks and comments.                                                    *)

\* Behind the next "*/", wherever the text ends otherwise.
AdvanceBehindClosing(lx) ==
    LET closings == {k \in (lx.position + 1) .. (Len(lx.source) - 1) :
                        lx.source[k] = "*" /\ lx.source[k + 1] = "/"}
    IN IF closings = {} THEN [lx EXCEPT !.failed = TRUE]
       ELSE AdvanceLexer(lx, Min(closings) + 1 - lx.position)

RECURSIVE SkipWhitespaceAndComments(_)
\* Variant: the "/*" may share its star with the "*/".
SkipSharedStar(lx) ==
    CASE lx.failed \/ EndOfText(lx) -> lx
      [] Current(lx) \in Spaces -> SkipWhitespaceAndComments(AdvanceLexer(lx, 1))
      [] Current(lx) = "/" /\ PeekChar(lx) = "/" ->
            SkipWhitespaceAndComments(AdvanceUntil(AdvanceLexer(lx, 2), {Newline}))
      [] Current(lx) = "/" /\ PeekChar(lx) = "*" ->
            SkipWhitespaceAndComments(AdvanceBehindClosing(AdvanceLexer(lx, 1)))
      [] OTHER -> lx
SkipWhitespaceAndComments(lx) ==
    CASE lx.failed \/ EndOfText(lx) -> lx
      [] Current(lx) \in Spaces -> SkipWhitespaceAndComments(AdvanceLexer(lx, 1))
      [] Current(lx) = "/" /\ PeekChar(lx) = "/" ->
            SkipWhitespaceAndComments(AdvanceUntil(AdvanceLexer(lx, 2), {Newline}))
      [] Current(lx) = "/" /\ PeekChar(lx) = "*" ->
            SkipWhitespaceAndComments(AdvanceBehindClosing(AdvanceLexer(lx, 2)))
      [] OTHER -> lx

-----------------------------------------------------------------------------
(* Tokens.  A method returns the lexer after the token, and the token.      *)

Produce(start, after, type, value) ==
    [lexer |-> after, token |-> Token(type, value, after.line, start.column)]
Refuse(lx) == [lexer |-> [lx EXCEPT !.failed = TRUE], token |-> <<>>]

Between(start, after) == SubSeq(start.source, start.position + 1, after.position)

\* The quotes are not part of the value, and no newline is.
ReadStringLiteral(lx) ==
    LET body == AdvanceLexer(lx, 1)
        after == AdvanceUntil(body, {"\"", Newline})
    IN IF EndOfText(after) \/ Current(after) = Newline THEN Refuse(after)
       ELSE Produce(lx, AdvanceLexer(after, 1), "STRING_LITERAL", Between(body, after))

ReadNumber(lx) ==
    LET after == AdvanceWhile(lx, Decimals) IN Produce(lx, after, "NUMBER", Between(lx, after))

ReadIdentifierOrKeyword(lx) ==
    LET after == AdvanceWhile(lx, Letters \cup Decimals \cup {"_"})
        word == Joined(Between(lx, after))
    IN Produce(lx, after, IF word \in DOMAIN KEYWORDS THEN KEYWORDS[word] ELSE "IDENTIFIER", word)

ReadOperator(lx) ==
    LET c == Current(lx)
        two == AdvanceLexer(lx, 2)
        one == AdvanceLexer(lx, 1)
    IN CASE c \in DOMAIN BeforeEquals /\ PeekChar(lx) = "=" ->
                Produce(lx, two, BeforeEquals[c], <<c, "=">>)
         [] c \in DOMAIN SingleChars /\ ~(c \in DOMAIN BeforeEquals /\ PeekChar(lx) = "=") ->
                Produce(lx, one, SingleChars[c], <<c>>)
         [] OTHER -> Refuse(lx)

next_token(lexer) ==
    LET lx == SkipWhitespaceAndComments(lexer)
    IN CASE lx.failed -> Refuse(lx)
         [] EndOfText(lx) -> Produce(lx, lx, "EOF", <<>>)
         [] ~EndOfText(lx) /\ Current(lx) = "\"" -> ReadStringLiteral(lx)
         [] ~EndOfText(lx) /\ Current(lx) \in Decimals -> ReadNumber(lx)
         [] ~EndOfText(lx) /\ Current(lx) \in Letters \cup {"_"} -> ReadIdentifierOrKeyword(lx)
         [] OTHER -> ReadOperator(lx)
=============================================================================
