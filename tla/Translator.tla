------------------------------ MODULE Translator ------------------------------
(***************************************************************************)
(* "lab4 translate" under a programmer's hands: the source is edited,      *)
(* piece by piece, and translated, by the lexer, the parser and the code   *)
(* generator in turn (src/lab4/cli.py:63-73).  Any of them may refuse.     *)
(***************************************************************************)
EXTENDS Parser, Grammar, Compiler

CONSTANTS
    Sources,        \* the texts that editing starts from ...
    FinalSources,   \* ... and others that are translated as they are
    Pieces,         \* what an edit puts in
    MaxEdits,       \* bound on the edits of one text
    Translation(_)  \* TranslationOf, which TLC then takes for a value, not for
                    \* a part of the action whose every expression it counts

VARIABLES
    source,     \* the text
    edits,      \* how often it was edited
    outcome     \* of its translation

translatorVars == <<source, edits, outcome>>

NotTranslated == [translated |-> FALSE]

TranslatorInit ==
    /\ \/ source \in Sources /\ edits = 0
       \/ source \in FinalSources /\ edits = MaxEdits
    /\ outcome = NotTranslated

Edit(text) ==
    /\ edits < MaxEdits
    /\ source' = text
    /\ edits' = edits + 1
    /\ outcome' = NotTranslated

Before(k) == SubSeq(source, 1, k)
After(k) == SubSeq(source, k + 1, Len(source))

InsertPiece == \E k \in 0 .. Len(source), piece \in Pieces : Edit(Before(k) \o piece \o After(k))
ReplaceChar == \E k \in DOMAIN source, piece \in Pieces : Edit(Before(k - 1) \o piece \o After(k))
DeleteChar == \E k \in DOMAIN source : Edit(Before(k - 1) \o After(k))

\* Parser(Lexer(source)), parse() and compile(): each runs if the one before
\* it has not raised.
TranslationOf(text) ==
    LET read == NewParser(text)
        parsed == Parse(read)
    IN [translated |-> TRUE,
        read |-> ~read.failed,
        tokens |-> read.tokens,
        parsed |-> ~parsed.failed,
        program |-> IF parsed.failed THEN <<>> ELSE parsed.node,
        compiled |-> ~parsed.failed /\ Compile(parsed.node).ok]

Translate ==
    /\ ~outcome.translated
    /\ outcome' = Translation(source)
    /\ UNCHANGED <<source, edits>>

TranslatorNext == InsertPiece \/ ReplaceChar \/ DeleteChar \/ Translate

TranslatorSpec == TranslatorInit /\ [][TranslatorNext]_translatorVars

-----------------------------------------------------------------------------
(* The lexer.                                                              *)

Spelling(token) ==
    CASE token.type = "STRING_LITERAL" -> "\"" \o Joined(token.value) \o "\""
      [] token.type \in ToSet(KEYWORDS) \cup {"IDENTIFIER"} -> token.value
      [] OTHER -> Joined(token.value)

\* The lexer reads a text if pieces of the language cover it, and then its
\* tokens are those pieces, the longest from each place on, in order and none
\* twice, blanks and comments left out; each has the line and the column at
\* which it begins, which error messages point to, and EOF those of the end
\* (lexer.py:79-247).
TokensAreThePieces ==
    outcome.translated =>
        /\ outcome.read <=> IsDivided(source)
        /\ outcome.read =>
            LET lexemes == Lexemes(source)
                tokens == Front(outcome.tokens)
                end == Last(outcome.tokens)
            IN /\ Len(tokens) = Len(lexemes)
               /\ \A k \in DOMAIN tokens :
                     /\ Spelling(tokens[k]) = lexemes[k].text
                     /\ <<tokens[k].line, tokens[k].column>> = <<lexemes[k].line, lexemes[k].column>>
               /\ <<end.line, end.column>> =
                     <<LineOf(source, Len(source)), ColumnOf(source, Len(source))>>

-----------------------------------------------------------------------------
(* The parser.                                                             *)

\* Where the parser departs from the grammar: minus signs after a minus sign
\* that begins an operand (README.md:187 allows one), and void as the type of a
\* variable or a parameter (README.md:162,164,175 allow it).
EndsOperand(ls, i) ==
    i \in DOMAIN ls /\ (IsNumber(ls[i].chars) \/ IsString(ls[i].chars) \/ IsIdentifier(ls, i)
                            \/ ls[i].text = ")")
FurtherMinuses(ls) ==
    {ls[i] : i \in {k \in Places(ls, {"-"}) : Text1(ls, k - 1) = "-" /\ ~EndsOperand(ls, k - 2)}}
DeclaresVoid(ls) == \E i \in Places(ls, {"void"}) : Text1(ls, i - 1) # "fn"

\* The parser accepts the texts of the grammar and no others, and the tree it
\* makes is the only one that the grammar derives: operators bind by their
\* level and to the left, else belongs to the if before it, an assignment is
\* told from an expression, and no token is left out (README.md:160-194,
\* parser.py:103-291).  It departs from README.md in two ways and no more: it
\* takes any number of minus signs where the grammar has one (parser.py:259),
\* and void variables and parameters, which the grammar has, it refuses
\* (parser.py:125,141).
ParsesByTheGrammar ==
    outcome.translated =>
        \A ls \in {Lexemes(source)} : \A further \in {FurtherMinuses(ls)} :
            \A trees \in {IF IsDivided(source)
                             THEN ProgramTrees(SelectSeq(ls, LAMBDA l : l \notin further))
                             ELSE {}} :
                /\ outcome.parsed <=> trees # {} /\ ~DeclaresVoid(ls)
                /\ outcome.parsed /\ further = {} => trees = {outcome.program}

-----------------------------------------------------------------------------
(* The code generator.                                                     *)

Library == {"print_string", "print_int"}
Builtins ==
    {"read_io", "write_io", "allocate_buffer", "enable_interrupts", "disable_interrupts"}

\* The places of a name in a text: of a function's declaration, of a
\* variable's or parameter's, of a call, and of a use of a variable.
NamesFunction(ls, i) == IsIdentifier(ls, i) /\ Text1(ls, i - 2) = "fn"
NamesVariable(ls, i) ==
    IsIdentifier(ls, i) /\ Text1(ls, i - 1) \in Types /\ ~NamesFunction(ls, i)
Calls(ls, i) == IsIdentifier(ls, i) /\ Text1(ls, i - 1) \notin Types /\ Text1(ls, i + 1) = "("
Uses(ls, i) == IsIdentifier(ls, i) /\ Text1(ls, i - 1) \notin Types /\ Text1(ls, i + 1) # "("

\* The function around a place.
FunctionAt(ls, i) == Max({k \in 1 .. i : ls[k].text = "fn"})

FunctionsOf(ls) == {ls[i].text : i \in {j \in DOMAIN ls : NamesFunction(ls, j)}}

\* There is a main, and no two functions have a name, the library's included.
NamesAreDistinct(ls) ==
    /\ "main" \in FunctionsOf(ls)
    /\ FunctionsOf(ls) \cap Library = {}
    /\ \A i, j \in DOMAIN ls :
          NamesFunction(ls, i) /\ NamesFunction(ls, j) /\ ls[i].text = ls[j].text => i = j

\* A variable is declared further up in its function.
VariablesAreDeclared(ls) ==
    \A i \in DOMAIN ls :
        Uses(ls, i) => \E j \in FunctionAt(ls, i) .. i :
                            NamesVariable(ls, j) /\ ls[j].text = ls[i].text

CallTrees(ls, i) == UNION {Primaries(SubSeq(ls, i, j)) : j \in (i + 1) .. Len(ls)}
\* The least number of arguments of a built-in function.
Needs(name) == CASE name = "write_io" -> 2 [] name \in {"read_io", "allocate_buffer"} -> 1 [] OTHER -> 0

\* A called function exists; a built-in one has its arguments.
CallsFit(ls) ==
    \A i \in DOMAIN ls :
        Calls(ls, i) =>
            /\ ls[i].text \in FunctionsOf(ls) \cup Library \cup Builtins
            /\ \A call \in CallTrees(ls, i) :
                  /\ Len(call.args) >= Needs(call.name)
                  /\ call.name = "allocate_buffer" => call.args[1].tag = "NumLiteral"

\* A text of the grammar compiles exactly if its names mean something: one
\* main, functions with names of their own, variables declared above their
\* use, in whatever block, and calls of what there is (compiler.py:55-84,
\* :124, :160-330, assembly.py:33-87).  Numbers of arguments and types are not
\* looked at.  No name in the texts is one that the compiler generates.
CompilesMeaningfulNames ==
    outcome.translated /\ outcome.parsed =>
        LET ls == Lexemes(source)
        IN outcome.compiled <=> NamesAreDistinct(ls) /\ VariablesAreDeclared(ls) /\ CallsFit(ls)
=============================================================================
