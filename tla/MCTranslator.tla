----------------------------- MODULE MCTranslator -----------------------------
(* Texts for Translator.  A text is put together from words.                   *)
EXTENDS Translator

Words ==
    {<<"f", "n">>, <<"i", "n", "t">>, <<"s", "t", "r", "i", "n", "g">>, <<"v", "o", "i", "d">>,
     <<"i", "f">>, <<"e", "l", "s", "e">>, <<"w", "h", "i", "l", "e">>,
     <<"r", "e", "t", "u", "r", "n">>, <<"m", "a", "i", "n">>,
     <<"w", "r", "i", "t", "e", "_", "i", "o">>, <<"r", "e", "a", "d", "_", "i", "o">>,
     <<"p", "r", "i", "n", "t", "_", "i", "n", "t">>,
     <<"a", "l", "l", "o", "c", "a", "t", "e", "_", "b", "u", "f", "f", "e", "r">>}
        \cup {<<c, "=">> : c \in {"=", "!", "<", ">"}}
SpellingOf == [w \in {Joined(s) : s \in Words} |-> CHOOSE s \in Words : Joined(s) = w]
Spell(words) ==
    FlattenSeq([k \in DOMAIN words |->
        IF words[k] \in DOMAIN SpellingOf THEN SpellingOf[words[k]] ELSE <<words[k]>>])

-----------------------------------------------------------------------------
(* Texts to edit.  Between them they have every rule of the grammar.           *)

Declaring(expr) ==
    <<"fn", " ", "int", " ", "main", "(", ")", "{", "int", " ", "a", "=">> \o expr \o <<";", "}">>
Body(words) == <<"fn", " ", "void", " ", "main", "(", ")", "{">> \o words \o <<"}">>

MCSources ==
    {Spell(s) : s \in
        {<<"fn", " ", "int", " ", "f", "(", "int", " ", "a", ",", "string", " ", "b", ")", "{", "}",
           "fn", " ", "int", " ", "main", "(", ")", "{", "f", "(", "1", ",", "2", ")", ";", "}">>,
         Declaring(<<"1", "-", "2", "*", "(", "3", "-", "4", ")">>),
         Body(<<"if", "(", "1", ")", "{", "int", " ", "x", ";", "}", "else", "{", "x", "=", "1", ";", "}">>),
         Body(<<"while", "(", "1", "<", "2", ")", "{", "{", "}", "return", ";", "}">>),
         Body(<<"write_io", "(", "\"", "a", "\"", ",", "2", ")", ";", "/", "*", "*", "/">>)}}
MCPieces ==
    {Spell(s) : s \in {<<"x">>, <<"1">>, <<"(">>, <<")">>, <<"-">>, <<"=">>, <<";">>, <<"}">>,
                       <<"{", "}">>, <<",">>, <<"/">>, <<"*">>, <<"\"">>, <<Newline>>, <<"!">>,
                       <<"else">>, <<"int", " ">>}}

-----------------------------------------------------------------------------
(* Texts that are translated as they are.                                      *)

Operators2 == {<<c>> : c \in {"+", "-", "*", "/", "%", "<", ">"}} \cup {<<c, "=">> : c \in {"=", "!", "<", ">"}}
\* Two operators, with and without parentheses and a minus, and a third.  A
\* binary minus stands before the other one in some of them.
Expressions2 ==
    UNION {{<<"1">> \o op1 \o <<"2">> \o op2 \o <<"3">>,
            <<"1">> \o op1 \o <<"-", "2">> \o op2 \o <<"3">> \o op1 \o <<"4">>,
            <<"-", "(", "1">> \o op1 \o <<"2", ")">> \o op2 \o <<"3">>} :
           op1, op2 \in Operators2}

\* Every short text over characters that comments, strings, numbers, words
\* and operators are made of.
ShortTexts(chars, length) == UNION {[1 .. n -> chars] : n \in 0 .. length}
Snippets ==
    ShortTexts({"/", "*", Newline, "a"}, 5)
        \cup ShortTexts({"\"", "=", "!", "<", "1", "a", " "}, 3)
        \cup ShortTexts({"i", "f", "_", "1", "@", Newline}, 3)

\* Minus signs before an operand, as many as in no grammar, after operators
\* and after another minus; void in the place of each type.
Minuses(n) == [k \in 1 .. n |-> "-"]
Departures ==
    {Declaring(Minuses(n) \o <<"1">>) : n \in 1 .. 3}
        \cup {Declaring(<<"1", op>> \o Minuses(n) \o <<"(">> \o Minuses(m) \o <<"2", ")">>) :
                op \in {"-", "*", "<"}, n \in 1 .. 3, m \in 0 .. 2}
        \cup UNION {{Body(<<type, " ", "x", ";">>), Body(<<type, " ", "x", "=", "-", "-", "1", ";">>),
                    <<"fn", " ", type, " ", "f", "(", type, " ", "x", ")", "{", "}">>} :
                   type \in {"int", "string", "void"}}

MCFinalSources ==
    {Spell(Declaring(e)) : e \in Expressions2} \cup {Spell(d) : d \in Departures} \cup Snippets
        \cup {Spell(s) : s \in
                {<<"fn", " ", "void", " ", "f", "(", "int", " ", "x", ")", "{", "}">>
                    \o Body(<<"x", "=", "1", ";">>),
                 Body(<<"read_io", "(", ")", ";">>),
                 Body(<<"allocate_buffer", "(", "2", ")", ";">>),
                 Body(<<"allocate_buffer", "(", "1", "+", "1", ")", ";">>),
                 Body(<<"}", "fn", " ", "int", " ", "print_int", "(", "int", " ", "n", ")", "{">>)}}
=============================================================================
