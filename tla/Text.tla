--------------------------------- MODULE Text ---------------------------------
(***************************************************************************)
(* Source text: sequences of characters, a character being a string of     *)
(* length one.  The characters are the printable ones of ASCII, the        *)
(* newline and the tab, of all those that a str can have; the backquote,   *)
(* which cannot be written here, goes by the name of grave.                *)
(***************************************************************************)
EXTENDS Integers, Sequences, SequencesExt

Printable ==
    << " ", "!", "\"", "#", "$", "%", "&", "'", "(", ")", "*", "+", ",", "-", ".", "/",
       "0", "1", "2", "3", "4", "5", "6", "7", "8", "9", ":", ";", "<", "=", ">", "?",
       "@", "A", "B", "C", "D", "E", "F", "G", "H", "I", "J", "K", "L", "M", "N", "O",
       "P", "Q", "R", "S", "T", "U", "V", "W", "X", "Y", "Z", "[", "\\", "]", "^", "_",
       "grave", "a", "b", "c", "d", "e", "f", "g", "h", "i", "j", "k", "l", "m", "n", "o",
       "p", "q", "r", "s", "t", "u", "v", "w", "x", "y", "z", "{", "|", "}", "~" >>
Newline == "\n"

\* The characters with codes from first to last, and the code of a character.
CodesFrom(first, last) == {Printable[code - 31] : code \in first .. last}
ord == [c \in ToSet(Printable) |-> 31 + CHOOSE k \in DOMAIN Printable : Printable[k] = c]

Decimals == CodesFrom(48, 57)                           \* str.isdigit
Letters == CodesFrom(65, 90) \cup CodesFrom(97, 122)    \* str.isalpha
Spaces == {" ", "\t", Newline}                          \* str.isspace

\* A string, of its characters.
Joined(chars) == FoldLeft(LAMBDA word, c : word \o c, "", chars)

\* int(), of decimal digits.
NumberOf(digits) == FoldLeft(LAMBDA n, c : 10 * n + (ord[c] - 48), 0, digits)
=============================================================================
