----------------------------- MODULE MCToolchain -----------------------------
(* Sources whose programs echo their input from a trap, print and halt, print *)
(* and then divide by zero, and have more data than the memory holds, and one *)
(* that does not compile.  Two of the files have the same length.             *)
EXTENDS Toolchain

ToOutput(op) == I("MOVE", <<op, abs(IO_OUTPUT_DATA)>>)
Linked(listing, data, vectors) == Build(Assemble(listing), 0, data, vectors)

CatListing == <<I("EI", <<>>), Lbl("loop"), I("JMP", <<Ref("loop")>>),
                Lbl("on_input"), ToOutput(abs(IO_INPUT_DATA)), I("IRET", <<>>)>>
BangListing == <<ToOutput(imm(33)), I("HALT", <<>>)>>
SumListing == <<ToOutput(abs(4)), I("HALT", <<>>)>>
CrashListing == <<ToOutput(imm(33)), I("DIV", <<imm(0), dreg(0)>>)>>
BigListing == <<I("MOVE", <<imm(-1), ind_areg_disp(6, -4)>>)>>

Cat == Linked(CatListing, <<>>, <<Ref("on_input")>>)
Bang == Linked(BangListing, <<-1, 2047>>, <<>>)
Sum == Linked(SumListing, <<-2048, -1>>, <<>>)
Crash == Linked(CrashListing, <<>>, <<>>)
Big == Linked(BigListing, [i \in 1 .. (DATA_MEMORY_SIZE_WORDS + 1) |-> i], <<imm(4095)>>)

MCTranslated ==
    [cat |-> Cat, bang |-> Bang, sum |-> Sum, crash |-> Crash, big |-> Big, broken |-> Malformed]

Resolved(listing) == LET b == Assemble(listing) IN Patched(b, LabelOffsets(b.elements, 0))
MCInstructions ==
    [cat |-> Resolved(CatListing), bang |-> Resolved(BangListing), sum |-> Resolved(SumListing),
     crash |-> Resolved(CrashListing), big |-> Resolved(BigListing)]
MCTexts == {<<>>, <<66>>, <<65, 66>>}
MCPromised ==
    [cat |-> [text \in MCTexts |-> text],
     bang |-> [text \in MCTexts |-> <<33>>],
     sum |-> [text \in MCTexts |-> <<255>>]]

MCImages == {Loaded(MCTranslated[s]) : s \in DOMAIN MCPromised}
MCSchedules == {load_input_schedule(text) : text \in MCTexts}
=============================================================================
