------------------------------- MODULE Toolchain -------------------------------
(***************************************************************************)
(* The three commands of "lab4" (src/lab4/cli.py) on one binary file.      *)
(* They are processes of their own: one may be started while another is    *)
(* still writing or running, and a translation may be killed.  What        *)
(* compile() makes of each source is given.                                *)
(***************************************************************************)
EXTENDS Machine, Assembly, Disasm

CONSTANTS
    Translated,         \* a function from sources to what compile() makes of them
    Instructions,       \* for each source that compiles, the instructions of its code
    Texts,              \* input files: sequences of characters
    Promised,           \* for each source that runs to its end, what it prints for each text
    MaxTranslations     \* bound on the translations

VARIABLES
    file,           \* the bytes of the binary file
    pending,        \* the bytes that translate has still to write
    translating,    \* the source it translates, or translated last
    translations,   \* how many there were
    run,            \* the source and the text of the run under way, or NoRun
    console         \* what the command that ends with this step prints or saves

toolVars == <<image, cpu, file, pending, translating, translations, run, console>>

NoSource == "none"

\* compile() encodes instructions and makes an image that a file can hold, or
\* raises.
ASSUME ToolAssumption ==
    /\ NoSource \notin DOMAIN Translated
    /\ \A s \in DOMAIN Translated : Translated[s].ok =>
          /\ Translated[s] \in ProgramImage
          /\ Instructions[s] \in Seq(EncodableInstruction)
          /\ Translated[s].code = encode_program(Instructions[s])

NoRun == [source |-> NoSource, text |-> <<>>]
Says(kind, content) == [kind |-> kind, content |-> content]
Silence == Says("nothing", <<>>)
\* An exception leaves the command: a traceback, and no result.
Traceback == Says("traceback", <<>>)

IsTranslated(source) == source # NoSource /\ Translated[source].ok
BytesOf == [s \in {t \in DOMAIN Translated : Translated[t].ok} |-> to_bytes(Translated[s])]
IsComplete == IsTranslated(translating) /\ file = BytesOf[translating]

\* Variant: ten characters come at a time.
load_input_schedule_by_tens(text) ==
    [i \in DOMAIN text |-> [tick |-> 10 + ((i - 1) \div 10) * 10, char |-> text[i]]]
\* A character each ten ticks.
load_input_schedule(text) == [i \in DOMAIN text |-> [tick |-> 10 + (i - 1) * 10, char |-> text[i]]]

ToolInit ==
    /\ image = NoRun /\ cpu = NoRun
    /\ file = <<>> /\ pending = <<>>
    /\ translating = NoSource /\ translations = 0
    /\ run = NoRun
    /\ console = Silence

-----------------------------------------------------------------------------
(* translate.                                                              *)

\* Variant: the file is opened without being truncated.
OpenedUntruncated == file
\* write_bytes opens the file, which makes it empty.
Opened == <<>>

\* A source that is refused leaves the file as it was.
Translate ==
    /\ pending = <<>> /\ translations < MaxTranslations
    /\ translations' = translations + 1
    /\ \E source \in DOMAIN Translated :
          IF Translated[source].ok
            THEN /\ translating' = source
                 /\ pending' = BytesOf[source]
                 /\ file' = Opened
                 /\ console' = Silence
            ELSE /\ console' = Traceback
                 /\ UNCHANGED <<translating, pending, file>>
    /\ UNCHANGED <<image, cpu, run>>

\* The next byte, over what is there.
WriteByte ==
    /\ pending # <<>>
    /\ LET at == Len(BytesOf[translating]) - Len(pending) + 1
       IN file' = SubSeq(file, 1, at - 1) \o <<Head(pending)>> \o SubSeq(file, at + 1, Len(file))
    /\ pending' = Tail(pending)
    /\ console' = IF pending' = <<>> THEN Says("size", Len(BytesOf[translating])) ELSE Silence
    /\ UNCHANGED <<image, cpu, translating, translations, run>>

Kill ==
    /\ pending # <<>>
    /\ pending' = <<>> /\ console' = Silence
    /\ UNCHANGED <<image, cpu, file, translating, translations, run>>

\* Something is appended to the complete file.
AppendByte ==
    /\ IsComplete
    /\ \E byte \in {0, 255} : file' = Append(file, byte)
    /\ console' = Silence
    /\ UNCHANGED <<image, cpu, pending, translating, translations, run>>

-----------------------------------------------------------------------------
(* disasm.                                                                 *)

Disassemble ==
    LET read == from_bytes(file)
        listing == disassemble_image(read)
    IN /\ console' = IF read.ok /\ listing.ok THEN Says("listing", listing) ELSE Traceback
       /\ UNCHANGED <<image, cpu, file, pending, translating, translations, run>>

-----------------------------------------------------------------------------
(* run.                                                                    *)

\* Machine refuses data that its memory has no room for.
Start ==
    LET read == from_bytes(file) IN
    /\ run = NoRun
    /\ IF read.ok /\ Len(read.data) <= DATA_MEMORY_SIZE_WORDS
         THEN \E text \in Texts :
                /\ run' = [source |-> translating, text |-> text]
                /\ image' = Loaded(read)
                /\ cpu' = NewMachine(image', load_input_schedule(text))
                /\ console' = Silence
         ELSE /\ console' = Traceback
              /\ UNCHANGED <<run, image, cpu>>
    /\ UNCHANGED <<file, pending, translating, translations>>

Execute ==
    /\ run # NoRun
    /\ Next
    /\ console' = Silence
    /\ UNCHANGED <<file, pending, translating, translations, run>>

\* The output is saved when run() has returned, not if it has raised.
Finish ==
    /\ run # NoRun /\ ~Running
    /\ console' = IF cpu.raised = "none" THEN Says("output", [of |-> run, chars |-> cpu.output_buffer])
                  ELSE Traceback
    /\ run' = NoRun /\ image' = NoRun /\ cpu' = NoRun
    /\ UNCHANGED <<file, pending, translating, translations>>

ToolNext ==
    Translate \/ WriteByte \/ Kill \/ AppendByte \/ Disassemble \/ Start \/ Execute \/ Finish

ToolSpec == ToolInit /\ [][ToolNext]_toolVars

-----------------------------------------------------------------------------
(* Properties.                                                             *)

\* The file reads as the image of the translation that wrote it if that one
\* has written it to its end, and as nothing otherwise: not while it is being
\* written, not after a translation that was killed, wherever it stopped and
\* whatever was there before, and not with more bytes than its header says
\* (binary.py:24-69, cli.py:73).
ReadsOnlyCompleteFiles ==
    from_bytes(file) = IF IsComplete THEN Translated[translating] ELSE Malformed

\* A listing is printed only of the last translation, and its columns agree
\* with one another and make up its image: its bytes at their addresses, its
\* instructions, its words with and without sign, its vectors
\* (disasm.py:6-39).
ListsAnImage(listing, im) ==
    /\ listing.entry = im.entry_point
    /\ encode_program([k \in DOMAIN listing.code |-> listing.code[k].instruction]) = im.code
    /\ \A line \in Range(listing.code) :
          /\ line.address + Len(line.raw) <= Len(im.code)
          /\ SubSeq(im.code, line.address + 1, line.address + Len(line.raw)) = line.raw
    /\ im.data = [i \in DOMAIN listing.data |-> listing.data[i].word]
    /\ \A line \in Range(listing.data) : im.data[line.index + 1] = to_i32(line.hex)
    /\ im.interrupt_vectors = [i \in DOMAIN listing.vectors |-> listing.vectors[i].address]
    /\ \A line \in Range(listing.vectors) : im.interrupt_vectors[line.index + 1] = line.address
ListsTheTranslated ==
    console.kind = "listing" =>
        IsTranslated(translating) /\ ListsAnImage(console.content, Translated[translating])

\* What run saves is what the program that it read prints for its input text,
\* every character of it and in its order, whatever was translated to the
\* file meanwhile; a program that fails has no output, not even the
\* characters it had printed by then (cli.py:15-24,79-106).
SavesThePromised ==
    console.kind = "output" =>
        LET source == console.content.of.source
        IN source \in DOMAIN Promised /\ console.content.chars = Promised[source][console.content.of.text]
=============================================================================
