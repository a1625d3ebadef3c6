-------------------------------- MODULE MCEcho --------------------------------
(* Echo programs under input schedules of every phase in FirstTicks and every *)
(* combination of the distances in Gaps.                                      *)
EXTENDS MachineInput, Programs

CONSTANTS Text, FirstTicks, Gaps

ScheduleOf(first, gaps) ==
    LET at[k \in DOMAIN Text] == IF k = 1 THEN first ELSE at[k - 1] + gaps[k - 1]
    IN [k \in DOMAIN Text |-> [tick |-> at[k], char |-> Text[k]]]
\* Some of one phase and one distance are also given with their events in reverse.
MCSchedules ==
    LET n == Len(Text) - 1
        first == CHOOSE f \in FirstTicks : TRUE
    IN {ScheduleOf(f, gaps) : f \in FirstTicks, gaps \in [1 .. n -> Gaps]}
           \cup {Reverse(ScheduleOf(first, [k \in 1 .. n |-> g])) : g \in Gaps}

\* "Hi!" and, with an equal pair, "Hello".
HiText == <<72, 105, 33>>
HelloText == <<72, 101, 108, 108, 111>>

PollingImages == AlgImages({PollingCat})
SavingImages == ListingImages({SavingCat})
CatImages == AlgImages({Cat})

\* Phases of a turn of the polling loop; the gaps move each character to others.
LoopPhases == 100 .. 170
SomePhases == {first \in LoopPhases : first % 11 = 0}
FirstChar10 == {10}
GoldenPhases == 100 .. 149

\* Shorter than a turn of the loop, or than the handler: characters get lost.
TightGaps == {0, 1, 19, 45}
EarlyPhases == 30 .. 75
\* An echo program whose main only jumps to itself.
JumpingCat == <<I("EI", <<>>), Lbl("loop"), I("JMP", <<Ref("loop")>>)>> \o SavingHandler
EchoImages == PollingImages \cup ListingImages({SavingCat, JumpingCat})
BothImages == PollingImages \cup SavingImages

Gaps120 == {120, 121, 127}
Gap10 == {10}
Gap150 == {150}
=============================================================================
