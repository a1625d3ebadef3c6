------------------------------ MODULE MCGadgets ------------------------------
(* Every pair of instructions from a pool that has one of each kind, failing  *)
(* ones included, with interrupts disabled, enabled, and enabled with one     *)
(* word of stack left; then HALT and an interrupt handler.  The machine has a *)
(* data memory of four words and gets its input at early ticks.               *)
EXTENDS Machine, Programs

CONSTANTS Setups, Pool, Handlers

AnyPool ==
    {I("NOP", <<>>), I("DI", <<>>), I("IRET", <<>>), I("RET", <<>>),
     I("CALL", <<Ref(OnInput)>>),
     I("CALL", <<ind_areg_disp(7, 64)>>),          \* fails before the push
     I("JMP", <<dreg(0)>>),                        \* to the start
     I("JE", <<imm(3)>>),                          \* into an instruction
     I("PUSH", <<imm(-128)>>),
     I("POP", <<abs(IO_OUTPUT_DATA)>>),
     I("POP", <<imm(1)>>),                         \* fails after the pop
     I("MOVE", <<abs(IO_INPUT_DATA), D0>>),
     I("MOVE", <<D0>>),                            \* an operand is missing
     I("DIV", <<ind_areg(7), abs(IO_OUTPUT_DATA)>>),
     I("NEG", <<ind_areg(7)>>),
     I("NOT", <<abs(IO_INPUT_DATA)>>)}

Enabled == <<I("EI", <<>>)>>
AlmostFull == <<I("EI", <<>>), I("LEA", <<ind_areg_disp(7, -12), SP>>)>>
AllSetups == {<<>>, Enabled, AlmostFull}

Ignoring == <<I("IRET", <<>>)>>
Echoing ==
    <<I("MOVE", <<abs(IO_INPUT_DATA), D1>>), I("MOVE", <<D1, abs(IO_OUTPUT_DATA)>>),
      I("IRET", <<>>)>>
BothHandlers == {Ignoring, Echoing}

MCImages ==
    ListingImages({setup \o pair \o <<I("HALT", <<>>), Lbl(OnInput)>> \o handler :
                       setup \in Setups, pair \in Pool \X Pool, handler \in Handlers})
MCSchedules == {<<[tick |-> t, char |-> 65]>> : t \in {0, 2, 4, Limit - 1}}
                   \cup {<<[tick |-> 3, char |-> 65], [tick |-> 3, char |-> 66]>>}
=============================================================================
