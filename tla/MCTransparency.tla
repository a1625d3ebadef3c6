---------------------------- MODULE MCTransparency ----------------------------
(* One program, interrupted once or twice at any tick. *)
EXTENDS TrapTransparency, Programs

CONSTANT LastTick

SavingImages == {WithSavingHandler(Sum)}
CompiledImages == AlgImages({InterruptedSum})

Event(t) == [tick |-> t, char |-> 65]
\* One event at any tick, or two with the second during or soon after the
\* handler of the first.
MCSchedules ==
    {<<Event(t)>> : t \in 0 .. LastTick}
        \cup {<<Event(t), Event(t + d)>> : t \in 0 .. LastTick, d \in {0, 1, 13, 30}}
=============================================================================
