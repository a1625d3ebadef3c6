----------------------------- MODULE MachineInput -----------------------------
(***************************************************************************)
(* The processor observed at its input port.  The history variables follow *)
(* which events of the schedule the program has read and which it has      *)
(* missed; they have no effect on the processor.                           *)
(***************************************************************************)
EXTENDS Machine, SequencesExt

VARIABLES
    due,        \* the events of the schedule in the order they are due
    taken,      \* the events read while the port was ready
    lost        \* the events replaced in the port before they were read

inputVars == <<image, cpu, due, taken, lost>>

Arrived == Len(due) - Len(cpu.input_schedule)
Delivered == Len(due) - Len(Polled.input_schedule)

InputInit ==
    /\ Init
    /\ due = cpu.input_schedule
    /\ taken = {}
    /\ lost = {}

InputNext ==
    /\ Next
    /\ taken' = IF Polled.input_status = 1 /\ cpu'.input_status = 0
                  THEN taken \cup {Delivered} ELSE taken
    /\ lost' = IF Delivered > Arrived /\ cpu.input_status = 1
                  THEN lost \cup {Arrived} ELSE lost
    /\ UNCHANGED due

InputSpec == InputInit /\ [][InputNext]_inputVars /\ WF_inputVars(InputNext)

-----------------------------------------------------------------------------
(* What the program has read, and what it was sent.                        *)

CharsOf(events) == [k \in DOMAIN events |-> events[k].char]

Sent == CharsOf(due)
Received == LET kept == SelectSeq([k \in DOMAIN due |-> k], LAMBDA k : k \in taken)
            IN [j \in DOMAIN kept |-> due[kept[j]].char]

\* The processor's port is a one-place port (README.md:255, IO_INPUT_DATA and
\* IO_INPUT_STATUS): every step is a stutter, an arrival, a read, or both.
Port == INSTANCE InputPort WITH pending <- Len(cpu.input_schedule),
                                arrived <- Arrived, ready <- cpu.input_status = 1
ImplementsInputPort == Port!PortSpec

\* No character is read twice, none is both read and lost, and none goes
\* missing unnoticed (machine.py:85-90,492-497).
EveryEventHasOneFate == Port!OneFateEach

\* No event comes before its tick, and none that is due waits behind one that
\* is not, whatever the order of the events in the schedule: the next step
\* takes the first of those that wait (machine.py:72-74,494-495).
EventsComeInTime ==
    \A k \in DOMAIN due :
        /\ k <= Arrived => due[k].tick <= cpu.tick_counter
        /\ k > Arrived /\ due[k].tick <= cpu.tick_counter => InputIsDue(cpu)

\* The data register holds the character of the last event that arrived,
\* whatever the program has read or written in the meantime.
PortHoldsLastEvent == Arrived > 0 => cpu.input_data = due[Arrived].char

\* An echo program prints each character it has read once and in the order
\* they were due; the one it is about to print may be missing.
EchoesWhatItReads ==
    /\ IsPrefix(cpu.output_buffer, Received)
    /\ Len(cpu.output_buffer) >= Len(Received) - 1

\* An echo program prints the input from its beginning and without gaps.
EchoesInput == IsPrefix(cpu.output_buffer, Sent)

\* The whole input is echoed in the end.
EchoesEverything == <>(cpu.output_buffer = Sent)
=============================================================================
