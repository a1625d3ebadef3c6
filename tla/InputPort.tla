------------------------------- MODULE InputPort -------------------------------
(***************************************************************************)
(* What the input device of the processor promises, without the processor: *)
(* events arrive one by one into a port that holds a single character; a   *)
(* character is taken at most once, and one that is still there when the   *)
(* next arrives is lost.  Events are known by their place in the schedule. *)
(***************************************************************************)
EXTENDS Integers

VARIABLES
    pending,                \* number of events still to come
    arrived,                \* events delivered to the port so far
    ready,                  \* the last of them is still in the port
    taken,                  \* events the program has read
    lost                    \* events overwritten before they were read

portVars == <<pending, arrived, ready, taken, lost>>

PortInit ==
    /\ pending \in Nat
    /\ arrived = 0
    /\ ready = FALSE
    /\ taken = {}
    /\ lost = {}

\* The event in the port, if any.
Held == IF ready THEN {arrived} ELSE {}

Arrive ==
    /\ pending > 0
    /\ pending' = pending - 1
    /\ arrived' = arrived + 1
    /\ ready' = TRUE
    /\ lost' = lost \cup Held
    /\ UNCHANGED taken

Take ==
    /\ ready
    /\ ready' = FALSE
    /\ taken' = taken \cup {arrived}
    /\ UNCHANGED <<pending, arrived, lost>>

\* An event that comes in the very step whose instruction reads it.
ArriveAndTake ==
    /\ pending > 0
    /\ pending' = pending - 1
    /\ arrived' = arrived + 1
    /\ ready' = FALSE
    /\ lost' = lost \cup Held
    /\ taken' = taken \cup {arrived + 1}

PortNext == Arrive \/ Take \/ ArriveAndTake

PortSpec == PortInit /\ [][PortNext]_portVars

\* Every event that has come is still in the port, or was read, or is lost:
\* one of the three, and nothing else was ever read or lost.
OneFateEach ==
    /\ 1 .. arrived = taken \cup lost \cup Held
    /\ taken \cap lost = {}
    /\ Held \cap (taken \cup lost) = {}
=============================================================================
