--------------------------- MODULE DurableHistory ---------------------------
(***************************************************************************)
(* What the persistence of a ChatScan node promises, as long as no write   *)
(* fails: a history of events of which a prefix is durable.  Events are    *)
(* accepted at the end, become durable oldest first, and a crash keeps     *)
(* exactly the durable prefix.                                             *)
(***************************************************************************)
EXTENDS Naturals, Sequences

CONSTANT Event

VARIABLES
    history,      \* the accepted events that are not lost, in accept order
    durable       \* how many of them, from the oldest, survive a crash

Init ==
    /\ history = <<>>
    /\ durable = 0

\* One or more events, accepted in one turn.
Accept ==
    /\ history' \in Seq(Event)
    /\ Len(history') > Len(history)
    /\ \A i \in 1..Len(history) : history'[i] = history[i]
    /\ UNCHANGED durable

Endure ==
    /\ durable < Len(history)
    /\ durable' = durable + 1
    /\ UNCHANGED history

Crash ==
    /\ history' = SubSeq(history, 1, durable)
    /\ UNCHANGED durable

Next == Accept \/ Endure \/ Crash

Spec == Init /\ [][Next]_<<history, durable>>
=============================================================================
