--------------------------- MODULE ChainLogHistory ---------------------------
(***************************************************************************)
(* The chain log by itself, under every interleaving of appends, writes,   *)
(* failures and deaths of the process.  An event is the number of the      *)
(* append() call that handed it over.                                      *)
(***************************************************************************)
EXTENDS ChainLog

CONSTANT MaxEvents        \* bound: append() calls in one behaviour

VARIABLES
    accepted,             \* append() calls so far
    written               \* the events whose write completed without an error

vars == <<logVars, accepted, written>>

\* Event, in this module.
Numbered == 1..MaxEvents

HistoryInit == Init /\ accepted = 0 /\ written = {}

Appends ==
    /\ accepted < MaxEvents
    /\ Enqueue(accepted + 1)
    /\ accepted' = accepted + 1
    /\ UNCHANGED written

\* A sealing submit(): the record and its block.
AppendsTwo ==
    /\ accepted + 1 < MaxEvents
    /\ EnqueueBoth(accepted + 1, accepted + 2)
    /\ accepted' = accepted + 2
    /\ UNCHANGED written

Writes ==
    /\ WriteSucceeds
    /\ written' = written \cup {NextLine}
    /\ UNCHANGED accepted

HistoryNext ==
    \/ Appends
    \/ AppendsTwo
    \/ Writes
    \/ WriteFails /\ UNCHANGED <<accepted, written>>
    \/ Die /\ UNCHANGED <<accepted, written>>

HistorySpec == HistoryInit /\ [][HistoryNext]_vars

\* "Log order matches accept order" (ARCHITECTURE.md): whatever is lost, the
\* events that can be read back are in the order append() was called in.
FileInAcceptOrder ==
    \A i, j \in 1..Len(file) : i < j => file[i] < file[j]

(***************************************************************************)
(* "A corrupt line fails startup loudly rather than silently truncating    *)
(* the chain" (ARCHITECTURE.md): if the log can be read at all, it gives   *)
(* back every event whose write completed - also one that was glued to the *)
(* remains of a write that broke off, or followed a write that failed.     *)
(***************************************************************************)
NothingTruncatedSilently == Readable => written \subseteq ToSet(file)
=============================================================================
