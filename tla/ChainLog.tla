------------------------------ MODULE ChainLog ------------------------------
(***************************************************************************)
(* The append-only chain log of src/src/store/chain-log.js: one JSON line  *)
(* per event, written through a promise queue.                             *)
(*                                                                         *)
(* An event is handed over by append() at once and reaches the file later, *)
(* one write at a time.  A write that fails is reported as a warning and   *)
(* its event is dropped; the writes behind it go on.  A write that breaks  *)
(* off, by an error or by the death of the process, may leave part of its  *)
(* line at the end of the file, without a newline, so the next line is     *)
(* glued to it.                                                            *)
(***************************************************************************)
EXTENDS Naturals, Sequences, SequencesExt

CONSTANTS
    Event,        \* what may be appended
    Persist,      \* CHATSCAN_PERSIST; without it nothing is ever written
    MaxFaults     \* bound: writes that fail or break off in one behaviour

ASSUME LogAssumption == Persist \in BOOLEAN /\ MaxFaults \in Nat

VARIABLES
    queue,        \* lines handed to append() whose write has not completed
    file,         \* the events on the file's parseable lines, oldest first
    tail,         \* how the file ends
    corrupt,      \* some line before the last is not JSON
    faults        \* failed and broken-off writes so far (bounded by MaxFaults)

logVars == <<queue, file, tail, corrupt, faults>>

(***************************************************************************)
(* "clean": the file is empty or ends in a newline.  "partial": it ends in *)
(* a piece of a line, which is not JSON.  "unterminated": it ends in a     *)
(* whole line whose newline is missing, which still parses.                *)
(***************************************************************************)
Tails == {"clean", "partial", "unterminated"}

TypeOK ==
    /\ queue \in Seq(Event)
    /\ file \in Seq(Event)
    /\ tail \in Tails
    /\ corrupt \in BOOLEAN
    /\ faults \in 0..MaxFaults
    /\ tail = "unterminated" => file # <<>>

Init ==
    /\ queue = <<>>
    /\ file = <<>>
    /\ tail = "clean"
    /\ corrupt = FALSE
    /\ faults = 0

\* append(event): the line is built now and joins the promise queue.
Enqueue(event) ==
    /\ queue' = IF Persist THEN Append(queue, event) ELSE queue
    /\ UNCHANGED <<file, tail, corrupt, faults>>

\* Two append() calls in one turn of the event loop.
EnqueueBoth(first, second) ==
    /\ queue' = IF Persist THEN queue \o <<first, second>> ELSE queue
    /\ UNCHANGED <<file, tail, corrupt, faults>>

\* Wrong on purpose: the newest line overtakes the ones that wait.
NewestLine == Last(queue)

\* The write in progress: each append() chains on the promise of the one before.
NextLine == Head(queue)

(***************************************************************************)
(* appendFile puts the line and its newline behind whatever the file ends  *)
(* with.  Behind a missing newline the two lines become one, which does    *)
(* not parse: neither event can be read back.                              *)
(***************************************************************************)
WriteSucceeds ==
    /\ queue # <<>>
    /\ file' = CASE tail = "clean"        -> Append(file, NextLine)
                 [] tail = "partial"      -> file
                 [] tail = "unterminated" -> Front(file)
    /\ corrupt' = (corrupt \/ tail # "clean")
    /\ tail' = "clean"
    /\ queue' = Tail(queue)
    /\ UNCHANGED faults

\* A write that stops early leaves some of the line, or all but its newline.
BreaksOff ==
    \/ /\ tail = "clean"
       /\ file' = Append(file, NextLine)
       /\ tail' = "unterminated"
    \/ /\ file' = IF tail = "unterminated" THEN Front(file) ELSE file
       /\ tail' = "partial"

\* The .catch() of append(): a warning, and the queue moves on.
WriteFails ==
    /\ queue # <<>>
    /\ faults < MaxFaults
    /\ \/ BreaksOff
       \/ UNCHANGED <<file, tail>>
    /\ faults' = faults + 1
    /\ queue' = Tail(queue)
    /\ UNCHANGED corrupt

\* The process dies: what was only queued is gone, the write in progress may
\* have broken off.
Die ==
    /\ \/ UNCHANGED <<file, tail, faults>>
       \/ /\ queue # <<>>
          /\ faults < MaxFaults
          /\ BreaksOff
          /\ faults' = faults + 1
    /\ queue' = <<>>
    /\ UNCHANGED corrupt

\* Wrong on purpose: read() skips the lines it cannot parse.
ReadableAnyway == TRUE

\* read() throws on a line that is not JSON; otherwise it returns file.
Readable == ~corrupt /\ tail # "partial"

Next ==
    \/ \E event \in Event : Enqueue(event)
    \/ WriteSucceeds
    \/ WriteFails
    \/ Die

Spec == Init /\ [][Next]_logVars
=============================================================================
