-------------------------------- MODULE Store --------------------------------
(***************************************************************************)
(* The in-memory index of src/src/store/store.js with the chain log behind *)
(* it, and the life of the process that holds it: it dies, starts again    *)
(* and replays the log, one line at a time, before it serves anything.     *)
(***************************************************************************)
EXTENDS Records, Sequences, FiniteSets, SequencesExt

CONSTANTS
    Persist,          \* CHATSCAN_PERSIST
    MaxFaults,        \* bound: see ChainLog
    MaxStops          \* bound: the process is stopped or killed in runs 1..MaxStops

ASSUME StoreAssumption ==
    /\ Persist \in BOOLEAN
    /\ MaxFaults \in Nat
    /\ MaxStops \in Nat

VARIABLES
    order,            \* records[]: references, in the order they were indexed
    recs,             \* recordsByRef: reference -> record
    keys,             \* recordsByCiphertext: the keys it holds
    nextId,           \* nextRecordId
    blocks,           \* blocks[]
    queue, file, tail, corrupt, faults,     \* the chain log
    phase,            \* where the process is in its life
    run,              \* which start of the process this is
    replayed          \* lines of the log replayed in this run

\* A block of the local chain: the references of its records, in order.
Block ==
    [height : Nat, hash : Nat, previousHash : Nat, timestamp : Nat,
     refs : Seq(Nat \X Nat)]

\* The lines of the chain log.
Event ==
    [t : {"record", "record-update"}, record : Record] \cup [t : {"block"}, block : Block]

Log == INSTANCE ChainLog

indexVars == <<order, recs, keys, nextId, blocks>>
logVars == <<queue, file, tail, corrupt, faults>>
processVars == <<phase, run, replayed>>
storeVars == <<indexVars, logVars, processVars>>

(***************************************************************************)
(* "replaying": createApp() rebuilds the index.  "serving": requests are   *)
(* taken.  "closing": a signal came, server.close() waits for the open     *)
(* connections.  "flushing": store.flush() waits for the log.  "exited":   *)
(* process.exit().  "dead": killed.                                        *)
(***************************************************************************)
Phases == {"replaying", "serving", "closing", "flushing", "exited", "dead"}

Alive == phase \in {"serving", "closing", "flushing"}

EmptyIndex ==
    /\ order = <<>>
    /\ recs = <<>>
    /\ keys = {}
    /\ nextId = 1
    /\ blocks = <<>>

StoreInit ==
    /\ EmptyIndex
    /\ Log!Init
    /\ phase = "replaying"
    /\ run = 1
    /\ replayed = 0

-----------------------------------------------------------------------------
(* The index *)

Indexed(ref) == ref \in DOMAIN recs

\* The map `f` with `value` at `key`.
With(f, key, value) ==
    [x \in DOMAIN f \cup {key} |-> IF x = key THEN value ELSE f[x]]

\* Wrong on purpose: the counter is not raised past a replayed ID-number.
KeepCounter(id) == nextId

\* nextRecordId once a record with this ID-number is in the index.
CounterPast(id) == IF id >= nextId THEN id + 1 ELSE nextId

\* Rejected records stay out of recordsByCiphertext.
KeysWith(record) == IF record.status = "rejected" THEN keys ELSE keys \cup {record.key}

\* #indexRecord
IndexRecord(record) ==
    /\ order' = Append(order, Ref(record))
    /\ recs' = With(recs, Ref(record), record)
    /\ keys' = KeysWith(record)
    /\ nextId' = CounterPast(record.id)
    /\ UNCHANGED blocks

Listed(block) == {block.refs[i] : i \in DOMAIN block.refs}

\* Wrong on purpose: replay leaves the records of a block pending.
ConfirmNothing(records, block) == records

\* The records of a block become confirmed; a reference nobody indexed is skipped.
Confirmed(records, block) ==
    [ref \in DOMAIN records |->
       IF ref \in Listed(block)
       THEN [records[ref] EXCEPT !.status = "confirmed",
                                 !.blockHeight = block.height,
                                 !.blockHash = block.hash]
       ELSE records[ref]]

\* #indexBlock
IndexBlock(block) ==
    /\ blocks' = Append(blocks, block)
    /\ recs' = Confirmed(recs, block)
    /\ UNCHANGED <<order, keys, nextId>>

\* #applyUpdate
ApplyUpdate(snapshot) ==
    IF Indexed(Ref(snapshot))
    THEN /\ recs' = [recs EXCEPT ![Ref(snapshot)] = snapshot]
         /\ UNCHANGED <<order, keys, nextId, blocks>>
    ELSE IndexRecord(snapshot)

\* addRecord
AddRecord(record) ==
    /\ IndexRecord(record)
    /\ Log!Enqueue([t |-> "record", record |-> record])

\* Wrong on purpose: the log keeps the record as it was before the update.
UpdateEventStale(record) == [t |-> "record-update", record |-> recs[Ref(record)]]

\* The line updateRecord appends: the record as it is now.
UpdateEvent(record) == [t |-> "record-update", record |-> record]

\* updateRecord, on a record whose new value has just been written to it.
UpdateRecord(record) ==
    /\ recs' = [recs EXCEPT ![Ref(record)] = record]
    /\ keys' = IF record.status = "rejected" THEN keys \ {record.key}
                                             ELSE keys \cup {record.key}
    /\ Log!Enqueue(UpdateEvent(record))
    /\ UNCHANGED <<order, nextId, blocks>>

\* Wrong on purpose: the newest pending records are taken first.
MempoolNewest(records, refs, limit) ==
    LET pending == SelectSeq(refs, LAMBDA ref : records[ref].status = "pending")
    IN  SubSeq(Reverse(pending), 1, Min({Len(pending), Max({limit, 1})}))

\* mempool(limit): the oldest pending records, in index order.  The limit is
\* looked at after a record is taken, so it counts for at least one.
Mempool(records, refs, limit) ==
    LET Took(pending, ref) ==
            IF records[ref].status = "pending" /\ (pending = <<>> \/ Len(pending) < limit)
            THEN Append(pending, ref)
            ELSE pending
    IN  FoldLeft(Took, <<>>, refs)

\* addBlock
AddBlock(block) ==
    /\ IndexBlock(block)
    /\ Log!Enqueue([t |-> "block", block |-> block])

-----------------------------------------------------------------------------
(* The life of the process *)

LogWriteSucceeds ==
    /\ Alive
    /\ Log!WriteSucceeds
    /\ UNCHANGED <<indexVars, processVars>>

LogWriteFails ==
    /\ Alive
    /\ Log!WriteFails
    /\ UNCHANGED <<indexVars, processVars>>

IndexIsGone ==
    /\ order' = <<>>
    /\ recs' = <<>>
    /\ keys' = {}
    /\ nextId' = 1
    /\ blocks' = <<>>

\* The process is killed at any moment.
Killed ==
    /\ phase \notin {"exited", "dead"}
    /\ run =< MaxStops
    /\ Log!Die
    /\ IndexIsGone
    /\ phase' = "dead"
    /\ UNCHANGED <<run, replayed>>

\* process.exit(0): writes that are still queued are not waited for.
Exits ==
    /\ Log!Die
    /\ IndexIsGone
    /\ phase' = "exited"
    /\ UNCHANGED <<run, replayed>>

\* createApp(): an unreadable log fails the start, and the process is not up.
Start ==
    /\ phase \in {"exited", "dead"}
    /\ Log!Readable
    /\ phase' = "replaying"
    /\ run' = run + 1
    /\ replayed' = 0
    /\ UNCHANGED <<indexVars, logVars>>

\* One turn of the loop of replay().
ReplayLine ==
    /\ phase = "replaying"
    /\ replayed < Len(file)
    /\ LET event == file[replayed + 1]
       IN  CASE event.t = "record"        -> IndexRecord(event.record)
             [] event.t = "block"         -> IndexBlock(event.block)
             [] event.t = "record-update" -> ApplyUpdate(event.record)
    /\ replayed' = replayed + 1
    /\ UNCHANGED <<logVars, phase, run>>

ReplayDone ==
    /\ phase = "replaying"
    /\ replayed = Len(file)
    /\ phase' = "serving"
    /\ UNCHANGED <<indexVars, logVars, run, replayed>>
=============================================================================
