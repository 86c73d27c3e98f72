---------------------------- MODULE ExplorerProofs ----------------------------
(***************************************************************************)
(* A ChatScan node on the CDCI backend, for any number of requests,        *)
(* blocks, reorganisations, failed writes, crashes and restarts.           *)
(*                                                                         *)
(* IdInv is the invariant everything rests on: the types, and whose        *)
(* ID-number is whose.  On it stand four others, each about what is        *)
(* stored - in the index, in the file and in the lines that wait:          *)
(* AnchorInv (a record rests on its own anchor, a settled anchor on a      *)
(* block that stays), AnswerInv (records are what clients were told),      *)
(* ExitInv (what clients were told is written, or waits to be) and         *)
(* RebuildInv (the log rebuilds the index).                                *)
(***************************************************************************)
EXTENDS Explorer, LogLemmas

-----------------------------------------------------------------------------
(* The inductive invariant *)

\* The lines this node writes: it seals no blocks.
RecordEvent == [t : {"record", "record-update"}, record : Record]

\* The lines that belong to a set of references.
LinesOf(refs) == {event \in RecordEvent : Ref(event.record) \in refs}

\* No line before a "record" line has the same ID-number.
FirstOfItsId ==
    {pair \in RecordEvent \X RecordEvent :
       pair[2].t = "record" => pair[1].record.id # pair[2].record.id}

\* Lines with one ID-number are about one record.
OneRefPerId(lines) ==
    \A i, j \in 1..Len(lines) :
      lines[i].record.id = lines[j].record.id => Ref(lines[i].record) = Ref(lines[j].record)

\* What an RPC call returns: an answer comes with an anchor.
SoundReply == {reply \in Reply : reply.answered => reply.anchor \in Anchor}

\* The index: its records stand under their own references, no two of them
\* share an ID-number, and the counter is past them all.
IndexInv ==
    /\ order \in Seq(Nat \X Nat)
    /\ DOMAIN recs \subseteq Nat \X Nat
    /\ \A ref \in DOMAIN recs : recs[ref] \in Record /\ Ref(recs[ref]) = ref
    /\ keys \subseteq Keys
    /\ nextId \in Nat
    /\ \A a, b \in DOMAIN recs : a[2] = b[2] => a = b
    /\ \A ref \in DOMAIN recs : ref[2] < nextId
    /\ \A i \in 1..Len(order) : order[i] \in DOMAIN recs
    /\ \A i, j \in 1..Len(order) : order[i] = order[j] => i = j

\* A suspended handler holds a typed record whose number is its own.
TaskInv ==
    /\ tasks \in [Requests -> Task]
    /\ \A r \in Requests : InFlight(r) =>
         /\ tasks[r].record \in Record
         /\ tasks[r].pc = "asking" => tasks[r].record.anchor \in Anchor
         /\ tasks[r].pc = "replied" => tasks[r].reply \in SoundReply
         /\ tasks[r].record.id < nextId
         /\ \A ref \in DOMAIN recs : ref[2] # tasks[r].record.id
         /\ \A s \in Requests \ {r} :
              InFlight(s) => tasks[s].record.id # tasks[r].record.id

\* The watcher works on indexed records that have an anchor.
WatchInv ==
    /\ watch \in [todo : SUBSET Nat, reply : SoundReply \cup {Null}]
    /\ \A i \in watch.todo : i \in 1..Len(order) /\ recs[order[i]].anchor \in Anchor

\* The log: a "record" line is the first of its number.  While the process is
\* up, every line belongs to a record of the index; when it is not, the file
\* alone tells the numbers apart.
LogInv ==
    /\ Log!TypeOK
    /\ LogOf(RecordEvent, FirstOfItsId, file, queue)
    /\ Alive => LogOf(LinesOf(DOMAIN recs), FirstOfItsId, file, queue)
    /\ ~Alive => queue = <<>> /\ OneRefPerId(file)

\* The life of the process: what is left of it when it is down, and how much
\* of the index is back while it replays.
LifeInv ==
    /\ blocks = <<>>
    /\ phase \in Phases
    /\ run \in 1..MaxStops + 1
    /\ phase \notin {"replaying", "serving"} => run =< MaxStops
    /\ replayed \in Nat
    /\ phase = "replaying" =>
         /\ replayed =< Len(file)
         /\ DOMAIN recs = {Ref(file[k].record) : k \in 1..replayed}
    /\ phase \in {"exited", "dead"} => recs = <<>> /\ order = <<>>
    /\ ~Alive => watch.todo = {} /\ \A r \in Requests : ~InFlight(r)

\* What clients and signals leave behind.
RestInv ==
    /\ answers \in [Requests -> [ref : Nat \X Nat, accepted : BOOLEAN,
                                 status : RecordStatus] \cup {Null}]
    /\ signals \in 0..2
    /\ flushLeft \in Nat

IdInv ==
    /\ Node!TypeOK
    /\ IndexInv
    /\ TaskInv
    /\ WatchInv
    /\ LogInv
    /\ LifeInv
    /\ RestInv

-----------------------------------------------------------------------------
(* Records and verdicts *)

\* A new record is a record, under the reference of its number.
LEMMA CreateRecordTyped ==
    ASSUME NEW id \in Nat, NEW receivedAt \in Nat, NEW submission \in Submissions,
           NEW reason \in RejectionReasons \cup {Null}
    PROVE  LET record == CreateRecord(id, receivedAt, submission, reason)
           IN  /\ record \in Record
               /\ record.id = id
               /\ Ref(record) = <<receivedAt, id>>
               /\ record.anchor # Null => record.anchor \in Anchor
  BY DEF CreateRecord, Submissions, Record, RecordStatus, Ref, UnverifiedAnchor, Anchor, Finality

\* Rejecting a record and settling its anchor keep its reference.
LEMMA RejectTyped ==
    ASSUME NEW record \in Record, NEW reason \in RejectionReasons
    PROVE  /\ Reject(record, reason) \in Record
           /\ Reject(record, reason).id = record.id
           /\ Ref(Reject(record, reason)) = Ref(record)
  BY DEF Reject, Record, RecordStatus, Ref

\* Applying an anchor to a record (applyAnchor) gives a record with the same reference.
LEMMA ApplyAnchorTyped ==
    ASSUME NEW record \in Record, NEW anchor \in Anchor
    PROVE  /\ ApplyAnchor(record, anchor) \in Record
           /\ ApplyAnchor(record, anchor).id = record.id
           /\ Ref(ApplyAnchor(record, anchor)) = Ref(record)
           /\ ApplyAnchor(record, anchor).anchor = anchor
<1>1. anchor.height \in Nat \cup {Null} /\ anchor.block \in Nat \cup {Null}
  BY DEF Anchor
<1> QED
  BY <1>1 DEF ApplyAnchor, Record, RecordStatus, Ref

\* The record a handler adds is its own, with a verdict in it.
LEMMA SettledTyped ==
    ASSUME NEW record \in Record, NEW reply \in SoundReply
    PROVE  /\ Settled(record, reply) \in Record
           /\ Settled(record, reply).id = record.id
           /\ Ref(Settled(record, reply)) = Ref(record)
<1>1. AnchorRejection(record, reply) \in RejectionReasons \cup {Null}
  BY DEF AnchorRejection, RejectionReasons
<1>2. reply.answered => reply.anchor \in Anchor
  BY DEF SoundReply
<1> QED
  BY <1>1, <1>2, RejectTyped, ApplyAnchorTyped DEF Settled

\* What the node says of an anchor, when it says anything, is an anchor.
LEMMA VerifyAnchorTyped ==
    ASSUME Node!TypeOK, NEW commitment, NEW txid \in Txids
    PROVE  VerifyAnchor(commitment, txid) \in SoundReply
<1>1. ASSUME NEW confirmations, NEW chainlock \in BOOLEAN
      PROVE  FinalityOf(confirmations, chainlock) \in Finality
  BY DEF FinalityOf, Finality
<1>2. UnverifiedAnchor(txid) \in Anchor /\ PooledAnchor(txid) \in Anchor
  BY <1>1 DEF UnverifiedAnchor, PooledAnchor, Anchor, Finality
<1>3. ASSUME Node!InBlock(txid)
      PROVE  MinedAnchor(txid, Node!HeightOf(txid)) \in Anchor
  <2> DEFINE height == Node!HeightOf(txid)
  <2>1. height \in 1..Len(chain)
    BY <1>3 DEF Node!InBlock, Node!HeightOf
  <2> HIDE DEF height
  <2>2. /\ chain[height].hash \in Nat
        /\ Len(chain) - height + 1 \in Nat
        /\ height \in Nat
    <3>1. chain \in Seq([hash : 1..MaxBlocks, txs : SUBSET Txids])
      BY DEF Node!TypeOK
    <3>2. chain[height] \in [hash : 1..MaxBlocks, txs : SUBSET Txids] /\ Len(chain) \in Nat
      BY <2>1, <3>1, ElementOfSequence
    <3>3. chain[height].hash \in 1..MaxBlocks /\ 1..MaxBlocks \subseteq Nat
      BY <3>2, NodeAssumption DEF NodeAssumption
    <3> QED
      BY <2>1, <3>2, <3>3
  <2>3. MinedAnchor(txid, height) \in Anchor
    <3> DEFINE confirmations == Len(chain) - height + 1
               chainlock == height =< lockedHeight
    <3>1. confirmations \in Nat /\ chainlock \in BOOLEAN
      BY <2>2
    <3>2. FinalityOf(confirmations, chainlock) \in Finality
      BY <1>1, <3>1
    <3>3. MinedAnchor(txid, height)
            = [txid |-> txid, block |-> chain[height].hash, height |-> height,
               confirmations |-> confirmations, chainlock |-> chainlock,
               finality |-> FinalityOf(confirmations, chainlock)]
      BY DEF MinedAnchor
    <3> HIDE DEF confirmations, chainlock
    <3> QED
      BY <2>2, <3>1, <3>2, <3>3 DEF Anchor
  <2> QED
    BY <2>3 DEF height
<1>4. NoAnswer \in SoundReply /\ Absent(txid) \in SoundReply
  BY <1>2 DEF NoAnswer, Absent, SoundReply, Reply
<1> QED
  BY <1>2, <1>3, <1>4 DEF VerifyAnchor, SoundReply, Reply

-----------------------------------------------------------------------------
(* The index *)

\* A record with a new ID-number joins the index: the others stay as they are.
LEMMA IndexRecordKeeps ==
    ASSUME IndexInv, NEW record \in Record, IndexRecord(record),
           \A ref \in DOMAIN recs : ref[2] # record.id
    PROVE  /\ IndexInv'
           /\ DOMAIN recs' = DOMAIN recs \cup {Ref(record)}
           /\ \A ref \in DOMAIN recs : recs'[ref] = recs[ref]
           /\ nextId =< nextId' /\ record.id < nextId'
           /\ record.id < nextId => nextId' = nextId
           /\ Len(order) =< Len(order')
           /\ \A i \in 1..Len(order) : i \in 1..Len(order') /\ order'[i] = order[i]
           /\ blocks' = blocks
<1> DEFINE ref == Ref(record)
<1>1. /\ ref \in Nat \X Nat
      /\ ref[2] = record.id
      /\ record.id \in Nat
      /\ record.key \in Keys
  BY DEF Ref, Record
<1>2. ref \notin DOMAIN recs
  BY <1>1
<1>3. /\ DOMAIN recs' = DOMAIN recs \cup {ref}
      /\ recs'[ref] = record
      /\ \A x \in DOMAIN recs : recs'[x] = recs[x]
  BY <1>2 DEF IndexRecord, With
<1>4. /\ order' \in Seq(Nat \X Nat)
      /\ Len(order) \in Nat
      /\ Len(order') = Len(order) + 1
      /\ \A i \in 1..Len(order) : order'[i] = order[i]
      /\ order'[Len(order) + 1] = ref
      /\ \A i \in 1..Len(order') : i \in 1..Len(order) \/ i = Len(order) + 1
  BY <1>1, AppendToSequence DEF IndexRecord, IndexInv
<1>5. /\ nextId' \in Nat
      /\ nextId =< nextId'
      /\ record.id < nextId'
      /\ record.id < nextId => nextId' = nextId
  BY <1>1 DEF IndexRecord, CounterPast, IndexInv
<1>6. keys' \subseteq Keys
  BY <1>1 DEF IndexRecord, KeysWith, IndexInv
<1>7. Ref(record) = ref
  OBVIOUS
<1> HIDE DEF ref
<1>8. \A x \in DOMAIN recs' : recs'[x] \in Record /\ Ref(recs'[x]) = x
  BY <1>3, <1>7 DEF IndexInv
<1>9. \A a, b \in DOMAIN recs' : a[2] = b[2] => a = b
  BY <1>1, <1>3 DEF IndexInv
<1>10. \A x \in DOMAIN recs' : x[2] < nextId'
  <2> SUFFICES ASSUME NEW x \in DOMAIN recs' PROVE x[2] < nextId'
    OBVIOUS
  <2>1. CASE x = ref
    BY <1>1, <1>5, <2>1
  <2>2. CASE x \in DOMAIN recs
    <3>1. x[2] \in Nat /\ x[2] < nextId /\ nextId \in Nat
      BY <2>2 DEF IndexInv
    <3> QED
      BY <1>5, <3>1
  <2> QED
    BY <1>3, <2>1, <2>2
<1>11. \A i \in 1..Len(order') : order'[i] \in DOMAIN recs'
  BY <1>3, <1>4 DEF IndexInv
<1>12. ASSUME NEW i \in 1..Len(order'), NEW j \in 1..Len(order'), order'[i] = order'[j]
       PROVE  i = j
  <2>1. \A k \in 1..Len(order) : order'[k] # ref
    BY <1>2, <1>4 DEF IndexInv
  <2> QED
    BY <1>4, <1>12, <2>1 DEF IndexInv
<1>13. IndexInv'
  BY <1>1, <1>3, <1>4, <1>5, <1>6, <1>8, <1>9, <1>10, <1>11, <1>12 DEF IndexInv
<1>14. /\ Len(order) =< Len(order')
       /\ \A i \in 1..Len(order) : i \in 1..Len(order')
  BY <1>4
<1>15. blocks' = blocks
  BY DEF IndexRecord
<1> QED
  BY <1>3, <1>4, <1>5, <1>13, <1>14, <1>15 DEF ref

\* An indexed record gets a new value under its own reference.
LEMMA RewriteKeeps ==
    ASSUME IndexInv, NEW record \in Record, Ref(record) \in DOMAIN recs,
           recs' = [recs EXCEPT ![Ref(record)] = record],
           keys' \subseteq Keys,
           UNCHANGED <<order, nextId>>
    PROVE  /\ IndexInv'
           /\ DOMAIN recs' = DOMAIN recs
           /\ recs'[Ref(record)] = record
           /\ \A ref \in DOMAIN recs : ref # Ref(record) => recs'[ref] = recs[ref]
<1>1. /\ DOMAIN recs' = DOMAIN recs
      /\ recs'[Ref(record)] = record
      /\ \A ref \in DOMAIN recs : ref # Ref(record) => recs'[ref] = recs[ref]
  OBVIOUS
<1>2. \A ref \in DOMAIN recs' : recs'[ref] \in Record /\ Ref(recs'[ref]) = ref
  BY <1>1 DEF IndexInv
<1> QED
  BY <1>1, <1>2 DEF IndexInv

-----------------------------------------------------------------------------
(* The log *)

\* A log over the lines this node writes has the type ChainLog gives it.
LEMMA LogTypeFromLines ==
    ASSUME NEW f, NEW q, LogOf(RecordEvent, FirstOfItsId, f, q)
    PROVE  f \in Seq(Event) /\ q \in Seq(Event)
<1>1. RecordEvent \subseteq Event
  BY DEF RecordEvent, Event
<1> QED
  BY <1>1, LogOverMore DEF LogOf

\* addRecord and updateRecord append a line about a record of the index; a
\* "record" line only for a number the index does not hold yet.
LEMMA EnqueueKeeps ==
    ASSUME LogInv, Alive, NEW refs, DOMAIN recs \subseteq refs,
           NEW event \in LinesOf(refs), Log!Enqueue(event),
           event.t = "record" => \A ref \in DOMAIN recs : ref[2] # event.record.id
    PROVE  /\ Log!TypeOK'
           /\ LogOf(RecordEvent, FirstOfItsId, file', queue')
           /\ LogOf(LinesOf(refs), FirstOfItsId, file', queue')
           /\ file' = file
<1>1. /\ LogOf(LinesOf(DOMAIN recs), FirstOfItsId, file, queue)
      /\ LinesOf(DOMAIN recs) \subseteq LinesOf(refs)
      /\ LinesOf(refs) \subseteq RecordEvent
  BY DEF LogInv, LinesOf
<1>2. \A d \in LinesOf(DOMAIN recs) : <<d, event>> \in FirstOfItsId
  BY DEF LinesOf, FirstOfItsId, Ref, RecordEvent
<1>3. file' = file /\ (queue' = Append(queue, event) \/ queue' = queue)
  BY DEF Log!Enqueue
<1>4. LogOf(LinesOf(refs), FirstOfItsId, file', queue')
  BY <1>1, <1>2, <1>3, LogAfterAppend, LogOverMore
<1>5. LogOf(RecordEvent, FirstOfItsId, file', queue')
  BY <1>1, <1>4, LogOverMore
<1>6. Log!TypeOK'
  BY <1>3, <1>5, LogTypeFromLines DEF LogInv, Log!TypeOK, Log!Enqueue
<1> QED
  BY <1>3, <1>4, <1>5, <1>6

\* A write that breaks off leaves a log, with or without the line it wrote.
LEMMA BreaksOffKeeps ==
    ASSUME NEW S, Log!TypeOK, LogOf(S, FirstOfItsId, file, queue), queue # <<>>, Log!BreaksOff
    PROVE  /\ LogOf(S, FirstOfItsId, file', Tail(queue))
           /\ tail' \in Log!Tails
           /\ tail' = "unterminated" => file' # <<>>
<1>1. CASE file' = Append(file, Head(queue)) /\ tail' = "unterminated"
  <2>1. file' # <<>>
    BY <1>1, TailOfSequence, AppendToSequence DEF LogOf
  <2> QED
    BY <1>1, <2>1, LogAfterWrite DEF Log!Tails
<1>2. CASE /\ file' = IF tail = "unterminated" THEN Front(file) ELSE file
           /\ tail' = "partial"
  <2>1. LogOf(S, FirstOfItsId, file', queue)
    BY <1>2, LogWithoutLast DEF Log!TypeOK
  <2> QED
    BY <1>2, <2>1, LogWithoutHead DEF Log!Tails
<1>3. \/ file' = Append(file, Log!NextLine) /\ tail' = "unterminated"
      \/ /\ file' = IF tail = "unterminated" THEN Front(file) ELSE file
         /\ tail' = "partial"
  BY DEF Log!BreaksOff, Log!Front, Front
<1> QED
  BY <1>1, <1>2, <1>3 DEF Log!NextLine

\* A write, whether it succeeds or fails, leaves a log.
LEMMA WriteKeeps ==
    ASSUME NEW S, Log!TypeOK, LogOf(S, FirstOfItsId, file, queue),
           Log!WriteSucceeds \/ Log!WriteFails
    PROVE  /\ LogOf(S, FirstOfItsId, file', queue')
           /\ tail' \in Log!Tails
           /\ tail' = "unterminated" => file' # <<>>
<1>1. CASE Log!WriteSucceeds
  <2>1. CASE tail = "clean"
    BY <1>1, <2>1, LogAfterWrite DEF Log!WriteSucceeds, Log!NextLine, Log!Tails
  <2>2. CASE tail # "clean"
    <3>1. file' = IF tail = "unterminated" THEN Front(file) ELSE file
      <4>1. tail = "partial" \/ tail = "unterminated"
        BY <2>2 DEF Log!TypeOK, Log!Tails
      <4> QED
        BY <1>1, <4>1 DEF Log!WriteSucceeds, Log!Front, Front
    <3>2. LogOf(S, FirstOfItsId, file', queue)
      BY <3>1, LogWithoutLast DEF Log!TypeOK
    <3> QED
      BY <1>1, <3>2, LogWithoutHead DEF Log!WriteSucceeds, Log!Tails
  <2> QED
    BY <2>1, <2>2
<1>2. CASE Log!WriteFails
  <2>1. CASE Log!BreaksOff
    BY <1>2, <2>1, BreaksOffKeeps DEF Log!WriteFails
  <2>2. CASE UNCHANGED <<file, tail>>
    BY <1>2, <2>2, LogWithoutHead DEF Log!WriteFails, Log!TypeOK
  <2> QED
    BY <1>2, <2>1, <2>2 DEF Log!WriteFails
<1> QED
  BY <1>1, <1>2

\* The death of the process empties the queue.
LEMMA DieKeeps ==
    ASSUME NEW S, Log!TypeOK, LogOf(S, FirstOfItsId, file, queue), Log!Die
    PROVE  /\ LogOf(S, FirstOfItsId, file', queue')
           /\ queue' = <<>>
           /\ tail' \in Log!Tails
           /\ tail' = "unterminated" => file' # <<>>
<1>1. CASE queue # <<>> /\ Log!BreaksOff
  BY <1>1, BreaksOffKeeps, LogWithoutQueue DEF Log!Die
<1>2. CASE UNCHANGED <<file, tail>>
  BY <1>2, LogWithoutQueue DEF Log!Die, Log!TypeOK
<1> QED
  BY <1>1, <1>2 DEF Log!Die

\* The counters of the log keep their types in the same steps.
LEMMA FaultsTyped ==
    ASSUME Log!TypeOK, Log!WriteSucceeds \/ Log!WriteFails \/ Log!Die
    PROVE  corrupt' \in BOOLEAN /\ faults' \in 0..MaxFaults
<1>1. faults' \in 0..MaxFaults
  <2>1. faults \in 0..MaxFaults
    BY DEF Log!TypeOK
  <2>2. faults' = faults \/ (faults < MaxFaults /\ faults' = faults + 1)
    BY DEF Log!WriteSucceeds, Log!WriteFails, Log!Die
  <2> QED
    BY <2>1, <2>2, StoreAssumption DEF StoreAssumption
<1>2. corrupt' \in BOOLEAN
  BY DEF Log!TypeOK, Log!WriteSucceeds, Log!WriteFails, Log!Die
<1> QED
  BY <1>1, <1>2

\* When every line belongs to a record of an index without double numbers,
\* lines with one number are about one record.
LEMMA IndexTellsLinesApart ==
    ASSUME IndexInv, NEW f, NEW q, LogOf(LinesOf(DOMAIN recs), FirstOfItsId, f, q)
    PROVE  OneRefPerId(f)
<1>1. \A i \in 1..Len(f) : Ref(f[i].record) \in DOMAIN recs
  BY ElementOfSequence DEF LogOf, LinesOf
<1>2. \A i \in 1..Len(f) : Ref(f[i].record)[2] = f[i].record.id
  BY DEF Ref
<1> QED
  BY <1>1, <1>2 DEF OneRefPerId, IndexInv

-----------------------------------------------------------------------------
(* Initial states, and the steps of the node *)

\* The invariant holds when the process first starts.
LEMMA InitHolds == Init => IdInv
<1> SUFFICES ASSUME Init PROVE IdInv
  OBVIOUS
<1> USE DEF Init, StoreInit, EmptyIndex
<1>1. Node!TypeOK
  <2>1. /\ pool = {} /\ chain = <<>> /\ mined = 0 /\ lockedHeight = 0 /\ outages = 0
    BY DEF Node!Init
  <2>2. answering \in BOOLEAN
    BY DEF Node!Init
  <2>3. /\ chain \in Seq([hash : 1..MaxBlocks, txs : SUBSET Txids])
        /\ lockedHeight \in 0..Len(chain)
    BY <2>1
  <2>4. mined \in 0..MaxBlocks /\ outages \in 0..MaxOutages
    BY <2>1, NodeAssumption DEF NodeAssumption
  <2> QED
    BY <2>1, <2>2, <2>3, <2>4 DEF Node!TypeOK
<1>2. IndexInv
  BY DEF IndexInv
<1>3. TaskInv
  BY DEF TaskInv, Task, Idle, InFlight
<1>4. WatchInv
  BY DEF WatchInv, NotTicking
<1>5. LogInv
  <2>1. queue = <<>> /\ file = <<>> /\ tail = "clean" /\ faults = 0
    BY DEF Log!Init
  <2>2. corrupt \in BOOLEAN
    BY DEF Log!Init
  <2>3. queue \in Seq(Event) /\ file \in Seq(Event)
    BY <2>1
  <2>4. faults \in 0..MaxFaults
    BY <2>1, StoreAssumption DEF StoreAssumption
  <2>5. Log!TypeOK
    BY <2>1, <2>2, <2>3, <2>4 DEF Log!TypeOK, Log!Tails
  <2>6. LogOf(RecordEvent, FirstOfItsId, file, queue)
    BY <2>1 DEF LogOf, Related
  <2> QED
    BY <2>1, <2>5, <2>6 DEF LogInv, Alive, OneRefPerId
<1>6. LifeInv
  <2>1. file = <<>>
    BY DEF Log!Init
  <2>2. run \in 1..MaxStops + 1
    BY StoreAssumption DEF StoreAssumption
  <2>3. DOMAIN recs = {Ref(file[k].record) : k \in 1..replayed}
    OBVIOUS
  <2>4. \A r \in Requests : ~InFlight(r)
    BY DEF InFlight, Idle
  <2> QED
    BY <2>1, <2>2, <2>3, <2>4 DEF LifeInv, Phases, NotTicking
<1>7. RestInv
  BY DEF RestInv
<1> QED
  BY <1>1, <1>2, <1>3, <1>4, <1>5, <1>6, <1>7 DEF IdInv

\* A chain with more blocks on it.
LEMMA LongerChain ==
    ASSUME NEW S, NEW s \in Seq(S)
    PROVE  /\ \A e \in S : /\ Append(s, e) \in Seq(S)
                          /\ 0..Len(s) \subseteq 0..Len(Append(s, e))
           /\ \A t \in Seq(S) : s \o t \in Seq(S) /\ Len(s \o t) = Len(s) + Len(t)
  OBVIOUS

\* The CDCI node keeps its types whatever happens to it.
LEMMA NodeStepTyped ==
    ASSUME Node!TypeOK, Node!Next
    PROVE  Node!TypeOK'
<1> DEFINE B == [hash : 1..MaxBlocks, txs : SUBSET Txids]
<1>1. /\ pool \subseteq Txids
      /\ chain \in Seq(B)
      /\ mined \in 0..MaxBlocks
      /\ lockedHeight \in 0..Len(chain)
      /\ outages \in 0..MaxOutages
  BY DEF Node!TypeOK
<1>2. MaxBlocks \in Nat /\ MaxReorgDepth \in Nat /\ MaxOutages \in Nat
  BY NodeAssumption DEF NodeAssumption
<1>3. ASSUME NEW txid \in Txids, Node!Broadcast(txid) \/ Node!Evict(txid)
      PROVE  Node!TypeOK'
  BY <1>3 DEF Node!TypeOK, Node!Broadcast, Node!Evict
<1>4. ASSUME NEW txs \in SUBSET pool, Node!Mine(txs)
      PROVE  Node!TypeOK'
  <2>1. [hash |-> mined + 1, txs |-> txs] \in B
    BY <1>1, <1>2, <1>4 DEF Node!Mine
  <2> HIDE DEF B
  <2>2. chain' \in Seq(B) /\ lockedHeight' \in 0..Len(chain')
    BY <1>1, <1>4, <2>1, LongerChain DEF Node!Mine
  <2>3. mined' \in 0..MaxBlocks /\ pool' \subseteq Txids
    BY <1>1, <1>2, <1>4 DEF Node!Mine
  <2> QED
    BY <1>4, <2>2, <2>3 DEF Node!TypeOK, Node!Mine, B
<1>5. ASSUME NEW depth \in 1..MaxReorgDepth, Node!Reorg(depth)
      PROVE  Node!TypeOK'
  <2> DEFINE base == Len(chain) - depth
             undone == UNION {chain[h].txs : h \in base + 1 .. Len(chain)}
  <2>1. PICK kept \in SUBSET undone :
          \E txs \in SUBSET (pool \cup kept), at \in 1..depth + 1 :
             /\ chain' = SubSeq(chain, 1, base)
                           \o [i \in 1..depth + 1 |->
                                 [hash |-> mined + i, txs |-> IF i = at THEN txs ELSE {}]]
             /\ pool' = (pool \cup kept) \ txs
    BY <1>5 DEF Node!Reorg
  <2>2. PICK txs \in SUBSET (pool \cup kept), at \in 1..depth + 1 :
             /\ chain' = SubSeq(chain, 1, base)
                           \o [i \in 1..depth + 1 |->
                                 [hash |-> mined + i, txs |-> IF i = at THEN txs ELSE {}]]
             /\ pool' = (pool \cup kept) \ txs
    BY <2>1
  <2>3. /\ depth \in Nat /\ base \in Nat /\ Len(chain) \in Nat
        /\ lockedHeight =< base
        /\ mined + depth + 1 =< MaxBlocks
        /\ mined' = mined + depth + 1
        /\ UNCHANGED <<lockedHeight, outages>>
    BY <1>1, <1>2, <1>5 DEF Node!Reorg
  <2>4. undone \subseteq Txids
    <3> HIDE DEF B
    <3>1. \A h \in 1..Len(chain) : chain[h] \in B
      BY <1>1, ElementOfSequence
    <3>2. \A h \in base + 1..Len(chain) : h \in 1..Len(chain)
      BY <2>3
    <3> QED
      BY <3>1, <3>2 DEF B
  <2>5. pool \cup kept \subseteq Txids
    BY <1>1, <2>4
  <2> DEFINE branch == [i \in 1..depth + 1 |->
                          [hash |-> mined + i, txs |-> IF i = at THEN txs ELSE {}]]
             stem == SubSeq(chain, 1, base)
  <2>6. \A i \in 1..depth + 1 : branch[i] \in B
    <3> SUFFICES ASSUME NEW i \in 1..depth + 1
                 PROVE  [hash |-> mined + i, txs |-> IF i = at THEN txs ELSE {}] \in B
      OBVIOUS
    <3>1. mined + i \in 1..MaxBlocks
      BY <1>1, <1>2, <2>3
    <3>2. (IF i = at THEN txs ELSE {}) \in SUBSET Txids
      BY <2>5
    <3> QED
      BY <3>1, <3>2
  <2>7. stem = [i \in 1..base |-> chain[i]]
    BY <1>1, <2>3
  <2>8. chain' = stem \o branch
    BY <2>2
  <2> HIDE DEF B
  <2>9. \A i \in 1..base : chain[i] \in B
    <3>1. \A i \in 1..base : i \in 1..Len(chain)
      BY <2>3
    <3> QED
      BY <1>1, <3>1, ElementOfSequence
  <2>10. stem \in Seq(B) /\ Len(stem) = base
    BY <2>3, <2>7, <2>9
  <2>11. branch \in Seq(B) /\ Len(branch) = depth + 1
    BY <2>3, <2>6
  <2> HIDE DEF stem, branch, base
  <2>12. chain' \in Seq(B) /\ Len(chain') = base + depth + 1
    <3>1. stem \o branch \in Seq(B) /\ Len(stem \o branch) = Len(stem) + Len(branch)
      BY <2>10, <2>11, LongerChain
    <3> QED
      BY <2>3, <2>8, <2>10, <2>11, <3>1
  <2>13. lockedHeight' \in 0..Len(chain')
    BY <1>1, <2>3, <2>12
  <2>14. mined' \in 0..MaxBlocks /\ pool' \subseteq Txids /\ outages' \in 0..MaxOutages
    BY <1>1, <1>2, <2>2, <2>3, <2>5
  <2>15. answering' \in BOOLEAN
    BY <1>5 DEF Node!Reorg, Node!TypeOK
  <2> QED
    BY <2>12, <2>13, <2>14, <2>15 DEF Node!TypeOK, B
<1>6. CASE Node!ChainLock
  <2>1. lockedHeight' \in 0..Len(chain')
    BY <1>1, <1>6, ElementOfSequence DEF Node!ChainLock
  <2> QED
    BY <1>6, <2>1 DEF Node!ChainLock, Node!TypeOK
<1>7. CASE Node!Stop \/ Node!Resume
  <2>1. outages' \in 0..MaxOutages
    BY <1>1, <1>2, <1>7 DEF Node!Stop, Node!Resume
  <2> QED
    BY <1>7, <2>1 DEF Node!Stop, Node!Resume, Node!TypeOK
<1> QED
  BY <1>3, <1>4, <1>5, <1>6, <1>7 DEF Node!Next

-----------------------------------------------------------------------------
(* Steps of the handlers *)

\* Adding a record with a new ID-number, which every handler ends with.
LEMMA AddRecordKeeps ==
    ASSUME IdInv, Alive, NEW record \in Record, AddRecord(record),
           \A ref \in DOMAIN recs : ref[2] # record.id,
           UNCHANGED <<nodeVars, processVars, watch, stopVars>>
    PROVE  /\ Node!TypeOK'
           /\ IndexInv'
           /\ WatchInv'
           /\ LogInv'
           /\ DOMAIN recs' = DOMAIN recs \cup {Ref(record)}
           /\ nextId =< nextId' /\ record.id < nextId'
           /\ blocks' = blocks
           /\ file' = file
<1>1. /\ IndexInv'
      /\ DOMAIN recs' = DOMAIN recs \cup {Ref(record)}
      /\ \A ref \in DOMAIN recs : recs'[ref] = recs[ref]
      /\ nextId =< nextId' /\ record.id < nextId'
      /\ \A i \in 1..Len(order) : i \in 1..Len(order') /\ order'[i] = order[i]
      /\ blocks' = blocks
  BY IndexRecordKeeps DEF IdInv, AddRecord
<1>2. Node!TypeOK'
  BY DEF IdInv, Node!TypeOK, nodeVars
<1>3. WatchInv'
  <2>1. ASSUME NEW i \in watch.todo
        PROVE  i \in 1..Len(order') /\ recs'[order'[i]].anchor \in Anchor
    <3>1. i \in 1..Len(order) /\ recs[order[i]].anchor \in Anchor
      BY DEF IdInv, WatchInv
    <3>2. order'[i] = order[i] /\ order[i] \in DOMAIN recs
      BY <1>1, <3>1 DEF IdInv, IndexInv
    <3> QED
      BY <1>1, <3>1, <3>2
  <2> QED
    BY <2>1 DEF IdInv, WatchInv
<1>4. [t |-> "record", record |-> record] \in LinesOf(DOMAIN recs')
  BY <1>1 DEF LinesOf, RecordEvent
<1>5. /\ Log!TypeOK'
      /\ LogOf(RecordEvent, FirstOfItsId, file', queue')
      /\ LogOf(LinesOf(DOMAIN recs'), FirstOfItsId, file', queue')
      /\ file' = file
  BY <1>1, <1>4, EnqueueKeeps DEF IdInv, AddRecord
<1>6. LogInv'
  BY <1>5 DEF LogInv, Alive, processVars
<1> QED
  BY <1>1, <1>2, <1>3, <1>5, <1>6

\* A submission that breaks the policy (submit) keeps the invariant: the number it
\* takes is indexed in the same turn.
LEMMA ReceiveRejectedKeeps ==
    ASSUME IdInv, NEW r \in Requests, ReceiveRejected(r)
    PROVE  IdInv'
<1> DEFINE reason == PolicyRejection(Submission[r])
           record == CreateRecord(nextId, run, Submission[r], reason)
<1>1. /\ nextId \in Nat /\ run \in Nat
      /\ Submission[r] \in Submissions
      /\ reason \in RejectionReasons \cup {Null}
  BY ExplorerAssumption, StoreAssumption
     DEF IdInv, IndexInv, LifeInv, ExplorerAssumption, StoreAssumption, PolicyRejection,
         RejectionReasons
<1>2. /\ record \in Record
      /\ record.id = nextId
  BY <1>1, CreateRecordTyped
<1>3. /\ Alive
      /\ AddRecord(record)
      /\ Respond(r, record, TRUE)
      /\ phase = "serving"
      /\ UNCHANGED <<nodeVars, processVars, watch, stopVars>>
  BY DEF ReceiveRejected, Alive
<1> HIDE DEF record, reason
<1>4. \A ref \in DOMAIN recs : ref[2] # record.id
  BY <1>1, <1>2 DEF IdInv, IndexInv
<1>5. /\ Node!TypeOK' /\ IndexInv' /\ WatchInv' /\ LogInv'
      /\ DOMAIN recs' = DOMAIN recs \cup {Ref(record)}
      /\ nextId =< nextId'
      /\ nextId' \in Nat
      /\ blocks' = blocks
      /\ file' = file
  BY <1>2, <1>3, <1>4, AddRecordKeeps DEF IndexInv
<1>6. TaskInv'
  <2>1. tasks' \in [Requests -> Task] /\ Done \in Task
    BY <1>3 DEF IdInv, TaskInv, Respond, Done, Idle, Task
  <2>2. \A s \in Requests : InFlight(s)' => InFlight(s) /\ tasks'[s] = tasks[s]
    BY <1>3 DEF IdInv, TaskInv, InFlight, Respond, Done, Idle
  <2>3. Ref(record)[2] = nextId
    BY <1>2 DEF Ref
  <2>4. ASSUME NEW s \in Requests, InFlight(s)'
        PROVE  /\ tasks[s].record.id < nextId'
               /\ \A ref \in DOMAIN recs' : ref[2] # tasks[s].record.id
    <3>1. InFlight(s) /\ tasks[s].record.id \in Nat /\ tasks[s].record.id < nextId
      BY <2>2, <2>4 DEF IdInv, TaskInv, Record
    <3> QED
      BY <1>1, <1>5, <2>3, <3>1 DEF IdInv, TaskInv
  <2> QED
    BY <2>1, <2>2, <2>4 DEF IdInv, TaskInv
<1>7. LifeInv'
  BY <1>3, <1>5 DEF IdInv, LifeInv, Alive, processVars
<1>8. RestInv'
  <2>1. Answer(record) \in [ref : Nat \X Nat, accepted : BOOLEAN, status : RecordStatus]
    BY <1>2 DEF Answer, Ref, Record
  <2> QED
    BY <1>3, <2>1 DEF IdInv, RestInv, Respond, stopVars
<1> QED
  BY <1>5, <1>6, <1>7, <1>8 DEF IdInv

\* reserveRecordId() before the await keeps the invariant: the number is new to the
\* index and to every suspended handler.
LEMMA ReceiveAdmissibleKeeps ==
    ASSUME IdInv, NEW r \in Requests, ReceiveAdmissible(r)
    PROVE  IdInv'
<1> DEFINE record == CreateRecord(nextId, run, Submission[r], Null)
           asks == record.anchor # Null
           task == [pc |-> IF asks THEN "asking" ELSE "replied",
                    connected |-> TRUE,
                    record |-> record,
                    reply |-> IF asks THEN Null ELSE NoAnswer]
<1>1. /\ nextId \in Nat /\ run \in Nat
      /\ Submission[r] \in Submissions
  BY ExplorerAssumption, StoreAssumption
     DEF IdInv, IndexInv, LifeInv, ExplorerAssumption, StoreAssumption
<1>2. /\ record \in Record
      /\ record.id = nextId
      /\ record.anchor # Null => record.anchor \in Anchor
  BY <1>1, CreateRecordTyped
<1>3. /\ phase = "serving"
      /\ tasks' = [tasks EXCEPT ![r] = task]
      /\ nextId' = nextId + 1
      /\ UNCHANGED <<nodeVars, order, recs, keys, blocks, logVars, processVars, answers,
                     watch, stopVars>>
  BY DEF ReceiveAdmissible
<1> HIDE DEF record
<1>4. /\ task \in Task
      /\ task.record = record
      /\ task.pc = "asking" => record.anchor \in Anchor
      /\ task.pc = "replied" => task.reply \in SoundReply
  BY <1>2 DEF Task, NoAnswer, SoundReply, Reply
<1> HIDE DEF task
<1>5. Node!TypeOK'
  BY <1>3 DEF IdInv, Node!TypeOK, nodeVars
<1>6. IndexInv'
  <2>1. \A ref \in DOMAIN recs : ref[2] < nextId'
    BY <1>1, <1>3 DEF IdInv, IndexInv
  <2>2. nextId' \in Nat /\ order' = order /\ recs' = recs /\ keys' = keys
    BY <1>1, <1>3
  <2> QED
    BY <2>1, <2>2 DEF IdInv, IndexInv
<1>7. TaskInv'
  <2>1. tasks' \in [Requests -> Task]
    BY <1>3, <1>4 DEF IdInv, TaskInv
  <2>2. \A s \in Requests \ {r} : tasks'[s] = tasks[s] /\ (InFlight(s)' <=> InFlight(s))
    BY <1>3 DEF IdInv, TaskInv, InFlight
  <2>3. tasks'[r] = task
    BY <1>3 DEF IdInv, TaskInv
  <2>4. ASSUME NEW s \in Requests, InFlight(s)'
        PROVE  /\ tasks'[s].record \in Record
               /\ tasks'[s].pc = "asking" => tasks'[s].record.anchor \in Anchor
               /\ tasks'[s].pc = "replied" => tasks'[s].reply \in SoundReply
               /\ tasks'[s].record.id < nextId'
               /\ \A ref \in DOMAIN recs' : ref[2] # tasks'[s].record.id
    <3>1. CASE s = r
      BY <1>1, <1>2, <1>3, <1>4, <2>3, <3>1 DEF IdInv, IndexInv
    <3>2. CASE s # r
      <4>1. InFlight(s) /\ tasks'[s] = tasks[s]
        BY <2>2, <2>4, <3>2
      <4>2. tasks[s].record.id \in Nat
        BY <4>1 DEF IdInv, TaskInv, Record
      <4> QED
        BY <1>1, <1>3, <4>1, <4>2 DEF IdInv, TaskInv
    <3> QED
      BY <3>1, <3>2
  <2>5. ASSUME NEW s \in Requests, InFlight(s)', NEW q \in Requests \ {s}, InFlight(q)'
        PROVE  tasks'[q].record.id # tasks'[s].record.id
    <3>1. \A x \in Requests \ {r} :
            InFlight(x) => tasks[x].record.id \in Nat /\ tasks[x].record.id < nextId
      BY DEF IdInv, TaskInv, Record
    <3>2. CASE s = r
      BY <1>1, <1>2, <1>4, <2>2, <2>3, <2>5, <3>1, <3>2
    <3>3. CASE q = r
      BY <1>1, <1>2, <1>4, <2>2, <2>3, <2>5, <3>1, <3>3
    <3>4. CASE s # r /\ q # r
      BY <2>2, <2>5, <3>4 DEF IdInv, TaskInv
    <3> QED
      BY <3>2, <3>3, <3>4
  <2> QED
    BY <2>1, <2>4, <2>5 DEF TaskInv
<1>8. WatchInv' /\ RestInv'
  BY <1>3 DEF IdInv, WatchInv, RestInv, stopVars
<1>9. LogInv'
  BY <1>3 DEF IdInv, LogInv, Log!TypeOK, logVars, processVars, Alive, OneRefPerId
<1>10. LifeInv'
  BY <1>3 DEF IdInv, LifeInv, Alive, logVars, processVars
<1> QED
  BY <1>5, <1>6, <1>7, <1>8, <1>9, <1>10 DEF IdInv

\* A step of the handler that leaves the index and the process alone, and its
\* number to it.
LEMMA HandlerMoves ==
    ASSUME IdInv, NEW r \in Requests, InFlight(r), NEW task \in Task,
           tasks' = [tasks EXCEPT ![r] = task],
           task.record = tasks[r].record,
           task.pc \in {"asking", "replied"},
           task.pc = "asking" => tasks[r].pc = "asking",
           task.pc = "replied" => task.reply \in SoundReply,
           UNCHANGED <<nodeVars, storeVars, answers, watch, stopVars>>
    PROVE  IdInv'
<1>1. /\ tasks' \in [Requests -> Task]
      /\ \A s \in Requests : tasks'[s].record = tasks[s].record /\ (InFlight(s)' <=> InFlight(s))
  BY DEF IdInv, TaskInv, InFlight
<1>2. /\ tasks'[r] = task
      /\ \A s \in Requests \ {r} : tasks'[s] = tasks[s]
  BY DEF IdInv, TaskInv
<1>3. UNCHANGED <<nodeVars, order, recs, keys, nextId, blocks, logVars, processVars, answers,
                  watch, stopVars>>
  BY DEF storeVars, indexVars
<1>4. TaskInv'
  <2>1. ASSUME NEW s \in Requests, InFlight(s)'
        PROVE  /\ tasks'[s].pc = "asking" => tasks'[s].record.anchor \in Anchor
               /\ tasks'[s].pc = "replied" => tasks'[s].reply \in SoundReply
    <3>1. CASE s = r
      BY <1>2, <3>1 DEF IdInv, TaskInv
    <3>2. CASE s # r
      BY <1>1, <1>2, <2>1, <3>2 DEF IdInv, TaskInv
    <3> QED
      BY <3>1, <3>2
  <2> QED
    BY <1>1, <1>3, <2>1 DEF IdInv, TaskInv
<1>5. Node!TypeOK'
  BY <1>3 DEF IdInv, Node!TypeOK, nodeVars
<1>6. IndexInv' /\ WatchInv' /\ RestInv'
  BY <1>3 DEF IdInv, IndexInv, WatchInv, RestInv, stopVars
<1>7. LogInv'
  BY <1>3 DEF IdInv, LogInv, Log!TypeOK, logVars, processVars, Alive, OneRefPerId
<1>8. LifeInv'
  BY <1>1, <1>3 DEF IdInv, LifeInv, Alive, logVars, processVars
<1> QED
  BY <1>4, <1>5, <1>6, <1>7, <1>8 DEF IdInv

\* The CDCI node's reply to a submission keeps the invariant.
LEMMA NodeAnswersKeeps ==
    ASSUME IdInv, NEW r \in Requests, NodeAnswers(r)
    PROVE  IdInv'
<1> DEFINE reply == VerifyAnchor(tasks[r].record.commitment, tasks[r].record.anchor.txid)
           task == [tasks[r] EXCEPT !.pc = "replied", !.reply = reply]
<1>1. tasks[r].pc = "asking" /\ InFlight(r)
  BY DEF NodeAnswers, InFlight
<1>2. tasks[r].record.anchor.txid \in Txids
  BY <1>1 DEF IdInv, TaskInv, Anchor
<1>3. reply \in SoundReply
  BY <1>2, VerifyAnchorTyped DEF IdInv
<1>4. tasks[r] \in Task
  BY DEF IdInv, TaskInv
<1>5. /\ tasks' = [tasks EXCEPT ![r] = task]
      /\ UNCHANGED <<nodeVars, storeVars, answers, watch, stopVars>>
  BY <1>4 DEF NodeAnswers, Task, IdInv, TaskInv
<1> HIDE DEF reply
<1>6. /\ task \in Task
      /\ task.record = tasks[r].record
      /\ task.pc = "replied"
      /\ task.reply = reply
  BY <1>3, <1>4 DEF Task, SoundReply
<1> QED
  BY <1>1, <1>3, <1>5, <1>6, HandlerMoves

\* A client that gives up keeps the invariant.
LEMMA DisconnectKeeps ==
    ASSUME IdInv, NEW r \in Requests, Disconnect(r)
    PROVE  IdInv'
<1> DEFINE task == [tasks[r] EXCEPT !.connected = FALSE]
<1>1. InFlight(r)
  BY DEF Disconnect
<1>2. tasks[r] \in Task
  BY DEF IdInv, TaskInv
<1>3. /\ tasks' = [tasks EXCEPT ![r] = task]
      /\ UNCHANGED <<nodeVars, storeVars, answers, watch, stopVars>>
  BY <1>2 DEF Disconnect, Task, IdInv, TaskInv
<1>4. /\ task \in Task
      /\ task.record = tasks[r].record
      /\ task.pc = tasks[r].pc
      /\ task.reply = tasks[r].reply
  BY <1>2 DEF Task
<1>5. /\ task.pc \in {"asking", "replied"}
      /\ task.pc = "replied" => task.reply \in SoundReply
  BY <1>1, <1>4 DEF IdInv, TaskInv, InFlight
<1> HIDE DEF task
<1> QED
  BY <1>1, <1>3, <1>4, <1>5, HandlerMoves

\* A handler that resumes and indexes its record (#settleAnchor, addRecord) keeps the
\* invariant: nobody else took its number during the await.
LEMMA SettleKeeps ==
    ASSUME IdInv, NEW r \in Requests, Settle(r)
    PROVE  IdInv'
<1> DEFINE record == Settled(tasks[r].record, tasks[r].reply)
<1>1. /\ tasks[r].pc = "replied"
      /\ InFlight(r)
      /\ AddRecord(record)
      /\ Respond(r, record, tasks[r].connected)
      /\ UNCHANGED <<nodeVars, processVars, watch, stopVars>>
  BY DEF Settle, InFlight
<1>2. Alive
  BY <1>1 DEF IdInv, LifeInv
<1>3. tasks[r].record \in Record /\ tasks[r].reply \in SoundReply
  BY <1>1 DEF IdInv, TaskInv
<1>4. /\ record \in Record
      /\ record.id = tasks[r].record.id
      /\ Ref(record) = Ref(tasks[r].record)
  BY <1>3, SettledTyped
<1> HIDE DEF record
<1>5. \A ref \in DOMAIN recs : ref[2] # record.id
  BY <1>1, <1>4 DEF IdInv, TaskInv
<1>6. /\ Node!TypeOK' /\ IndexInv' /\ WatchInv' /\ LogInv'
      /\ DOMAIN recs' = DOMAIN recs \cup {Ref(record)}
      /\ nextId =< nextId'
      /\ nextId \in Nat /\ nextId' \in Nat
      /\ blocks' = blocks
      /\ file' = file
  BY <1>1, <1>2, <1>4, <1>5, AddRecordKeeps DEF IdInv, IndexInv
<1>7. TaskInv'
  <2>1. tasks' \in [Requests -> Task] /\ Done \in Task
    BY <1>1 DEF IdInv, TaskInv, Respond, Done, Idle, Task
  <2>2. \A s \in Requests : InFlight(s)' => s # r /\ InFlight(s) /\ tasks'[s] = tasks[s]
    BY <1>1 DEF IdInv, TaskInv, InFlight, Respond, Done, Idle
  <2>3. Ref(record)[2] = tasks[r].record.id
    BY <1>4 DEF Ref
  <2>4. ASSUME NEW s \in Requests, InFlight(s)'
        PROVE  /\ tasks[s].record.id < nextId'
               /\ \A ref \in DOMAIN recs' : ref[2] # tasks[s].record.id
    <3>1. InFlight(s) /\ s # r /\ tasks[s].record.id \in Nat /\ tasks[s].record.id < nextId
      BY <2>2, <2>4 DEF IdInv, TaskInv, Record
    <3>2. tasks[s].record.id # tasks[r].record.id
      BY <1>1, <3>1 DEF IdInv, TaskInv
    <3> QED
      BY <1>6, <2>3, <3>1, <3>2 DEF IdInv, TaskInv
  <2> QED
    BY <2>1, <2>2, <2>4 DEF IdInv, TaskInv
<1>8. LifeInv'
  BY <1>1, <1>2, <1>6 DEF IdInv, LifeInv, Alive, processVars
<1>9. RestInv'
  <2>1. Answer(record) \in [ref : Nat \X Nat, accepted : BOOLEAN, status : RecordStatus]
    BY <1>4 DEF Answer, Ref, Record
  <2> QED
    BY <1>1, <2>1 DEF IdInv, RestInv, Respond, stopVars
<1> QED
  BY <1>6, <1>7, <1>8, <1>9 DEF IdInv

-----------------------------------------------------------------------------
(* Steps of the watcher *)

\* What holds of a record the watcher's tick has come to.
LEMMA OnTurnRecord ==
    ASSUME IdInv, NEW i \in watch.todo
    PROVE  /\ Alive
           /\ i \in 1..Len(order)
           /\ order[i] \in DOMAIN recs
           /\ recs[order[i]] \in Record
           /\ Ref(recs[order[i]]) = order[i]
           /\ recs[order[i]].anchor \in Anchor
<1>1. Alive
  BY DEF IdInv, LifeInv
<1>2. i \in 1..Len(order) /\ recs[order[i]].anchor \in Anchor
  BY DEF IdInv, WatchInv
<1> QED
  BY <1>1, <1>2 DEF IdInv, IndexInv

\* A step that changes the tick and nothing else.
LEMMA WatcherMoves ==
    ASSUME IdInv, Alive, WatchInv',
           UNCHANGED <<nodeVars, storeVars, taskVars, stopVars>>
    PROVE  IdInv'
<1>1. UNCHANGED <<nodeVars, order, recs, keys, nextId, blocks, logVars, processVars, tasks,
                  answers, stopVars>>
  BY DEF storeVars, indexVars, taskVars
<1>2. Node!TypeOK'
  BY <1>1 DEF IdInv, Node!TypeOK, nodeVars
<1>3. IndexInv' /\ RestInv'
  BY <1>1 DEF IdInv, IndexInv, RestInv, stopVars
<1>4. TaskInv'
  BY <1>1 DEF IdInv, TaskInv, InFlight
<1>5. LogInv'
  BY <1>1 DEF IdInv, LogInv, Log!TypeOK, logVars, processVars, Alive, OneRefPerId
<1>6. LifeInv'
  BY <1>1 DEF IdInv, LifeInv, Alive, logVars, processVars
<1> QED
  BY <1>2, <1>3, <1>4, <1>5, <1>6 DEF IdInv

\* The start of a watcher's tick keeps the invariant: it lists indexed, anchored records.
LEMMA TickKeeps ==
    ASSUME IdInv, Tick
    PROVE  IdInv'
<1>1. Alive /\ UNCHANGED <<nodeVars, storeVars, taskVars, stopVars>>
  BY DEF Tick, Alive
<1>2. \A i \in UnsettledAnchors(BatchSize) : i \in 1..Len(order) /\ recs[order[i]].anchor \in Anchor
  <2> SUFFICES ASSUME NEW i \in UnsettledAnchors(BatchSize)
               PROVE  i \in 1..Len(order) /\ recs[order[i]].anchor \in Anchor
    OBVIOUS
  <2>1. i \in DOMAIN order /\ recs[order[i]].anchor # Null
    BY DEF UnsettledAnchors, Unsettled
  <2>2. i \in 1..Len(order) /\ order[i] \in DOMAIN recs
    BY <2>1 DEF IdInv, IndexInv
  <2>3. recs[order[i]] \in Record
    BY <2>2 DEF IdInv, IndexInv
  <2> QED
    BY <2>1, <2>2, <2>3 DEF Record
<1>3. /\ watch' = [todo |-> UnsettledAnchors(BatchSize), reply |-> Null]
      /\ order' = order /\ recs' = recs
  BY DEF Tick, storeVars, indexVars
<1>4. UnsettledAnchors(BatchSize) \subseteq Nat
  BY <1>2
<1> HIDE DEF UnsettledAnchors
<1>5. WatchInv'
  BY <1>2, <1>3, <1>4 DEF WatchInv
<1> QED
  BY <1>1, <1>5, WatcherMoves

\* The CDCI node's reply to the watcher keeps the invariant.
LEMMA WatcherAnsweredKeeps ==
    ASSUME IdInv, NEW i \in watch.todo, WatcherAnswered(i)
    PROVE  IdInv'
<1> DEFINE record == recs[order[i]]
           reply == VerifyAnchor(record.commitment, record.anchor.txid)
<1>1. Alive /\ record.anchor.txid \in Txids
  BY OnTurnRecord DEF Anchor
<1>2. reply \in SoundReply
  BY <1>1, VerifyAnchorTyped DEF IdInv
<1>3. /\ watch' = [watch EXCEPT !.reply = reply]
      /\ UNCHANGED <<nodeVars, storeVars, taskVars, stopVars>>
      /\ order' = order /\ recs' = recs
  BY DEF WatcherAnswered, storeVars, indexVars
<1> HIDE DEF reply
<1>4. WatchInv'
  BY <1>2, <1>3 DEF IdInv, WatchInv
<1> QED
  BY <1>1, <1>3, <1>4, WatcherMoves

\* The watcher's update of a record (applyAnchor, updateRecord) keeps the invariant: its
\* log line belongs to a record that is indexed already.
LEMMA WatcherAppliesKeeps ==
    ASSUME IdInv, NEW i \in watch.todo, WatcherApplies(i)
    PROVE  IdInv'
<1> DEFINE old == recs[order[i]]
           record == ApplyAnchor(old, watch.reply.anchor)
<1>1. /\ watch' = [todo |-> watch.todo \ {i}, reply |-> Null]
      /\ UNCHANGED <<nodeVars, processVars, taskVars, stopVars>>
      /\ IF News(old, watch.reply) THEN UpdateRecord(record)
                                   ELSE UNCHANGED <<indexVars, logVars>>
  BY DEF WatcherApplies
<1>2. /\ Alive
      /\ order[i] \in DOMAIN recs
      /\ old \in Record
      /\ Ref(old) = order[i]
  BY OnTurnRecord
<1>3. watch.reply \in SoundReply
  BY DEF WatcherApplies, IdInv, WatchInv
<1>4. CASE ~News(old, watch.reply)
  <2>1. UNCHANGED <<nodeVars, storeVars, taskVars, stopVars>>
    BY <1>1, <1>4 DEF storeVars
  <2>2. WatchInv'
    BY <1>1, <2>1 DEF IdInv, WatchInv, storeVars, indexVars
  <2> QED
    BY <1>2, <2>1, <2>2, WatcherMoves
<1>5. CASE News(old, watch.reply)
  <2>1. watch.reply.anchor \in Anchor
    BY <1>3, <1>5 DEF News, SoundReply
  <2>2. /\ record \in Record
        /\ Ref(record) = order[i]
        /\ record.anchor \in Anchor
    BY <1>2, <2>1, ApplyAnchorTyped
  <2>3. UpdateRecord(record)
    BY <1>1, <1>5
  <2> HIDE DEF record, old
  <2>4. /\ recs' = [recs EXCEPT ![Ref(record)] = record]
        /\ UNCHANGED <<order, nextId, blocks>>
        /\ Log!Enqueue(UpdateEvent(record))
        /\ keys' \subseteq Keys
    BY <2>2, <2>3 DEF UpdateRecord, IdInv, IndexInv, Record
  <2>5. /\ IndexInv'
        /\ DOMAIN recs' = DOMAIN recs
        /\ recs'[order[i]] = record
        /\ \A ref \in DOMAIN recs : ref # order[i] => recs'[ref] = recs[ref]
    BY <1>2, <2>2, <2>4, RewriteKeeps DEF IdInv
  <2>6. Node!TypeOK'
    BY <1>1 DEF IdInv, Node!TypeOK, nodeVars
  <2>7. TaskInv'
    BY <1>1, <2>4, <2>5 DEF IdInv, TaskInv, InFlight, taskVars
  <2>8. WatchInv'
    <3>1. ASSUME NEW j \in watch.todo
          PROVE  j \in 1..Len(order) /\ recs'[order[j]].anchor \in Anchor
      <4>1. CASE order[j] = order[i]
        BY <2>2, <2>5, <4>1, OnTurnRecord
      <4>2. CASE order[j] # order[i]
        BY <2>5, <4>2, OnTurnRecord
      <4> QED
        BY <4>1, <4>2
    <3> QED
      BY <1>1, <2>4, <3>1 DEF IdInv, WatchInv
  <2>9. UpdateEvent(record) \in LinesOf(DOMAIN recs) /\ UpdateEvent(record).t # "record"
    BY <1>2, <2>2 DEF UpdateEvent, LinesOf, RecordEvent
  <2>10. /\ Log!TypeOK'
         /\ LogOf(RecordEvent, FirstOfItsId, file', queue')
         /\ LogOf(LinesOf(DOMAIN recs), FirstOfItsId, file', queue')
         /\ file' = file
    BY <1>2, <2>4, <2>9, EnqueueKeeps DEF IdInv
  <2>11. LogInv'
    BY <1>1, <1>2, <2>5, <2>10 DEF LogInv, Alive, processVars
  <2>12. LifeInv'
    BY <1>1, <1>2, <2>4, <2>10 DEF IdInv, LifeInv, Alive, processVars
  <2>13. RestInv'
    BY <1>1 DEF IdInv, RestInv, taskVars, stopVars
  <2> QED
    BY <2>5, <2>6, <2>7, <2>8, <2>11, <2>12, <2>13 DEF IdInv
<1> QED
  BY <1>4, <1>5

-----------------------------------------------------------------------------
(* Steps of the log and of the process *)

\* A log write, completed or failed, keeps the invariant.
LEMMA WriteStepKeeps ==
    ASSUME IdInv, WriteSucceeds \/ WriteFails
    PROVE  IdInv'
<1>1. /\ Alive
      /\ Log!WriteSucceeds \/ Log!WriteFails
      /\ UNCHANGED <<order, recs, keys, nextId, blocks, processVars, nodeVars, tasks, answers,
                     watch, signals>>
      /\ FlushCountsDown
  BY DEF WriteSucceeds, WriteFails, LogWriteSucceeds, LogWriteFails, indexVars, taskVars
<1>2. Node!TypeOK'
  BY <1>1 DEF IdInv, Node!TypeOK, nodeVars
<1>3. IndexInv' /\ WatchInv'
  BY <1>1 DEF IdInv, IndexInv, WatchInv
<1>4. TaskInv'
  BY <1>1 DEF IdInv, TaskInv, InFlight
<1>5. LogInv'
  <2>1. /\ Log!TypeOK
        /\ LogOf(RecordEvent, FirstOfItsId, file, queue)
        /\ LogOf(LinesOf(DOMAIN recs), FirstOfItsId, file, queue)
    BY <1>1 DEF IdInv, LogInv
  <2>2. /\ LogOf(RecordEvent, FirstOfItsId, file', queue')
        /\ LogOf(LinesOf(DOMAIN recs), FirstOfItsId, file', queue')
        /\ tail' \in Log!Tails
        /\ tail' = "unterminated" => file' # <<>>
    BY <1>1, <2>1, WriteKeeps
  <2>3. Log!TypeOK'
    BY <1>1, <2>1, <2>2, FaultsTyped, LogTypeFromLines DEF Log!TypeOK
  <2> QED
    BY <1>1, <2>2, <2>3 DEF LogInv, Alive, processVars
<1>6. LifeInv'
  BY <1>1 DEF IdInv, LifeInv, InFlight, Alive, processVars
<1>7. RestInv'
  BY <1>1 DEF IdInv, RestInv, FlushCountsDown
<1> QED
  BY <1>2, <1>3, <1>4, <1>5, <1>6, <1>7 DEF IdInv

\* The three steps of an orderly shutdown before the exit.
LEMMA ShutdownKeeps ==
    ASSUME IdInv, Signal \/ ServerCloses \/ SignalAgain
    PROVE  IdInv'
<1>1. /\ phase \in {"serving", "closing"} /\ phase' \in {"closing", "flushing"}
      /\ UNCHANGED <<nodeVars, order, recs, keys, nextId, blocks, logVars, run, replayed, tasks,
                     answers, watch>>
  BY DEF Signal, ServerCloses, SignalAgain, indexVars, taskVars
<1>2. run =< MaxStops
  BY DEF Signal, ServerCloses, SignalAgain, IdInv, LifeInv
<1>3. Alive /\ Alive'
  BY <1>1 DEF Alive
<1>4. Node!TypeOK'
  BY <1>1 DEF IdInv, Node!TypeOK, nodeVars
<1>5. IndexInv' /\ WatchInv'
  BY <1>1 DEF IdInv, IndexInv, WatchInv
<1>6. TaskInv'
  BY <1>1 DEF IdInv, TaskInv, InFlight
<1>7. LogInv'
  BY <1>1, <1>3 DEF IdInv, LogInv, Log!TypeOK, logVars
<1>8. LifeInv'
  BY <1>1, <1>2, <1>3 DEF IdInv, LifeInv, Phases
<1>9. RestInv'
  <2>1. signals' \in 0..2 /\ answers' = answers
    BY <1>1 DEF Signal, ServerCloses, SignalAgain, IdInv, RestInv
  <2>2. Len(queue) \in Nat
    BY DEF IdInv, LogInv, LogOf
  <2>3. flushLeft' \in Nat
    BY <2>2 DEF Signal, ServerCloses, SignalAgain, IdInv, RestInv
  <2> QED
    BY <2>1, <2>3 DEF IdInv, RestInv
<1> QED
  BY <1>4, <1>5, <1>6, <1>7, <1>8, <1>9 DEF IdInv

\* The process ends, by its own exit or killed: nothing but the file is left.
LEMMA EndKeeps ==
    ASSUME IdInv, Crash \/ Exit
    PROVE  IdInv'
<1>1. /\ Log!Die
      /\ IndexIsGone
      /\ HandlersAreGone
      /\ phase \in {"replaying", "serving", "closing", "flushing"}
      /\ phase' \in {"exited", "dead"}
      /\ UNCHANGED <<nodeVars, answers, run, replayed>>
  BY DEF Crash, Exit, Killed, Exits, IdInv, LifeInv, Phases
<1>2. run =< MaxStops
  BY DEF Crash, Killed, Exit, IdInv, LifeInv
<1>3. ~Alive'
  BY <1>1 DEF Alive
<1>4. Node!TypeOK'
  BY <1>1 DEF IdInv, Node!TypeOK, nodeVars
<1>5. IndexInv'
  BY <1>1 DEF IndexIsGone, IndexInv
<1>6. /\ tasks' \in [Requests -> Task]
      /\ \A r \in Requests : ~InFlight(r)'
  BY <1>1 DEF HandlersAreGone, IdInv, TaskInv, Task, Idle, InFlight
<1>7. TaskInv'
  BY <1>6 DEF TaskInv
<1>8. WatchInv'
  BY <1>1 DEF HandlersAreGone, NotTicking, WatchInv
<1>9. LogInv'
  <2>1. Log!TypeOK /\ LogOf(RecordEvent, FirstOfItsId, file, queue)
    BY DEF IdInv, LogInv
  <2>2. /\ LogOf(RecordEvent, FirstOfItsId, file', queue')
        /\ queue' = <<>>
        /\ tail' \in Log!Tails
        /\ tail' = "unterminated" => file' # <<>>
    BY <1>1, <2>1, DieKeeps
  <2>3. Log!TypeOK'
    BY <1>1, <2>1, <2>2, FaultsTyped, LogTypeFromLines DEF Log!TypeOK
  <2>4. OneRefPerId(file')
    <3>1. CASE Alive
      <4>1. LogOf(LinesOf(DOMAIN recs), FirstOfItsId, file', queue')
        BY <1>1, <2>1, <3>1, DieKeeps DEF IdInv, LogInv
      <4> QED
        BY <4>1, IndexTellsLinesApart DEF IdInv
    <3>2. CASE ~Alive
      BY <1>1, <3>2 DEF IdInv, LogInv, Log!Die
    <3> QED
      BY <3>1, <3>2
  <2> QED
    BY <1>3, <2>2, <2>3, <2>4 DEF LogInv
<1>10. LifeInv'
  <2>1. recs' = <<>> /\ order' = <<>> /\ blocks' = <<>> /\ watch'.todo = {}
    BY <1>1 DEF IndexIsGone, HandlersAreGone, NotTicking
  <2> QED
    BY <1>1, <1>2, <1>6, <2>1 DEF IdInv, LifeInv, Phases
<1>11. RestInv'
  BY <1>1 DEF IdInv, RestInv, HandlersAreGone
<1> QED
  BY <1>4, <1>5, <1>7, <1>8, <1>9, <1>10, <1>11 DEF IdInv

\* The start of a process on a readable log keeps the invariant.
LEMMA RestartKeeps ==
    ASSUME IdInv, Restart
    PROVE  IdInv'
<1>1. /\ phase \in {"exited", "dead"} /\ phase' = "replaying"
      /\ run' = run + 1 /\ replayed' = 0
      /\ UNCHANGED <<order, recs, keys, nextId, blocks, logVars, nodeVars, tasks, answers, watch,
                     stopVars>>
  BY DEF Restart, Start, indexVars, taskVars
<1>2. ~Alive /\ ~Alive'
  BY <1>1 DEF Alive
<1>3. Node!TypeOK'
  BY <1>1 DEF IdInv, Node!TypeOK, nodeVars
<1>4. IndexInv' /\ WatchInv' /\ RestInv'
  BY <1>1 DEF IdInv, IndexInv, WatchInv, RestInv, stopVars
<1>5. TaskInv'
  BY <1>1 DEF IdInv, TaskInv, InFlight
<1>6. LogInv'
  BY <1>1, <1>2 DEF IdInv, LogInv, Log!TypeOK, OneRefPerId, logVars
<1>7. LifeInv'
  <2>1. run' \in 1..MaxStops + 1
    BY <1>1, StoreAssumption DEF IdInv, LifeInv, StoreAssumption
  <2>2. /\ replayed' =< Len(file')
        /\ DOMAIN recs' = {Ref(file'[k].record) : k \in 1..replayed'}
    <3>1. Len(file) \in Nat /\ file' = file
      BY <1>1 DEF IdInv, LogInv, LogOf, logVars
    <3>2. DOMAIN recs' = {}
      BY <1>1 DEF IdInv, LifeInv
    <3> QED
      BY <1>1, <3>1, <3>2
  <2>3. \A r \in Requests : ~InFlight(r)'
    BY <1>1, <1>2 DEF IdInv, LifeInv, InFlight
  <2> QED
    BY <1>1, <1>2, <2>1, <2>2, <2>3 DEF IdInv, LifeInv, Phases
<1> QED
  BY <1>3, <1>4, <1>5, <1>6, <1>7 DEF IdInv

\* A replayed line: a record that is new to the index, or a new value of one.
LEMMA ReplayLineIndexes ==
    ASSUME IdInv, ReplayLine
    PROVE  /\ IndexInv'
           /\ DOMAIN recs' = DOMAIN recs \cup {Ref(file[replayed + 1].record)}
           /\ blocks' = blocks
<1> DEFINE event == file[replayed + 1]
<1>1. /\ phase = "replaying"
      /\ replayed \in Nat /\ replayed + 1 \in 1..Len(file)
      /\ \A k \in 1..replayed : k \in 1..Len(file) /\ k < replayed + 1
      /\ DOMAIN recs = {Ref(file[k].record) : k \in 1..replayed}
  BY DEF ReplayLine, IdInv, LifeInv, LogInv, LogOf
<1>2. /\ event \in RecordEvent
      /\ \A k \in 1..Len(file) : file[k] \in RecordEvent
  BY <1>1, ElementOfSequence DEF IdInv, LogInv, LogOf
<1>3. /\ event.t \in {"record", "record-update"}
      /\ event.record \in Record
      /\ Ref(event.record)[2] = event.record.id
      /\ \A k \in 1..Len(file) : Ref(file[k].record)[2] = file[k].record.id
  BY <1>2 DEF RecordEvent, Ref
<1>4. \A k \in 1..replayed : <<file[k], event>> \in FirstOfItsId
  BY <1>1 DEF IdInv, LogInv, LogOf, Related
<1>5. OneRefPerId(file)
  BY <1>1 DEF IdInv, LogInv, Alive
<1>6. CASE IndexRecord(event.record) /\ \A ref \in DOMAIN recs : ref[2] # event.record.id
  BY <1>3, <1>6, IndexRecordKeeps DEF IdInv
<1>7. CASE event.t = "record"
  <2>1. IndexRecord(event.record)
    BY <1>7 DEF ReplayLine
  <2>2. \A k \in 1..replayed : file[k].record.id # event.record.id
    BY <1>4, <1>7 DEF FirstOfItsId
  <2>3. \A ref \in DOMAIN recs : ref[2] # event.record.id
    BY <1>1, <1>3, <2>2
  <2> QED
    BY <1>6, <2>1, <2>3
<1>8. CASE event.t = "record-update"
  <2>1. ApplyUpdate(event.record)
    BY <1>8 DEF ReplayLine
  <2>2. CASE Indexed(Ref(event.record))
    <3>1. /\ recs' = [recs EXCEPT ![Ref(event.record)] = event.record]
          /\ UNCHANGED <<order, keys, nextId, blocks>>
          /\ Ref(event.record) \in DOMAIN recs
      BY <2>1, <2>2 DEF ApplyUpdate, Indexed
    <3>2. keys' \subseteq Keys
      BY <3>1 DEF IdInv, IndexInv
    <3> HIDE DEF event
    <3>3. IndexInv' /\ DOMAIN recs' = DOMAIN recs
      BY <1>3, <3>1, <3>2, RewriteKeeps DEF IdInv
    <3> QED
      BY <3>1, <3>3 DEF event
  <2>3. CASE ~Indexed(Ref(event.record))
    <3>1. IndexRecord(event.record)
      BY <2>1, <2>3 DEF ApplyUpdate
    <3>2. \A k \in 1..replayed : Ref(file[k].record) # Ref(event.record)
      BY <1>1, <2>3 DEF Indexed
    <3>3. \A k \in 1..replayed : file[k].record.id # event.record.id
      BY <1>1, <1>5, <3>2 DEF OneRefPerId
    <3>4. \A ref \in DOMAIN recs : ref[2] # event.record.id
      BY <1>1, <1>3, <3>3
    <3> QED
      BY <1>6, <3>1, <3>4
  <2> QED
    BY <2>2, <2>3
<1> QED
  BY <1>3, <1>7, <1>8

\* Each turn of replay(), and its end, keeps the invariant.
LEMMA ReplayKeeps ==
    ASSUME IdInv, Replay
    PROVE  IdInv'
<1>1. /\ phase = "replaying"
      /\ ~Alive
      /\ UNCHANGED <<nodeVars, logVars, run, tasks, answers, watch, stopVars>>
  BY DEF Replay, ReplayLine, ReplayDone, Alive, taskVars
<1>2. /\ watch.todo = {}
      /\ \A r \in Requests : ~InFlight(r) /\ ~InFlight(r)'
  BY <1>1 DEF IdInv, LifeInv, InFlight
<1>3. Node!TypeOK'
  BY <1>1 DEF IdInv, Node!TypeOK, nodeVars
<1>4. TaskInv' /\ WatchInv' /\ RestInv'
  BY <1>1, <1>2 DEF IdInv, TaskInv, WatchInv, RestInv, stopVars
<1>5. CASE ReplayLine
  <2>1. /\ phase' = phase
        /\ replayed' = replayed + 1
        /\ replayed < Len(file)
        /\ file' = file
    BY <1>1, <1>5 DEF ReplayLine, logVars
  <2>2. /\ replayed \in Nat /\ Len(file) \in Nat
        /\ DOMAIN recs = {Ref(file[k].record) : k \in 1..replayed}
    BY <1>1 DEF IdInv, LifeInv, LogInv, LogOf
  <2>3. DOMAIN recs' = {Ref(file'[k].record) : k \in 1..replayed'}
    BY <1>5, <2>1, <2>2, ReplayLineIndexes
  <2>4. LogInv'
    BY <1>1, <2>1 DEF IdInv, LogInv, Log!TypeOK, Alive, OneRefPerId, logVars
  <2>5. LifeInv'
    BY <1>1, <1>2, <1>5, <2>1, <2>2, <2>3, ReplayLineIndexes DEF IdInv, LifeInv
  <2> QED
    BY <1>3, <1>4, <1>5, <2>4, <2>5, ReplayLineIndexes DEF IdInv
<1>6. CASE ReplayDone
  <2>1. /\ phase' = "serving"
        /\ replayed = Len(file)
        /\ UNCHANGED <<order, recs, keys, nextId, blocks, replayed>>
    BY <1>6 DEF ReplayDone, indexVars
  <2>2. IndexInv'
    BY <2>1 DEF IdInv, IndexInv
  <2>3. LogOf(LinesOf(DOMAIN recs), FirstOfItsId, file, queue)
    <3>1. /\ LogOf(RecordEvent, FirstOfItsId, file, queue)
          /\ queue = <<>>
          /\ DOMAIN recs = {Ref(file[k].record) : k \in 1..Len(file)}
      BY <1>1, <2>1 DEF IdInv, LogInv, LifeInv
    <3>2. \A k \in 1..Len(file) : file[k] \in LinesOf(DOMAIN recs)
      BY <3>1, ElementOfSequence DEF LogOf, LinesOf
    <3>3. file \in Seq(LinesOf(DOMAIN recs))
      BY <3>1, <3>2 DEF LogOf
    <3> QED
      BY <3>1, <3>3 DEF LogOf, Related
  <2>4. LogInv'
    BY <1>1, <2>1, <2>3 DEF IdInv, LogInv, Log!TypeOK, Alive, logVars
  <2>5. LifeInv'
    BY <1>1, <1>2, <2>1 DEF IdInv, LifeInv, Phases, Alive
  <2> QED
    BY <1>3, <1>4, <2>2, <2>4, <2>5 DEF IdInv
<1> QED
  BY <1>5, <1>6 DEF Replay

\* What the CDCI node and its miners do keeps the invariant.
LEMMA OutsideKeeps ==
    ASSUME IdInv, Outside
    PROVE  IdInv'
<1>1. UNCHANGED <<order, recs, keys, nextId, blocks, logVars, processVars, tasks, answers,
                  watch, stopVars>>
  BY DEF Outside, storeVars, indexVars, taskVars
<1>2. Node!TypeOK'
  BY NodeStepTyped DEF IdInv, Outside
<1>3. IndexInv' /\ WatchInv' /\ RestInv'
  BY <1>1 DEF IdInv, IndexInv, WatchInv, RestInv, stopVars
<1>4. TaskInv'
  BY <1>1 DEF IdInv, TaskInv, InFlight
<1>5. LogInv'
  BY <1>1 DEF IdInv, LogInv, Log!TypeOK, logVars, processVars, Alive, OneRefPerId
<1>6. LifeInv'
  BY <1>1 DEF IdInv, LifeInv, InFlight, Alive, logVars, processVars
<1> QED
  BY <1>2, <1>3, <1>4, <1>5, <1>6 DEF IdInv

\* A step that changes nothing keeps the invariant.
LEMMA StutterKeeps ==
    ASSUME IdInv, UNCHANGED vars
    PROVE  IdInv'
<1>1. UNCHANGED <<nodeVars, order, recs, keys, nextId, blocks, logVars, processVars, tasks,
                  answers, watch, stopVars>>
  BY DEF vars, storeVars, indexVars, taskVars
<1>2. Node!TypeOK'
  BY <1>1 DEF IdInv, Node!TypeOK, nodeVars
<1>3. IndexInv' /\ WatchInv' /\ RestInv'
  BY <1>1 DEF IdInv, IndexInv, WatchInv, RestInv, stopVars
<1>4. TaskInv'
  BY <1>1 DEF IdInv, TaskInv, InFlight
<1>5. LogInv'
  BY <1>1 DEF IdInv, LogInv, Log!TypeOK, logVars, processVars, Alive, OneRefPerId
<1>6. LifeInv'
  BY <1>1 DEF IdInv, LifeInv, InFlight, Alive, logVars, processVars
<1> QED
  BY <1>2, <1>3, <1>4, <1>5, <1>6 DEF IdInv

-----------------------------------------------------------------------------
(* Theorems *)

\* The invariant is inductive: every action of Next keeps it.
THEOREM IdInvariant == Spec => []IdInv
<1>1. Init => IdInv
  BY InitHolds
<1>2. IdInv /\ [Next]_vars => IdInv'
  <2> SUFFICES ASSUME IdInv, [Next]_vars PROVE IdInv'
    OBVIOUS
  <2>1. CASE Handlers
    BY <2>1, ReceiveRejectedKeeps, ReceiveAdmissibleKeeps, NodeAnswersKeeps, SettleKeeps,
       DisconnectKeeps DEF Handlers
  <2>2. CASE Watcher
    BY <2>2, TickKeeps, WatcherAnsweredKeeps, WatcherAppliesKeeps DEF Watcher
  <2>3. CASE Lifecycle
    BY <2>3, ShutdownKeeps, EndKeeps, WriteStepKeeps, RestartKeeps, ReplayKeeps DEF Lifecycle
  <2>4. CASE Outside
    BY <2>4, OutsideKeeps
  <2>5. CASE UNCHANGED vars
    BY <2>5, StutterKeeps
  <2> QED
    BY <2>1, <2>2, <2>3, <2>4, <2>5 DEF Next
<1> QED
  BY <1>1, <1>2, PTL DEF Spec

\* Every variable has its type in every reachable state.
THEOREM TypeCorrect == Spec => []TypeOK
<1>1. IdInv => TypeOK
  <2> SUFFICES ASSUME IdInv PROVE TypeOK
    OBVIOUS
  <2>1. Node!TypeOK /\ Log!TypeOK
    BY DEF IdInv, LogInv
  <2>2. /\ order \in Seq(Nat \X Nat)
        /\ DOMAIN recs \subseteq Nat \X Nat
        /\ \A ref \in DOMAIN recs : recs[ref] \in Record
        /\ keys \subseteq Keys
        /\ nextId \in Nat
    BY DEF IdInv, IndexInv
  <2>3. /\ blocks = <<>>
        /\ phase \in Phases
        /\ run \in 1..MaxStops + 1
        /\ replayed \in Nat
        /\ phase = "replaying" => replayed =< Len(file)
    BY DEF IdInv, LifeInv
  <2>4. /\ tasks \in [Requests -> Task]
        /\ watch \in [todo : SUBSET Nat, reply : Reply \cup {Null}]
    BY DEF IdInv, TaskInv, WatchInv, SoundReply
  <2>5. RestInv
    BY DEF IdInv
  <2> QED
    BY <2>1, <2>2, <2>3, <2>4, <2>5 DEF TypeOK, RestInv
<1> QED
  BY <1>1, IdInvariant, PTL

\* An ID-number names one record, however the handlers interleave and wherever
\* the process is stopped and its writes fail.
THEOREM IdsAreUnique == Spec => []IdNamesOneRecord
<1>1. IdInv => IdNamesOneRecord
  BY DEF IdInv, IndexInv, TaskInv, IdNamesOneRecord
<1> QED
  BY <1>1, IdInvariant, PTL

-----------------------------------------------------------------------------
(* Where records come from *)

\* The lines about a set of records.
LinesAbout(G) == {event \in RecordEvent : event.record \in G}

\* Every record of the index, of the file, and of the lines that wait is in G.
Stored(G) ==
    /\ \A ref \in DOMAIN recs : recs[ref] \in G
    /\ file \in Seq(LinesAbout(G))
    /\ queue \in Seq(LinesAbout(G))

\* The three ways a record comes into being, or changes.
Writes(record) ==
    \/ \E r \in Requests :
         /\ ReceiveRejected(r)
         /\ record = CreateRecord(nextId, run, Submission[r], PolicyRejection(Submission[r]))
    \/ \E r \in Requests :
         /\ Settle(r)
         /\ record = Settled(tasks[r].record, tasks[r].reply)
    \/ \E i \in watch.todo :
         /\ WatcherApplies(i)
         /\ News(recs[order[i]], watch.reply)
         /\ record = ApplyAnchor(recs[order[i]], watch.reply.anchor)

\* A record that joins the index or takes the place of one, and its line.
LEMMA StoredAfterEnqueue ==
    ASSUME NEW G, Stored(G), NEW record \in Record, record \in G,
           NEW event \in RecordEvent, event.record = record, Log!Enqueue(event),
           \/ recs' = With(recs, Ref(record), record)
           \/ recs' = [recs EXCEPT ![Ref(record)] = record]
    PROVE  Stored(G)'
<1>1. \A ref \in DOMAIN recs' : recs'[ref] \in G
  BY DEF Stored, With
<1>2. file' = file /\ (queue' = Append(queue, event) \/ queue' = queue)
  BY DEF Log!Enqueue
<1>3. event \in LinesAbout(G)
  BY DEF LinesAbout
<1>4. queue' \in Seq(LinesAbout(G))
  BY <1>2, <1>3, AppendToSequence DEF Stored
<1> QED
  BY <1>1, <1>2, <1>4 DEF Stored

\* A step that leaves the records and the log alone.
LEMMA StoredUnchanged ==
    ASSUME NEW G, Stored(G), UNCHANGED <<recs, file, queue>>
    PROVE  Stored(G)'
  BY DEF Stored

\* The lines as a log.
LEMMA StoredIsLog ==
    ASSUME NEW G, Stored(G), IdInv
    PROVE  LogOf(LinesAbout(G), FirstOfItsId, file, queue)
  BY DEF Stored, IdInv, LogInv, LogOf

\* A step of a handler.
LEMMA StoredByHandlers ==
    ASSUME IdInv, Handlers, NEW G, Stored(G),
           \A record \in Record : Writes(record) => record \in G
    PROVE  Stored(G)'
<1>1. PICK r \in Requests :
        \/ ReceiveRejected(r) \/ ReceiveAdmissible(r) \/ NodeAnswers(r)
        \/ Settle(r) \/ Disconnect(r)
  BY DEF Handlers
<1>2. CASE ReceiveRejected(r)
  <2> DEFINE reason == PolicyRejection(Submission[r])
             record == CreateRecord(nextId, run, Submission[r], reason)
  <2>1. /\ nextId \in Nat /\ run \in Nat
        /\ Submission[r] \in Submissions
        /\ reason \in RejectionReasons \cup {Null}
    BY ExplorerAssumption, StoreAssumption
       DEF IdInv, IndexInv, LifeInv, ExplorerAssumption, StoreAssumption, PolicyRejection,
           RejectionReasons
  <2>2. record \in Record
    BY <2>1, CreateRecordTyped
  <2>3. record \in G
    BY <1>2, <2>2 DEF Writes
  <2>4. AddRecord(record)
    BY <1>2 DEF ReceiveRejected
  <2> HIDE DEF record
  <2>5. [t |-> "record", record |-> record] \in RecordEvent
    BY <2>2 DEF RecordEvent
  <2> QED
    BY <2>2, <2>3, <2>4, <2>5, StoredAfterEnqueue DEF AddRecord, IndexRecord
<1>3. CASE Settle(r)
  <2> DEFINE record == Settled(tasks[r].record, tasks[r].reply)
  <2>1. tasks[r].record \in Record /\ tasks[r].reply \in SoundReply
    BY <1>3 DEF Settle, InFlight, IdInv, TaskInv
  <2>2. record \in Record
    BY <2>1, SettledTyped
  <2>3. record \in G
    BY <1>3, <2>2 DEF Writes
  <2>4. AddRecord(record)
    BY <1>3 DEF Settle
  <2> HIDE DEF record
  <2>5. [t |-> "record", record |-> record] \in RecordEvent
    BY <2>2 DEF RecordEvent
  <2> QED
    BY <2>2, <2>3, <2>4, <2>5, StoredAfterEnqueue DEF AddRecord, IndexRecord
<1>4. CASE ReceiveAdmissible(r) \/ NodeAnswers(r) \/ Disconnect(r)
  <2>1. UNCHANGED <<recs, file, queue>>
    BY <1>4 DEF ReceiveAdmissible, NodeAnswers, Disconnect, storeVars, indexVars, logVars
  <2> QED
    BY <2>1, StoredUnchanged
<1> QED
  BY <1>1, <1>2, <1>3, <1>4

\* A step of the watcher.
LEMMA StoredByWatcher ==
    ASSUME IdInv, Watcher, NEW G, Stored(G),
           \A record \in Record : Writes(record) => record \in G
    PROVE  Stored(G)'
<1>1. CASE UNCHANGED <<recs, file, queue>>
  BY <1>1, StoredUnchanged
<1>2. ASSUME NEW i \in watch.todo, WatcherApplies(i), News(recs[order[i]], watch.reply)
      PROVE  Stored(G)'
  <2> DEFINE record == ApplyAnchor(recs[order[i]], watch.reply.anchor)
  <2>1. recs[order[i]] \in Record
    BY OnTurnRecord
  <2>2. watch.reply.anchor \in Anchor
    BY <1>2 DEF WatcherApplies, News, IdInv, WatchInv, SoundReply
  <2>3. record \in Record
    BY <2>1, <2>2, ApplyAnchorTyped
  <2>4. record \in G
    BY <1>2, <2>3 DEF Writes
  <2>5. UpdateRecord(record)
    BY <1>2 DEF WatcherApplies
  <2> HIDE DEF record
  <2>6. UpdateEvent(record) \in RecordEvent /\ UpdateEvent(record).record = record
    BY <2>3 DEF UpdateEvent, RecordEvent
  <2> QED
    BY <2>3, <2>4, <2>5, <2>6, StoredAfterEnqueue DEF UpdateRecord
<1>3. ASSUME NEW i \in watch.todo, WatcherApplies(i), ~News(recs[order[i]], watch.reply)
      PROVE  UNCHANGED <<recs, file, queue>>
  BY <1>3 DEF WatcherApplies, indexVars, logVars
<1>4. ASSUME NEW i \in watch.todo, WatcherAnswered(i)
      PROVE  UNCHANGED <<recs, file, queue>>
  BY <1>4 DEF WatcherAnswered, storeVars, indexVars, logVars
<1>5. Tick => UNCHANGED <<recs, file, queue>>
  BY DEF Tick, storeVars, indexVars, logVars
<1> QED
  BY <1>1, <1>2, <1>3, <1>4, <1>5 DEF Watcher

\* A step of the log or of the process: the records it loses or reads back are
\* those that were stored.
LEMMA StoredByLifecycle ==
    ASSUME IdInv, Lifecycle, NEW G, Stored(G)
    PROVE  Stored(G)'
<1>1. CASE Signal \/ ServerCloses \/ SignalAgain \/ Restart
  <2>1. UNCHANGED <<recs, file, queue>>
    BY <1>1 DEF Signal, ServerCloses, SignalAgain, Restart, Start, indexVars, logVars
  <2> QED
    BY <2>1, StoredUnchanged
<1>2. Log!TypeOK /\ LogOf(LinesAbout(G), FirstOfItsId, file, queue)
  BY StoredIsLog DEF IdInv, LogInv
<1>3. CASE WriteSucceeds \/ WriteFails
  <2>1. recs' = recs /\ (Log!WriteSucceeds \/ Log!WriteFails)
    BY <1>3 DEF WriteSucceeds, WriteFails, LogWriteSucceeds, LogWriteFails, indexVars
  <2>2. LogOf(LinesAbout(G), FirstOfItsId, file', queue')
    BY <1>2, <2>1, WriteKeeps
  <2> QED
    BY <2>1, <2>2 DEF Stored, LogOf
<1>4. CASE Crash \/ Exit
  <2>1. recs' = <<>> /\ Log!Die
    BY <1>4 DEF Crash, Exit, Killed, Exits, IndexIsGone
  <2>2. LogOf(LinesAbout(G), FirstOfItsId, file', queue')
    BY <1>2, <2>1, DieKeeps
  <2> QED
    BY <2>1, <2>2 DEF Stored, LogOf
<1>5. CASE Replay /\ ReplayLine
  <2>1. /\ replayed + 1 \in 1..Len(file)
        /\ UNCHANGED logVars
    BY <1>5 DEF ReplayLine, IdInv, LifeInv, LogInv, LogOf
  <2> DEFINE event == file[replayed + 1]
  <2>2. event \in LinesAbout(G)
    BY <2>1, ElementOfSequence DEF Stored
  <2>3. event.record \in G /\ event.t \in {"record", "record-update"}
    BY <2>2 DEF LinesAbout, RecordEvent
  <2>4. \/ recs' = With(recs, Ref(event.record), event.record)
        \/ recs' = [recs EXCEPT ![Ref(event.record)] = event.record]
    BY <1>5, <2>3 DEF ReplayLine, ApplyUpdate, IndexRecord
  <2> HIDE DEF event
  <2>5. \A ref \in DOMAIN recs' : recs'[ref] \in G
    BY <2>3, <2>4 DEF Stored, With
  <2> QED
    BY <2>1, <2>5 DEF Stored, logVars
<1>6. CASE Replay /\ ReplayDone
  <2>1. UNCHANGED <<recs, file, queue>>
    BY <1>6 DEF ReplayDone, indexVars, logVars
  <2> QED
    BY <2>1, StoredUnchanged
<1> QED
  BY <1>1, <1>3, <1>4, <1>5, <1>6 DEF Lifecycle, Replay

\* Whatever happens, the records of the index and of the log are those that were
\* there before and those that the step wrote.
LEMMA OnlyWritten ==
    ASSUME IdInv, [Next]_vars, NEW G, Stored(G),
           \A record \in Record : Writes(record) => record \in G
    PROVE  Stored(G)'
<1>1. CASE Outside \/ UNCHANGED vars
  <2>1. UNCHANGED <<recs, file, queue>>
    BY <1>1 DEF Outside, vars, storeVars, indexVars, logVars
  <2> QED
    BY <2>1, StoredUnchanged
<1> QED
  BY <1>1, StoredByHandlers, StoredByWatcher, StoredByLifecycle DEF Next
-----------------------------------------------------------------------------
(* Anchors *)

\* What "final" assumes: a confirmation, and no reorganisation that deep.
FinalityHolds ==
    1 =< ConfirmationsForFinality /\ MaxReorgDepth < ConfirmationsForFinality

\* A block no reorganisation reaches any more.
Buried(height) ==
    /\ height \in 1..Len(chain)
    /\ height =< lockedHeight \/ ConfirmationsForFinality =< Len(chain) - height + 1

\* The anchors that, if they are settled, are where they say for good.
LastingAnchors ==
    {anchor \in Anchor :
       FinalityHolds /\ anchor.finality \in SettledFinality =>
         /\ anchor.confirmations >= 1
         /\ Buried(anchor.height)
         /\ chain[anchor.height].hash = anchor.block
         /\ anchor.txid \in chain[anchor.height].txs}

\* A confirmed record is confirmed by its own anchor, in the block of that anchor.
OwnAnchor(record) ==
    record.status = "confirmed" =>
      /\ Carries[record.anchor.txid] = record.commitment
      /\ record.blockHash = record.anchor.block
      /\ record.blockHeight = record.anchor.height

\* A settled anchor lasts, and confirms its record unless that was rejected.
FinalAnchor(record) ==
    record.anchor # Null =>
      /\ record.anchor \in LastingAnchors
      /\ FinalityHolds /\ record.anchor.finality \in SettledFinality =>
           record.status \in {"confirmed", "rejected"}

SoundRecords == {record \in Record : OwnAnchor(record) /\ FinalAnchor(record)}

\* The record as reserveRecordId() and createRecord left it.
NotYetSettled(record) ==
    /\ record.status = "pending"
    /\ record.anchor # Null => record.anchor.finality = "unknown"

\* A reply about this record's anchor, however old it is.
AboutAnchor(record, reply) ==
    reply.answered =>
      /\ reply.matched => Carries[reply.anchor.txid] = record.commitment
      /\ reply.anchor \in LastingAnchors

\* The reply a handler gets: none, unless its record has an anchor.
AboutRecord(record, reply) ==
    /\ reply.answered => record.anchor # Null
    /\ AboutAnchor(record, reply)

\* A suspended handler holds a fresh record, and in the end a reply about it.
HandlersAsk ==
    \A r \in Requests : InFlight(r) =>
      /\ NotYetSettled(tasks[r].record)
      /\ tasks[r].pc = "asking" => tasks[r].record.anchor # Null
      /\ tasks[r].pc = "replied" => AboutRecord(tasks[r].record, tasks[r].reply)

\* The reply the watcher holds is about the record it has come to.
WatcherAsks ==
    watch.reply # Null =>
      \A i \in watch.todo : OnTurn(i) => AboutAnchor(recs[order[i]], watch.reply)

AnchorInv ==
    /\ Stored(SoundRecords)
    /\ HandlersAsk
    /\ WatcherAsks

\* A sequence behind another one.
LEMMA StemAndBranch ==
    ASSUME NEW m \in Nat, NEW n \in Nat, NEW s, NEW t,
           s = [i \in 1..m |-> s[i]], t = [i \in 1..n |-> t[i]]
    PROVE  Len(s \o t) = m + n /\ \A i \in 1..m : (s \o t)[i] = s[i]
<1>1. s \in Seq({s[i] : i \in 1..m}) /\ Len(s) = m
  OBVIOUS
<1>2. t \in Seq({t[i] : i \in 1..n}) /\ Len(t) = n
  OBVIOUS
<1> QED
  BY <1>1, <1>2

\* The node keeps every anchor it has reported as settled.
LEMMA NodeKeepsLasting ==
    ASSUME Node!TypeOK, Node!Next
    PROVE  LastingAnchors \subseteq LastingAnchors'
<1> SUFFICES ASSUME NEW anchor \in Anchor, FinalityHolds,
                    Buried(anchor.height),
                    NEW block, block = chain[anchor.height]
             PROVE  /\ Buried(anchor.height)'
                    /\ chain'[anchor.height] = block
  BY DEF LastingAnchors
<1> DEFINE height == anchor.height
           B == [hash : 1..MaxBlocks, txs : SUBSET Txids]
<1>1. /\ chain \in Seq(B) /\ Len(chain) \in Nat
      /\ lockedHeight \in 0..Len(chain)
      /\ height \in 1..Len(chain)
      /\ height =< lockedHeight \/ ConfirmationsForFinality =< Len(chain) - height + 1
      /\ ConfirmationsForFinality \in Int
      /\ MaxReorgDepth \in Nat
      /\ mined \in Nat
  BY FinalityAssumption, NodeAssumption
     DEF Node!TypeOK, Buried, FinalityAssumption, NodeAssumption
<1> SUFFICES height \in 1..Len(chain') /\ chain'[height] = block
               /\ (height =< lockedHeight' \/ ConfirmationsForFinality =< Len(chain') - height + 1)
  BY DEF Buried
<1> HIDE DEF height, B
<1>2. block = chain[height]
  BY DEF height
<1>3. CASE UNCHANGED <<chain, lockedHeight>>
  BY <1>1, <1>2, <1>3
<1>4. ASSUME NEW txs \in SUBSET pool, Node!Mine(txs)
      PROVE  /\ height \in 1..Len(chain') /\ chain'[height] = block
             /\ height =< lockedHeight' \/ ConfirmationsForFinality =< Len(chain') - height + 1
  <2>1. [hash |-> mined + 1, txs |-> txs] \in B
    BY <1>1, <1>4, NodeAssumption DEF Node!Mine, Node!TypeOK, NodeAssumption, B
  <2>2. /\ Len(chain') = Len(chain) + 1
        /\ \A h \in 1..Len(chain) : chain'[h] = chain[h]
        /\ lockedHeight' = lockedHeight
    BY <1>1, <1>4, <2>1, AppendToSequence DEF Node!Mine
  <2> QED
    BY <1>1, <1>2, <2>2
<1>5. ASSUME NEW depth \in 1..MaxReorgDepth, Node!Reorg(depth)
      PROVE  /\ height \in 1..Len(chain') /\ chain'[height] = block
             /\ height =< lockedHeight' \/ ConfirmationsForFinality =< Len(chain') - height + 1
  <2> DEFINE base == Len(chain) - depth
  <2>1. /\ base \in Nat /\ depth \in Nat /\ depth >= 1
        /\ lockedHeight =< base
        /\ lockedHeight' = lockedHeight
    BY <1>1, <1>5 DEF Node!Reorg
  <2>2. height \in 1..base
    BY <1>1, <2>1 DEF FinalityHolds
  <2> DEFINE stem == SubSeq(chain, 1, base)
  <2>3. PICK branch :
          /\ chain' = stem \o branch
          /\ branch = [i \in 1..depth + 1 |-> branch[i]]
    <3> DEFINE Branch(txs, at) ==
                 [i \in 1..depth + 1 |->
                    [hash |-> mined + i, txs |-> IF i = at THEN txs ELSE {}]]
    <3>1. PICK kept \in SUBSET UNION {chain[h].txs : h \in base + 1 .. Len(chain)} :
            \E txs \in SUBSET (pool \cup kept), at \in 1..depth + 1 : chain' = stem \o Branch(txs, at)
      BY <1>5 DEF Node!Reorg
    <3>2. PICK txs \in SUBSET (pool \cup kept), at \in 1..depth + 1 : chain' = stem \o Branch(txs, at)
      BY <3>1
    <3>3. Branch(txs, at) = [i \in 1..depth + 1 |-> Branch(txs, at)[i]]
      OBVIOUS
    <3> HIDE DEF Branch, stem
    <3> QED
      BY <3>2, <3>3
  <2>4. stem = [i \in 1..base |-> chain[i]]
    BY <1>1, <2>1
  <2>5. /\ Len(chain') = base + depth + 1
        /\ \A h \in 1..base : chain'[h] = chain[h]
    <3>1. stem = [i \in 1..base |-> stem[i]] /\ \A h \in 1..base : stem[h] = chain[h]
      BY <2>4
    <3> HIDE DEF stem
    <3>2. /\ Len(stem \o branch) = base + (depth + 1)
          /\ \A h \in 1..base : (stem \o branch)[h] = stem[h]
      BY <2>1, <2>3, <3>1, StemAndBranch
    <3> QED
      BY <2>1, <2>3, <3>1, <3>2
  <2> HIDE DEF base
  <2>6. Len(chain) = base + depth
    BY <1>1, <2>1 DEF base
  <2> QED
    BY <1>1, <1>2, <2>1, <2>2, <2>5, <2>6
<1>6. CASE Node!ChainLock
  BY <1>1, <1>2, <1>6 DEF Node!ChainLock
<1>7. ASSUME NEW txid \in Txids, Node!Broadcast(txid) \/ Node!Evict(txid)
      PROVE  UNCHANGED <<chain, lockedHeight>>
  BY <1>7 DEF Node!Broadcast, Node!Evict
<1>8. Node!Stop \/ Node!Resume => UNCHANGED <<chain, lockedHeight>>
  BY DEF Node!Stop, Node!Resume
<1> QED
  BY <1>3, <1>4, <1>5, <1>6, <1>7, <1>8 DEF Node!Next

\* The fields of a reply with an anchor.
LEMMA AnsweredFields ==
    ASSUME NEW reply, NEW matches, NEW anchor,
           reply = [answered |-> TRUE, found |-> TRUE, matched |-> matches, anchor |-> anchor]
    PROVE  reply.matched = matches /\ reply.anchor = anchor
  OBVIOUS

\* What the node replies is about the transaction it is asked for, and lasts if it
\* is settled.
LEMMA VerifyAnchorSound ==
    ASSUME Node!TypeOK, NEW commitment, NEW txid \in Txids
    PROVE  LET reply == VerifyAnchor(commitment, txid)
           IN  reply.answered =>
                 /\ reply.matched => Carries[reply.anchor.txid] = commitment
                 /\ reply.anchor \in LastingAnchors
<1>1. /\ chain \in Seq([hash : 1..MaxBlocks, txs : SUBSET Txids]) /\ Len(chain) \in Nat
      /\ lockedHeight \in 0..Len(chain)
      /\ ConfirmationsForFinality \in Int
  BY FinalityAssumption DEF Node!TypeOK, FinalityAssumption
<1>2. CASE ~answering
  BY <1>2 DEF VerifyAnchor, NoAnswer
<1>3. CASE answering /\ ~Node!Known(txid)
  <2>1. VerifyAnchor(commitment, txid) = Absent(txid)
    BY <1>3 DEF VerifyAnchor
  <2>2. UnverifiedAnchor(txid) \in LastingAnchors
    BY DEF UnverifiedAnchor, LastingAnchors, Anchor, Finality, SettledFinality
  <2> QED
    BY <2>1, <2>2 DEF Absent
<1>4. CASE answering /\ Node!Known(txid) /\ Node!InBlock(txid)
  <2> DEFINE height == Node!HeightOf(txid)
             anchor == MinedAnchor(txid, height)
  <2>1. height \in 1..Len(chain) /\ txid \in chain[height].txs
    BY <1>4 DEF Node!InBlock, Node!HeightOf
  <2>2. VerifyAnchor(commitment, txid)
          = [answered |-> TRUE, found |-> TRUE, matched |-> Carries[txid] = commitment,
             anchor |-> anchor]
    BY <1>4 DEF VerifyAnchor
  <2>3. anchor \in Anchor
    BY <2>2, VerifyAnchorTyped DEF SoundReply
  <2> HIDE DEF height
  <2>4. /\ anchor.txid = txid /\ anchor.height = height
        /\ anchor.block = chain[height].hash
        /\ anchor.confirmations = Len(chain) - height + 1
        /\ anchor.finality = FinalityOf(Len(chain) - height + 1, height =< lockedHeight)
    BY DEF MinedAnchor
  <2>5. anchor.finality \in SettledFinality =>
          height =< lockedHeight \/ ConfirmationsForFinality =< Len(chain) - height + 1
    BY <1>1, <2>1, <2>4 DEF FinalityOf, SettledFinality
  <2> HIDE DEF anchor
  <2>6. anchor \in LastingAnchors
    BY <1>1, <2>1, <2>3, <2>4, <2>5 DEF LastingAnchors, Buried
  <2>7. /\ VerifyAnchor(commitment, txid).matched = (Carries[txid] = commitment)
        /\ VerifyAnchor(commitment, txid).anchor = anchor
    BY <2>2, AnsweredFields
  <2> QED
    BY <2>4, <2>6, <2>7
<1>5. CASE answering /\ Node!Known(txid) /\ ~Node!InBlock(txid)
  <2>1. VerifyAnchor(commitment, txid)
          = [answered |-> TRUE, found |-> TRUE, matched |-> Carries[txid] = commitment,
             anchor |-> PooledAnchor(txid)]
    BY <1>5 DEF VerifyAnchor
  <2>2. PooledAnchor(txid) \in Anchor
    BY <2>1, VerifyAnchorTyped DEF SoundReply
  <2>3. /\ PooledAnchor(txid).finality = FinalityOf(0, FALSE)
        /\ PooledAnchor(txid).txid = txid
    BY DEF PooledAnchor, UnverifiedAnchor
  <2>4. FinalityHolds => FinalityOf(0, FALSE) \notin SettledFinality
    BY <1>1 DEF FinalityHolds, FinalityOf, SettledFinality
  <2>5. PooledAnchor(txid) \in LastingAnchors
    BY <2>2, <2>3, <2>4 DEF LastingAnchors
  <2>6. /\ VerifyAnchor(commitment, txid).matched = (Carries[txid] = commitment)
        /\ VerifyAnchor(commitment, txid).anchor = PooledAnchor(txid)
    BY <2>1, AnsweredFields
  <2> QED
    BY <2>3, <2>5, <2>6
<1> QED
  BY <1>2, <1>3, <1>4, <1>5

\* applyAnchor with an anchor that carries the record's commitment.
LEMMA ApplyAnchorSound ==
    ASSUME NEW record \in Record, NEW anchor \in LastingAnchors,
           Carries[anchor.txid] = record.commitment
    PROVE  ApplyAnchor(record, anchor) \in SoundRecords
<1> DEFINE applied == ApplyAnchor(record, anchor)
<1>1. anchor \in Anchor
  BY DEF LastingAnchors
<1>2. applied \in Record /\ applied.anchor = anchor
  BY <1>1, ApplyAnchorTyped
<1>3. /\ applied.commitment = record.commitment
      /\ record.status = "rejected" => applied.status = "rejected"
      /\ applied.status = "confirmed" =>
           applied.blockHeight = anchor.height /\ applied.blockHash = anchor.block
      /\ anchor.confirmations >= 1 /\ anchor.height # Null =>
           applied.status \in {"confirmed", "rejected"}
  BY DEF ApplyAnchor, Record
<1> HIDE DEF applied
<1>4. OwnAnchor(applied)
  BY <1>2, <1>3 DEF OwnAnchor
<1>5. FinalityHolds /\ anchor.finality \in SettledFinality =>
        anchor.confirmations >= 1 /\ anchor.height # Null
  BY NullAssumption DEF LastingAnchors, Buried, NullAssumption
<1>6. FinalAnchor(applied)
  BY <1>2, <1>3, <1>5 DEF FinalAnchor
<1> QED
  BY <1>2, <1>4, <1>6 DEF SoundRecords, applied

\* A record that is not confirmed and whose anchor is not settled.
LEMMA UnsettledSound ==
    ASSUME NEW record \in Record, record.status # "confirmed",
           record.anchor # Null => record.anchor.finality = "unknown"
    PROVE  record \in SoundRecords
  BY DEF SoundRecords, OwnAnchor, FinalAnchor, LastingAnchors, SettledFinality, Record

\* The verdict on a record, from a reply about that record.
LEMMA SettledSound ==
    ASSUME NEW record \in Record, NEW reply \in SoundReply,
           NotYetSettled(record), AboutRecord(record, reply)
    PROVE  Settled(record, reply) \in SoundRecords
<1> DEFINE reason == AnchorRejection(record, reply)
<1>1. reason \in RejectionReasons \cup {Null}
  BY DEF AnchorRejection, RejectionReasons
<1>2. CASE reason # Null
  <2>1. Settled(record, reply) = Reject(record, reason)
    BY <1>2 DEF Settled
  <2>2. Reject(record, reason) \in Record
    BY <1>1, <1>2, RejectTyped
  <2>3. /\ Reject(record, reason).status = "rejected"
        /\ Reject(record, reason).anchor = record.anchor
    BY DEF Reject, Record
  <2> QED
    BY <2>1, <2>2, <2>3, UnsettledSound DEF NotYetSettled
<1>3. CASE reason = Null /\ reply.answered
  <2>1. Settled(record, reply) = ApplyAnchor(record, reply.anchor)
    BY <1>3 DEF Settled
  <2>2. record.anchor # Null
    BY <1>3 DEF AboutRecord, AboutAnchor
  <2>3. reply.found /\ reply.matched
    BY <1>3, <2>2, NullAssumption DEF AnchorRejection, SoundReply, Reply, NullAssumption, RejectionReasons
  <2> QED
    BY <1>3, <2>1, <2>3, ApplyAnchorSound DEF AboutRecord, AboutAnchor
<1>4. CASE reason = Null /\ ~reply.answered
  <2>1. Settled(record, reply) = record
    BY <1>4 DEF Settled
  <2> QED
    BY <2>1, UnsettledSound DEF NotYetSettled
<1> QED
  BY <1>2, <1>3, <1>4

\* What is stored in G is stored in any larger set.
LEMMA StoredInMore ==
    ASSUME NEW G, NEW H, G \subseteq H, Stored(G)
    PROVE  Stored(H)
<1>1. LinesAbout(G) \subseteq LinesAbout(H)
  BY DEF LinesAbout
<1>2. Seq(LinesAbout(G)) \subseteq Seq(LinesAbout(H))
  BY <1>1
<1> QED
  BY <1>2 DEF Stored

\* Settled anchors are lost by no step.
LEMMA LastingStays ==
    ASSUME IdInv, [Next]_vars
    PROVE  LastingAnchors \subseteq LastingAnchors' /\ SoundRecords \subseteq SoundRecords'
<1>1. LastingAnchors \subseteq LastingAnchors'
  <2>1. CASE Outside
    BY <2>1, NodeKeepsLasting DEF Outside, IdInv
  <2>2. CASE ~Outside
    <3>1. UNCHANGED nodeVars
      BY <2>2 DEF Next, Handlers, ReceiveRejected, ReceiveAdmissible, NodeAnswers, Settle,
         Disconnect, Watcher, Tick, WatcherAnswered, WatcherApplies, Lifecycle, Signal,
         ServerCloses, SignalAgain, Exit, WriteSucceeds, WriteFails, Crash, Restart, Replay, vars
    <3> QED
      BY <3>1 DEF nodeVars, LastingAnchors, Buried
  <2> QED
    BY <2>1, <2>2
<1> QED
  BY <1>1 DEF SoundRecords, OwnAnchor, FinalAnchor

\* The records a step writes are sound.
LEMMA WritesSound ==
    ASSUME IdInv, AnchorInv, NEW record \in Record, Writes(record)
    PROVE  record \in SoundRecords
<1>1. CASE \E r \in Requests :
             /\ ReceiveRejected(r)
             /\ record = CreateRecord(nextId, run, Submission[r], PolicyRejection(Submission[r]))
  <2>1. PICK r \in Requests :
          /\ ReceiveRejected(r)
          /\ record = CreateRecord(nextId, run, Submission[r], PolicyRejection(Submission[r]))
    BY <1>1
  <2>2. PolicyRejection(Submission[r]) # Null
    BY <2>1 DEF ReceiveRejected
  <2>3. /\ record.status = "rejected"
        /\ record.anchor # Null => record.anchor.finality = "unknown"
    BY <2>1, <2>2 DEF CreateRecord, UnverifiedAnchor
  <2> QED
    BY <2>3, UnsettledSound
<1>2. CASE \E r \in Requests :
             /\ Settle(r)
             /\ record = Settled(tasks[r].record, tasks[r].reply)
  <2>1. PICK r \in Requests : Settle(r) /\ record = Settled(tasks[r].record, tasks[r].reply)
    BY <1>2
  <2>2. /\ tasks[r].pc = "replied" /\ InFlight(r)
        /\ tasks[r].record \in Record /\ tasks[r].reply \in SoundReply
    BY <2>1 DEF Settle, InFlight, IdInv, TaskInv
  <2>3. NotYetSettled(tasks[r].record) /\ AboutRecord(tasks[r].record, tasks[r].reply)
    BY <2>2 DEF AnchorInv, HandlersAsk
  <2> QED
    BY <2>1, <2>2, <2>3, SettledSound
<1>3. CASE \E i \in watch.todo :
             /\ WatcherApplies(i)
             /\ News(recs[order[i]], watch.reply)
             /\ record = ApplyAnchor(recs[order[i]], watch.reply.anchor)
  <2>1. PICK i \in watch.todo :
             /\ WatcherApplies(i)
             /\ News(recs[order[i]], watch.reply)
             /\ record = ApplyAnchor(recs[order[i]], watch.reply.anchor)
    BY <1>3
  <2>2. recs[order[i]] \in Record
    BY OnTurnRecord
  <2>3. AboutAnchor(recs[order[i]], watch.reply)
    BY <2>1 DEF WatcherApplies, AnchorInv, WatcherAsks
  <2>4. /\ watch.reply.anchor \in LastingAnchors
        /\ Carries[watch.reply.anchor.txid] = recs[order[i]].commitment
    BY <2>1, <2>3 DEF AboutRecord, AboutAnchor, News
  <2> QED
    BY <2>1, <2>2, <2>4, ApplyAnchorSound
<1> QED
  BY <1>1, <1>2, <1>3 DEF Writes

\* A handler ends with one record, whose number the index does not hold.
LEMMA HandlerAdds ==
    ASSUME IdInv, NEW r \in Requests, ReceiveRejected(r) \/ Settle(r)
    PROVE  \E record \in Record, connected \in BOOLEAN :
             /\ Writes(record)
             /\ AddRecord(record)
             /\ Respond(r, record, connected)
             /\ \A ref \in DOMAIN recs : ref[2] # record.id
             /\ Settle(r) => record = Settled(tasks[r].record, tasks[r].reply)
             /\ ReceiveRejected(r) =>
                  record = CreateRecord(nextId, run, Submission[r], PolicyRejection(Submission[r]))
<1>0. ~(ReceiveRejected(r) /\ Settle(r))
  BY DEF ReceiveRejected, Settle
<1>1. CASE ReceiveRejected(r)
  <2> DEFINE reason == PolicyRejection(Submission[r])
             record == CreateRecord(nextId, run, Submission[r], reason)
  <2>1. /\ nextId \in Nat /\ run \in Nat
        /\ Submission[r] \in Submissions
        /\ reason \in RejectionReasons \cup {Null}
    BY ExplorerAssumption, StoreAssumption
       DEF IdInv, IndexInv, LifeInv, ExplorerAssumption, StoreAssumption, PolicyRejection,
           RejectionReasons
  <2>2. record \in Record /\ record.id = nextId
    BY <2>1, CreateRecordTyped
  <2>3. \A ref \in DOMAIN recs : ref[2] # record.id
    BY <2>1, <2>2 DEF IdInv, IndexInv
  <2>4. AddRecord(record) /\ Respond(r, record, TRUE)
    BY <1>1 DEF ReceiveRejected
  <2>5. Writes(record)
    BY <1>1 DEF Writes
  <2> HIDE DEF record
  <2>6. record = CreateRecord(nextId, run, Submission[r], PolicyRejection(Submission[r]))
    BY DEF record
  <2> QED
    BY <1>0, <1>1, <2>2, <2>3, <2>4, <2>5, <2>6
<1>2. CASE Settle(r)
  <2> DEFINE record == Settled(tasks[r].record, tasks[r].reply)
  <2>1. /\ InFlight(r) /\ tasks[r] \in Task
        /\ tasks[r].record \in Record /\ tasks[r].reply \in SoundReply
    BY <1>2 DEF Settle, InFlight, IdInv, TaskInv
  <2>2. record \in Record /\ record.id = tasks[r].record.id
    BY <2>1, SettledTyped
  <2>3. \A ref \in DOMAIN recs : ref[2] # record.id
    BY <2>1, <2>2 DEF IdInv, TaskInv
  <2>4. /\ AddRecord(record) /\ Respond(r, record, tasks[r].connected)
        /\ tasks[r].connected \in BOOLEAN
    BY <1>2, <2>1 DEF Settle, Task
  <2>5. Writes(record)
    BY <1>2 DEF Writes
  <2> HIDE DEF record
  <2>6. record = Settled(tasks[r].record, tasks[r].reply)
    BY DEF record
  <2> QED
    BY <1>0, <1>2, <2>2, <2>3, <2>4, <2>5, <2>6
<1> QED
  BY <1>1, <1>2

\* A handler that goes on with the task it had.
LEMMA TaskStays ==
    ASSUME AnchorInv, LastingAnchors \subseteq LastingAnchors',
           NEW r \in Requests, InFlight(r), tasks'[r] = tasks[r]
    PROVE  /\ NotYetSettled(tasks[r].record)'
           /\ tasks'[r].pc = "asking" => tasks'[r].record.anchor # Null
           /\ tasks'[r].pc = "replied" => AboutRecord(tasks[r].record, tasks[r].reply)'
  BY DEF AnchorInv, HandlersAsk, AboutRecord, AboutAnchor, NotYetSettled

\* The handlers hold fresh records and replies about them.
LEMMA HandlersAskStill ==
    ASSUME IdInv, AnchorInv, [Next]_vars
    PROVE  HandlersAsk'
<1>1. LastingAnchors \subseteq LastingAnchors'
  BY LastingStays
<1>2. ASSUME NEW r \in Requests, ReceiveAdmissible(r)
      PROVE  HandlersAsk'
  <2> DEFINE record == CreateRecord(nextId, run, Submission[r], Null)
             asks == record.anchor # Null
             task == [pc |-> IF asks THEN "asking" ELSE "replied", connected |-> TRUE,
                      record |-> record, reply |-> IF asks THEN Null ELSE NoAnswer]
  <2>1. tasks' = [tasks EXCEPT ![r] = task]
    BY <1>2 DEF ReceiveAdmissible
  <2>2. NotYetSettled(record)
    BY DEF CreateRecord, UnverifiedAnchor, NotYetSettled
  <2> HIDE DEF record
  <2>3. /\ task.record = record
        /\ task.pc = "asking" => record.anchor # Null
        /\ task.pc = "replied" => ~task.reply.answered
    BY DEF NoAnswer
  <2> HIDE DEF task
  <2>4. /\ tasks'[r] = task
        /\ \A s \in Requests \ {r} : tasks'[s] = tasks[s] /\ (InFlight(s)' => InFlight(s))
    BY <2>1 DEF IdInv, TaskInv, InFlight
  <2>5. ASSUME NEW s \in Requests, InFlight(s)'
        PROVE  /\ NotYetSettled(tasks[s].record)'
               /\ tasks'[s].pc = "asking" => tasks'[s].record.anchor # Null
               /\ tasks'[s].pc = "replied" => AboutRecord(tasks[s].record, tasks[s].reply)'
    <3>1. CASE s = r
      BY <2>2, <2>3, <2>4, <3>1 DEF AboutRecord, AboutAnchor, NotYetSettled
    <3>2. CASE s # r
      BY <1>1, <2>4, <2>5, <3>2, TaskStays
    <3> QED
      BY <3>1, <3>2
  <2> QED
    BY <2>5 DEF HandlersAsk
<1>3. ASSUME NEW r \in Requests, NodeAnswers(r) \/ Disconnect(r)
      PROVE  HandlersAsk'
  <2>1. /\ InFlight(r)
        /\ tasks[r].record \in Record
        /\ tasks[r] \in Task
    BY <1>3 DEF NodeAnswers, Disconnect, InFlight, IdInv, TaskInv
  <2>2. /\ \A s \in Requests \ {r} : tasks'[s] = tasks[s] /\ (InFlight(s)' => InFlight(s))
        /\ tasks'[r].record = tasks[r].record
    BY <1>3, <2>1 DEF NodeAnswers, Disconnect, InFlight, IdInv, TaskInv, Task
  <2>3. tasks'[r].pc = "replied" => AboutRecord(tasks[r].record, tasks[r].reply)'
    <3>1. CASE NodeAnswers(r)
      <4>1. /\ tasks[r].pc = "asking"
            /\ tasks'[r].reply = VerifyAnchor(tasks[r].record.commitment,
                                              tasks[r].record.anchor.txid)
        BY <2>1, <3>1 DEF NodeAnswers, IdInv, TaskInv, Task
      <4>2. tasks[r].record.anchor \in Anchor
        BY <2>1, <4>1 DEF IdInv, TaskInv
      <4>3. tasks[r].record.anchor # Null /\ tasks[r].record.anchor.txid \in Txids
        BY <2>1, <4>1, <4>2 DEF AnchorInv, HandlersAsk, Anchor
      <4> QED
        BY <1>1, <2>2, <4>1, <4>3, VerifyAnchorSound DEF AboutRecord, AboutAnchor, IdInv
    <3>2. CASE Disconnect(r)
      <4>1. tasks'[r].reply = tasks[r].reply /\ tasks'[r].pc = tasks[r].pc
        BY <2>1, <3>2 DEF Disconnect, IdInv, TaskInv, Task
      <4> QED
        BY <1>1, <2>1, <2>2, <4>1 DEF AnchorInv, HandlersAsk, AboutRecord, AboutAnchor
    <3> QED
      BY <1>3, <3>1, <3>2
  <2>4. /\ NotYetSettled(tasks[r].record)'
        /\ tasks'[r].pc = "asking" => tasks'[r].record.anchor # Null
    BY <1>3, <2>1, <2>2
       DEF AnchorInv, HandlersAsk, NotYetSettled, NodeAnswers, Disconnect, IdInv, TaskInv, Task
  <2>5. ASSUME NEW s \in Requests, InFlight(s)'
        PROVE  /\ NotYetSettled(tasks[s].record)'
               /\ tasks'[s].pc = "asking" => tasks'[s].record.anchor # Null
               /\ tasks'[s].pc = "replied" => AboutRecord(tasks[s].record, tasks[s].reply)'
    <3>1. CASE s = r
      BY <2>3, <2>4, <3>1
    <3>2. CASE s # r
      BY <1>1, <2>2, <2>5, <3>2, TaskStays
    <3> QED
      BY <3>1, <3>2
  <2> QED
    BY <2>5 DEF HandlersAsk
<1>4. ASSUME \A s \in Requests : InFlight(s)' => InFlight(s) /\ tasks'[s] = tasks[s]
      PROVE  HandlersAsk'
  BY <1>1, <1>4, TaskStays DEF HandlersAsk
<1>5. ASSUME NEW r \in Requests, ReceiveRejected(r) \/ Settle(r)
      PROVE  \A s \in Requests : InFlight(s)' => InFlight(s) /\ tasks'[s] = tasks[s]
  BY <1>5 DEF ReceiveRejected, Settle, Respond, IdInv, TaskInv, InFlight, Done, Idle
<1>6. ASSUME Watcher \/ Lifecycle \/ Outside \/ UNCHANGED vars
      PROVE  \A s \in Requests : InFlight(s)' => InFlight(s) /\ tasks'[s] = tasks[s]
  <2>1. CASE Crash \/ Exit
    BY <2>1 DEF Crash, Exit, HandlersAreGone, InFlight, Idle
  <2>2. CASE ~(Crash \/ Exit)
    <3>1. tasks' = tasks
      BY <1>6, <2>2 DEF Watcher, Tick, WatcherAnswered, WatcherApplies, Lifecycle, Signal,
         ServerCloses, SignalAgain, WriteSucceeds, WriteFails, Restart, Replay, Outside, vars,
         taskVars
    <3> QED
      BY <3>1 DEF InFlight
  <2> QED
    BY <2>1, <2>2
<1> QED
  BY <1>2, <1>3, <1>4, <1>5, <1>6 DEF Next, Handlers

\* The watcher holds a reply about the record it has come to.
LEMMA WatcherAsksStill ==
    ASSUME IdInv, AnchorInv, [Next]_vars
    PROVE  WatcherAsks'
<1>1. LastingAnchors \subseteq LastingAnchors'
  BY LastingStays
<1>2. ASSUME watch' = watch,
             \A i \in watch.todo :
               order'[i] = order[i] /\ recs'[order[i]] = recs[order[i]]
      PROVE  WatcherAsks'
  BY <1>1, <1>2 DEF AnchorInv, WatcherAsks, AboutAnchor, OnTurn
<1>3. ASSUME watch'.reply = Null
      PROVE  WatcherAsks'
  BY <1>3 DEF WatcherAsks
<1>4. ASSUME NEW r \in Requests, ReceiveRejected(r) \/ Settle(r)
      PROVE  WatcherAsks'
  <2>1. PICK record \in Record : AddRecord(record) /\ \A ref \in DOMAIN recs : ref[2] # record.id
    BY <1>4, HandlerAdds
  <2>2. /\ \A ref \in DOMAIN recs : recs'[ref] = recs[ref]
        /\ \A i \in 1..Len(order) : order'[i] = order[i]
    BY <2>1, IndexRecordKeeps DEF IdInv, AddRecord
  <2>3. watch' = watch
    BY <1>4 DEF ReceiveRejected, Settle
  <2>4. \A i \in watch.todo : i \in 1..Len(order) /\ order[i] \in DOMAIN recs
    BY OnTurnRecord
  <2> QED
    BY <1>2, <2>2, <2>3, <2>4
<1>5. ASSUME NEW i \in watch.todo, WatcherAnswered(i)
      PROVE  WatcherAsks'
  <2> DEFINE record == recs[order[i]]
             reply == VerifyAnchor(record.commitment, record.anchor.txid)
  <2>1. record.anchor.txid \in Txids
    BY OnTurnRecord DEF Anchor
  <2>2. AboutAnchor(record, reply)
    BY <2>1, VerifyAnchorSound DEF AboutAnchor, IdInv
  <2>3. /\ watch' = [watch EXCEPT !.reply = reply]
        /\ OnTurn(i)
        /\ order' = order /\ recs' = recs
    BY <1>5 DEF WatcherAnswered, storeVars, indexVars
  <2> HIDE DEF reply
  <2>4. watch'.todo = watch.todo /\ watch'.reply = reply
    BY <2>3 DEF IdInv, WatchInv
  <2>5. ASSUME NEW j \in watch.todo, OnTurn(j)'
        PROVE  j = i
    BY <2>3, <2>4, <2>5 DEF OnTurn, IdInv, WatchInv
  <2>6. AboutAnchor(recs[order[i]], watch.reply)'
    BY <1>1, <2>2, <2>3, <2>4 DEF AboutAnchor
  <2> QED
    BY <2>4, <2>5, <2>6 DEF WatcherAsks
<1>6. CASE Handlers
  <2>1. ASSUME NEW r \in Requests, ReceiveAdmissible(r) \/ NodeAnswers(r) \/ Disconnect(r)
        PROVE  watch' = watch /\ order' = order /\ recs' = recs
    BY <2>1 DEF ReceiveAdmissible, NodeAnswers, Disconnect, storeVars, indexVars
  <2> QED
    BY <1>2, <1>4, <1>6, <2>1 DEF Handlers
<1>7. CASE Watcher
  <2>1. ASSUME Tick \/ \E i \in watch.todo : WatcherApplies(i)
        PROVE  watch'.reply = Null
    BY <2>1 DEF Tick, WatcherApplies
  <2> QED
    BY <1>3, <1>5, <1>7, <2>1 DEF Watcher
<1>8. CASE Lifecycle
  <2>1. CASE Crash \/ Exit
    BY <1>3, <2>1 DEF Crash, Exit, HandlersAreGone, NotTicking
  <2>2. CASE Replay
    <3>1. watch' = watch /\ phase = "replaying"
      BY <2>2 DEF Replay, ReplayLine, ReplayDone
    <3>2. watch.todo = {}
      BY <3>1 DEF IdInv, LifeInv, Alive
    <3> QED
      BY <1>2, <3>1, <3>2
  <2>3. CASE Signal \/ ServerCloses \/ SignalAgain \/ WriteSucceeds \/ WriteFails \/ Restart
    <3>1. watch' = watch /\ order' = order /\ recs' = recs
      BY <2>3 DEF Signal, ServerCloses, SignalAgain, WriteSucceeds, WriteFails, LogWriteSucceeds,
         LogWriteFails, Restart, Start, indexVars
    <3> QED
      BY <1>2, <3>1
  <2> QED
    BY <1>8, <2>1, <2>2, <2>3 DEF Lifecycle
<1>9. CASE Outside \/ UNCHANGED vars
  <2>1. watch' = watch /\ order' = order /\ recs' = recs
    BY <1>9 DEF Outside, vars, storeVars, indexVars
  <2> QED
    BY <1>2, <2>1
<1> QED
  BY <1>6, <1>7, <1>8, <1>9 DEF Next

\* Nothing is stored, asked or answered yet.
LEMMA InitAnchor == Init => AnchorInv
<1> SUFFICES ASSUME Init PROVE AnchorInv
  OBVIOUS
<1>1. recs = <<>> /\ file = <<>> /\ queue = <<>> /\ watch.reply = Null
  BY DEF Init, StoreInit, EmptyIndex, Log!Init, NotTicking
<1>2. Stored(SoundRecords)
  BY <1>1 DEF Stored
<1>3. \A r \in Requests : ~InFlight(r)
  BY DEF Init, Idle, InFlight
<1> QED
  BY <1>1, <1>2, <1>3 DEF AnchorInv, HandlersAsk, WatcherAsks

\* Every stored record rests on its own anchor, and a settled anchor on a block
\* that stays.
THEOREM AnchorInvariant == Spec => []AnchorInv
<1>1. IdInv /\ AnchorInv /\ [Next]_vars => AnchorInv'
  <2> SUFFICES ASSUME IdInv, AnchorInv, [Next]_vars PROVE AnchorInv'
    OBVIOUS
  <2>1. PICK sound : sound = SoundRecords
    OBVIOUS
  <2>2. Stored(sound)
    BY <2>1 DEF AnchorInv
  <2>3. \A record \in Record : Writes(record) => record \in sound
    BY <2>1, WritesSound
  <2>4. Stored(sound)'
    BY <2>2, <2>3, OnlyWritten
  <2>5. sound \subseteq SoundRecords'
    BY <2>1, LastingStays
  <2>6. Stored(SoundRecords)'
    <3>1. LinesAbout(sound) \subseteq LinesAbout(SoundRecords)'
      BY <2>5 DEF LinesAbout
    <3>2. Seq(LinesAbout(sound)) \subseteq Seq(LinesAbout(SoundRecords)')
      BY <3>1
    <3> QED
      BY <2>4, <2>5, <3>2 DEF Stored
  <2> QED
    BY <2>6, HandlersAskStill, WatcherAsksStill DEF AnchorInv
<1> QED
  BY <1>1, InitAnchor, IdInvariant, PTL DEF Spec

\* A confirmed record is confirmed by its own anchor, and shows its anchor's block.
THEOREM ConfirmedByAnchor == Spec => []ConfirmedByOwnAnchor
<1>1. AnchorInv => ConfirmedByOwnAnchor
  BY DEF AnchorInv, Stored, SoundRecords, OwnAnchor, ConfirmedByOwnAnchor
<1> QED
  BY <1>1, AnchorInvariant, PTL

\* A final anchor's record is confirmed in a block that is on the active chain.
THEOREM FinalStays == Spec => []FinalIsOnChain
<1>1. AnchorInv => FinalIsOnChain
  BY DEF AnchorInv, Stored, SoundRecords, OwnAnchor, FinalAnchor, LastingAnchors, Buried,
     FinalityHolds, FinalIsOnChain
<1> QED
  BY <1>1, AnchorInvariant, PTL

-----------------------------------------------------------------------------
(* Answers *)

\* What every client was told of the record with this reference is true of it.
AsAnswered(record) ==
    \A r \in Requests :
      answers[r] # Null /\ answers[r].ref = Ref(record) =>
        /\ record.key = Submission[r].key
        /\ answers[r].accepted <=> record.status # "rejected"

AnsweredRecords == {record \in Record : AsAnswered(record)}

\* A suspended handler holds a record of this run, of its own submission.
TasksAreOwn ==
    \A r \in Requests : InFlight(r) =>
      /\ tasks[r].record.key = Submission[r].key
      /\ tasks[r].record.receivedAt = run
      /\ tasks[r].record.status = "pending"

\* An answer is about a record of an earlier run, or about one of this run, which
\* is in the index as long as there is one.
AnswersPlaced ==
    \A r \in Requests : answers[r] # Null =>
      \/ answers[r].ref[1] < run
      \/ /\ answers[r].ref[1] = run
         /\ phase # "replaying"
         /\ Alive => Indexed(answers[r].ref)

AnswerInv ==
    /\ Stored(AnsweredRecords)
    /\ TasksAreOwn
    /\ AnswersPlaced

\* Nobody was answered about a record that is not indexed yet.
LEMMA NotYetAnswered ==
    ASSUME IdInv, AnswersPlaced, Alive, NEW record \in Record, record.receivedAt = run,
           \A ref \in DOMAIN recs : ref[2] # record.id,
           NEW r \in Requests, answers[r] # Null
    PROVE  answers[r].ref # Ref(record)
<1>1. Ref(record)[1] = run /\ Ref(record)[2] = record.id
  BY DEF Ref
<1>2. Ref(record) \notin DOMAIN recs
  BY <1>1
<1>3. run \in Nat
  BY StoreAssumption DEF IdInv, LifeInv, StoreAssumption
<1> QED
  BY <1>1, <1>2, <1>3 DEF AnswersPlaced, Indexed

\* The verdict changes neither the key nor the run of a record.
LEMMA SettledKeepsOrigin ==
    ASSUME NEW record \in Record, NEW reply \in SoundReply
    PROVE  /\ Settled(record, reply).key = record.key
           /\ Settled(record, reply).receivedAt = record.receivedAt
<1>1. ASSUME NEW reason
      PROVE  /\ Reject(record, reason).key = record.key
             /\ Reject(record, reason).receivedAt = record.receivedAt
  BY DEF Reject, Record
<1>2. ASSUME NEW anchor
      PROVE  /\ ApplyAnchor(record, anchor).key = record.key
             /\ ApplyAnchor(record, anchor).receivedAt = record.receivedAt
  BY DEF ApplyAnchor, Record
<1> QED
  BY <1>1, <1>2 DEF Settled

\* The record a handler ends with: of this run, of its submission, unanswered.
LEMMA HandlerAddsOwn ==
    ASSUME IdInv, TasksAreOwn, AnswersPlaced,
           NEW r \in Requests, ReceiveRejected(r) \/ Settle(r)
    PROVE  \E record \in Record, connected \in BOOLEAN :
             /\ AddRecord(record)
             /\ Respond(r, record, connected)
             /\ \A ref \in DOMAIN recs : ref[2] # record.id
             /\ record.key = Submission[r].key
             /\ record.receivedAt = run
             /\ \A s \in Requests : answers[s] # Null => answers[s].ref # Ref(record)
             /\ Alive
<1>1. PICK record \in Record, connected \in BOOLEAN :
        /\ AddRecord(record)
        /\ Respond(r, record, connected)
        /\ \A ref \in DOMAIN recs : ref[2] # record.id
        /\ Settle(r) => record = Settled(tasks[r].record, tasks[r].reply)
        /\ ReceiveRejected(r) =>
             record = CreateRecord(nextId, run, Submission[r], PolicyRejection(Submission[r]))
  BY HandlerAdds
<1>2. Alive
  BY DEF ReceiveRejected, Settle, InFlight, IdInv, LifeInv, Alive
<1>3. record.key = Submission[r].key /\ record.receivedAt = run
  <2>1. CASE ReceiveRejected(r)
    BY <1>1, <2>1 DEF CreateRecord
  <2>2. CASE Settle(r)
    <3>1. /\ InFlight(r) /\ tasks[r].record \in Record /\ tasks[r].reply \in SoundReply
      BY <2>2 DEF Settle, InFlight, IdInv, TaskInv
    <3> QED
      BY <1>1, <2>2, <3>1, SettledKeepsOrigin DEF TasksAreOwn
  <2> QED
    BY <2>1, <2>2
<1>4. \A s \in Requests : answers[s] # Null => answers[s].ref # Ref(record)
  BY <1>1, <1>2, <1>3, NotYetAnswered
<1> QED
  BY <1>1, <1>2, <1>3, <1>4

\* Every record that is written is what its clients were told before.
LEMMA WritesAnswered ==
    ASSUME IdInv, AnswerInv, NEW record \in Record, Writes(record)
    PROVE  AsAnswered(record)
<1>1. ASSUME Alive, record.receivedAt = run, \A ref \in DOMAIN recs : ref[2] # record.id
      PROVE  AsAnswered(record)
  BY <1>1, NotYetAnswered DEF AsAnswered, AnswerInv
<1>2. CASE \E r \in Requests :
             /\ ReceiveRejected(r)
             /\ record = CreateRecord(nextId, run, Submission[r], PolicyRejection(Submission[r]))
  <2>1. record.receivedAt = run /\ record.id = nextId /\ Alive
    BY <1>2 DEF CreateRecord, ReceiveRejected, Alive
  <2>2. \A ref \in DOMAIN recs : ref[2] # record.id
    BY <2>1 DEF IdInv, IndexInv
  <2> QED
    BY <1>1, <2>1, <2>2
<1>3. CASE \E r \in Requests :
             /\ Settle(r)
             /\ record = Settled(tasks[r].record, tasks[r].reply)
  <2>1. PICK r \in Requests : Settle(r) /\ record = Settled(tasks[r].record, tasks[r].reply)
    BY <1>3
  <2>2. /\ InFlight(r) /\ tasks[r].record \in Record /\ tasks[r].reply \in SoundReply
    BY <2>1 DEF Settle, InFlight, IdInv, TaskInv
  <2>3. /\ record.receivedAt = run /\ record.id = tasks[r].record.id /\ Alive
    BY <2>1, <2>2, SettledKeepsOrigin, SettledTyped
       DEF AnswerInv, TasksAreOwn, IdInv, LifeInv
  <2>4. \A ref \in DOMAIN recs : ref[2] # record.id
    BY <2>2, <2>3 DEF IdInv, TaskInv
  <2> QED
    BY <1>1, <2>3, <2>4
<1>4. CASE \E i \in watch.todo :
             /\ WatcherApplies(i)
             /\ News(recs[order[i]], watch.reply)
             /\ record = ApplyAnchor(recs[order[i]], watch.reply.anchor)
  <2>1. PICK i \in watch.todo :
             /\ WatcherApplies(i)
             /\ News(recs[order[i]], watch.reply)
             /\ record = ApplyAnchor(recs[order[i]], watch.reply.anchor)
    BY <1>4
  <2> DEFINE old == recs[order[i]]
  <2>2. old \in Record /\ order[i] \in DOMAIN recs
    BY OnTurnRecord
  <2>3. AsAnswered(old)
    BY <2>2 DEF AnswerInv, Stored, AnsweredRecords
  <2> HIDE DEF old
  <2>4. /\ record.key = old.key
        /\ Ref(record) = Ref(old)
        /\ record.status = "rejected" <=> old.status = "rejected"
    BY <2>1, <2>2 DEF ApplyAnchor, Record, Ref, old
  <2> QED
    BY <2>3, <2>4 DEF AsAnswered
<1> QED
  BY <1>2, <1>3, <1>4 DEF Writes

\* A handler that answers: its record is new, and the others are what they were.
LEMMA AnswerStored ==
    ASSUME IdInv, AnswerInv, NEW r \in Requests, ReceiveRejected(r) \/ Settle(r)
    PROVE  Stored(AnsweredRecords)'
<1>1. PICK record \in Record, connected \in BOOLEAN :
        /\ AddRecord(record)
        /\ Respond(r, record, connected)
        /\ record.key = Submission[r].key
        /\ \A ref \in DOMAIN recs : ref[2] # record.id
        /\ \A s \in Requests : answers[s] # Null => answers[s].ref # Ref(record)
        /\ Alive
  BY HandlerAddsOwn DEF AnswerInv
<1>2. PICK g : g = {known \in AnsweredRecords : Ref(known) \in DOMAIN recs} \cup {record}
  OBVIOUS
<1>3. Stored(g)
  <2>1. \A ref \in DOMAIN recs : recs[ref] \in g
    BY <1>2 DEF AnswerInv, Stored, IdInv, IndexInv
  <2>2. /\ file \in Seq(LinesAbout(AnsweredRecords)) /\ queue \in Seq(LinesAbout(AnsweredRecords))
        /\ file \in Seq(LinesOf(DOMAIN recs)) /\ queue \in Seq(LinesOf(DOMAIN recs))
    BY <1>1 DEF AnswerInv, Stored, IdInv, LogInv, LogOf
  <2>3. LinesAbout(AnsweredRecords) \cap LinesOf(DOMAIN recs) \subseteq LinesAbout(g)
    BY <1>2 DEF LinesAbout, LinesOf
  <2>4. ASSUME NEW s, s \in Seq(LinesAbout(AnsweredRecords)), s \in Seq(LinesOf(DOMAIN recs))
        PROVE  s \in Seq(LinesAbout(g))
    BY <2>3, <2>4
  <2> QED
    BY <2>1, <2>2, <2>4 DEF Stored
<1>4. Stored(g)'
  <2>1. [t |-> "record", record |-> record] \in RecordEvent
    BY DEF RecordEvent
  <2> QED
    BY <1>1, <1>2, <1>3, <2>1, StoredAfterEnqueue DEF AddRecord, IndexRecord
<1>5. /\ \A s \in Requests \ {r} : answers'[s] = answers[s]
      /\ answers'[r] = answers[r] \/ answers'[r] = Answer(record)
  BY <1>1 DEF Respond, IdInv, RestInv
<1>6. g \subseteq AnsweredRecords'
  <2>1. ASSUME NEW known \in AnsweredRecords, Ref(known) \in DOMAIN recs
        PROVE  AsAnswered(known)'
    <3>1. Ref(known) # Ref(record)
      BY <1>1, <2>1 DEF Ref
    <3> QED
      BY <1>5, <3>1 DEF AnsweredRecords, AsAnswered, Answer
  <2>2. AsAnswered(record)'
    <3>1. /\ Answer(record).ref = Ref(record)
          /\ Answer(record).accepted <=> record.status # "rejected"
      BY DEF Answer
    <3>2. ASSUME NEW s \in Requests, answers'[s] # Null, answers'[s].ref = Ref(record)
          PROVE  s = r /\ answers'[r] = Answer(record)
      BY <1>1, <1>5, <3>2
    <3> HIDE DEF Answer
    <3> QED
      BY <1>1, <3>1, <3>2 DEF AsAnswered
  <2> QED
    BY <1>2, <2>1, <2>2 DEF AnsweredRecords
<1>7. LinesAbout(g) \subseteq LinesAbout(AnsweredRecords)'
  BY <1>6 DEF LinesAbout
<1>8. Seq(LinesAbout(g)) \subseteq Seq(LinesAbout(AnsweredRecords)')
  BY <1>7
<1> QED
  BY <1>4, <1>6, <1>8 DEF Stored

\* A step that answers nobody.
LEMMA SilentStored ==
    ASSUME IdInv, AnswerInv, [Next]_vars, answers' = answers
    PROVE  Stored(AnsweredRecords)'
<1>1. PICK g : g = AnsweredRecords
  OBVIOUS
<1>2. Stored(g)'
  BY <1>1, WritesAnswered, OnlyWritten DEF AnswerInv, AnsweredRecords
<1>3. AnsweredRecords' = g
  BY <1>1 DEF AnsweredRecords, AsAnswered
<1> QED
  BY <1>2, <1>3 DEF Stored, LinesAbout

\* The handlers hold records of their own submissions.
LEMMA TasksAreOwnStill ==
    ASSUME IdInv, AnswerInv, [Next]_vars
    PROVE  TasksAreOwn'
<1>1. ASSUME run' = run, \A r \in Requests : InFlight(r)' => InFlight(r) /\ tasks'[r].record = tasks[r].record
      PROVE  TasksAreOwn'
  BY <1>1 DEF AnswerInv, TasksAreOwn
<1>2. CASE Handlers
  <2>1. PICK r \in Requests :
          \/ ReceiveRejected(r) \/ ReceiveAdmissible(r) \/ NodeAnswers(r)
          \/ Settle(r) \/ Disconnect(r)
    BY <1>2 DEF Handlers
  <2>2. CASE ReceiveAdmissible(r)
    <3> DEFINE record == CreateRecord(nextId, run, Submission[r], Null)
    <3>1. /\ record.key = Submission[r].key
          /\ record.receivedAt = run
          /\ record.status = "pending"
      BY DEF CreateRecord
    <3>2. tasks'[r].record = record /\ run' = run
      BY <2>2 DEF ReceiveAdmissible, IdInv, TaskInv, processVars
    <3>3. \A s \in Requests \ {r} : tasks'[s] = tasks[s]
      BY <2>2 DEF ReceiveAdmissible, IdInv, TaskInv
    <3> HIDE DEF record
    <3> QED
      BY <3>1, <3>2, <3>3 DEF AnswerInv, TasksAreOwn, InFlight
  <2>3. CASE NodeAnswers(r) \/ Disconnect(r)
    <3>1. run' = run
      BY <2>3 DEF NodeAnswers, Disconnect, storeVars, processVars
    <3>2. \A s \in Requests : InFlight(s)' => InFlight(s) /\ tasks'[s].record = tasks[s].record
      BY <2>3 DEF NodeAnswers, Disconnect, IdInv, TaskInv, InFlight, Task
    <3> QED
      BY <1>1, <3>1, <3>2
  <2>4. CASE ReceiveRejected(r) \/ Settle(r)
    <3>1. run' = run
      BY <2>4 DEF ReceiveRejected, Settle, processVars
    <3>2. \A s \in Requests : InFlight(s)' => InFlight(s) /\ tasks'[s].record = tasks[s].record
      BY <2>4 DEF ReceiveRejected, Settle, Respond, IdInv, TaskInv, InFlight, Done, Idle
    <3> QED
      BY <1>1, <3>1, <3>2
  <2> QED
    BY <2>1, <2>2, <2>3, <2>4
<1>3. CASE Restart
  <2>1. /\ phase \in {"exited", "dead"} /\ tasks' = tasks
    BY <1>3 DEF Restart, Start, taskVars
  <2>2. \A r \in Requests : ~InFlight(r)'
    BY <2>1 DEF IdInv, LifeInv, Alive, InFlight
  <2> QED
    BY <2>2 DEF TasksAreOwn
<1>4. CASE Crash \/ Exit
  <2>1. \A r \in Requests : ~InFlight(r)'
    BY <1>4 DEF Crash, Exit, HandlersAreGone, InFlight, Idle
  <2> QED
    BY <2>1 DEF TasksAreOwn
<1>5. CASE \/ Watcher \/ Outside \/ UNCHANGED vars
           \/ Signal \/ ServerCloses \/ SignalAgain \/ WriteSucceeds \/ WriteFails \/ Replay
  <2>1. run' = run /\ tasks' = tasks
    BY <1>5 DEF Watcher, Tick, WatcherAnswered, WatcherApplies, Outside, vars, Signal, ServerCloses,
       SignalAgain, WriteSucceeds, WriteFails, LogWriteSucceeds, LogWriteFails, Replay, ReplayLine,
       ReplayDone, storeVars, processVars, taskVars
  <2> QED
    BY <1>1, <2>1 DEF InFlight
<1> QED
  BY <1>2, <1>3, <1>4, <1>5 DEF Next, Lifecycle

\* The index keeps its records as long as the process is up.
LEMMA IndexGrows ==
    ASSUME IdInv, Alive, [Next]_vars, Alive'
    PROVE  DOMAIN recs \subseteq DOMAIN recs'
<1>1. CASE Handlers
  <2>1. ASSUME NEW r \in Requests, ReceiveRejected(r) \/ Settle(r)
        PROVE  DOMAIN recs \subseteq DOMAIN recs'
    BY <2>1, HandlerAdds, IndexRecordKeeps DEF IdInv, AddRecord
  <2>2. ASSUME NEW r \in Requests, ReceiveAdmissible(r) \/ NodeAnswers(r) \/ Disconnect(r)
        PROVE  recs' = recs
    BY <2>2 DEF ReceiveAdmissible, NodeAnswers, Disconnect, storeVars, indexVars
  <2> QED
    BY <1>1, <2>1, <2>2 DEF Handlers
<1>2. CASE Watcher
  <2>1. DOMAIN recs' = DOMAIN recs
    BY <1>2 DEF Watcher, Tick, WatcherAnswered, WatcherApplies, UpdateRecord, storeVars, indexVars
  <2> QED
    BY <2>1
<1>3. CASE Lifecycle
  <2>1. ~(Crash \/ Exit \/ Restart \/ Replay)
    BY DEF Crash, Exit, Killed, Exits, Restart, Start, Replay, ReplayLine, ReplayDone, Alive
  <2>2. recs' = recs
    BY <1>3, <2>1 DEF Lifecycle, Signal, ServerCloses, SignalAgain, WriteSucceeds, WriteFails,
       LogWriteSucceeds, LogWriteFails, indexVars
  <2> QED
    BY <2>2
<1>4. CASE Outside \/ UNCHANGED vars
  BY <1>4 DEF Outside, vars, storeVars, indexVars
<1> QED
  BY <1>1, <1>2, <1>3, <1>4 DEF Next

\* What a step does to the run and the phase.
LEMMA RunsGoOn ==
    ASSUME IdInv, [Next]_vars
    PROVE  /\ ~Restart => run' = run
           /\ phase' = "replaying" => phase = "replaying" \/ Restart
           /\ Alive' => Alive \/ phase = "replaying"
<1>1. CASE Handlers \/ Watcher \/ Outside \/ UNCHANGED vars
  <2>1. UNCHANGED processVars
    BY <1>1 DEF Handlers, ReceiveRejected, ReceiveAdmissible, NodeAnswers, Settle, Disconnect,
       Watcher, Tick, WatcherAnswered, WatcherApplies, Outside, vars, storeVars
  <2> QED
    BY <2>1 DEF processVars, Alive
<1>2. CASE Lifecycle
  BY <1>2 DEF Lifecycle, Signal, ServerCloses, SignalAgain, Exit, Exits, WriteSucceeds, WriteFails,
     LogWriteSucceeds, LogWriteFails, Crash, Killed, Restart, Start, Replay, ReplayLine, ReplayDone,
     processVars, Alive
<1> QED
  BY <1>1, <1>2 DEF Next

\* Only handlers answer.
LEMMA WhoAnswers ==
    ASSUME [Next]_vars, answers' # answers
    PROVE  \E r \in Requests : ReceiveRejected(r) \/ Settle(r)
  BY DEF Next, Handlers, ReceiveAdmissible, NodeAnswers, Disconnect, Watcher, Tick,
     WatcherAnswered, WatcherApplies, Outside, vars, Lifecycle, Signal, ServerCloses, SignalAgain,
     Exit, WriteSucceeds, WriteFails, Crash, Restart, Replay, taskVars

\* An answered record is indexed while the process that answered is up.
LEMMA AnswersPlacedStill ==
    ASSUME IdInv, AnswerInv, [Next]_vars
    PROVE  AnswersPlaced'
<1>2. run \in Nat
  BY StoreAssumption DEF IdInv, LifeInv, StoreAssumption
<1>3. \A r \in Requests : answers[r] # Null => answers[r].ref \in Nat \X Nat
  BY DEF IdInv, RestInv
<1>4. CASE Restart
  <2>1. run' = run + 1 /\ answers' = answers
    BY <1>4 DEF Restart, Start, taskVars
  <2>2. ASSUME NEW r \in Requests, answers[r] # Null
        PROVE  answers[r].ref[1] < run + 1
    <3>1. answers[r].ref[1] \in Nat
      BY <1>3, <2>2
    <3>2. answers[r].ref[1] < run \/ answers[r].ref[1] = run
      BY <2>2 DEF AnswerInv, AnswersPlaced
    <3> QED
      BY <1>2, <3>1, <3>2
  <2> QED
    BY <2>1, <2>2 DEF AnswersPlaced
<1>5. ASSUME answers' = answers, ~Restart
      PROVE  AnswersPlaced'
  <2>1. run' = run
    BY <1>5, RunsGoOn
  <2>2. ASSUME NEW r \in Requests, answers[r] # Null, answers[r].ref[1] = run, phase # "replaying",
               Alive => Indexed(answers[r].ref)
        PROVE  phase' # "replaying" /\ (Alive' => Indexed(answers[r].ref)')
    BY <1>5, <2>2, RunsGoOn, IndexGrows DEF Indexed
  <2> QED
    BY <1>5, <2>1, <2>2 DEF AnswerInv, AnswersPlaced
<1>6. ASSUME NEW r \in Requests, ReceiveRejected(r) \/ Settle(r)
      PROVE  AnswersPlaced'
  <2>1. PICK record \in Record, connected \in BOOLEAN :
          /\ AddRecord(record)
          /\ Respond(r, record, connected)
          /\ \A ref \in DOMAIN recs : ref[2] # record.id
          /\ record.receivedAt = run
          /\ Alive
    BY <1>6, HandlerAddsOwn DEF AnswerInv
  <2>2. run' = run /\ phase' = phase
    BY <1>6 DEF ReceiveRejected, Settle, processVars
  <2>3. DOMAIN recs' = DOMAIN recs \cup {Ref(record)}
    BY <2>1, IndexRecordKeeps DEF IdInv, AddRecord
  <2>4. /\ \A s \in Requests \ {r} : answers'[s] = answers[s]
        /\ answers'[r] = answers[r] \/ answers'[r] = Answer(record)
    BY <2>1 DEF Respond, IdInv, RestInv
  <2>5. Answer(record).ref = Ref(record) /\ Ref(record)[1] = run
    BY <2>1 DEF Answer, Ref
  <2>6. phase # "replaying"
    BY <2>1 DEF Alive
  <2>7. ASSUME NEW s \in Requests, answers'[s] # Null
        PROVE  \/ answers'[s].ref[1] < run
               \/ answers'[s].ref[1] = run /\ answers'[s].ref \in DOMAIN recs'
    <3>1. CASE answers'[s] = answers[s]
      BY <2>1, <2>3, <2>7, <3>1 DEF AnswerInv, AnswersPlaced, Indexed
    <3>2. CASE answers'[s] = Answer(record)
      BY <2>3, <2>5, <3>2
    <3> QED
      BY <2>4, <3>1, <3>2
  <2> QED
    BY <2>2, <2>6, <2>7 DEF AnswersPlaced, Indexed
<1> QED
  BY <1>4, <1>5, <1>6, WhoAnswers

\* Nobody was answered yet.
LEMMA InitAnswer == Init => AnswerInv
<1> SUFFICES ASSUME Init PROVE AnswerInv
  OBVIOUS
<1>1. recs = <<>> /\ file = <<>> /\ queue = <<>>
  BY DEF Init, StoreInit, EmptyIndex, Log!Init
<1>2. Stored(AnsweredRecords)
  BY <1>1 DEF Stored
<1>3. \A r \in Requests : ~InFlight(r) /\ answers[r] = Null
  BY DEF Init, Idle, InFlight
<1> QED
  BY <1>2, <1>3 DEF AnswerInv, TasksAreOwn, AnswersPlaced

\* Records and answers agree, in the index and in the log.
THEOREM AnswerInvariant == Spec => []AnswerInv
<1>1. IdInv /\ AnswerInv /\ [Next]_vars => AnswerInv'
  <2> SUFFICES ASSUME IdInv, AnswerInv, [Next]_vars PROVE AnswerInv'
    OBVIOUS
  <2>1. Stored(AnsweredRecords)'
    BY SilentStored, AnswerStored, WhoAnswers
  <2> QED
    BY <2>1, TasksAreOwnStill, AnswersPlacedStill DEF AnswerInv
<1> QED
  BY <1>1, InitAnswer, IdInvariant, PTL DEF Spec

\* What a client was told of a record stands, also after a restart.
THEOREM AnswersAreKept == Spec => []AnswersStand
<1>1. IdInv /\ AnswerInv => AnswersStand
  BY DEF IdInv, IndexInv, AnswerInv, Stored, AnsweredRecords, AsAnswered, AnswersStand, Indexed
<1> QED
  BY <1>1, AnswerInvariant, IdInvariant, PTL

-----------------------------------------------------------------------------
(* Orderly exit *)

\* One of the first n lines is about the record with this reference.
LineAbout(ref, lines, n) == \E j \in 1..n : Ref(lines[j].record) = ref

\* Nobody waits for a response, and the lines of all that were answered in this
\* run are written or among those flush() waits for.
AnswersFlushed ==
    /\ NobodyWaits
    /\ flushLeft =< Len(queue)
    /\ \A r \in Requests :
         answers[r] # Null /\ answers[r].ref[1] = run =>
           \/ LineAbout(answers[r].ref, file, Len(file))
           \/ LineAbout(answers[r].ref, queue, flushLeft)

\* While no write has failed, every record of the index has a line, and a process
\* that shuts down after one signal waits for the lines it owes its clients.
ExitInv ==
    Persist /\ faults = 0 =>
      /\ tail = "clean"
      /\ Alive => \A ref \in DOMAIN recs :
           LineAbout(ref, file, Len(file)) \/ LineAbout(ref, queue, Len(queue))
      /\ phase = "flushing" /\ signals = 1 => AnswersFlushed

\* A line that waits is still there when another joins behind it.
LEMMA LineStaysWaiting ==
    ASSUME NEW S, NEW q \in Seq(S), NEW e \in S, NEW ref, NEW n \in Nat, n =< Len(q)
    PROVE  /\ Len(Append(q, e)) = Len(q) + 1
           /\ LineAbout(ref, q, n) => LineAbout(ref, Append(q, e), n)
           /\ LineAbout(ref, q, Len(q)) => LineAbout(ref, Append(q, e), Len(q) + 1)
           /\ Ref(e.record) = ref => LineAbout(ref, Append(q, e), Len(q) + 1)
<1> DEFINE p == Append(q, e)
<1>1. /\ Len(q) \in Nat /\ Len(p) = Len(q) + 1
      /\ \A j \in 1..Len(q) : p[j] = q[j]
      /\ p[Len(q) + 1] = e
  BY AppendToSequence
<1> HIDE DEF p
<1> QED
  BY <1>1 DEF LineAbout, p

\* The line that is written leaves the queue for the file.
LEMMA LineIsWritten ==
    ASSUME NEW S, NEW f \in Seq(S), NEW q \in Seq(S), q # <<>>, NEW ref,
           NEW n \in Nat, n =< Len(q),
           LineAbout(ref, f, Len(f)) \/ LineAbout(ref, q, n)
    PROVE  \/ LineAbout(ref, Append(f, Head(q)), Len(Append(f, Head(q))))
           \/ LineAbout(ref, Tail(q), IF n > 0 THEN n - 1 ELSE 0)
<1> DEFINE g == Append(f, Head(q))
           p == Tail(q)
<1>1. /\ Head(q) \in S /\ Head(q) = q[1]
      /\ Len(q) \in Nat \ {0} /\ Len(p) = Len(q) - 1
      /\ \A j \in 1..Len(q) - 1 : p[j] = q[j + 1]
  BY TailOfSequence
<1>2. /\ Len(f) \in Nat /\ Len(g) = Len(f) + 1
      /\ \A j \in 1..Len(f) : g[j] = f[j]
      /\ g[Len(f) + 1] = q[1]
  BY <1>1, AppendToSequence
<1> HIDE DEF g, p
<1> SUFFICES LineAbout(ref, g, Len(g)) \/ LineAbout(ref, p, IF n > 0 THEN n - 1 ELSE 0)
  BY DEF g, p
<1>3. CASE LineAbout(ref, f, Len(f))
  BY <1>2, <1>3 DEF LineAbout
<1>4. CASE LineAbout(ref, q, n)
  <2>1. PICK j \in 1..n : Ref(q[j].record) = ref
    BY <1>4 DEF LineAbout
  <2>2. CASE j = 1
    <3>1. Len(g) \in 1..Len(g) /\ Ref(g[Len(g)].record) = ref
      BY <1>2, <2>1, <2>2
    <3> QED
      BY <3>1 DEF LineAbout
  <2>3. CASE j # 1
    <3>1. /\ j - 1 \in 1..n - 1 /\ n > 0 /\ j - 1 \in 1..Len(q) - 1
      BY <1>1, <2>1, <2>3
    <3>2. Ref(p[j - 1].record) = ref
      <4>1. p[j - 1] = q[(j - 1) + 1] /\ (j - 1) + 1 = j
        BY <1>1, <3>1
      <4> QED
        BY <2>1, <4>1
    <3> QED
      BY <3>1, <3>2 DEF LineAbout
  <2> QED
    BY <2>2, <2>3
<1> QED
  BY <1>3, <1>4

\* A handler's line joins those that wait.  Once flush() has been called after one
\* signal, no handler that is left has anyone to answer.
LEMMA ExitAfterHandler ==
    ASSUME IdInv, AnswerInv, ExitInv, NEW r \in Requests, ReceiveRejected(r) \/ Settle(r)
    PROVE  ExitInv'
<1>1. PICK record \in Record, connected \in BOOLEAN :
        /\ AddRecord(record)
        /\ Respond(r, record, connected)
        /\ \A ref \in DOMAIN recs : ref[2] # record.id
        /\ Alive
  BY HandlerAddsOwn DEF AnswerInv
<1> DEFINE event == [t |-> "record", record |-> record]
<1>2. /\ file' = file /\ tail' = tail /\ faults' = faults
      /\ Persist => queue' = Append(queue, event)
  BY <1>1 DEF AddRecord, Log!Enqueue
<1>3. event \in RecordEvent /\ event.record = record
  BY DEF RecordEvent
<1>4. UNCHANGED <<phase, run, replayed, signals, flushLeft>>
  BY <1>1, HandlerAdds DEF ReceiveRejected, Settle, processVars, stopVars
<1>5. queue \in Seq(RecordEvent) /\ Len(queue) \in Nat /\ flushLeft \in Nat
  BY DEF IdInv, LogInv, LogOf, RestInv
<1>6. DOMAIN recs' = DOMAIN recs \cup {Ref(record)}
  BY <1>1, IndexRecordKeeps DEF IdInv, AddRecord
<1> HIDE DEF event
<1> SUFFICES ASSUME Persist, faults = 0
             PROVE  /\ tail' = "clean"
                    /\ \A ref \in DOMAIN recs' :
                         LineAbout(ref, file', Len(file')) \/ LineAbout(ref, queue', Len(queue'))
                    /\ phase' = "flushing" /\ signals' = 1 => AnswersFlushed'
  BY <1>2 DEF ExitInv
<1>7. \A ref \in DOMAIN recs' :
        LineAbout(ref, file', Len(file')) \/ LineAbout(ref, queue', Len(queue'))
  <2> SUFFICES ASSUME NEW ref \in DOMAIN recs'
               PROVE  LineAbout(ref, file', Len(file')) \/ LineAbout(ref, queue', Len(queue'))
    OBVIOUS
  <2> DEFINE longer == Append(queue, event)
  <2>0. /\ Len(longer) = Len(queue) + 1
        /\ LineAbout(ref, queue, Len(queue)) => LineAbout(ref, longer, Len(queue) + 1)
        /\ Ref(event.record) = ref => LineAbout(ref, longer, Len(queue) + 1)
    BY <1>3, <1>5, LineStaysWaiting
  <2> HIDE DEF longer
  <2>3. queue' = longer
    BY <1>2 DEF longer
  <2>1. CASE ref = Ref(record)
    BY <1>3, <2>0, <2>1, <2>3
  <2>2. CASE ref \in DOMAIN recs
    <3>1. LineAbout(ref, file, Len(file)) \/ LineAbout(ref, queue, Len(queue))
      BY <1>1, <2>2 DEF ExitInv
    <3> QED
      BY <1>2, <2>0, <2>3, <3>1
  <2> QED
    BY <1>6, <2>1, <2>2
<1>8. ASSUME phase = "flushing", signals = 1
      PROVE  AnswersFlushed'
  <2>1. AnswersFlushed
    BY <1>8 DEF ExitInv
  <2>2. Settle(r)
    BY <1>8 DEF ReceiveRejected
  <2>3. ~tasks[r].connected
    BY <2>1, <2>2 DEF AnswersFlushed, NobodyWaits, Settle, InFlight
  <2>4. answers' = answers /\ tasks' = [tasks EXCEPT ![r] = Done]
    BY <2>2, <2>3 DEF Settle, Respond
  <2>5. NobodyWaits'
    BY <2>1, <2>4 DEF AnswersFlushed, NobodyWaits, InFlight, Done, Idle, IdInv, TaskInv
  <2>6. flushLeft' =< Len(queue')
    BY <1>2, <1>3, <1>4, <1>5, <2>1, LineStaysWaiting DEF AnswersFlushed
  <2>7. ASSUME NEW s \in Requests, answers[s] # Null, answers[s].ref[1] = run
        PROVE  LineAbout(answers[s].ref, file, Len(file)) \/ LineAbout(answers[s].ref, queue', flushLeft)
    BY <1>2, <1>3, <1>5, <2>1, <2>7, LineStaysWaiting DEF AnswersFlushed
  <2> QED
    BY <1>2, <1>4, <2>4, <2>5, <2>6, <2>7 DEF AnswersFlushed
<1> QED
  BY <1>2, <1>4, <1>7, <1>8 DEF ExitInv

\* The watcher's line joins those that wait.
LEMMA ExitAfterWatcher ==
    ASSUME IdInv, ExitInv, Watcher
    PROVE  ExitInv'
<1>1. /\ UNCHANGED <<file, tail, faults, phase, run, tasks, answers, signals, flushLeft>>
      /\ DOMAIN recs' = DOMAIN recs
  BY DEF Watcher, Tick, WatcherAnswered, WatcherApplies, UpdateRecord, Log!Enqueue, storeVars,
     indexVars, logVars, processVars, taskVars, stopVars
<1>2. queue \in Seq(RecordEvent) /\ Len(queue) \in Nat /\ flushLeft \in Nat
  BY DEF IdInv, LogInv, LogOf, RestInv
<1>3. CASE queue' = queue
  BY <1>1, <1>3 DEF ExitInv, Alive, AnswersFlushed, NobodyWaits, InFlight
<1>4. ASSUME NEW event \in RecordEvent, queue' = Append(queue, event)
      PROVE  ExitInv'
  <2>1. Len(queue') = Len(queue) + 1
    BY <1>2, <1>4, LineStaysWaiting
  <2>2. \A ref : LineAbout(ref, queue, Len(queue)) => LineAbout(ref, queue', Len(queue'))
    BY <1>2, <1>4, LineStaysWaiting
  <2>3. ASSUME flushLeft =< Len(queue), NEW ref, LineAbout(ref, queue, flushLeft)
        PROVE  LineAbout(ref, queue', flushLeft)
    BY <1>2, <1>4, <2>3, LineStaysWaiting
  <2>4. AnswersFlushed => AnswersFlushed'
    BY <1>1, <1>2, <2>1, <2>3 DEF AnswersFlushed, NobodyWaits, InFlight
  <2> QED
    BY <1>1, <2>2, <2>4 DEF ExitInv, Alive
<1>5. queue' = queue \/ \E event \in RecordEvent : queue' = Append(queue, event)
  <2>1. ASSUME NEW i \in watch.todo, WatcherApplies(i), News(recs[order[i]], watch.reply)
        PROVE  queue' = queue \/ \E event \in RecordEvent : queue' = Append(queue, event)
    <3> DEFINE record == ApplyAnchor(recs[order[i]], watch.reply.anchor)
    <3>1. watch.reply.anchor \in Anchor
      BY <2>1 DEF WatcherApplies, News, IdInv, WatchInv, SoundReply
    <3>2. record \in Record
      BY <3>1, OnTurnRecord, ApplyAnchorTyped
    <3>3. Log!Enqueue(UpdateEvent(record))
      BY <2>1 DEF WatcherApplies, UpdateRecord
    <3> HIDE DEF record
    <3>4. UpdateEvent(record) \in RecordEvent
      BY <3>2 DEF UpdateEvent, RecordEvent
    <3> QED
      BY <3>3, <3>4 DEF Log!Enqueue
  <2>2. ASSUME NEW i \in watch.todo, WatcherApplies(i), ~News(recs[order[i]], watch.reply)
        PROVE  queue' = queue
    BY <2>2 DEF WatcherApplies, logVars
  <2>3. Tick \/ (\E i \in watch.todo : WatcherAnswered(i)) => queue' = queue
    BY DEF Tick, WatcherAnswered, storeVars, logVars
  <2> QED
    BY <2>1, <2>2, <2>3 DEF Watcher
<1> QED
  BY <1>3, <1>4, <1>5

\* The write in progress completes: flush() has one line less to wait for.
LEMMA ExitAfterWrite ==
    ASSUME IdInv, ExitInv, WriteSucceeds \/ WriteFails
    PROVE  ExitInv'
<1>1. UNCHANGED <<recs, phase, run, tasks, answers, signals>>
  BY DEF WriteSucceeds, WriteFails, LogWriteSucceeds, LogWriteFails, indexVars, processVars, taskVars
<1>2. CASE WriteFails
  <2>1. faults \in Nat /\ faults' = faults + 1
    BY <1>2, StoreAssumption
       DEF WriteFails, LogWriteFails, Log!WriteFails, IdInv, LogInv, Log!TypeOK, StoreAssumption
  <2> QED
    BY <2>1 DEF ExitInv
<1>3. CASE WriteSucceeds
  <2> SUFFICES ASSUME Persist, faults = 0 PROVE ExitInv'
    BY <1>3 DEF ExitInv, WriteSucceeds, LogWriteSucceeds, Log!WriteSucceeds
  <2>1. /\ tail = "clean" /\ tail' = "clean" /\ Alive
        /\ queue # <<>> /\ file' = Append(file, Head(queue)) /\ queue' = Tail(queue)
        /\ flushLeft' = IF flushLeft > 0 THEN flushLeft - 1 ELSE 0
    BY <1>3 DEF ExitInv, WriteSucceeds, LogWriteSucceeds, Log!WriteSucceeds, Log!NextLine,
       FlushCountsDown
  <2>2. /\ file \in Seq(RecordEvent) /\ queue \in Seq(RecordEvent)
        /\ flushLeft \in Nat /\ Len(queue) \in Nat \ {0} /\ Len(queue') = Len(queue) - 1
    BY <2>1, TailOfSequence DEF IdInv, LogInv, LogOf, RestInv
  <2>3. ASSUME NEW ref, NEW n \in Nat, n =< Len(queue),
               LineAbout(ref, file, Len(file)) \/ LineAbout(ref, queue, n)
        PROVE  LineAbout(ref, file', Len(file')) \/ LineAbout(ref, queue', IF n > 0 THEN n - 1 ELSE 0)
    BY <2>1, <2>2, <2>3, LineIsWritten
  <2>4. \A ref \in DOMAIN recs :
          LineAbout(ref, file', Len(file')) \/ LineAbout(ref, queue', Len(queue'))
    <3> SUFFICES ASSUME NEW ref \in DOMAIN recs
                 PROVE  LineAbout(ref, file', Len(file')) \/ LineAbout(ref, queue', Len(queue'))
      OBVIOUS
    <3>1. PICK n : n = Len(queue)
      OBVIOUS
    <3>2. n \in Nat /\ n =< Len(queue) /\ Len(queue') = IF n > 0 THEN n - 1 ELSE 0
      BY <2>2, <3>1
    <3>3. LineAbout(ref, file, Len(file)) \/ LineAbout(ref, queue, n)
      BY <2>1, <3>1 DEF ExitInv
    <3>4. LineAbout(ref, file', Len(file')) \/ LineAbout(ref, queue', IF n > 0 THEN n - 1 ELSE 0)
      BY <2>3, <3>2, <3>3
    <3> QED
      BY <3>2, <3>4
  <2>5. ASSUME AnswersFlushed
        PROVE  AnswersFlushed'
    <3>1. NobodyWaits'
      BY <1>1, <2>5 DEF AnswersFlushed, NobodyWaits, InFlight
    <3>2. flushLeft =< Len(queue) /\ flushLeft' =< Len(queue')
      BY <2>1, <2>2, <2>5 DEF AnswersFlushed
    <3>3. ASSUME NEW r \in Requests, answers[r] # Null, answers[r].ref[1] = run
          PROVE  \/ LineAbout(answers[r].ref, file', Len(file'))
                 \/ LineAbout(answers[r].ref, queue', flushLeft')
      BY <2>1, <2>2, <2>3, <2>5, <3>2, <3>3 DEF AnswersFlushed
    <3> QED
      BY <1>1, <3>1, <3>2, <3>3 DEF AnswersFlushed
  <2> QED
    BY <1>1, <2>1, <2>4, <2>5 DEF ExitInv
<1> QED
  BY <1>2, <1>3

\* The process dies, and what was written stays written.
LEMMA DeathKeepsLines ==
    ASSUME IdInv, Persist, faults = 0, tail = "clean", Log!Die
    PROVE  /\ faults' = 0 => tail' = "clean"
           /\ \A ref : LineAbout(ref, file, Len(file)) => LineAbout(ref, file', Len(file'))
<1>1. CASE UNCHANGED <<file, tail, faults>>
  BY <1>1
<1>2. CASE queue # <<>> /\ Log!BreaksOff /\ faults' = faults + 1
  <2>1. file' = file \/ file' = Append(file, Head(queue))
    BY <1>2 DEF Log!BreaksOff, Log!NextLine
  <2>2. file \in Seq(RecordEvent) /\ Head(queue) \in RecordEvent
    BY <1>2, TailOfSequence DEF IdInv, LogInv, LogOf
  <2>3. faults' # 0
    BY <1>2
  <2>4. ASSUME NEW ref, LineAbout(ref, file, Len(file)), file' = Append(file, Head(queue))
        PROVE  LineAbout(ref, file', Len(file'))
    <3> DEFINE longer == Append(file, Head(queue))
    <3>1. Len(longer) = Len(file) + 1 /\ LineAbout(ref, longer, Len(file) + 1)
      BY <2>2, <2>4, LineStaysWaiting DEF LineAbout
    <3> QED
      BY <2>4, <3>1
  <2> QED
    BY <2>1, <2>3, <2>4
<1> QED
  BY <1>1, <1>2 DEF Log!Die

\* The steps of a shutdown, a death and a restart.
LEMMA ExitAfterLifecycle ==
    ASSUME IdInv, AnswerInv, ExitInv, Lifecycle
    PROVE  ExitInv'
<1>1. CASE WriteSucceeds \/ WriteFails
  BY <1>1, ExitAfterWrite
<1>2. CASE Signal \/ SignalAgain
  <2>1. /\ UNCHANGED <<recs, file, queue, tail, faults>>
        /\ Alive /\ ~(phase' = "flushing" /\ signals' = 1)
    BY <1>2 DEF Signal, SignalAgain, indexVars, logVars, Alive
  <2> QED
    BY <2>1 DEF ExitInv
<1>3. CASE ServerCloses
  <2>1. /\ UNCHANGED <<recs, file, queue, tail, faults, tasks, answers, run>>
        /\ phase = "closing" /\ NobodyWaits /\ flushLeft' = Len(queue)
    BY <1>3 DEF ServerCloses, indexVars, logVars, taskVars
  <2>2. Len(queue) \in Nat /\ run \in Nat
    BY StoreAssumption DEF IdInv, LogInv, LogOf, LifeInv, StoreAssumption
  <2>3. ASSUME Persist, faults = 0,
               NEW r \in Requests, answers[r] # Null, answers[r].ref[1] = run
        PROVE  \/ LineAbout(answers[r].ref, file, Len(file))
               \/ LineAbout(answers[r].ref, queue, Len(queue))
    <3>1. answers[r].ref \in DOMAIN recs
      BY <2>1, <2>2, <2>3 DEF AnswerInv, AnswersPlaced, Indexed, Alive
    <3> QED
      BY <2>1, <2>3, <3>1 DEF ExitInv, Alive
  <2>4. Persist /\ faults = 0 => AnswersFlushed'
    BY <2>1, <2>2, <2>3 DEF AnswersFlushed, NobodyWaits, InFlight
  <2> QED
    BY <2>1, <2>4 DEF ExitInv, Alive
<1>4. CASE Crash \/ Exit
  <2>1. Log!Die /\ phase' \in {"dead", "exited"}
    BY <1>4 DEF Crash, Exit, Killed, Exits
  <2>2. faults' = faults \/ (faults \in Nat /\ faults' = faults + 1)
    BY <2>1, StoreAssumption DEF Log!Die, IdInv, LogInv, Log!TypeOK, StoreAssumption
  <2> QED
    BY <2>1, <2>2, DeathKeepsLines DEF ExitInv, Alive
<1>5. CASE Restart \/ (Replay /\ ReplayLine)
  <2>1. UNCHANGED <<tail, faults>> /\ phase' = "replaying"
    BY <1>5 DEF Restart, Start, ReplayLine, logVars
  <2> QED
    BY <2>1 DEF ExitInv, Alive
<1>6. CASE Replay /\ ReplayDone
  <2>1. /\ UNCHANGED <<recs, file, queue, tail, faults>>
        /\ phase' = "serving" /\ phase = "replaying" /\ replayed = Len(file)
    BY <1>6 DEF ReplayDone, indexVars, logVars
  <2>2. \A ref \in DOMAIN recs : LineAbout(ref, file, Len(file))
    BY <2>1 DEF IdInv, LifeInv, LineAbout
  <2> QED
    BY <2>1, <2>2 DEF ExitInv
<1> QED
  BY <1>1, <1>2, <1>3, <1>4, <1>5, <1>6 DEF Lifecycle, Replay

\* The other steps.
LEMMA ExitAfterRest ==
    ASSUME IdInv, ExitInv,
           \/ \E r \in Requests : ReceiveAdmissible(r) \/ NodeAnswers(r) \/ Disconnect(r)
           \/ Outside
           \/ UNCHANGED vars
    PROVE  ExitInv'
<1>1. UNCHANGED <<recs, file, queue, tail, faults, phase, run, answers, signals, flushLeft>>
  BY DEF ReceiveAdmissible, NodeAnswers, Disconnect, Outside, vars, storeVars, indexVars, logVars,
     processVars, taskVars, stopVars
<1>2. phase = "flushing" /\ NobodyWaits => NobodyWaits'
  <2>1. ASSUME NEW r \in Requests, ReceiveAdmissible(r)
        PROVE  phase = "serving"
    BY <2>1 DEF ReceiveAdmissible
  <2>2. ASSUME NEW r \in Requests, NodeAnswers(r) \/ Disconnect(r), NobodyWaits
        PROVE  NobodyWaits'
    BY <2>2 DEF NodeAnswers, Disconnect, NobodyWaits, InFlight, IdInv, TaskInv, Task
  <2>3. Outside \/ UNCHANGED vars => tasks' = tasks
    BY DEF Outside, vars, taskVars
  <2> QED
    BY <2>1, <2>2, <2>3 DEF NobodyWaits, InFlight
<1> QED
  BY <1>1, <1>2 DEF ExitInv, Alive, AnswersFlushed

\* No line is owed at the start.
LEMMA InitExit == Init => ExitInv
  BY DEF Init, StoreInit, EmptyIndex, Log!Init, ExitInv, Alive

\* While no write has failed, what clients were told is written or will be.
THEOREM ExitInvariant == Spec => []ExitInv
<1>1. IdInv /\ AnswerInv /\ ExitInv /\ [Next]_vars => ExitInv'
  BY ExitAfterHandler, ExitAfterWatcher, ExitAfterLifecycle, ExitAfterRest DEF Next, Handlers
<1> QED
  BY <1>1, InitExit, IdInvariant, AnswerInvariant, PTL DEF Spec

\* A process that exits after one signal, no write having failed, leaves a line in
\* the file for every response of its run.
THEOREM ExitIsOrderly == Spec => ExitKeepsAnswers
<1> DEFINE Kept ==
      Persist /\ phase = "flushing" /\ phase' = "exited" /\ signals = 1 /\ faults = 0 =>
        \A r \in Requests :
          answers[r] # Null /\ answers[r].ref[1] = run => InFile(answers[r].ref)'
<1>1. IdInv /\ ExitInv /\ [Next]_vars => [Kept]_vars
  <2> SUFFICES ASSUME IdInv, ExitInv, [Next]_vars,
                      Persist, phase = "flushing", phase' = "exited", signals = 1, faults = 0,
                      NEW r \in Requests, answers[r] # Null, answers[r].ref[1] = run
               PROVE  InFile(answers[r].ref)'
    OBVIOUS
  <2>1. Exit
    BY DEF Next, Handlers, ReceiveRejected, ReceiveAdmissible, NodeAnswers, Settle, Disconnect,
       Watcher, Tick, WatcherAnswered, WatcherApplies, Lifecycle, Signal, ServerCloses,
       SignalAgain, WriteSucceeds, WriteFails, LogWriteSucceeds, LogWriteFails, Crash, Killed,
       Restart, Start, Replay, ReplayLine, ReplayDone, Outside, vars, storeVars, processVars
  <2>2. flushLeft = 0 /\ Log!Die /\ answers' = answers
    BY <2>1 DEF Exit, Exits
  <2>3. LineAbout(answers[r].ref, file, Len(file))
    BY <2>2 DEF ExitInv, AnswersFlushed, LineAbout
  <2>4. LineAbout(answers[r].ref, file', Len(file'))
    BY <2>2, <2>3, DeathKeepsLines DEF ExitInv
  <2> QED
    BY <2>2, <2>4 DEF LineAbout, InFile
<1> QED
  BY <1>1, IdInvariant, ExitInvariant, PTL DEF Spec, ExitKeepsAnswers


-----------------------------------------------------------------------------
(* Replaying a log *)

\* The index as one value.
Indexes ==
    [order : Seq(Nat \X Nat),
     recs  : UNION {[refs -> Record] : refs \in SUBSET (Nat \X Nat)},
     keys  : SUBSET Keys]

NoIndex == [order |-> <<>>, recs |-> <<>>, keys |-> {}]
Index == [order |-> order, recs |-> recs, keys |-> keys]

\* One turn of the loop that Rebuilt folds.
IndexedIn(index, record) ==
    [order |-> Append(index.order, Ref(record)),
     recs  |-> With(index.recs, Ref(record), record),
     keys  |-> IF record.status = "rejected" THEN index.keys
                                             ELSE index.keys \cup {record.key}]

Turn(index, event) ==
    IF event.t = "record" \/ Ref(event.record) \notin DOMAIN index.recs
    THEN IndexedIn(index, event.record)
    ELSE [index EXCEPT !.recs = With(@, Ref(event.record), event.record)]

\* The function the fold takes its value from.
RebuiltBy(log) ==
    CHOOSE f : f = [S \in SUBSET (DOMAIN log) |->
      IF S = {} THEN NoIndex ELSE Turn(f[S \ {Max(S)}], log[Max(S)])]

\* A map with one more value is a map.
LEMMA WithTyped ==
    ASSUME NEW f, f \in UNION {[refs -> Record] : refs \in SUBSET (Nat \X Nat)},
           NEW ref \in Nat \X Nat, NEW record \in Record
    PROVE  With(f, ref, record) \in UNION {[refs -> Record] : refs \in SUBSET (Nat \X Nat)}
<1>1. PICK refs \in SUBSET (Nat \X Nat) : f \in [refs -> Record]
  OBVIOUS
<1>2. With(f, ref, record) \in [refs \cup {ref} -> Record]
  BY <1>1 DEF With
<1>3. refs \cup {ref} \in SUBSET (Nat \X Nat)
  OBVIOUS
<1> QED
  BY <1>2, <1>3

\* A turn of the loop makes an index of an index.
LEMMA TurnTyped ==
    ASSUME NEW index \in Indexes, NEW event \in RecordEvent
    PROVE  Turn(index, event) \in Indexes
<1> DEFINE record == event.record
<1>1. record \in Record /\ Ref(record) \in Nat \X Nat
  BY DEF RecordEvent, Record, Ref
<1>2. /\ index.order \in Seq(Nat \X Nat)
      /\ index.recs \in UNION {[refs -> Record] : refs \in SUBSET (Nat \X Nat)}
      /\ index.keys \in SUBSET Keys
  BY DEF Indexes
<1>3. With(index.recs, Ref(record), record)
        \in UNION {[refs -> Record] : refs \in SUBSET (Nat \X Nat)}
  BY <1>1, <1>2, WithTyped
<1>4. record.key \in Keys
  BY <1>1 DEF Record
<1>5. Append(index.order, Ref(record)) \in Seq(Nat \X Nat)
  BY <1>1, <1>2
<1>6. IndexedIn(index, record) \in Indexes
  BY <1>2, <1>3, <1>4, <1>5 DEF IndexedIn, Indexes
<1>7. [index EXCEPT !.recs = With(index.recs, Ref(record), record)] \in Indexes
  BY <1>2, <1>3 DEF Indexes
<1> QED
  BY <1>6, <1>7 DEF Turn

\* An index of nothing.
LEMMA NoIndexTyped == NoIndex \in Indexes
<1>1. <<>> \in Seq(Nat \X Nat) /\ <<>> \in [{} -> Record]
  OBVIOUS
<1>2. {} \in SUBSET (Nat \X Nat)
  OBVIOUS
<1> QED
  BY <1>1, <1>2 DEF NoIndex, Indexes

\* Rebuilt goes through the log line by line.
LEMMA RebuiltIsFold ==
    ASSUME NEW log \in Seq(RecordEvent)
    PROVE  /\ Rebuilt(log) = RebuiltBy(log)[1..Len(log)]
           /\ RebuiltBy(log)[{}] = NoIndex
           /\ \A S \in SUBSET (1..Len(log)) : S # {} =>
                RebuiltBy(log)[S] = Turn(RebuiltBy(log)[S \ {Max(S)}], log[Max(S)])
<1> DEFINE n == Len(log)
           step == [p \in Indexes \X (1..n) |-> Turn(p[1], log[p[2]])]
           Fold(f) == [S \in SUBSET (DOMAIN log) |->
                         IF S = {} THEN NoIndex ELSE Turn(f[S \ {Max(S)}], log[Max(S)])]
<1>1. n \in Nat /\ DOMAIN log = 1..n /\ \A i \in 1..n : log[i] \in RecordEvent
  BY ElementOfSequence
<1>2. step \in [Indexes \X (1..n) -> Indexes]
  BY <1>1, TurnTyped
<1>3. PICK f : FoldedBy(f, Indexes, NoIndex, step, n)
  BY <1>1, <1>2, NoIndexTyped, SetRecursion
<1>4. f = Fold(f)
  <2>1. f \in [SUBSET (1..n) -> Indexes] /\ f[{}] = NoIndex
    BY <1>3 DEF FoldedBy
  <2>2. ASSUME NEW S \in SUBSET (1..n), S # {}
        PROVE  f[S] = Turn(f[S \ {Max(S)}], log[Max(S)])
    <3>1. f[S] = step[<<f[S \ {Max(S)}], Max(S)>>]
      BY <1>3, <2>2 DEF FoldedBy
    <3>2. Max(S) \in 1..n
      BY <1>1, <2>2, MaxOfIndices
    <3>3. f[S \ {Max(S)}] \in Indexes
      BY <2>1
    <3> HIDE DEF n
    <3>4. step[<<f[S \ {Max(S)}], Max(S)>>] = Turn(f[S \ {Max(S)}], log[Max(S)])
      BY <3>2, <3>3
    <3> QED
      BY <3>1, <3>4
  <2> HIDE DEF step, n
  <2> QED
    BY <1>1, <2>1, <2>2
<1>5. RebuiltBy(log) = Fold(RebuiltBy(log))
  BY <1>4 DEF RebuiltBy
<1>6. Rebuilt(log) = RebuiltBy(log)[DOMAIN log]
  BY DEF Rebuilt, RebuiltBy, FoldLeft, MapThenFoldSet, Turn, IndexedIn, NoIndex
<1> HIDE DEF step, n
<1>7. RebuiltBy(log)[{}] = NoIndex
  BY <1>5
<1>8. \A S \in SUBSET (DOMAIN log) : S # {} =>
        RebuiltBy(log)[S] = Turn(RebuiltBy(log)[S \ {Max(S)}], log[Max(S)])
  BY <1>5
<1> QED
  BY <1>1, <1>6, <1>7, <1>8 DEF n

\* Every log of these lines rebuilds to an index, and no log to none.
LEMMA RebuiltTyped ==
    /\ Rebuilt(<<>>) = NoIndex
    /\ \A log \in Seq(RecordEvent) : Rebuilt(log) \in Indexes
<1>1. Rebuilt(<<>>) = NoIndex
  <2>1. <<>> \in Seq(RecordEvent) /\ Len(<<>>) = 0 /\ 1..0 = {}
    OBVIOUS
  <2> QED
    BY <2>1, RebuiltIsFold
<1>2. ASSUME NEW log \in Seq(RecordEvent)
      PROVE  Rebuilt(log) \in Indexes
  <2> DEFINE f == RebuiltBy(log)
             T == {k \in Nat : k =< Len(log) => f[1..k] \in Indexes}
  <2>1. Len(log) \in Nat /\ \A i \in 1..Len(log) : log[i] \in RecordEvent
    BY ElementOfSequence
  <2>2. /\ Rebuilt(log) = f[1..Len(log)]
        /\ f[{}] = NoIndex
        /\ \A S \in SUBSET (1..Len(log)) : S # {} => f[S] = Turn(f[S \ {Max(S)}], log[Max(S)])
    BY RebuiltIsFold
  <2> HIDE DEF f
  <2>3. 0 \in T
    <3>1. 1..0 = {}
      OBVIOUS
    <3> QED
      BY <2>2, <3>1, NoIndexTyped
  <2>4. \A k \in Nat : k \in T => k + 1 \in T
    <3> SUFFICES ASSUME NEW k \in Nat, k + 1 =< Len(log), f[1..k] \in Indexes
                 PROVE  f[1..k + 1] \in Indexes
      BY <2>1
    <3>1. 1..k + 1 \in SUBSET (1..Len(log)) /\ 1..k + 1 # {} /\ (1..k + 1) \ {k + 1} = 1..k
      BY <2>1
    <3>2. Max(1..k + 1) = k + 1
      BY MaxOfInterval
    <3>3. f[1..k + 1] = Turn(f[1..k], log[k + 1])
      BY <2>2, <3>1, <3>2
    <3> QED
      BY <2>1, <3>3, TurnTyped
  <2> HIDE DEF T
  <2>5. Len(log) \in T
    BY <2>1, <2>3, <2>4, Induction
  <2> QED
    BY <2>1, <2>2, <2>5 DEF T
<1> QED
  BY <1>1, <1>2

\* One more line is one more turn of the loop.
LEMMA RebuiltAppend ==
    ASSUME NEW log \in Seq(RecordEvent), NEW event \in RecordEvent
    PROVE  Rebuilt(Append(log, event)) = Turn(Rebuilt(log), event)
<1> DEFINE longer == Append(log, event)
           f == RebuiltBy(log)
           g == RebuiltBy(longer)
           T == {k \in Nat : k =< Len(log) => f[1..k] = g[1..k]}
<1>1. /\ longer \in Seq(RecordEvent) /\ Len(log) \in Nat /\ Len(longer) = Len(log) + 1
      /\ \A i \in 1..Len(log) : longer[i] = log[i]
      /\ longer[Len(log) + 1] = event
  BY AppendToSequence
<1>2. /\ Rebuilt(log) = f[1..Len(log)]
      /\ f[{}] = NoIndex
      /\ \A S \in SUBSET (1..Len(log)) : S # {} => f[S] = Turn(f[S \ {Max(S)}], log[Max(S)])
  BY RebuiltIsFold
<1>3. /\ Rebuilt(longer) = g[1..Len(longer)]
      /\ g[{}] = NoIndex
      /\ \A S \in SUBSET (1..Len(longer)) : S # {} => g[S] = Turn(g[S \ {Max(S)}], longer[Max(S)])
  BY <1>1, RebuiltIsFold
<1> HIDE DEF longer, f, g
<1>4. ASSUME NEW k \in Nat
      PROVE  /\ k + 1 =< Len(log) => f[1..k + 1] = Turn(f[1..k], log[k + 1])
             /\ k + 1 =< Len(longer) => g[1..k + 1] = Turn(g[1..k], longer[k + 1])
  <2>1. /\ 1..k + 1 # {} /\ (1..k + 1) \ {k + 1} = 1..k
        /\ k + 1 =< Len(log) => 1..k + 1 \in SUBSET (1..Len(log))
        /\ k + 1 =< Len(longer) => 1..k + 1 \in SUBSET (1..Len(longer))
        /\ Max(1..k + 1) = k + 1
    <3>1. Len(log) \in Nat /\ Len(longer) \in Nat
      BY <1>1
    <3>2. \A n \in Nat : k + 1 =< n => 1..k + 1 \in SUBSET (1..n)
      OBVIOUS
    <3> QED
      BY <3>1, <3>2, MaxOfInterval
  <2> QED
    BY <1>2, <1>3, <2>1
<1>5. 0 \in T
  <2>1. 1..0 = {}
    OBVIOUS
  <2> QED
    BY <1>2, <1>3, <2>1
<1>6. \A k \in Nat : k \in T => k + 1 \in T
  <2> SUFFICES ASSUME NEW k \in Nat, k + 1 =< Len(log), f[1..k] = g[1..k]
               PROVE  f[1..k + 1] = g[1..k + 1]
    BY <1>1
  <2>1. k + 1 \in 1..Len(log) /\ k + 1 =< Len(longer)
    BY <1>1
  <2> QED
    BY <1>1, <1>4, <2>1
<1> HIDE DEF T
<1>7. Len(log) \in T
  BY <1>1, <1>5, <1>6, Induction
<1>8. f[1..Len(log)] = g[1..Len(log)]
  BY <1>1, <1>7 DEF T
<1>9. g[1..Len(log) + 1] = Turn(g[1..Len(log)], longer[Len(log) + 1])
  BY <1>1, <1>4
<1> QED
  BY <1>1, <1>2, <1>3, <1>8, <1>9 DEF longer

-----------------------------------------------------------------------------
(* The log rebuilds the index *)

\* Every admitted record of an index has its key there.
Keyed(index) ==
    \A ref \in DOMAIN index.recs :
      index.recs[ref].status # "rejected" => index.recs[ref].key \in index.keys

\* Logs that rebuild to a keyed index, and so do all their beginnings.
KeyedLogs ==
    {log \in Seq(RecordEvent) :
       \A k \in 0..Len(log) : Keyed(Rebuilt(SubSeq(log, 1, k)))}

\* While no write has failed, the log rebuilds the index; during a replay, the
\* lines read so far rebuild the part that is back.  The watcher writes no keys:
\* the records it looks at were admitted, and theirs are there already.
RebuildInv ==
    /\ \A i \in watch.todo : recs[order[i]].status # "rejected"
    /\ phase \in {"exited", "dead"} => keys = {}
    /\ Persist /\ faults = 0 =>
         /\ file \o queue \in KeyedLogs
         /\ Alive => Rebuilt(file \o queue) = Index
         /\ phase = "replaying" => Rebuilt(SubSeq(file, 1, replayed)) = Index

\* A log that grows by a line that leaves its index keyed.
LEMMA KeyedAppend ==
    ASSUME NEW log \in KeyedLogs, NEW event \in RecordEvent, Keyed(Turn(Rebuilt(log), event))
    PROVE  Append(log, event) \in KeyedLogs
<1> DEFINE longer == Append(log, event)
<1>1. log \in Seq(RecordEvent) /\ \A k \in 0..Len(log) : Keyed(Rebuilt(SubSeq(log, 1, k)))
  BY DEF KeyedLogs
<1>2. /\ longer \in Seq(RecordEvent) /\ Len(log) \in Nat /\ Len(longer) = Len(log) + 1
      /\ longer = log \o <<event>> /\ <<event>> \in Seq(RecordEvent)
  BY <1>1, AppendToSequence
<1>3. Rebuilt(longer) = Turn(Rebuilt(log), event)
  BY <1>1, RebuiltAppend
<1>4. SubSeq(longer, 1, Len(longer)) = longer
  BY <1>2, BeginningsAtTheEnds
<1>5. \A k \in 0..Len(log) : SubSeq(longer, 1, k) = SubSeq(log, 1, k)
  BY <1>1, <1>2, BeginningOfConcat
<1> HIDE DEF longer
<1>6. ASSUME NEW k \in 0..Len(longer)
      PROVE  Keyed(Rebuilt(SubSeq(longer, 1, k)))
  <2>1. CASE k = Len(longer)
    BY <1>3, <1>4, <2>1
  <2>2. CASE k # Len(longer)
    <3>1. k \in 0..Len(log)
      BY <1>2, <2>2
    <3> QED
      BY <1>1, <1>5, <3>1
  <2> QED
    BY <2>1, <2>2
<1> QED
  BY <1>2, <1>6 DEF KeyedLogs, longer

\* A log that loses its last lines.
LEMMA KeyedBeginning ==
    ASSUME NEW f \in Seq(RecordEvent), NEW q \in Seq(RecordEvent), f \o q \in KeyedLogs
    PROVE  f \in KeyedLogs
<1>1. Len(f \o q) = Len(f) + Len(q) /\ Len(f) \in Nat /\ Len(q) \in Nat
  BY ConcatOfSequences
<1>2. ASSUME NEW k \in 0..Len(f)
      PROVE  Keyed(Rebuilt(SubSeq(f, 1, k)))
  <2>1. k \in 0..Len(f \o q)
    BY <1>1
  <2>2. SubSeq(f \o q, 1, k) = SubSeq(f, 1, k)
    BY BeginningOfConcat
  <2> QED
    BY <2>1, <2>2 DEF KeyedLogs
<1> QED
  BY <1>2 DEF KeyedLogs

\* A record that joins a keyed index brings its key.
LEMMA IndexedInKeyed ==
    ASSUME NEW index, Keyed(index), NEW record \in Record
    PROVE  Keyed(IndexedIn(index, record))
<1> DEFINE next == IndexedIn(index, record)
<1>1. /\ next.recs = With(index.recs, Ref(record), record)
      /\ index.keys \subseteq next.keys
      /\ record.status # "rejected" => record.key \in next.keys
  BY DEF IndexedIn
<1> HIDE DEF next
<1> SUFFICES ASSUME NEW ref \in DOMAIN next.recs, next.recs[ref].status # "rejected"
             PROVE  next.recs[ref].key \in next.keys
  BY DEF Keyed, next
<1>2. CASE ref = Ref(record)
  BY <1>1, <1>2 DEF With
<1>3. CASE ref # Ref(record)
  BY <1>1, <1>3 DEF With, Keyed
<1> QED
  BY <1>2, <1>3

\* The log is a sequence of these lines.
LEMMA LogTyped ==
    ASSUME IdInv
    PROVE  /\ file \in Seq(RecordEvent) /\ queue \in Seq(RecordEvent)
           /\ file \o queue \in Seq(RecordEvent)
           /\ Len(file) \in Nat
<1>1. file \in Seq(RecordEvent) /\ queue \in Seq(RecordEvent)
  BY DEF IdInv, LogInv, LogOf
<1> QED
  BY <1>1, ConcatOfSequences

\* A line that joins the log, when the index takes the same turn.
LEMMA RebuildAfterLine ==
    ASSUME IdInv, RebuildInv, Persist, faults = 0, Alive,
           NEW event \in RecordEvent,
           Log!Enqueue(event), Index' = Turn(Index, event), Keyed(Index)'
    PROVE  /\ file' \o queue' \in KeyedLogs
           /\ Rebuilt(file' \o queue') = Index'
<1>1. /\ file \o queue \in KeyedLogs
      /\ Rebuilt(file \o queue) = Index
  BY DEF RebuildInv
<1>2. file' = file /\ queue' = Append(queue, event)
  BY DEF Log!Enqueue
<1>3. file' \o queue' = Append(file \o queue, event)
  BY <1>2, LogTyped, AppendToConcat
<1>4. Rebuilt(file' \o queue') = Index'
  BY <1>1, <1>3, LogTyped, RebuiltAppend
<1>5. Keyed(Turn(Rebuilt(file \o queue), event))
  BY <1>1
<1> QED
  BY <1>1, <1>3, <1>4, <1>5, KeyedAppend

\* While the log is whole, the index that is served is keyed.
LEMMA ServedIndexKeyed ==
    ASSUME IdInv, RebuildInv, Persist, faults = 0, Alive
    PROVE  Keyed(Index) /\ Index \in Indexes
<1> DEFINE log == file \o queue
<1>1. log \in KeyedLogs /\ Rebuilt(log) = Index /\ log \in Seq(RecordEvent)
  BY LogTyped DEF RebuildInv
<1>2. Len(log) \in Nat /\ SubSeq(log, 1, Len(log)) = log
  BY <1>1, BeginningsAtTheEnds
<1> HIDE DEF log
<1>3. Keyed(Rebuilt(SubSeq(log, 1, Len(log))))
  BY <1>1, <1>2 DEF KeyedLogs
<1> QED
  BY <1>1, <1>2, <1>3, RebuiltTyped

\* A handler adds a record: one line, one turn.
LEMMA RebuildAfterHandler ==
    ASSUME IdInv, AnswerInv, RebuildInv, NEW r \in Requests, ReceiveRejected(r) \/ Settle(r)
    PROVE  RebuildInv'
<1>1. PICK record \in Record :
        /\ AddRecord(record)
        /\ \A ref \in DOMAIN recs : ref[2] # record.id
        /\ Alive
  BY HandlerAddsOwn DEF AnswerInv
<1>2. PICK event : event = [t |-> "record", record |-> record]
  OBVIOUS
<1>3. event \in RecordEvent /\ event.record = record /\ event.t = "record"
  BY <1>2 DEF RecordEvent
<1>4. IndexRecord(record) /\ Log!Enqueue(event)
  BY <1>1, <1>2 DEF AddRecord
<1>5. UNCHANGED <<phase, watch, faults>> /\ Alive'
  BY <1>1, <1>4 DEF ReceiveRejected, Settle, processVars, Log!Enqueue, Alive
<1>6. \A i \in watch'.todo : recs'[order'[i]].status # "rejected"
  BY <1>1, <1>4, <1>5, IndexRecordKeeps, OnTurnRecord DEF IdInv, RebuildInv
<1>7. Index' = Turn(Index, event)
  BY <1>3, <1>4 DEF Index, Turn, IndexedIn, IndexRecord, KeysWith
<1>8. ASSUME Persist, faults = 0
      PROVE  /\ file' \o queue' \in KeyedLogs
             /\ Rebuilt(file' \o queue') = Index'
  <2>1. Keyed(IndexedIn(Index, record))
    BY <1>1, <1>8, ServedIndexKeyed, IndexedInKeyed
  <2>2. Keyed(Index)'
    BY <1>3, <1>7, <2>1 DEF Turn
  <2> QED
    BY <1>1, <1>3, <1>4, <1>7, <1>8, <2>2, RebuildAfterLine
<1> QED
  BY <1>1, <1>5, <1>6, <1>8 DEF RebuildInv, Alive

\* What the watcher does to the record it has come to.
LEMMA RebuildAfterUpdate ==
    ASSUME IdInv, RebuildInv, NEW i \in watch.todo, WatcherApplies(i)
    PROVE  RebuildInv'
<1>1. PICK old : old = recs[order[i]]
  OBVIOUS
<1>2. PICK record : record = ApplyAnchor(old, watch.reply.anchor)
  OBVIOUS
<1>3. /\ watch' = [todo |-> watch.todo \ {i}, reply |-> Null]
      /\ UNCHANGED processVars
      /\ IF News(old, watch.reply) THEN UpdateRecord(record)
                                   ELSE UNCHANGED <<indexVars, logVars>>
  BY <1>1, <1>2 DEF WatcherApplies
<1>4. /\ Alive
      /\ order[i] \in DOMAIN recs
      /\ old \in Record
      /\ Ref(old) = order[i]
      /\ old.status # "rejected"
  BY <1>1, OnTurnRecord DEF RebuildInv
<1>5. CASE ~News(old, watch.reply)
  BY <1>3, <1>5 DEF RebuildInv, indexVars, logVars, processVars, Alive, Index
<1>6. CASE News(old, watch.reply)
  <2>1. watch.reply.anchor \in Anchor
    BY <1>6 DEF WatcherApplies, News, IdInv, WatchInv, SoundReply
  <2>2. record \in Record /\ Ref(record) = order[i]
    BY <1>2, <1>4, <2>1, ApplyAnchorTyped
  <2>3. record.status # "rejected" /\ record.key = old.key
    BY <1>2, <1>4 DEF ApplyAnchor, Record
  <2>4. /\ recs' = [recs EXCEPT ![order[i]] = record]
        /\ keys' = keys \cup {record.key}
        /\ order' = order
        /\ Log!Enqueue(UpdateEvent(record))
    BY <1>3, <1>6, <2>2, <2>3 DEF UpdateRecord
  <2>5. UNCHANGED <<phase, faults>> /\ Alive'
    BY <1>3, <1>4, <2>4 DEF processVars, Log!Enqueue, Alive
  <2>6. \A ref \in DOMAIN recs : recs'[ref] = IF ref = order[i] THEN record ELSE recs[ref]
    BY <1>4, <2>4
  <2>7. \A j \in watch'.todo : recs'[order'[j]].status # "rejected"
    BY <1>3, <2>3, <2>4, <2>6, OnTurnRecord DEF RebuildInv
  <2>8. PICK event : event = UpdateEvent(record)
    OBVIOUS
  <2>9. event \in RecordEvent /\ event.record = record /\ event.t # "record"
    BY <2>2, <2>8 DEF UpdateEvent, RecordEvent
  <2>10. ASSUME Persist, faults = 0
         PROVE  /\ file' \o queue' \in KeyedLogs
                /\ Rebuilt(file' \o queue') = Index'
    <3>1. Keyed(Index) /\ Index \in Indexes
      BY <1>4, <2>10, ServedIndexKeyed
    <3>2. record.key \in keys
      BY <1>1, <1>4, <2>3, <3>1 DEF Keyed, Index
    <3>3. keys' = keys
      BY <2>4, <3>2
    <3>4. recs' = With(recs, order[i], record)
      <4>1. PICK refs \in SUBSET (Nat \X Nat) : recs \in [refs -> Record]
        BY <3>1 DEF Indexes, Index
      <4> QED
        BY <1>4, <2>4, <4>1 DEF With
    <3>5. Turn(Index, event) = [Index EXCEPT !.recs = With(Index.recs, order[i], record)]
      BY <1>4, <2>2, <2>9 DEF Turn, Index
    <3>6. Index' = Turn(Index, event)
      BY <2>4, <3>3, <3>4, <3>5 DEF Index
    <3>7. Keyed(Index)'
      <4>1. DOMAIN recs' = DOMAIN recs
        BY <2>4
      <4>2. ASSUME NEW ref \in DOMAIN recs, recs'[ref].status # "rejected"
            PROVE  recs'[ref].key \in keys
        <5>1. CASE ref = order[i]
          BY <2>6, <3>2, <5>1
        <5>2. CASE ref # order[i]
          BY <2>6, <3>1, <4>2, <5>2 DEF Keyed, Index
        <5> QED
          BY <5>1, <5>2
      <4> QED
        BY <3>3, <4>1, <4>2 DEF Keyed, Index
    <3> QED
      BY <1>4, <2>4, <2>8, <2>9, <2>10, <3>6, <3>7, RebuildAfterLine
  <2> QED
    BY <1>4, <2>5, <2>7, <2>10 DEF RebuildInv, Alive
<1> QED
  BY <1>5, <1>6

\* The other steps of the watcher.
LEMMA RebuildAfterTick ==
    ASSUME IdInv, RebuildInv, Tick \/ \E i \in watch.todo : WatcherAnswered(i)
    PROVE  RebuildInv'
<1>1. UNCHANGED <<recs, order, keys, file, queue, faults, phase, replayed>>
  BY DEF Tick, WatcherAnswered, storeVars, indexVars, logVars, processVars
<1>2. \A i \in watch'.todo : recs[order[i]].status # "rejected"
  <2>1. CASE Tick
    <3>1. watch'.todo = UnsettledAnchors(BatchSize)
      BY <2>1 DEF Tick
    <3> QED
      BY <3>1 DEF UnsettledAnchors, Unsettled
  <2>2. ASSUME NEW i \in watch.todo, WatcherAnswered(i)
        PROVE  watch'.todo = watch.todo
    BY <2>2 DEF WatcherAnswered, IdInv, WatchInv
  <2> QED
    BY <2>1, <2>2 DEF RebuildInv
<1> QED
  BY <1>1, <1>2 DEF RebuildInv, Index, Alive

\* A write moves a line from the queue to the file: the log stays the same.
LEMMA RebuildAfterWrite ==
    ASSUME IdInv, ExitInv, RebuildInv, WriteSucceeds \/ WriteFails
    PROVE  RebuildInv'
<1>1. UNCHANGED <<recs, order, keys, watch, phase, replayed>> /\ Alive
  BY DEF WriteSucceeds, WriteFails, LogWriteSucceeds, LogWriteFails, indexVars, processVars
<1>2. CASE WriteFails
  <2>1. faults \in Nat /\ faults' = faults + 1
    BY <1>2, StoreAssumption
       DEF WriteFails, LogWriteFails, Log!WriteFails, IdInv, LogInv, Log!TypeOK, StoreAssumption
  <2> QED
    BY <1>1, <2>1 DEF RebuildInv
<1>3. CASE WriteSucceeds
  <2>1. faults' = faults
    BY <1>3 DEF WriteSucceeds, LogWriteSucceeds, Log!WriteSucceeds
  <2>2. ASSUME Persist, faults = 0
        PROVE  file' \o queue' = file \o queue
    <3>1. queue # <<>> /\ file' = Append(file, Head(queue)) /\ queue' = Tail(queue)
      BY <1>3, <2>2 DEF ExitInv, WriteSucceeds, LogWriteSucceeds, Log!WriteSucceeds, Log!NextLine
    <3> QED
      BY <3>1, LogTyped, HeadMovesOver
  <2> QED
    BY <1>1, <2>1, <2>2 DEF RebuildInv, Index, Alive
<1> QED
  BY <1>2, <1>3

\* The process ends, and the lines that waited are gone; or it starts again, with
\* nothing read yet.
LEMMA RebuildAfterEnd ==
    ASSUME IdInv, RebuildInv, Crash \/ Exit \/ Restart
    PROVE  RebuildInv'
<1>1. CASE Crash \/ Exit
  <2>1. /\ Log!Die /\ IndexIsGone /\ HandlersAreGone
        /\ phase' \in {"exited", "dead"}
    BY <1>1 DEF Crash, Exit, Killed, Exits
  <2>2. watch'.todo = {} /\ keys' = {}
    BY <2>1 DEF IndexIsGone, HandlersAreGone, NotTicking
  <2>3. ~Alive' /\ phase' # "replaying"
    BY <2>1 DEF Alive
  <2>4. ASSUME Persist, faults' = 0
        PROVE  file' \o queue' \in KeyedLogs
    <3>1. faults \in Nat
      BY StoreAssumption DEF IdInv, LogInv, Log!TypeOK, StoreAssumption
    <3>2. faults = 0 /\ file' = file /\ queue' = <<>>
      BY <2>1, <2>4, <3>1 DEF Log!Die
    <3>3. file' \o queue' = file
      BY <3>2, LogTyped, BeginningsAtTheEnds
    <3> QED
      BY <2>4, <3>2, <3>3, LogTyped, KeyedBeginning DEF RebuildInv
  <2> QED
    BY <2>2, <2>3, <2>4 DEF RebuildInv
<1>2. CASE Restart
  <2>1. /\ phase \in {"exited", "dead"} /\ phase' = "replaying" /\ replayed' = 0
        /\ UNCHANGED <<recs, order, keys, file, queue, faults, watch>>
    BY <1>2 DEF Restart, Start, indexVars, logVars
  <2>2. recs = <<>> /\ order = <<>> /\ keys = {}
    BY <2>1 DEF IdInv, LifeInv, RebuildInv
  <2>3. Rebuilt(SubSeq(file, 1, 0)) = Index
    BY <2>2, LogTyped, BeginningsAtTheEnds, RebuiltTyped DEF Index, NoIndex
  <2>4. ~Alive'
    BY <2>1 DEF Alive
  <2> QED
    BY <2>1, <2>3, <2>4 DEF RebuildInv, Index
<1> QED
  BY <1>1, <1>2

\* Each line that is replayed is a turn of the loop.
LEMMA RebuildAfterReplay ==
    ASSUME IdInv, RebuildInv, Replay
    PROVE  RebuildInv'
<1>1. /\ phase = "replaying" /\ ~Alive
      /\ UNCHANGED <<file, queue, faults, watch>>
  BY DEF Replay, ReplayLine, ReplayDone, Alive, logVars
<1>2. watch.todo = {} /\ queue = <<>> /\ replayed \in Nat
  BY <1>1 DEF IdInv, LifeInv, LogInv
<1>3. file \o queue = file /\ SubSeq(file, 1, Len(file)) = file
  BY <1>2, LogTyped, BeginningsAtTheEnds
<1>4. CASE ReplayLine
  <2>1. /\ phase' = "replaying" /\ replayed' = replayed + 1 /\ ~Alive'
        /\ replayed \in 0..Len(file) /\ replayed # Len(file) /\ replayed + 1 \in 1..Len(file)
    BY <1>1, <1>2, <1>4, LogTyped DEF ReplayLine, Alive
  <2>2. PICK event : event = file[replayed + 1]
    OBVIOUS
  <2>3. event \in RecordEvent
    BY <2>1, <2>2, LogTyped, ElementOfSequence
  <2>4. event.t \in {"record", "record-update"} /\ event.record \in Record
    BY <2>3 DEF RecordEvent
  <2>5. ASSUME Persist, faults = 0
        PROVE  Rebuilt(SubSeq(file, 1, replayed + 1)) = Turn(Index, event)
    <3>1. SubSeq(file, 1, replayed + 1) = Append(SubSeq(file, 1, replayed), event)
      BY <2>1, <2>2, LogTyped, BeginningGrows
    <3>2. SubSeq(file, 1, replayed) \in Seq(RecordEvent)
      BY <2>1, LogTyped, BeginningOfSequence
    <3>3. Rebuilt(SubSeq(file, 1, replayed)) = Index
      BY <1>1, <2>5 DEF RebuildInv
    <3> QED
      BY <2>3, <3>1, <3>2, <3>3, RebuiltAppend
  <2>6. ASSUME Persist, faults = 0
        PROVE  Index' = Turn(Index, event)
    <3>1. Index \in Indexes
      <4>1. SubSeq(file, 1, replayed) \in Seq(RecordEvent)
        BY <2>1, LogTyped, BeginningOfSequence
      <4> QED
        BY <1>1, <2>6, <4>1, RebuiltTyped DEF RebuildInv
    <3>2. CASE IndexRecord(event.record) /\ (event.t = "record" \/ Ref(event.record) \notin DOMAIN recs)
      BY <3>2 DEF IndexRecord, KeysWith, Index, Turn, IndexedIn
    <3>3. CASE /\ event.t # "record" /\ Ref(event.record) \in DOMAIN recs
               /\ recs' = [recs EXCEPT ![Ref(event.record)] = event.record]
               /\ UNCHANGED <<order, keys>>
      <4>1. PICK refs \in SUBSET (Nat \X Nat) : recs \in [refs -> Record]
        BY <3>1 DEF Indexes, Index
      <4>2. recs' = With(recs, Ref(event.record), event.record)
        BY <3>3, <4>1 DEF With
      <4> QED
        BY <3>3, <4>2 DEF Index, Turn
    <3>4. CASE event.t = "record"
      <4>1. IndexRecord(event.record)
        BY <1>4, <2>2, <3>4 DEF ReplayLine
      <4> QED
        BY <3>2, <3>4, <4>1
    <3>5. CASE event.t = "record-update"
      <4>1. ApplyUpdate(event.record)
        BY <1>4, <2>2, <3>5 DEF ReplayLine
      <4> QED
        BY <3>2, <3>3, <3>5, <4>1 DEF ApplyUpdate, Indexed
    <3> QED
      BY <2>4, <3>4, <3>5
  <2> QED
    BY <1>1, <1>2, <2>1, <2>5, <2>6 DEF RebuildInv
<1>5. CASE ReplayDone
  <2>1. /\ phase' = "serving" /\ replayed = Len(file)
        /\ UNCHANGED <<recs, order, keys>>
    BY <1>5 DEF ReplayDone, indexVars
  <2> QED
    BY <1>1, <1>2, <1>3, <2>1 DEF RebuildInv, Index
<1> QED
  BY <1>4, <1>5 DEF Replay

\* The steps that leave the index and the log alone.
LEMMA RebuildAfterRest ==
    ASSUME IdInv, RebuildInv,
           \/ \E r \in Requests : ReceiveAdmissible(r) \/ NodeAnswers(r) \/ Disconnect(r)
           \/ Signal \/ ServerCloses \/ SignalAgain
           \/ Outside
           \/ UNCHANGED vars
    PROVE  RebuildInv'
<1>1. UNCHANGED <<recs, order, keys, file, queue, faults, watch, replayed>>
  BY DEF ReceiveAdmissible, NodeAnswers, Disconnect, Signal, ServerCloses, SignalAgain, Outside,
     vars, storeVars, indexVars, logVars, processVars
<1>2. phase' = phase \/ (Alive /\ Alive' /\ phase' \notin {"replaying", "exited", "dead"})
  BY DEF ReceiveAdmissible, NodeAnswers, Disconnect, Signal, ServerCloses, SignalAgain, Outside,
     vars, storeVars, processVars, Alive
<1> QED
  BY <1>1, <1>2 DEF RebuildInv, Index, Alive

\* Nothing is logged and nothing indexed at the start.
LEMMA InitRebuild == Init => RebuildInv
<1> SUFFICES ASSUME Init PROVE RebuildInv
  OBVIOUS
<1>1. /\ recs = <<>> /\ order = <<>> /\ keys = {} /\ file = <<>> /\ queue = <<>>
      /\ watch.todo = {} /\ phase = "replaying" /\ replayed = 0
  BY DEF Init, StoreInit, EmptyIndex, Log!Init, NotTicking
<1>2. /\ <<>> \in Seq(RecordEvent) /\ Len(<<>>) = 0
      /\ SubSeq(<<>>, 1, 0) = <<>> /\ <<>> \o <<>> = <<>>
  BY BeginningsAtTheEnds
<1>3. Rebuilt(<<>>) = NoIndex /\ Keyed(NoIndex)
  BY RebuiltTyped DEF Keyed, NoIndex
<1>4. <<>> \in KeyedLogs
  <2>1. \A k \in 0..0 : k = 0
    OBVIOUS
  <2> QED
    BY <1>2, <1>3, <2>1 DEF KeyedLogs
<1>5. Rebuilt(SubSeq(<<>>, 1, 0)) = Index
  BY <1>1, <1>2, <1>3 DEF Index, NoIndex
<1>6. ~Alive
  BY <1>1 DEF Alive
<1> QED
  BY <1>1, <1>2, <1>4, <1>5, <1>6 DEF RebuildInv

\* While no write has failed, the log and the index agree at every moment.
THEOREM RebuildInvariant == Spec => []RebuildInv
<1>1. IdInv /\ AnswerInv /\ ExitInv /\ RebuildInv /\ [Next]_vars => RebuildInv'
  BY RebuildAfterHandler, RebuildAfterUpdate, RebuildAfterTick, RebuildAfterWrite,
     RebuildAfterEnd, RebuildAfterReplay, RebuildAfterRest
     DEF Next, Handlers, Watcher, Lifecycle
<1> QED
  BY <1>1, InitRebuild, IdInvariant, AnswerInvariant, ExitInvariant, PTL DEF Spec

\* A node can be rebuilt by replaying the file in order: with the lines that still
\* wait, it rebuilds the very index that is being served.
THEOREM LogIsEnough == Spec => []LogRebuildsIndex
<1>1. RebuildInv => LogRebuildsIndex
  BY DEF RebuildInv, LogRebuildsIndex, Index
<1> QED
  BY <1>1, RebuildInvariant, PTL
=============================================================================
