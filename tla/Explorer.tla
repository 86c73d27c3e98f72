------------------------------- MODULE Explorer -------------------------------
(***************************************************************************)
(* A ChatScan node on the CDCI backend: concurrent submissions             *)
(* (src/src/core/chain.js), each suspended while the CDCI node is asked    *)
(* about its anchor; the anchor watcher (src/src/chain/anchor-watcher.js); *)
(* the index and its log (Store); the shutdown of src/src/index.js; and    *)
(* the CDCI node, which mines, reorganises and goes away as it likes.      *)
(*                                                                         *)
(* JavaScript runs one handler at a time, up to its next await: an action  *)
(* is the code between two awaits.                                         *)
(***************************************************************************)
EXTENDS CdciChain, Store, SequencesExt

CONSTANTS
    Requests,         \* the POST /api/v1/records requests clients make
    Submission,       \* Submission[r]: its [key, commitment, txid, oversize]
    RequireAnchor,    \* CDCI_REQUIRE_ANCHOR, in client anchor mode
    BatchSize         \* anchors the watcher re-checks in one tick (50)

ASSUME ExplorerAssumption ==
    /\ Submission \in [Requests -> Submissions]
    /\ RequireAnchor \in BOOLEAN
    /\ BatchSize \in Nat \ {0}

VARIABLES
    tasks,            \* tasks[r]: how far the handler of request r has come
    answers,          \* answers[r]: the response its client has read, or Null
    watch,            \* the watcher's tick: positions in `order`, and a reply
    signals,          \* SIGINT or SIGTERM received in this run
    flushLeft         \* writes store.flush() still waits for

taskVars == <<tasks, answers>>
stopVars == <<signals, flushLeft>>
vars == <<nodeVars, storeVars, taskVars, watch, stopVars>>

Idle == [pc |-> "idle", connected |-> FALSE, record |-> Null, reply |-> Null]
Done == [Idle EXCEPT !.pc = "done"]

\* The handler has reserved an ID-number and not yet indexed its record.
InFlight(r) == tasks[r].pc \in {"asking", "replied"}

NotTicking == [todo |-> {}, reply |-> Null]

Init ==
    /\ Node!Init
    /\ StoreInit
    /\ tasks = [r \in Requests |-> Idle]
    /\ answers = [r \in Requests |-> Null]
    /\ watch = NotTicking
    /\ signals = 0
    /\ flushLeft = 0

-----------------------------------------------------------------------------
(* Admission: ChatScanNode.submit *)

\* #policyRejection
PolicyRejection(submission) ==
    CASE submission.key \in keys -> "replay-detected"
      [] submission.key \notin keys /\ submission.oversize -> "protocol-size-exceeded"
      [] OTHER -> Null

\* The reason #settleAnchor gives once the node's reply is in.
AnchorRejection(record, reply) ==
    CASE record.anchor = Null -> IF RequireAnchor THEN "anchor-missing" ELSE Null
      [] record.anchor # Null /\ ~reply.answered -> Null
      [] record.anchor # Null /\ reply.answered /\ ~reply.found -> "anchor-not-found"
      [] record.anchor # Null /\ reply.found /\ ~reply.matched -> "anchor-mismatch"
      [] OTHER -> Null

\* The record as submit() adds it.
Settled(record, reply) ==
    CASE AnchorRejection(record, reply) # Null ->
           Reject(record, AnchorRejection(record, reply))
      [] AnchorRejection(record, reply) = Null /\ reply.answered ->
           ApplyAnchor(record, reply.anchor)
      [] OTHER -> record

\* What the client reads: 201 when accepted, 202 otherwise.
Answer(record) ==
    [ref |-> Ref(record),
     accepted |-> record.status # "rejected",
     status |-> record.status]

\* The response is written as soon as the record is indexed; the log is not waited for.
Respond(r, record, connected) ==
    /\ tasks' = [tasks EXCEPT ![r] = Done]
    /\ answers' = IF connected THEN [answers EXCEPT ![r] = Answer(record)] ELSE answers

\* A policy violation: recorded, without asking the node.
ReceiveRejected(r) ==
    /\ phase = "serving"
    /\ tasks[r].pc = "idle"
    /\ LET reason == PolicyRejection(Submission[r])
           record == CreateRecord(nextId, run, Submission[r], reason)
       IN  /\ reason # Null
           /\ AddRecord(record)
           /\ Respond(r, record, TRUE)
    /\ UNCHANGED <<nodeVars, processVars, watch, stopVars>>

\* The ID-number is reserved and the handler awaits #settleAnchor.
ReceiveAdmissible(r) ==
    /\ phase = "serving"
    /\ tasks[r].pc = "idle"
    /\ PolicyRejection(Submission[r]) = Null
    /\ LET record == CreateRecord(nextId, run, Submission[r], Null)
           asks == record.anchor # Null
       IN  tasks' = [tasks EXCEPT ![r] =
                       [pc |-> IF asks THEN "asking" ELSE "replied",
                        connected |-> TRUE,
                        record |-> record,
                        reply |-> IF asks THEN Null ELSE NoAnswer]]
    /\ nextId' = nextId + 1
    /\ UNCHANGED <<nodeVars, order, recs, keys, blocks, logVars, processVars,
                   answers, watch, stopVars>>

\* The node evaluates the call of request r, or the call fails.
NodeAnswers(r) ==
    /\ tasks[r].pc = "asking"
    /\ tasks' = [tasks EXCEPT ![r].pc = "replied",
                              ![r].reply = VerifyAnchor(tasks[r].record.commitment,
                                                        tasks[r].record.anchor.txid)]
    /\ UNCHANGED <<nodeVars, storeVars, answers, watch, stopVars>>

\* The handler resumes: the verdict, addRecord, the response.
Settle(r) ==
    /\ tasks[r].pc = "replied"
    /\ LET record == Settled(tasks[r].record, tasks[r].reply)
       IN  /\ AddRecord(record)
           /\ Respond(r, record, tasks[r].connected)
    /\ UNCHANGED <<nodeVars, processVars, watch, stopVars>>

\* The client gives up; the handler does not notice.
Disconnect(r) ==
    /\ InFlight(r)
    /\ tasks[r].connected
    /\ tasks' = [tasks EXCEPT ![r].connected = FALSE]
    /\ UNCHANGED <<nodeVars, storeVars, answers, watch, stopVars>>

\* recordsAnchoredInBlock, what GET /api/v1/blocks/{height} shows with the node's block.
RecordsAnchoredInBlock(height) ==
    {ref \in DOMAIN recs : recs[ref].anchor # Null /\ recs[ref].anchor.height = height}

-----------------------------------------------------------------------------
(* AnchorWatcher *)

Unsettled(ref) ==
    /\ recs[ref].status # "rejected"
    /\ recs[ref].anchor # Null
    /\ recs[ref].anchor.finality \notin SettledFinality

\* unsettledAnchors(limit): the oldest `limit` of them.  `order` only grows
\* while the process lives, so a position in it stays good.
UnsettledAnchors(limit) ==
    {i \in DOMAIN order :
       /\ Unsettled(order[i])
       /\ Cardinality({j \in 1..i - 1 : Unsettled(order[j])}) < limit}

\* tick(): the list is read once, and the first call goes out.
Tick ==
    /\ phase = "serving"
    /\ watch.todo = {}
    /\ UnsettledAnchors(BatchSize) # {}
    /\ watch' = [todo |-> UnsettledAnchors(BatchSize), reply |-> Null]
    /\ UNCHANGED <<nodeVars, storeVars, taskVars, stopVars>>

\* The tick works its list from the front.
OnTurn(i) ==
    /\ i \in watch.todo
    /\ \A j \in watch.todo : i =< j

WatcherAnswered(i) ==
    /\ OnTurn(i)
    /\ watch.reply = Null
    /\ LET record == recs[order[i]]
       IN  watch' = [watch EXCEPT !.reply = VerifyAnchor(record.commitment,
                                                          record.anchor.txid)]
    /\ UNCHANGED <<nodeVars, storeVars, taskVars, stopVars>>

\* Wrong on purpose: whatever transaction is found settles the record.
NewsUnmatched(record, reply) ==
    reply.found /\ reply.anchor.finality # record.anchor.finality

\* Wrong on purpose: only a changed number of confirmations counts as news.
NewsOfConfirmations(record, reply) ==
    /\ reply.found
    /\ reply.matched
    /\ reply.anchor.confirmations # record.anchor.confirmations

\* The reply says something new of the record: it is neither an error, nor
\* absent, nor someone else's anchor, nor what the record holds already.
News(record, reply) ==
    /\ reply.answered
    /\ reply.found
    /\ reply.matched
    /\ \/ reply.anchor.confirmations # record.anchor.confirmations
       \/ reply.anchor.chainlock # record.anchor.chainlock
       \/ reply.anchor.finality # record.anchor.finality

\* The tick resumes with one reply and goes on to the next record.
WatcherApplies(i) ==
    /\ OnTurn(i)
    /\ watch.reply # Null
    /\ LET record == recs[order[i]]
       IN  IF News(record, watch.reply)
           THEN UpdateRecord(ApplyAnchor(record, watch.reply.anchor))
           ELSE UNCHANGED <<indexVars, logVars>>
    /\ watch' = [todo |-> watch.todo \ {i}, reply |-> Null]
    /\ UNCHANGED <<nodeVars, processVars, taskVars, stopVars>>

-----------------------------------------------------------------------------
(* Shutdown, crash and restart *)

\* The first signal: the watcher's timer stops and server.close() begins.
Signal ==
    /\ phase = "serving"
    /\ run =< MaxStops
    /\ phase' = "closing"
    /\ signals' = 1
    /\ UNCHANGED <<nodeVars, indexVars, logVars, run, replayed, taskVars, watch, flushLeft>>

\* Wrong on purpose: open connections are not waited for.
NobodyWaitsIgnored == TRUE

\* No connection still waits for its response.
NobodyWaits == \A r \in Requests : InFlight(r) => ~tasks[r].connected

\* server.close() calls back, store.flush() is called.
ServerCloses ==
    /\ phase = "closing"
    /\ NobodyWaits
    /\ phase' = "flushing"
    /\ flushLeft' = Len(queue)
    /\ UNCHANGED <<nodeVars, indexVars, logVars, run, replayed, taskVars, watch, signals>>

\* A second signal: server.close() fails at once, as the server is closing
\* already, and that handler goes straight to store.flush().
SignalAgain ==
    /\ phase = "closing"
    /\ phase' = "flushing"
    /\ signals' = 2
    /\ flushLeft' = Len(queue)
    /\ UNCHANGED <<nodeVars, indexVars, logVars, run, replayed, taskVars, watch>>

\* The writes flush() waits for are the oldest of the queue.
FlushCountsDown == flushLeft' = IF flushLeft > 0 THEN flushLeft - 1 ELSE 0

WriteSucceeds ==
    /\ LogWriteSucceeds
    /\ FlushCountsDown
    /\ UNCHANGED <<nodeVars, taskVars, watch, signals>>

WriteFails ==
    /\ LogWriteFails
    /\ FlushCountsDown
    /\ UNCHANGED <<nodeVars, taskVars, watch, signals>>

\* The handlers and the tick die with the process; a client that was not
\* answered may make its request again.
HandlersAreGone ==
    /\ tasks' = [r \in Requests |-> IF InFlight(r) THEN Idle ELSE tasks[r]]
    /\ watch' = NotTicking
    /\ signals' = 0
    /\ flushLeft' = 0

Crash ==
    /\ Killed
    /\ HandlersAreGone
    /\ UNCHANGED <<nodeVars, answers>>

Exit ==
    /\ phase = "flushing"
    /\ flushLeft = 0
    /\ Exits
    /\ HandlersAreGone
    /\ UNCHANGED <<nodeVars, answers>>

Restart ==
    /\ Start
    /\ UNCHANGED <<nodeVars, taskVars, watch, stopVars>>

Replay ==
    /\ ReplayLine \/ ReplayDone
    /\ UNCHANGED <<nodeVars, taskVars, watch, stopVars>>

\* The CDCI node and its miners, which know nothing of ChatScan.
Outside ==
    /\ Node!Next
    /\ UNCHANGED <<storeVars, taskVars, watch, stopVars>>

-----------------------------------------------------------------------------
Handlers ==
    \E r \in Requests :
      \/ ReceiveRejected(r)
      \/ ReceiveAdmissible(r)
      \/ NodeAnswers(r)
      \/ Settle(r)
      \/ Disconnect(r)

Watcher == Tick \/ \E i \in watch.todo : WatcherAnswered(i) \/ WatcherApplies(i)

Lifecycle ==
    \/ Signal \/ ServerCloses \/ SignalAgain \/ Exit
    \/ WriteSucceeds \/ WriteFails
    \/ Crash \/ Restart \/ Replay

Next == Handlers \/ Watcher \/ Lifecycle \/ Outside

Spec == Init /\ [][Next]_vars

\* What the handler of request r does once it is waiting.
Proceeds(r) == NodeAnswers(r) \/ Settle(r)

(***************************************************************************)
(* Fairness: an RPC call ends, by a reply or by its timeout, and a settled *)
(* promise resumes its handler; the watcher's interval keeps firing.       *)
(* Nothing makes the CDCI node answer, mine or lock, or a client come.     *)
(***************************************************************************)
Fairness ==
    /\ \A r \in Requests : WF_vars(Proceeds(r))
    /\ WF_vars(Watcher)

FairSpec == Spec /\ Fairness

-----------------------------------------------------------------------------
(* Properties *)

Reply ==
    [answered : BOOLEAN, found : BOOLEAN, matched : BOOLEAN, anchor : Anchor \cup {Null}]

Task ==
    [pc : {"idle", "asking", "replied", "done"}, connected : BOOLEAN,
     record : Record \cup {Null}, reply : Reply \cup {Null}]

\* The type of every variable.
TypeOK ==
    /\ Node!TypeOK
    /\ Log!TypeOK
    /\ order \in Seq(Nat \X Nat)
    /\ DOMAIN recs \subseteq Nat \X Nat
    /\ \A ref \in DOMAIN recs : recs[ref] \in Record
    /\ keys \subseteq Keys
    /\ nextId \in Nat
    /\ blocks = <<>>
    /\ phase \in Phases
    /\ run \in 1..MaxStops + 1
    /\ replayed \in Nat
    /\ phase = "replaying" => replayed =< Len(file)
    /\ tasks \in [Requests -> Task]
    /\ answers \in [Requests -> [ref : Nat \X Nat, accepted : BOOLEAN,
                                 status : RecordStatus] \cup {Null}]
    /\ watch \in [todo : SUBSET Nat, reply : Reply \cup {Null}]
    /\ signals \in 0..2
    /\ flushLeft \in Nat

(***************************************************************************)
(* An ID-number names one record.  reserveRecordId() hands the number out  *)
(* before the await and the record is indexed after it, and a restart      *)
(* recovers the counter from what the log happens to hold: still no two    *)
(* records of the index share a number, and no number that a suspended     *)
(* handler holds is in the index or held by another.                       *)
(***************************************************************************)
IdNamesOneRecord ==
    /\ \A i, j \in 1..Len(order) : order[i][2] = order[j][2] => i = j
    /\ \A r \in Requests : InFlight(r) =>
         /\ \A i \in 1..Len(order) : order[i][2] # tasks[r].record.id
         /\ \A s \in Requests \ {r} :
              InFlight(s) => tasks[s].record.id # tasks[r].record.id

(***************************************************************************)
(* The index a replay of `log` builds: the loop of replay() as a fold.     *)
(***************************************************************************)
Rebuilt(log) ==
    LET Index(index, record) ==
            [order |-> Append(index.order, Ref(record)),
             recs  |-> With(index.recs, Ref(record), record),
             keys  |-> IF record.status = "rejected" THEN index.keys
                                                     ELSE index.keys \cup {record.key}]
        Turn(index, event) ==
            IF event.t = "record" \/ Ref(event.record) \notin DOMAIN index.recs
            THEN Index(index, event.record)
            ELSE [index EXCEPT !.recs = With(@, Ref(event.record), event.record)]
    IN  FoldLeft(Turn, [order |-> <<>>, recs |-> <<>>, keys |-> {}], log)

(***************************************************************************)
(* "A node can be rebuilt by replaying the file in order" (chain-log.js):  *)
(* while no write has failed, the lines written and queued rebuild exactly *)
(* the index that is being served - its order, every record as it is now,  *)
(* and the keys the replay check looks at.                                 *)
(***************************************************************************)
LogRebuildsIndex ==
    Persist /\ Alive /\ faults = 0 =>
        Rebuilt(file \o queue) = [order |-> order, recs |-> recs, keys |-> keys]

(***************************************************************************)
(* What a client was told stands: as long as the record it was given a     *)
(* reference to is in the index - also when it is there because a restart  *)
(* replayed it - it is the record that was answered, rejected if and only  *)
(* if the answer said so.                                                  *)
(***************************************************************************)
AnswersStand ==
    \A r \in Requests :
      answers[r] # Null /\ Indexed(answers[r].ref) =>
        /\ recs[answers[r].ref].key = Submission[r].key
        /\ answers[r].accepted <=> recs[answers[r].ref].status # "rejected"

(***************************************************************************)
(* A confirmed record is confirmed by its own anchor: the transaction      *)
(* carries its commitment, however late the node was asked - at admission, *)
(* or by the watcher because it had not answered then - and the block the  *)
(* record shows is its anchor's.                                           *)
(***************************************************************************)
ConfirmedByOwnAnchor ==
    \A ref \in DOMAIN recs :
      recs[ref].status = "confirmed" =>
        /\ Carries[recs[ref].anchor.txid] = recs[ref].commitment
        /\ recs[ref].blockHash = recs[ref].anchor.block
        /\ recs[ref].blockHeight = recs[ref].anchor.height

(***************************************************************************)
(* Final means final: an admitted record whose anchor counts as final is   *)
(* confirmed, in a block that is on the active chain at that height and    *)
(* holds its transaction.  The watcher never looks at such a record again, *)
(* so a block recorded from a reply that a reorganisation has overtaken    *)
(* would stay for ever.  It assumes what "final" assumes: at least one     *)
(* confirmation, and no reorganisation as deep as ConfirmationsForFinality. *)
(***************************************************************************)
FinalIsOnChain ==
    1 =< ConfirmationsForFinality /\ MaxReorgDepth < ConfirmationsForFinality =>
      \A ref \in DOMAIN recs :
        recs[ref].status # "rejected" /\ recs[ref].anchor # Null
          /\ recs[ref].anchor.finality \in SettledFinality =>
            /\ recs[ref].status = "confirmed"
            /\ recs[ref].blockHeight \in 1..Len(chain)
            /\ chain[recs[ref].blockHeight].hash = recs[ref].blockHash
            /\ recs[ref].anchor.txid \in chain[recs[ref].blockHeight].txs

InFile(ref) == \E i \in 1..Len(file) : Ref(file[i].record) = ref

(***************************************************************************)
(* An orderly shutdown keeps its word: when the process exits after one    *)
(* signal, and no write failed, every response of this run is backed by a  *)
(* line in the file.  (A response does not wait for the log, so a crash    *)
(* gives no such guarantee.)                                               *)
(***************************************************************************)
ExitKeepsAnswers ==
    [][Persist /\ phase = "flushing" /\ phase' = "exited" /\ signals = 1 /\ faults = 0 =>
         \A r \in Requests :
           answers[r] # Null /\ answers[r].ref[1] = run => InFile(answers[r].ref)']_vars

(***************************************************************************)
(* The admission table of ARCHITECTURE.md: a replayed ciphertext digest    *)
(* and nonce is rejected.  So of the records one run of the process        *)
(* received, at most one with a given key is admitted.                     *)
(***************************************************************************)
AdmittedOnce ==
    \A a, b \in DOMAIN recs :
      /\ recs[a].status # "rejected"
      /\ recs[b].status # "rejected"
      /\ recs[a].key = recs[b].key
      /\ recs[a].receivedAt = recs[b].receivedAt
      => a = b

\* The node has the transaction final, and says so when asked.
NodeSettles(txid) ==
    /\ answering
    /\ Node!InBlock(txid)
    /\ MinedAnchor(txid, Node!HeightOf(txid)).finality \in SettledFinality

\* Every admitted record that rests on the transaction has a final anchor.
AllSettled(txid) ==
    \A ref \in DOMAIN recs :
      /\ recs[ref].status # "rejected"
      /\ recs[ref].anchor # Null
      /\ recs[ref].anchor.txid = txid
      /\ recs[ref].commitment = Carries[txid]
      => recs[ref].anchor.finality \in SettledFinality

(***************************************************************************)
(* "AnchorWatcher then re-checks every anchor that is not final"           *)
(* (ARCHITECTURE.md): once the node keeps reporting an anchor final, the   *)
(* records that rest on it become final.                                   *)
(***************************************************************************)
AnchorsSettle ==
    \A txid \in Txids :
      <>[](phase = "serving" /\ NodeSettles(txid)) => <>[]AllSettled(txid)

\* An admitted record that still rests on an anchor nobody has seen.
Unverified(ref) ==
    /\ recs[ref].status # "rejected"
    /\ recs[ref].anchor # Null
    /\ recs[ref].anchor.finality = "unknown"

(***************************************************************************)
(* "The record stays pending and the watcher settles it once the node      *)
(* answers" (CDCI.md): when the node keeps answering, no admitted record   *)
(* stays unverified.                                                       *)
(***************************************************************************)
UnverifiedSettle ==
    <>[](phase = "serving" /\ answering) =>
      []<>(\A ref \in DOMAIN recs : ~Unverified(ref))

\* The records of a block the CDCI node reports.
BlockListsItsRecords ==
    \A height \in 1..Len(chain) : \A ref \in RecordsAnchoredInBlock(height) :
      recs[ref].anchor.txid \in chain[height].txs

(***************************************************************************)
(* "One block plus the message records it carries - anchored in it on      *)
(* CDCI" (API.md): while the node answers, a block is not shown with       *)
(* records of a block it has replaced for longer than the watcher takes.   *)
(***************************************************************************)
BlocksListOwnRecords ==
    <>[](phase = "serving" /\ answering) => []<>BlockListsItsRecords
=============================================================================
