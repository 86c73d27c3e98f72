------------------------------ MODULE LocalChain ------------------------------
(***************************************************************************)
(* A ChatScan node on the local backend: submissions are admitted and      *)
(* sealed into the node's own blocks (src/src/core/chain.js), by a timer   *)
(* and as soon as a block is full.  Nothing here awaits, so a submission   *)
(* with the block it may seal is one step.                                 *)
(***************************************************************************)
EXTENDS Store

CONSTANTS
    Offered,              \* the submissions clients make, time and again
    MaxRecordsPerBlock,   \* CHATSCAN_MAX_RECORDS_PER_BLOCK
    MaxClock,             \* bound: the wall clock stays within 0..MaxClock
    MaxReceived           \* bound: submissions received in one behaviour

ASSUME LocalAssumption ==
    /\ Offered \subseteq Submissions
    /\ MaxRecordsPerBlock \in Int
    /\ MaxClock \in Nat
    /\ MaxReceived \in Nat

VARIABLES
    clock,                \* Date.now(), which may be set back
    minted,               \* headers hashed so far: X11 gives each its own hash
    received              \* submissions received so far

outsideVars == <<clock, minted, received>>
vars == <<storeVars, outsideVars>>

\* Wrong on purpose: genesis names no parent at all.
NoParentAtAll == Null

\* GENESIS_PREVIOUS_HASH
NoParent == 0

Init ==
    /\ StoreInit
    /\ clock \in 0..MaxClock
    /\ minted = 0
    /\ received = 0

-----------------------------------------------------------------------------
(* Sealing *)

\* Wrong on purpose: the block takes the time as the clock tells it.
ClockTime(parent) == clock

\* Strictly after its parent, whatever the clock says.
TimeAfter(parent) ==
    IF clock > parent.timestamp + 1 THEN clock ELSE parent.timestamp + 1

\* #sealHeader, called by ensureGenesis
Genesis ==
    [height |-> 0, hash |-> minted + 1, previousHash |-> NoParent,
     timestamp |-> clock, refs |-> <<>>]

\* #sealHeader, called by sealBlock
NextBlock(refs) ==
    LET parent == Last(blocks)
    IN  [height |-> parent.height + 1, hash |-> minted + 1,
         previousHash |-> parent.hash, timestamp |-> TimeAfter(parent), refs |-> refs]

\* Wrong on purpose: the timer waits for a full block.
FullBlock(refs) == Len(refs) >= MaxRecordsPerBlock

\* sealBlock has something to seal.
Due(refs) == refs # <<>>

\* The sealer's interval fires: sealBlock, which seals nothing when nothing waits.
SealerFires ==
    /\ phase = "serving"
    /\ LET refs == Mempool(recs, order, MaxRecordsPerBlock)
       IN  /\ Due(refs)
           /\ AddBlock(NextBlock(refs))
    /\ minted' = minted + 1
    /\ UNCHANGED <<processVars, clock, received>>

-----------------------------------------------------------------------------
(* Admission: ChatScanNode.submit without verifyAnchor *)

\* Wrong on purpose: no submission counts as a replay.
PolicyWithoutReplay(submission) ==
    IF submission.oversize THEN "protocol-size-exceeded" ELSE Null

\* #policyRejection
PolicyRejection(submission) ==
    CASE submission.key \in keys -> "replay-detected"
      [] submission.key \notin keys /\ submission.oversize -> "protocol-size-exceeded"
      [] OTHER -> Null

\* The reserved ID-number makes the reference; receivedAt tells a number apart
\* from the same number handed out before a crash.
NewRecord(submission) ==
    CreateRecord(nextId, run, submission, PolicyRejection(submission))

\* The mempool and the index with one more record in it.
RefsWith(record) == Append(order, Ref(record))
RecsWith(record) == With(recs, Ref(record), record)

\* Wrong on purpose: the mempool is counted before the record is in it.
MempoolBefore(record) == Mempool(recs, order, MaxRecordsPerBlock)

MempoolWith(record) == Mempool(RecsWith(record), RefsWith(record), MaxRecordsPerBlock)

Receives(submission) ==
    /\ phase = "serving"
    /\ received < MaxReceived
    /\ submission \in Offered
    /\ received' = received + 1
    /\ UNCHANGED <<processVars, clock>>

\* The record is rejected, or leaves the mempool below one block.
SubmitOnly(submission) ==
    /\ Receives(submission)
    /\ LET record == NewRecord(submission)
       IN  /\ \/ record.status = "rejected"
              \/ Len(MempoolWith(record)) < MaxRecordsPerBlock
           /\ AddRecord(record)
    /\ UNCHANGED minted

\* The record fills a block, which is sealed before submit() returns.
SubmitAndSeal(submission) ==
    /\ Receives(submission)
    /\ LET record == NewRecord(submission)
           block == NextBlock(MempoolWith(record))
       IN  /\ record.status # "rejected"
           /\ Len(MempoolWith(record)) >= MaxRecordsPerBlock
           /\ order' = RefsWith(record)
           /\ recs' = Confirmed(RecsWith(record), block)
           /\ keys' = KeysWith(record)
           /\ nextId' = CounterPast(record.id)
           /\ blocks' = Append(blocks, block)
           /\ Log!EnqueueBoth([t |-> "record", record |-> record],
                              [t |-> "block", block |-> block])
    /\ minted' = minted + 1

-----------------------------------------------------------------------------
(* The life of the process and the clock *)

\* The replay is over; the ChainService constructor makes sure of a genesis block.
Opens ==
    /\ phase = "replaying"
    /\ replayed = Len(file)
    /\ phase' = "serving"
    /\ IF blocks = <<>>
       THEN AddBlock(Genesis) /\ minted' = minted + 1
       ELSE UNCHANGED <<indexVars, logVars, minted>>
    /\ UNCHANGED <<run, replayed, clock, received>>

ClockMoves ==
    /\ clock' \in (0..MaxClock) \ {clock}
    /\ UNCHANGED <<storeVars, minted, received>>

Outlives == UNCHANGED outsideVars

Next ==
    \/ \E submission \in Offered : SubmitOnly(submission) \/ SubmitAndSeal(submission)
    \/ SealerFires
    \/ Opens
    \/ ReplayLine /\ Outlives
    \/ LogWriteSucceeds /\ Outlives
    \/ LogWriteFails /\ Outlives
    \/ Killed /\ Outlives
    \/ Start /\ Outlives
    \/ ClockMoves

Spec == Init /\ [][Next]_vars

\* setInterval keeps firing, and an event loop turn reaches its handler.
FairSpec == Spec /\ WF_vars(SealerFires)

-----------------------------------------------------------------------------
(* Properties *)

\* The type of every variable.
TypeOK ==
    /\ Log!TypeOK
    /\ order \in Seq(Nat \X Nat)
    /\ DOMAIN recs \subseteq Nat \X Nat
    /\ \A ref \in DOMAIN recs : recs[ref] \in Record
    /\ keys \subseteq Keys
    /\ nextId \in Nat
    /\ blocks \in Seq(Block)
    /\ phase \in Phases
    /\ run \in 1..MaxStops + 1
    /\ replayed \in Nat
    /\ clock \in 0..MaxClock
    /\ minted \in Nat
    /\ received \in 0..MaxReceived

(***************************************************************************)
(* The blocks form one chain from genesis: consecutive heights, each       *)
(* naming the hash of the one before, and time moving forward even when    *)
(* the clock is set back - also across restarts, when a block whose line   *)
(* was lost is sealed anew.  (A log write that fails breaks this after the *)
(* next restart: it loses a block from the middle.)                        *)
(***************************************************************************)
BlocksAreLinked ==
    faults = 0 =>
      \A i \in 1..Len(blocks) :
        /\ blocks[i].height = i - 1
        /\ IF i = 1 THEN blocks[i].previousHash = NoParent
           ELSE /\ blocks[i].previousHash = blocks[i - 1].hash
                /\ blocks[i].timestamp > blocks[i - 1].timestamp

Admitted(ref) == recs[ref].status # "rejected"

\* The places of a reference in the chain: which block lists it, and where there.
Places(chain, ref) ==
    {place \in UNION {{k} \X (1..Len(chain[k].refs)) : k \in 1..Len(chain)} :
       chain[place[1]].refs[place[2]] = ref}

Before(a, b) == a[1] < b[1] \/ (a[1] = b[1] /\ a[2] < b[2])

(***************************************************************************)
(* "It takes pending records oldest first": the chain lists admitted       *)
(* records only, none of them twice, and none before an older one.         *)
(***************************************************************************)
SealedInOrder ==
    faults = 0 =>
      /\ \A k \in 1..Len(blocks) : \A ref \in Listed(blocks[k]) :
           /\ Indexed(ref) /\ Admitted(ref)
           /\ \A a, b \in Places(blocks, ref) : a = b
      /\ \A i, j \in 1..Len(order) : i < j /\ Admitted(order[i]) =>
           \A late \in Places(blocks, order[j]) :
             \E early \in Places(blocks, order[i]) : Before(early, late)

(***************************************************************************)
(* A record is confirmed if and only if a block lists it, and it then      *)
(* shows that block's height and hash - while serving and after a restart  *)
(* that replayed the record and its block from different lines.            *)
(***************************************************************************)
ConfirmedIffSealed ==
    faults = 0 =>
      \A ref \in DOMAIN recs :
        /\ (recs[ref].status = "confirmed") <=>
             (\E i \in 1..Len(blocks) : ref \in Listed(blocks[i]))
        /\ \A i \in 1..Len(blocks) :
             ref \in Listed(blocks[i]) =>
               /\ recs[ref].blockHeight = blocks[i].height
               /\ recs[ref].blockHash = blocks[i].hash

(***************************************************************************)
(* The mempool stays below one block, as the submission that fills a block *)
(* seals it in the same step.  A crash between the two lines of that step  *)
(* leaves one record more waiting, in every run that ends like that.       *)
(***************************************************************************)
MempoolFitsOneBlock ==
    MaxRecordsPerBlock >= 1 /\ faults = 0 =>
      Cardinality({ref \in DOMAIN recs : recs[ref].status = "pending"})
        < MaxRecordsPerBlock + (run - 1)

(***************************************************************************)
(* A ciphertext with its nonce is admitted once, over all restarts: the    *)
(* index never holds two admitted records with one key.                    *)
(***************************************************************************)
AdmittedOnce ==
    \A a, b \in DOMAIN recs :
      Admitted(a) /\ Admitted(b) /\ recs[a].key = recs[b].key => a = b

\* The persistence this node promises: a history of which a prefix is durable.
History == INSTANCE DurableHistory WITH history <- file \o queue, durable <- Len(file)

(***************************************************************************)
(* As long as no write has failed, the log of this node behaves as that    *)
(* history: one step adds a record, or a record with its block; the writes *)
(* make them durable in that order; a kill or a restart loses nothing that *)
(* was written, and never a block but keeps what follows it.               *)
(***************************************************************************)
KeepsDurableHistory ==
    History!Init /\ [][faults' = 0 => History!Next]_<<file \o queue, Len(file)>>

\* A serving node gets its mempool empty, time and again: every admitted record is
\* sealed unless the process stops first - also one that a restart found in the
\* log without its block.
PendingIsSealed ==
    []<>(phase = "serving" => \A ref \in DOMAIN recs : recs[ref].status # "pending")
=============================================================================
