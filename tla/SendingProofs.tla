---------------------------- MODULE SendingProofs ----------------------------
(***************************************************************************)
(* The composition keeps what its parts promise: whatever the app, its     *)
(* wallet, the CDCI daemon and the other clients do, the limiter and the   *)
(* node each take their own steps or none, so that what RateLimiterProofs  *)
(* and ExplorerProofs show holds here too.  On top of that, three results  *)
(* that are about the whole:                                               *)
(*   - a retry is no replay: of all that is in the index or under way      *)
(*     nothing has the key of an attempt that is yet to be posted          *)
(*     (RetryInv);                                                         *)
(*   - what an app drops for good had a flaw of its own, or was told of    *)
(*     the limit in a body that was lost (DropInv);                        *)
(*   - the anchor a session paid for counts, if its options are canonical: *)
(*     every reply about it matches, or the daemon has forgotten it, and a *)
(*     transaction that was forgotten once stays unknown (OwnInv).         *)
(***************************************************************************)
EXTENDS Sending, ExplorerProofs, RateLimiterProofs, SequenceTheorems

\* One step of the composition, as the limiter sees it.
LEMMA SendingStepsLimiter == [SendNext]_sendVars => [LimiterNext]_limiterVars
<1> SUFFICES ASSUME [SendNext]_sendVars
             PROVE  [LimiterNext]_limiterVars
  OBVIOUS
<1>1. ASSUME NEW c \in Clients, Consume(c)
      PROVE  [LimiterNext]_limiterVars
  BY <1>1 DEF LimiterNext
<1>2. ASSUME NEW m \in Messages, Begins(m) \/ Pays(m) \/ HasPaid(m) \/ WalletFails(m)
      PROVE  UNCHANGED limiterVars
  BY <1>2 DEF Begins, Pays, HasPaid, WalletFails, Elsewhere
<1>3. ASSUME NEW m \in Messages, IsRefused(m) \/ IsTaken(m)
      PROVE  [LimiterNext]_limiterVars
  <2>1. IsCounted(m)
    BY <1>3 DEF IsRefused, IsTaken
  <2> QED
    BY <2>1, <1>1, SendingAssumption DEF IsCounted
<1>4. ASSUME NEW m \in Messages,
             IsLost(m) \/ ReadsRefusal(m) \/ Returns(m) \/ BodyIsCut(m) \/ TimesOut(m)
      PROVE  UNCHANGED limiterVars
  BY <1>4 DEF IsLost, ReadsRefusal, Returns, BodyIsCut, TimesOut, Elsewhere
<1>5. ASSUME NEW a \in Attempts, Handles(a)
      PROVE  UNCHANGED limiterVars
  BY <1>5 DEF Handles
<1>6. ASSUME Starts \/ ChainMoves
      PROVE  UNCHANGED limiterVars
  BY <1>6 DEF Starts, ChainMoves
<1>7. ASSUME OtherPosts
      PROVE  [LimiterNext]_limiterVars
  BY <1>7, <1>1, SendingAssumption DEF OtherPosts
<1>8. ASSUME ClockTicks
      PROVE  [LimiterNext]_limiterVars
  BY <1>8 DEF ClockTicks, LimiterNext
<1>9. ASSUME UNCHANGED sendVars
      PROVE  UNCHANGED limiterVars
  BY <1>9 DEF sendVars
<1> QED
  BY <1>2, <1>3, <1>4, <1>5, <1>6, <1>7, <1>8, <1>9 DEF SendNext, SessionStep

\* The composition implements the limiter.
THEOREM SendingImplementsLimiter == FairSending => LimiterSpec
<1>1. SendInit => LimiterInit
  BY DEF SendInit
<1> QED
  BY <1>1, SendingStepsLimiter, PTL DEF FairSending, LimiterSpec

(***************************************************************************)
(* No client, and no app that keeps retrying, gets more than twice the     *)
(* limit of submissions through in one window's time.                      *)
(***************************************************************************)
THEOREM SendingLimits == FairSending => AtMostTwiceTheLimit
BY SendingImplementsLimiter, LimiterLimits, PTL

-----------------------------------------------------------------------------
(* A retry is no replay *)

\* The submission of this attempt has left the app.
Sent(a) ==
    \/ a[2] < sends[a[1]].n
    \/ a[2] = sends[a[1]].n /\ sends[a[1]].step \notin {"sealed", "paying", "paid"}

SendsTyped ==
    /\ sends \in [Messages -> [n : 0..MaxAttempts, step : Steps]]
    /\ \A m \in Messages : Busy(m) => sends[m].n >= 1

TasksShaped ==
    tasks = [a \in Attempts |-> [pc        |-> tasks[a].pc,
                                 connected |-> tasks[a].connected,
                                 record    |-> tasks[a].record,
                                 reply     |-> tasks[a].reply]]

\* The process never had a log to replay.
NothingToReplay == file = <<>> /\ replayed = 0

\* Only what was sent has its key in the index,
KeysOfSent == \A key \in keys : \E a \in Attempts : Sent(a) /\ key = Submission[a].key

\* or its record in a handler that awaits the node.
TasksOfSent ==
    \A a \in Attempts :
      InFlight(a) =>
        /\ Sent(a)
        /\ \E id, at : tasks[a].record = CreateRecord(id, at, Submission[a], Null)

RetryInv ==
    /\ SendsTyped
    /\ TasksShaped
    /\ NothingToReplay
    /\ KeysOfSent
    /\ TasksOfSent
    /\ RetryIsNoReplay

\* Every attempt has an IV and a nonce of its own.
LEMMA KeysDiffer ==
    ASSUME NEW a \in Attempts, NEW b \in Attempts, Submission[a].key = Submission[b].key
    PROVE  a = b
<1>1. \A c \in Attempts : Submission[c].key[1] = <<c, "lower">>
  BY WiringAssumption DEF Sealed, Received, Posted, Normalized, Lower
<1> QED
  BY <1>1

\* The verdict on an anchor is no verdict on a key.
LEMMA SettledKeepsKey ==
    ASSUME NEW a \in Attempts, NEW id, NEW at, NEW reply
    PROVE  LET record == Settled(CreateRecord(id, at, Submission[a], Null), reply)
           IN  /\ record.key = Submission[a].key
               /\ record.rejectionReason # "replay-detected"
<1> DEFINE created == CreateRecord(id, at, Submission[a], Null)
           reason == AnchorRejection(created, reply)
<1>1. /\ created.key = Submission[a].key
      /\ created.rejectionReason = Null
  BY DEF CreateRecord
<1>2. Null # "replay-detected"
  BY NullAssumption DEF NullAssumption, RejectionReasons
<1>3. reason # "replay-detected"
  BY <1>2, Zenon DEF AnchorRejection
<1>4. /\ Reject(created, reason).key = created.key
      /\ Reject(created, reason).rejectionReason = reason
  BY DEF Reject, CreateRecord
<1>5. /\ ApplyAnchor(created, reply.anchor).key = created.key
      /\ ApplyAnchor(created, reply.anchor).rejectionReason = Null
  BY DEF ApplyAnchor, CreateRecord
<1> QED
  BY <1>1, <1>2, <1>3, <1>4, <1>5 DEF Settled

\* It holds at the start.
LEMMA RetryInvHolds == SendInit => RetryInv
<1> SUFFICES ASSUME SendInit PROVE RetryInv
  OBVIOUS
<1>1. SendsTyped
  BY WiringAssumption DEF SendInit, SendsTyped, Steps, Busy
<1>2. TasksShaped
  BY WiringAssumption DEF SendInit, Init, TasksShaped, Idle
<1>3. NothingToReplay
  BY DEF SendInit, Init, StoreInit, Log!Init, NothingToReplay
<1>4. KeysOfSent
  BY DEF SendInit, Init, StoreInit, EmptyIndex, KeysOfSent
<1>5. TasksOfSent
  BY WiringAssumption DEF SendInit, Init, TasksOfSent, InFlight, Idle
<1>6. RetryIsNoReplay
  BY DEF SendInit, Init, StoreInit, EmptyIndex, RetryIsNoReplay
<1> QED
  BY <1>1, <1>2, <1>3, <1>4, <1>5, <1>6 DEF RetryInv

\* What was sent stays sent.
SentStays == \A a \in Attempts : Sent(a) => Sent(a)'

\* An attempt goes on, and is not taken back once it is sent.
LEMMA AttemptGoesOn ==
    ASSUME SendsTyped, NEW m \in Messages, Busy(m), NEW step \in Steps, GoesTo(m, step),
           sends[m].step \in {"posted", "refused"} => step \notin {"sealed", "paying", "paid"}
    PROVE  SendsTyped' /\ SentStays
<1>1. /\ sends[m] \in [n : 0..MaxAttempts, step : Steps]
      /\ sends[m].n >= 1
  BY DEF SendsTyped
<1>2. sends' = [sends EXCEPT ![m] = [n |-> sends[m].n, step |-> step]]
  <2>1. [sends[m] EXCEPT !.step = step] = [n |-> sends[m].n, step |-> step]
    BY <1>1
  <2>2. sends' = [sends EXCEPT ![m] = [sends[m] EXCEPT !.step = step]]
    BY DEF GoesTo
  <2> QED
    BY <2>1, <2>2
<1>3. SendsTyped'
  BY <1>1, <1>2 DEF SendsTyped, Busy
<1>4. ASSUME NEW a \in Attempts, Sent(a) PROVE Sent(a)'
  <2>1. CASE a[1] # m
    <3>1. sends'[a[1]] = sends[a[1]]
      BY <2>1, <1>2 DEF Attempts, SendsTyped
    <3> QED
      BY <3>1, <1>4 DEF Sent
  <2>2. CASE a[1] = m
    <3>1. sends'[m].n = sends[m].n /\ sends'[m].step = step
      BY <1>2 DEF SendsTyped
    <3> QED
      BY <2>2, <3>1, <1>4 DEF Sent, Busy
  <2> QED
    BY <2>1, <2>2
<1> QED
  BY <1>3, <1>4 DEF SentStays

\* A step of the app alone, or of what the index does not see.
LEMMA IndexStays ==
    ASSUME RetryInv, UNCHANGED <<keys, recs, file, replayed, tasks>>,
           SendsTyped', SentStays
    PROVE  RetryInv'
<1>1. TasksShaped' /\ NothingToReplay' /\ RetryIsNoReplay'
  BY DEF RetryInv, TasksShaped, NothingToReplay, RetryIsNoReplay
<1>2. KeysOfSent'
  BY DEF RetryInv, KeysOfSent, SentStays
<1>3. TasksOfSent'
  BY DEF RetryInv, TasksOfSent, SentStays, InFlight
<1> QED
  BY <1>1, <1>2, <1>3 DEF RetryInv

\* A record is indexed, for an attempt that was sent.
LEMMA RecordIsIndexed ==
    ASSUME RetryInv, NEW a \in Attempts, NEW record,
           record.key = Submission[a].key, record.rejectionReason # "replay-detected",
           AddRecord(record), SentStays, Sent(a)'
    PROVE  KeysOfSent' /\ RetryIsNoReplay' /\ UNCHANGED file
<1>1. keys' \subseteq keys \cup {record.key}
  BY DEF AddRecord, IndexRecord, KeysWith
<1>2. KeysOfSent'
  BY <1>1 DEF RetryInv, KeysOfSent, SentStays
<1>3. recs' = With(recs, Ref(record), record)
  BY DEF AddRecord, IndexRecord
<1>4. RetryIsNoReplay'
  BY <1>3 DEF RetryInv, RetryIsNoReplay, With
<1>5. UNCHANGED file
  BY DEF AddRecord, Log!Enqueue
<1> QED
  BY <1>2, <1>4, <1>5

\* The handler of one request goes on, and is not suspended again.
LEMMA HandlerEnds ==
    ASSUME RetryInv, NEW a \in Attempts, SentStays, tasks' = [tasks EXCEPT ![a] = Done]
    PROVE  TasksShaped' /\ TasksOfSent'
<1>1. \A b \in Attempts : tasks'[b] = IF b = a THEN Done ELSE tasks[b]
  BY DEF RetryInv, TasksShaped
<1>2. TasksShaped'
  BY <1>1 DEF RetryInv, TasksShaped, Done, Idle
<1>3. ~InFlight(a)'
  BY <1>1 DEF InFlight, Done, Idle
<1>4. TasksOfSent'
  BY <1>1, <1>3 DEF RetryInv, TasksOfSent, SentStays, InFlight
<1> QED
  BY <1>2, <1>4

\* The node takes a request: its key is not in the index, whatever was sent before.
LEMMA TakenIsNoReplay ==
    ASSUME RetryInv, NEW m \in Messages, IsTaken(m)
    PROVE  RetryInv'
<1>1. /\ sends[m] \in [n : 0..MaxAttempts, step : Steps]
      /\ sends[m].n >= 1
      /\ sends[m].step = "paid"
  BY DEF RetryInv, SendsTyped, IsTaken, Busy
<1>2. PICK a \in Attempts : a = Attempt(m) /\ a = <<m, sends[m].n>>
  <2>1. sends[m].n \in 1..MaxAttempts
    BY <1>1, WiringAssumption
  <2>2. <<m, sends[m].n>> \in Attempts
    BY <2>1 DEF Attempts
  <2>3. Attempt(m) = <<m, sends[m].n>>
    BY DEF Attempt
  <2> QED
    BY <2>2, <2>3
<1>3. ~Sent(a)
  BY <1>1, <1>2 DEF Sent
<1>4. Submission[a].key \notin keys
  BY <1>2, <1>3, KeysDiffer DEF RetryInv, KeysOfSent
<1>5. SendsTyped' /\ SentStays
  <2>1. Busy(m) /\ GoesTo(m, "posted") /\ "posted" \in Steps
    BY <1>1 DEF IsTaken, Busy, Steps
  <2> QED
    BY <2>1, AttemptGoesOn DEF RetryInv
<1>6. Sent(a)'
  <2>1. sends'[m].n = sends[m].n /\ sends'[m].step = "posted"
    BY <1>1 DEF IsTaken, GoesTo, RetryInv, SendsTyped
  <2> QED
    BY <1>2, <2>1 DEF Sent
<1>7. CASE ReceiveRejected(a)
  <2> DEFINE record == CreateRecord(nextId, run, Submission[a], PolicyRejection(Submission[a]))
  <2>1. AddRecord(record) /\ tasks' = [tasks EXCEPT ![a] = Done] /\ UNCHANGED replayed
    BY <1>7 DEF ReceiveRejected, Respond, processVars
  <2>2. PolicyRejection(Submission[a]) # "replay-detected"
    BY <1>4, NullAssumption DEF NullAssumption, PolicyRejection, RejectionReasons
  <2>3. record.key = Submission[a].key /\ record.rejectionReason # "replay-detected"
    BY <2>2 DEF CreateRecord
  <2>4. KeysOfSent' /\ RetryIsNoReplay' /\ UNCHANGED file
    BY <1>2, <1>5, <1>6, <2>1, <2>3, RecordIsIndexed
  <2>5. TasksShaped' /\ TasksOfSent'
    BY <1>2, <1>5, <2>1, HandlerEnds
  <2> QED
    BY <1>5, <2>1, <2>4, <2>5 DEF RetryInv, NothingToReplay
<1>8. CASE ReceiveAdmissible(a)
  <2> DEFINE record == CreateRecord(nextId, run, Submission[a], Null)
             asks == record.anchor # Null
             task == [pc |-> IF asks THEN "asking" ELSE "replied",
                      connected |-> TRUE,
                      record |-> record,
                      reply |-> IF asks THEN Null ELSE NoAnswer]
  <2>1. tasks' = [tasks EXCEPT ![a] = task]
    BY <1>8 DEF ReceiveAdmissible
  <2>2. UNCHANGED <<keys, recs, file, replayed>>
    BY <1>8 DEF ReceiveAdmissible, logVars, processVars
  <2>3. \A b \in Attempts : tasks'[b] = IF b = a THEN task ELSE tasks[b]
    BY <2>1 DEF RetryInv, TasksShaped
  <2>4. TasksShaped'
    BY <2>1, <2>3 DEF RetryInv, TasksShaped
  <2>5. task.record = record
    OBVIOUS
  <2>6. TasksOfSent'
    BY <1>5, <1>6, <2>3, <2>5 DEF RetryInv, TasksOfSent, SentStays, InFlight
  <2>7. KeysOfSent' /\ RetryIsNoReplay' /\ NothingToReplay'
    BY <1>5, <2>2 DEF RetryInv, KeysOfSent, RetryIsNoReplay, NothingToReplay, SentStays
  <2> QED
    BY <1>5, <2>4, <2>6, <2>7 DEF RetryInv
<1> QED
  BY <1>2, <1>7, <1>8 DEF IsTaken

\* A handler goes on: the node evaluates its call, or it indexes its record.
LEMMA HandlersKeep ==
    ASSUME RetryInv, NEW a \in Attempts, Handles(a)
    PROVE  RetryInv'
<1>1. SendsTyped' /\ SentStays
  BY DEF Handles, RetryInv, SendsTyped, SentStays, Sent, Busy
<1>2. CASE NodeAnswers(a)
  <2> DEFINE reply == VerifyAnchor(tasks[a].record.commitment, tasks[a].record.anchor.txid)
             task == [pc |-> "replied", connected |-> tasks[a].connected,
                      record |-> tasks[a].record, reply |-> reply]
  <2>1. tasks' = [tasks EXCEPT ![a] = task]
    <3> DEFINE old == [pc |-> tasks[a].pc, connected |-> tasks[a].connected,
                       record |-> tasks[a].record, reply |-> tasks[a].reply]
    <3>1. tasks[a] = old
      BY DEF RetryInv, TasksShaped
    <3>2. tasks' = [tasks EXCEPT ![a] = [[tasks[a] EXCEPT !.pc = "replied"] EXCEPT !.reply = reply]]
      BY <1>2 DEF NodeAnswers, RetryInv, TasksShaped
    <3>3. [[old EXCEPT !.pc = "replied"] EXCEPT !.reply = reply] = task
      <4> DEFINE resumed == [pc |-> "replied", connected |-> tasks[a].connected,
                             record |-> tasks[a].record, reply |-> tasks[a].reply]
      <4>1. [old EXCEPT !.pc = "replied"] = resumed
        OBVIOUS
      <4>2. [resumed EXCEPT !.reply = reply] = task
        <5> HIDE DEF reply
        <5> QED
          OBVIOUS
      <4> QED
        BY <4>1, <4>2
    <3> QED
      BY <3>1, <3>2, <3>3
  <2>2. UNCHANGED <<keys, recs, file, replayed>> /\ InFlight(a)
    BY <1>2 DEF NodeAnswers, storeVars, indexVars, logVars, processVars, InFlight
  <2>3. \A b \in Attempts : tasks'[b] = IF b = a THEN task ELSE tasks[b]
    BY <2>1 DEF RetryInv, TasksShaped
  <2>4. TasksShaped'
    BY <2>1, <2>3 DEF RetryInv, TasksShaped
  <2>5. task.record = tasks[a].record
    OBVIOUS
  <2>6. TasksOfSent'
    BY <1>1, <2>2, <2>3, <2>5 DEF RetryInv, TasksOfSent, SentStays, InFlight
  <2>7. KeysOfSent' /\ RetryIsNoReplay' /\ NothingToReplay'
    BY <1>1, <2>2 DEF RetryInv, KeysOfSent, RetryIsNoReplay, NothingToReplay, SentStays
  <2> QED
    BY <1>1, <2>4, <2>6, <2>7 DEF RetryInv
<1>3. CASE Settle(a)
  <2> DEFINE record == Settled(tasks[a].record, tasks[a].reply)
  <2>1. AddRecord(record) /\ tasks' = [tasks EXCEPT ![a] = Done] /\ UNCHANGED replayed
    BY <1>3 DEF Settle, Respond, processVars
  <2>2. InFlight(a)
    BY <1>3 DEF Settle, InFlight
  <2>3. record.key = Submission[a].key /\ record.rejectionReason # "replay-detected"
    BY <2>2, SettledKeepsKey DEF RetryInv, TasksOfSent
  <2>4. Sent(a)'
    BY <1>1, <2>2 DEF RetryInv, TasksOfSent, SentStays
  <2>5. KeysOfSent' /\ RetryIsNoReplay' /\ UNCHANGED file
    BY <1>1, <2>1, <2>3, <2>4, RecordIsIndexed
  <2>6. TasksShaped' /\ TasksOfSent'
    BY <1>1, <2>1, HandlerEnds
  <2> QED
    BY <1>1, <2>1, <2>5, <2>6 DEF RetryInv, NothingToReplay
<1> QED
  BY <1>2, <1>3 DEF Handles, Proceeds

\* What the app is told of an error ends the attempt.
LEMMA ToldGoesOn ==
    ASSUME RetryInv, NEW m \in Messages, Busy(m), NEW error, IsTold(m, error)
    PROVE  SendsTyped' /\ SentStays
<1> DEFINE step == IF Retryable(error) THEN "queued" ELSE "dropped"
<1>1. step \in Steps /\ step \notin {"sealed", "paying", "paid"}
  BY DEF Steps
<1>2. GoesTo(m, step)
  BY DEF IsTold
<1> QED
  BY <1>1, <1>2, AttemptGoesOn DEF RetryInv

\* The app goes on and the index does not see it.
LEMMA AppGoesOn ==
    ASSUME RetryInv, NEW m \in Messages, Busy(m), UNCHANGED storeVars, UNCHANGED taskVars,
           NEW step \in Steps, GoesTo(m, step),
           sends[m].step \in {"posted", "refused"} => step \notin {"sealed", "paying", "paid"}
    PROVE  RetryInv'
<1>1. SendsTyped' /\ SentStays
  BY AttemptGoesOn DEF RetryInv
<1> QED
  BY <1>1, IndexStays DEF storeVars, indexVars, logVars, processVars, taskVars

\* A new attempt: the one before it stays sent.
LEMMA BeginsGoesOn ==
    ASSUME RetryInv, NEW m \in Messages, Begins(m)
    PROVE  SendsTyped' /\ SentStays
<1>1. /\ sends[m] \in [n : 0..MaxAttempts, step : Steps]
      /\ sends[m].step = "queued" /\ sends[m].n < MaxAttempts
  BY DEF RetryInv, SendsTyped, Begins
<1>2. sends' = [sends EXCEPT ![m] = [n |-> sends[m].n + 1, step |-> "sealed"]]
  BY DEF Begins
<1>3. SendsTyped'
  BY <1>1, <1>2, WiringAssumption DEF RetryInv, SendsTyped, Busy, Steps
<1>4. ASSUME NEW a \in Attempts, Sent(a) PROVE Sent(a)'
  <2>1. a[1] \in Messages /\ a[2] \in 1..MaxAttempts
    BY DEF Attempts
  <2>2. CASE a[1] # m
    BY <2>1, <2>2, <1>2, <1>4 DEF RetryInv, SendsTyped, Sent
  <2>3. CASE a[1] = m
    <3>1. a[2] < sends[m].n + 1
      BY <2>1, <2>3, <1>1, <1>4 DEF Sent
    <3>2. sends'[m].n = sends[m].n + 1
      BY <1>2 DEF RetryInv, SendsTyped
    <3> QED
      BY <2>3, <3>1, <3>2 DEF Sent
  <2> QED
    BY <2>2, <2>3
<1> QED
  BY <1>3, <1>4 DEF SentStays

\* The index does not see it.
LEMMA BeginsKeeps ==
    ASSUME RetryInv, NEW m \in Messages, Begins(m)
    PROVE  RetryInv'
<1>1. UNCHANGED <<keys, recs, file, replayed, tasks>>
  BY DEF Begins, Elsewhere, vars, storeVars, indexVars, logVars, processVars, taskVars
<1> QED
  BY <1>1, BeginsGoesOn, IndexStays

\* The request times out; its handler loses its client.
LEMMA TimesOutKeeps ==
    ASSUME RetryInv, NEW m \in Messages, TimesOut(m)
    PROVE  RetryInv'
<1>1. SendsTyped' /\ SentStays
  BY ToldGoesOn DEF TimesOut, Busy
<1>2. UNCHANGED <<keys, recs, file, replayed>>
  BY DEF TimesOut, Disconnect, vars, storeVars, indexVars, logVars, processVars
<1>3. CASE UNCHANGED tasks
  BY <1>1, <1>2, <1>3, IndexStays
<1>4. CASE Disconnect(Attempt(m))
  <2>1. PICK a : a = Attempt(m)
    OBVIOUS
  <2>2. tasks' = [tasks EXCEPT ![a].connected = FALSE]
    BY <1>4, <2>1 DEF Disconnect
  <2>3. \A b \in Attempts : tasks'[b].pc = tasks[b].pc /\ tasks'[b].record = tasks[b].record
    BY <2>2 DEF RetryInv, TasksShaped
  <2>4. TasksShaped'
    <3>1. tasks' = [b \in Attempts |->
                      IF b = a THEN [tasks[b] EXCEPT !.connected = FALSE] ELSE tasks[b]]
      BY <2>2 DEF RetryInv, TasksShaped
    <3>2. ASSUME NEW b \in Attempts
          PROVE  [tasks[b] EXCEPT !.connected = FALSE]
                   = [pc |-> tasks[b].pc, connected |-> FALSE,
                      record |-> tasks[b].record, reply |-> tasks[b].reply]
      <4> DEFINE old == [pc |-> tasks[b].pc, connected |-> tasks[b].connected,
                         record |-> tasks[b].record, reply |-> tasks[b].reply]
      <4>1. tasks[b] = old
        BY DEF RetryInv, TasksShaped
      <4>2. [old EXCEPT !.connected = FALSE]
              = [pc |-> tasks[b].pc, connected |-> FALSE,
                 record |-> tasks[b].record, reply |-> tasks[b].reply]
        <5>1. ASSUME NEW no
              PROVE  [old EXCEPT !.connected = no]
                       = [pc |-> tasks[b].pc, connected |-> no,
                          record |-> tasks[b].record, reply |-> tasks[b].reply]
          OBVIOUS
        <5> QED
          BY <5>1, Zenon
      <4> QED
        BY <4>1, <4>2
    <3>3. ASSUME NEW b \in Attempts
          PROVE  tasks'[b] = [pc |-> tasks'[b].pc, connected |-> tasks'[b].connected,
                              record |-> tasks'[b].record, reply |-> tasks'[b].reply]
      <4>1. CASE b = a
        BY <4>1, <3>1, <3>2
      <4>2. CASE b # a
        BY <4>2, <3>1 DEF RetryInv, TasksShaped
      <4> QED
        BY <4>1, <4>2
    <3> QED
      BY <3>1, <3>3, Zenon DEF TasksShaped
  <2>5. TasksOfSent'
    BY <1>1, <2>3 DEF RetryInv, TasksOfSent, SentStays, InFlight
  <2>6. KeysOfSent' /\ RetryIsNoReplay' /\ NothingToReplay'
    BY <1>1, <1>2 DEF RetryInv, KeysOfSent, RetryIsNoReplay, NothingToReplay, SentStays
  <2> QED
    BY <1>1, <2>4, <2>5, <2>6 DEF RetryInv
<1> QED
  BY <1>3, <1>4 DEF TimesOut, vars, taskVars

\* Every other step leaves the app where it is, and the index.
LEMMA OthersKeepRetry ==
    ASSUME RetryInv, UNCHANGED <<keys, recs, file, replayed, tasks, sends>>
    PROVE  RetryInv'
<1>1. SendsTyped' /\ SentStays
  BY DEF RetryInv, SendsTyped, SentStays, Sent, Busy
<1> QED
  BY <1>1, IndexStays

\* Every step of the composition keeps it.
LEMMA RetryStep == RetryInv /\ [SendNext]_sendVars => RetryInv'
<1> SUFFICES ASSUME RetryInv, [SendNext]_sendVars PROVE RetryInv'
  OBVIOUS
<1>1. ASSUME NEW m \in Messages, Begins(m) PROVE RetryInv'
  BY <1>1, BeginsKeeps
<1>2. ASSUME NEW m \in Messages,
             \/ Pays(m) \/ HasPaid(m) \/ WalletFails(m) \/ IsRefused(m) \/ IsLost(m)
             \/ Returns(m) \/ BodyIsCut(m)
      PROVE  RetryInv'
  <2>1. Busy(m) /\ UNCHANGED storeVars /\ UNCHANGED taskVars
    BY <1>2 DEF Pays, HasPaid, WalletFails, IsRefused, IsLost, Returns, BodyIsCut, Busy, Elsewhere,
                vars
  <2>2. PICK step \in Steps :
          /\ GoesTo(m, step)
          /\ sends[m].step \in {"posted", "refused"} => step \notin {"sealed", "paying", "paid"}
    BY <1>2 DEF Pays, HasPaid, WalletFails, IsRefused, IsLost, Returns, BodyIsCut, Steps
  <2> QED
    BY <2>1, <2>2, AppGoesOn
<1>3. ASSUME NEW m \in Messages, ReadsRefusal(m) PROVE RetryInv'
  <2>1. SendsTyped' /\ SentStays
    BY <1>3, ToldGoesOn DEF ReadsRefusal, Busy
  <2>2. UNCHANGED <<keys, recs, file, replayed, tasks>>
    BY <1>3 DEF ReadsRefusal, vars, storeVars, indexVars, logVars, processVars, taskVars
  <2> QED
    BY <2>1, <2>2, IndexStays
<1>4. ASSUME NEW m \in Messages, IsTaken(m) PROVE RetryInv'
  BY <1>4, TakenIsNoReplay
<1>5. ASSUME NEW m \in Messages, TimesOut(m) PROVE RetryInv'
  BY <1>5, TimesOutKeeps
<1>6. ASSUME NEW a \in Attempts, Handles(a) PROVE RetryInv'
  BY <1>6, HandlersKeep
<1>7. ASSUME Starts PROVE RetryInv'
  <2>1. ~ReplayLine
    BY DEF RetryInv, NothingToReplay, ReplayLine
  <2> QED
    BY <1>7, <2>1, OthersKeepRetry
       DEF Starts, Replay, ReplayDone, indexVars, logVars, taskVars
<1>8. ASSUME ChainMoves \/ OtherPosts \/ ClockTicks PROVE RetryInv'
  BY <1>8, OthersKeepRetry
     DEF ChainMoves, OtherPosts, ClockTicks, vars, storeVars, indexVars, logVars, processVars,
         taskVars
<1>9. ASSUME UNCHANGED sendVars PROVE RetryInv'
  BY <1>9, OthersKeepRetry
     DEF sendVars, vars, storeVars, indexVars, logVars, processVars, taskVars
<1> QED
  BY <1>1, <1>2, <1>3, <1>4, <1>5, <1>6, <1>7, <1>8, <1>9 DEF SendNext, SessionStep

(***************************************************************************)
(* However often an app sends a message again, and whatever became of the  *)
(* attempts before, the explorer takes no submission for a replay.         *)
(***************************************************************************)
THEOREM RetriesAreNoReplays == FairSending => []RetryIsNoReplay
<1>1. RetryInv => RetryIsNoReplay
  BY DEF RetryInv
<1> QED
  BY <1>1, RetryInvHolds, RetryStep, PTL DEF FairSending

-----------------------------------------------------------------------------
(* The node takes its own steps *)

\* An attempt that was begun is one of the node's requests, and pays with one of the
\* transactions.
LEMMA AttemptIsRequest ==
    ASSUME SendsTyped, NEW m \in Messages, Busy(m)
    PROVE  /\ Attempt(m) \in Attempts /\ Attempt(m) \in Requests /\ Attempt(m) \in Txids
           /\ Attempt(m) = <<m, sends[m].n>>
<1>1. sends[m].n \in 1..MaxAttempts
  BY WiringAssumption DEF SendsTyped
<1> QED
  BY <1>1, WiringAssumption DEF Attempt, Attempts

\* One step of the composition, as the node and its CDCI daemon see it.
LEMMA SendingStepsExplorer ==
    ASSUME RetryInv, [SendNext]_sendVars
    PROVE  [Next]_vars
<1>1. ASSUME NEW m \in Messages,
             \/ Begins(m) \/ HasPaid(m) \/ WalletFails(m) \/ IsRefused(m) \/ IsLost(m)
             \/ ReadsRefusal(m) \/ Returns(m) \/ BodyIsCut(m)
      PROVE  UNCHANGED vars
  BY <1>1 DEF Begins, HasPaid, WalletFails, IsRefused, IsLost, ReadsRefusal, Returns, BodyIsCut,
              Elsewhere
<1>2. ASSUME NEW m \in Messages, Pays(m)
      PROVE  Next
  <2>1. Attempt(m) \in Txids
    BY <1>2, AttemptIsRequest DEF RetryInv, Pays, Busy
  <2>2. Outside
    BY <1>2, <2>1 DEF Pays, Outside, Node!Next
  <2> QED
    BY <2>2 DEF Next
<1>3. ASSUME NEW m \in Messages, IsTaken(m)
      PROVE  Next
  <2>1. Attempt(m) \in Requests
    BY <1>3, AttemptIsRequest DEF RetryInv, IsTaken, Busy
  <2> QED
    BY <1>3, <2>1 DEF IsTaken, Next, Handlers
<1>4. ASSUME NEW m \in Messages, TimesOut(m)
      PROVE  [Next]_vars
  <2>1. Attempt(m) \in Requests
    BY <1>4, AttemptIsRequest DEF RetryInv, TimesOut, Busy
  <2> QED
    BY <1>4, <2>1 DEF TimesOut, Next, Handlers
<1>5. ASSUME NEW a \in Attempts, Handles(a)
      PROVE  Next
  BY <1>5, WiringAssumption DEF Handles, Proceeds, Next, Handlers
<1>6. ASSUME Starts
      PROVE  Next
  BY <1>6 DEF Starts, Next, Lifecycle
<1>7. ASSUME ChainMoves
      PROVE  Next
  BY <1>7 DEF ChainMoves, Next, Outside, Node!Next
<1>8. ASSUME OtherPosts \/ ClockTicks \/ UNCHANGED sendVars
      PROVE  UNCHANGED vars
  BY <1>8 DEF OtherPosts, ClockTicks, sendVars
<1> QED
  BY <1>1, <1>2, <1>3, <1>4, <1>5, <1>6, <1>7, <1>8 DEF SendNext, SessionStep

(***************************************************************************)
(* The composition implements the node: apps that seal, pay, post and try  *)
(* again let the Explorer take no step but its own, so that what holds of  *)
(* a node with any clients holds of one with these.                        *)
(***************************************************************************)
THEOREM SendingImplementsExplorer == FairSending => Spec
<1>1. SendInit => Init
  BY DEF SendInit
<1> QED
  BY <1>1, RetryInvHolds, RetryStep, SendingStepsExplorer, PTL DEF FairSending, Spec

-----------------------------------------------------------------------------
(* Types, and what is dropped *)

\* What the limiter answers.
RateLimited == [status |-> 429, code |-> "rate_limited"]

\* The checks of a request: each one answers with an error, and that of the limiter with
\* its own.
LEMMA ChecksAnswer ==
    ASSUME NEW i \in DOMAIN Checks
    PROVE  /\ Checks[i].status # 200
           /\ Checks[i].flaw = "rate" =>
                [status |-> Checks[i].status, code |-> Checks[i].code] = RateLimited
           /\ Checks[i].flaw \in Flaws
<1> DEFINE Answers(check) == /\ check.status # 200
                             /\ check.flaw = "rate" =>
                                  [status |-> check.status, code |-> check.code] = RateLimited
           All == ToSet(Routing) \cup ToSet(Gates) \cup ToSet(Reading) \cup ToSet(Validation)
           Good == {check \in All : Answers(check)}
<1>1. /\ DOMAIN Routing = 1..2 /\ DOMAIN Gates = 1..2
      /\ DOMAIN Reading = 1..4 /\ DOMAIN Validation = 1..12
  BY DEF Routing, Gates, Reading, Validation
<1>2. /\ \A j \in 1..2 : Answers(Routing[j]) /\ Answers(Gates[j])
      /\ \A j \in 1..4 : Answers(Reading[j])
  BY DEF Routing, WrongMethod, NoRoute, Gates, Reading, Check, RateLimited
<1>3. \A j \in 1..12 : Answers(Validation[j])
  BY DEF Validation, Check
<1> HIDE DEF Answers
<1>4. /\ \A j \in 1..2 : Routing[j] \in Good /\ Gates[j] \in Good
      /\ \A j \in 1..4 : Reading[j] \in Good
      /\ \A j \in 1..12 : Validation[j] \in Good
  BY <1>1, <1>2, <1>3 DEF ToSet
<1>5. \A check \in Good : Answers(check)
  OBVIOUS
<1> HIDE DEF All, Good
<1>6. \A n \in Nat : [1..n -> Good] \subseteq Seq(Good)
  BY SeqDef
<1>7. /\ Routing = [j \in 1..2 |-> Routing[j]] /\ Gates = [j \in 1..2 |-> Gates[j]]
      /\ Reading = [j \in 1..4 |-> Reading[j]] /\ Validation = [j \in 1..12 |-> Validation[j]]
  BY DEF Routing, Gates, Reading, Validation
<1>8. /\ Routing \in Seq(Good) /\ Gates \in Seq(Good)
      /\ Reading \in Seq(Good) /\ Validation \in Seq(Good)
  <2>1. /\ Routing \in [1..2 -> Good] /\ Gates \in [1..2 -> Good]
        /\ Reading \in [1..4 -> Good] /\ Validation \in [1..12 -> Good]
    BY <1>4, <1>7
  <2> QED
    BY <1>6, <2>1
<1>9. Checks \in Seq(Good)
  BY <1>8 DEF Checks
<1>10. Checks[i] \in Good
  BY <1>9
<1>11. Checks[i].flaw \in Flaws
  BY DEF Flaws, ToSet
<1> QED
  BY <1>5, <1>10, <1>11 DEF Answers

\* A verdict is that of a check the request does not pass.
LEMMA VerdictOfACheck ==
    ASSUME NEW flaws, flaws \cap Flaws # {}
    PROVE  \E i \in DOMAIN Checks :
             /\ Checks[i].flaw \in flaws
             /\ Verdict(flaws) = [status |-> Checks[i].status, code |-> Checks[i].code]
<1> DEFINE First(i) == /\ i \in DOMAIN Checks
                       /\ Checks[i].flaw \in flaws
                       /\ \A j \in 1..i - 1 : Checks[j].flaw \notin flaws
           failed == {i \in DOMAIN Checks : Checks[i].flaw \in flaws}
<1>1. Len(Checks) \in Nat /\ DOMAIN Checks = 1..Len(Checks)
  BY DEF Checks, Routing, Gates, Reading, Validation, Check, WrongMethod, NoRoute
<1>2. PICK k \in DOMAIN Checks : Checks[k].flaw \in flaws
  BY DEF Flaws, ToSet
<1>3. failed \subseteq Nat /\ failed # {}
  BY <1>1, <1>2
<1>4. PICK l \in failed : \A j \in failed : l =< j
  BY <1>3, LeastNatural
<1>5. \A j \in 1..l - 1 : j \in DOMAIN Checks /\ ~(l =< j)
  BY <1>1, <1>4
<1>6. First(l)
  BY <1>4, <1>5
<1>7. PICK i : i = CHOOSE j : First(j)
  OBVIOUS
<1>8. First(i)
  BY <1>6, <1>7
<1>9. i = CHOOSE j \in DOMAIN Checks : /\ Checks[j].flaw \in flaws
                                       /\ \A h \in 1..j - 1 : Checks[h].flaw \notin flaws
  BY <1>7
<1> QED
  BY <1>8, <1>9 DEF Verdict

\* A request that is refused is told so with the error of a check,
LEMMA VerdictIsResponse ==
    ASSUME NEW flaws, Verdict(flaws) # Passed
    PROVE  Verdict(flaws) \in Responses
<1>1. flaws \cap Flaws # {}
  BY DEF Verdict
<1> QED
  BY <1>1, VerdictOfACheck DEF Responses, ToSet

\* and with that of the limiter if nothing else is held against it.
LEMMA OnlyTheLimit ==
    ASSUME NEW flaws, Verdict(flaws) = Passed, Verdict(flaws \cup {"rate"}) # Passed
    PROVE  Verdict(flaws \cup {"rate"}) = RateLimited
<1>1. flaws \cap Flaws = {}
  <2> SUFFICES ASSUME flaws \cap Flaws # {} PROVE FALSE
    OBVIOUS
  <2>1. PICK i \in DOMAIN Checks :
          Verdict(flaws) = [status |-> Checks[i].status, code |-> Checks[i].code]
    BY VerdictOfACheck
  <2> QED
    BY <2>1, ChecksAnswer DEF Passed
<1>2. (flaws \cup {"rate"}) \cap Flaws # {}
  BY DEF Verdict
<1>3. PICK i \in DOMAIN Checks :
        /\ Checks[i].flaw \in flaws \cup {"rate"}
        /\ Verdict(flaws \cup {"rate"}) = [status |-> Checks[i].status, code |-> Checks[i].code]
  BY <1>2, VerdictOfACheck
<1>4. Checks[i].flaw = "rate"
  BY <1>1, <1>3, ChecksAnswer
<1> QED
  BY <1>3, <1>4, ChecksAnswer

\* The response that refuses the last attempt to send m, still on its way: if the
\* submission has no flaw, it is the limiter's.
RefusalHasCause(m) ==
    sends[m].step = "refused" =>
      /\ errors[m] \in Responses
      /\ Verdict(form[m]) # Passed \/ errors[m] = RateLimited

\* The forms are what they were, every error is one of the explorer's or what the SDK
\* makes of it, and what the app has dropped had a flaw or a rate limit it could not read.
DropInv ==
    /\ \A m \in Messages : form[m] \in Forms[m]
    /\ errors \in [Messages -> Errors \cup {Null}]
    /\ \A m \in Messages : RefusalHasCause(m)
    /\ DroppedForCause

\* What the explorer refuses, it refuses for a cause.
LEMMA OutcomeHasCause ==
    ASSUME NEW m \in Messages, Outcome(m) # Passed
    PROVE  Outcome(m) \in Responses /\ (Verdict(form[m]) # Passed \/ Outcome(m) = RateLimited)
<1> DEFINE flaws == form[m] \cup (IF Allowed(App) THEN {} ELSE {"rate"})
<1>1. Outcome(m) = Verdict(flaws)
  BY DEF Outcome
<1>2. flaws = form[m] \/ flaws = form[m] \cup {"rate"}
  OBVIOUS
<1> HIDE DEF flaws
<1> QED
  BY <1>1, <1>2, VerdictIsResponse, OnlyTheLimit

\* An app that reads the response drops the message only for that cause.
LEMMA ReadForCause ==
    ASSUME NEW m \in Messages, RefusalHasCause(m), sends[m].step = "refused",
           NEW readable \in BOOLEAN
    PROVE  LET error == ErrorFromResponse(errors[m], readable)
           IN  /\ error \in Errors
               /\ ~Retryable(error) => Verdict(form[m]) # Passed \/ error = Unread(429)
<1> DEFINE error == ErrorFromResponse(errors[m], readable)
<1>1. error \in Errors
  BY DEF RefusalHasCause, ErrorFromResponse, Errors
<1>2. Retryable(RateLimited)
  BY DEF RateLimited, Retryable
<1>3. ASSUME errors[m] = RateLimited PROVE Retryable(error) \/ error = Unread(429)
  <2>1. CASE readable
    BY <1>2, <1>3, <2>1 DEF ErrorFromResponse
  <2>2. CASE ~readable
    <3>1. RateLimited.status = 429
      BY DEF RateLimited
    <3> QED
      BY <1>3, <2>2, <3>1 DEF ErrorFromResponse
  <2> QED
    BY <2>1, <2>2
<1> HIDE DEF error
<1>4. ~Retryable(error) => Verdict(form[m]) # Passed \/ error = Unread(429)
  BY <1>3 DEF RefusalHasCause
<1> QED
  BY <1>1, <1>4 DEF error

\* Every step keeps it: only ReadsRefusal drops a message.
LEMMA DropStep ==
    ASSUME RetryInv, DropInv, [SendNext]_sendVars
    PROVE  DropInv'
<1>1. UNCHANGED form
  BY DEF SendNext, SessionStep, Begins, Pays, HasPaid, WalletFails, IsRefused, ReadsRefusal,
         IsTaken, IsLost, Returns, BodyIsCut, TimesOut, Starts, Handles, ChainMoves, OtherPosts,
         ClockTicks, Elsewhere, sendVars
<1>2. /\ sends \in [Messages -> [n : 0..MaxAttempts, step : Steps]]
      /\ errors \in [Messages -> Errors \cup {Null}]
  BY DEF RetryInv, SendsTyped, DropInv
<1>3. ASSUME NEW m \in Messages, NEW step, NEW error \in Errors \cup {Null},
             \A d \in Messages : sends'[d].step = IF d = m THEN step ELSE sends[d].step,
             errors' = [errors EXCEPT ![m] = error],
             step = "refused" =>
               error \in Responses /\ (Verdict(form[m]) # Passed \/ error = RateLimited),
             step = "dropped" => Verdict(form[m]) # Passed \/ error = Unread(429)
      PROVE  DropInv'
  <2>1. \A d \in Messages : errors'[d] = IF d = m THEN error ELSE errors[d]
    BY <1>2, <1>3
  <2>2. errors' \in [Messages -> Errors \cup {Null}]
    BY <1>2, <1>3
  <2>3. ASSUME NEW d \in Messages PROVE RefusalHasCause(d)'
    BY <1>1, <1>3, <2>1 DEF DropInv, RefusalHasCause
  <2>4. DroppedForCause'
    BY <1>1, <1>3, <2>1 DEF DropInv, DroppedForCause
  <2> QED
    BY <1>1, <2>2, <2>3, <2>4 DEF DropInv
<1>4. ASSUME NEW m \in Messages, NEW step, GoesTo(m, step)
      PROVE  \A d \in Messages : sends'[d].step = IF d = m THEN step ELSE sends[d].step
  BY <1>2, <1>4 DEF GoesTo
<1>5. ASSUME NEW m \in Messages, Begins(m)
      PROVE  DropInv'
  <2>1. \A d \in Messages : sends'[d].step = IF d = m THEN "sealed" ELSE sends[d].step
    BY <1>2, <1>5 DEF Begins
  <2>2. errors' = [errors EXCEPT ![m] = Null]
    BY <1>5 DEF Begins
  <2> QED
    BY <1>3, <2>1, <2>2
<1>6. ASSUME NEW m \in Messages,
             \/ Pays(m) \/ HasPaid(m) \/ WalletFails(m) \/ IsTaken(m) \/ IsLost(m) \/ Returns(m)
             \/ BodyIsCut(m)
      PROVE  DropInv'
  <2>1. PICK step : GoesTo(m, step) /\ step # "dropped" /\ step # "refused"
    BY <1>6 DEF Pays, HasPaid, WalletFails, IsTaken, IsLost, Returns, BodyIsCut
  <2>2. UNCHANGED errors
    BY <1>6 DEF Pays, HasPaid, WalletFails, IsTaken, IsLost, Returns, BodyIsCut, Elsewhere
  <2>3. errors' = [errors EXCEPT ![m] = errors[m]] /\ errors[m] \in Errors \cup {Null}
    BY <1>2, <2>2
  <2> QED
    BY <1>3, <1>4, <2>1, <2>3
<1>7. ASSUME NEW m \in Messages, TimesOut(m)
      PROVE  DropInv'
  <2>1. GoesTo(m, "queued") /\ errors' = [errors EXCEPT ![m] = NetworkError]
    BY <1>7 DEF TimesOut, IsTold, Retryable, NetworkError
  <2>2. NetworkError \in Errors
    BY DEF Errors
  <2> QED
    BY <1>3, <1>4, <2>1, <2>2
<1>8. ASSUME NEW m \in Messages, IsRefused(m)
      PROVE  DropInv'
  <2>1. GoesTo(m, "refused") /\ errors' = [errors EXCEPT ![m] = Outcome(m)] /\ Outcome(m) # Passed
    BY <1>8 DEF IsRefused
  <2>2. PICK error : error = Outcome(m)
    OBVIOUS
  <2>3. error \in Responses /\ (Verdict(form[m]) # Passed \/ error = RateLimited)
    BY <2>1, <2>2, OutcomeHasCause
  <2>4. error \in Errors
    BY <2>3 DEF Errors
  <2>5. errors' = [errors EXCEPT ![m] = error]
    BY <2>1, <2>2
  <2>6. \A d \in Messages : sends'[d].step = IF d = m THEN "refused" ELSE sends[d].step
    BY <1>4, <2>1
  <2> QED
    BY <1>3, <2>3, <2>4, <2>5, <2>6
<1>9. ASSUME NEW m \in Messages, ReadsRefusal(m)
      PROVE  DropInv'
  <2>1. PICK readable \in BOOLEAN : IsTold(m, ErrorFromResponse(errors[m], readable))
    BY <1>9 DEF ReadsRefusal
  <2>2. PICK error : error = ErrorFromResponse(errors[m], readable)
    OBVIOUS
  <2>3. PICK step : step = IF Retryable(error) THEN "queued" ELSE "dropped"
    OBVIOUS
  <2>4. GoesTo(m, step) /\ errors' = [errors EXCEPT ![m] = error]
    BY <2>1, <2>2, <2>3 DEF IsTold
  <2>5. /\ error \in Errors
        /\ ~Retryable(error) => Verdict(form[m]) # Passed \/ error = Unread(429)
    BY <1>9, <2>2, ReadForCause DEF ReadsRefusal, DropInv
  <2>6. step = "dropped" => ~Retryable(error)
    BY <2>3
  <2>7. step # "refused"
    BY <2>3
  <2>8. \A d \in Messages : sends'[d].step = IF d = m THEN step ELSE sends[d].step
    BY <1>4, <2>4
  <2> QED
    BY <1>3, <2>4, <2>5, <2>6, <2>7, <2>8
<1>10. ASSUME UNCHANGED <<sends, errors>>
      PROVE  DropInv'
  BY <1>1, <1>10 DEF DropInv, RefusalHasCause, DroppedForCause
<1>11. ASSUME \/ \E a \in Attempts : Handles(a)
              \/ Starts \/ ChainMoves \/ OtherPosts \/ ClockTicks
              \/ UNCHANGED sendVars
      PROVE  DropInv'
  BY <1>10, <1>11 DEF Handles, Starts, ChainMoves, OtherPosts, ClockTicks, sendVars
<1> QED
  BY <1>5, <1>6, <1>7, <1>8, <1>9, <1>11 DEF SendNext, SessionStep

\* Forms and drops, in every state.
THEOREM DropInvariant == FairSending => []DropInv
<1>1. SendInit => DropInv
  BY DEF SendInit, DropInv, RefusalHasCause, DroppedForCause
<1> QED
  BY <1>1, RetryInvHolds, RetryStep, DropStep, PTL DEF FairSending

(***************************************************************************)
(* A message that an app drops for good would have been refused at any     *)
(* other time as well, unless the limiter refused it and the body that     *)
(* said so was lost: whatever flaws the submissions have, however many     *)
(* attempts there are and whatever else becomes of them.                   *)
(***************************************************************************)
THEOREM DropsAreForCause == FairSending => []DroppedForCause
<1>1. DropInv => DroppedForCause
  BY DEF DropInv
<1> QED
  BY <1>1, DropInvariant, PTL

(***************************************************************************)
(* Every variable has its type in every reachable state: those of the node *)
(* and of the limiter because their own specifications give it.            *)
(***************************************************************************)
THEOREM SendingTypes == FairSending => []SendTypeOK
<1>1. TypeOK /\ LimiterTypeOK /\ DropInv /\ RetryInv => SendTypeOK
  BY DEF SendTypeOK, DropInv, RetryInv, SendsTyped
<1>2. FairSending => []RetryInv
  BY RetryInvHolds, RetryStep, PTL DEF FairSending
<1> QED
  BY <1>1, <1>2, DropInvariant, SendingImplementsExplorer, TypeCorrect, SendingImplementsLimiter,
     LimiterTypes, PTL

-----------------------------------------------------------------------------
(* The anchor a session paid for *)

\* No step takes back what was sent.
LEMMA SendingKeepsSent ==
    ASSUME RetryInv, [SendNext]_sendVars
    PROVE  SentStays
<1>1. ASSUME NEW m \in Messages, Begins(m) PROVE SentStays
  BY <1>1, BeginsGoesOn
<1>2. ASSUME NEW m \in Messages,
             \/ Pays(m) \/ HasPaid(m) \/ WalletFails(m) \/ IsRefused(m) \/ IsTaken(m) \/ IsLost(m)
             \/ Returns(m) \/ BodyIsCut(m)
      PROVE  SentStays
  <2>1. Busy(m)
    BY <1>2 DEF Pays, HasPaid, WalletFails, IsRefused, IsTaken, IsLost, Returns, BodyIsCut, Busy
  <2>2. PICK step \in Steps :
          /\ GoesTo(m, step)
          /\ sends[m].step \in {"posted", "refused"} => step \notin {"sealed", "paying", "paid"}
    BY <1>2 DEF Pays, HasPaid, WalletFails, IsRefused, IsTaken, IsLost, Returns, BodyIsCut, Steps
  <2> QED
    BY <2>1, <2>2, AttemptGoesOn DEF RetryInv
<1>3. ASSUME NEW m \in Messages, ReadsRefusal(m) \/ TimesOut(m) PROVE SentStays
  <2>1. Busy(m) /\ \E error : IsTold(m, error)
    BY <1>3 DEF ReadsRefusal, TimesOut, Busy
  <2> QED
    BY <2>1, ToldGoesOn
<1>4. ASSUME \/ \E a \in Attempts : Handles(a)
             \/ Starts \/ ChainMoves \/ OtherPosts \/ ClockTicks \/ UNCHANGED sendVars
      PROVE  SentStays
  BY <1>4 DEF Handles, Starts, ChainMoves, OtherPosts, ClockTicks, sendVars, SentStays, Sent
<1> QED
  BY <1>1, <1>2, <1>3, <1>4 DEF SendNext, SessionStep

\* A transaction whose submission was sent and that the node does not know stays unknown:
\* the wallet publishes it once.
LEMMA UnknownStays ==
    ASSUME RetryInv, Node!TypeOK, [SendNext]_sendVars,
           NEW a \in Attempts, Sent(a), ~Node!Known(a)
    PROVE  ~Node!Known(a)'
<1>1. a \notin pool /\ \A h \in 1..Len(chain) : a \notin chain[h].txs
  BY DEF Node!Known, Node!InBlock
<1>2. CASE UNCHANGED nodeVars
  BY <1>2 DEF nodeVars, Node!Known, Node!InBlock
<1>3. ASSUME NEW m \in Messages, Pays(m)
      PROVE  ~Node!Known(a)'
  <2>1. Attempt(m) = <<m, sends[m].n>> /\ sends[m].step = "sealed"
    BY <1>3, AttemptIsRequest DEF RetryInv, Pays, Busy
  <2>2. sends[m].n \in Nat
    BY WiringAssumption DEF RetryInv, SendsTyped
  <2>3. a # Attempt(m)
    BY <2>1, <2>2 DEF Sent
  <2>4. pool' = pool \cup {Attempt(m)} /\ chain' = chain
    BY <1>3 DEF Pays, Node!Broadcast
  <2> QED
    BY <1>1, <2>3, <2>4 DEF Node!Known, Node!InBlock
<1>4. ASSUME NEW txs \in SUBSET pool, Node!Mine(txs)
      PROVE  ~Node!Known(a)'
  <2>1. a \notin pool' /\ a \notin txs
    BY <1>1, <1>4 DEF Node!Mine
  <2>2. PICK block : block.txs = txs /\ chain' = Append(chain, block)
    BY <1>4 DEF Node!Mine
  <2>3. Len(chain) \in Nat /\ Len(chain') = Len(chain) + 1
        /\ \A h \in 1..Len(chain) + 1 : chain'[h] = IF h = Len(chain) + 1 THEN block ELSE chain[h]
    BY <2>2 DEF Node!TypeOK
  <2>4. \A h \in 1..Len(chain) + 1 : h # Len(chain) + 1 => h \in 1..Len(chain)
    BY <2>3
  <2> QED
    BY <1>1, <2>1, <2>2, <2>3, <2>4 DEF Node!Known, Node!InBlock
<1>5. ASSUME NEW txid \in Txids, Node!Evict(txid)
      PROVE  ~Node!Known(a)'
  BY <1>1, <1>5 DEF Node!Evict, Node!Known, Node!InBlock
<1>6. ASSUME NEW m \in Messages, IsTaken(m)
      PROVE  UNCHANGED nodeVars
  BY <1>6 DEF IsTaken, ReceiveRejected, ReceiveAdmissible
<1>7. ASSUME NEW m \in Messages,
             \/ Begins(m) \/ HasPaid(m) \/ WalletFails(m) \/ IsRefused(m) \/ IsLost(m)
             \/ ReadsRefusal(m) \/ Returns(m) \/ BodyIsCut(m) \/ TimesOut(m)
      PROVE  UNCHANGED nodeVars
  BY <1>7 DEF Begins, HasPaid, WalletFails, IsRefused, IsLost, ReadsRefusal, Returns, BodyIsCut,
              TimesOut, Disconnect, Elsewhere, vars
<1>8. ASSUME NEW b \in Attempts, Handles(b)
      PROVE  UNCHANGED nodeVars
  BY <1>8 DEF Handles, Proceeds, NodeAnswers, Settle
<1>9. ASSUME Starts \/ OtherPosts \/ ClockTicks \/ UNCHANGED sendVars
      PROVE  UNCHANGED nodeVars
  BY <1>9 DEF Starts, Replay, OtherPosts, ClockTicks, sendVars, vars
<1> QED
  BY <1>2, <1>3, <1>4, <1>5, <1>6, <1>7, <1>8, <1>9 DEF SendNext, SessionStep, ChainMoves

(***************************************************************************)
(* The options are written as the explorer spells them: a protocol in      *)
(* upper case and a channel hash in lower case.  With others the property  *)
(* is false (commitment_case.cfg).                                         *)
(***************************************************************************)
CanonicalOptions ==
    \A m \in Messages :
      LET protocol == Or(Options[m].protocol, DefaultProtocol)
          channelHash == Options[m].channelHash
      IN  /\ protocol = Upper(protocol)
          /\ channelHash # Null => channelHash = Lower(channelHash)

\* The commitment is derived alike on both sides, and goes with the transaction.
LEMMA DerivedAlike ==
    ASSUME CanonicalOptions, NEW a \in Attempts
    PROVE  /\ Submission[a].commitment = Carries[a]
           /\ Submission[a].txid = a
<1> DEFINE m == a[1]
           protocol == Or(Options[m].protocol, DefaultProtocol)
<1>1. m \in Messages
  BY DEF Attempts
<1>2. Submission[a] = Received(Posted(a), a) /\ Carries[a] = SdkPreimage(Posted(a))
  BY WiringAssumption DEF Sealed, Anchored
<1>3. AnchorPreimage(Normalized(Posted(a))) = SdkPreimage(Posted(a))
  <2>1. Lower(<<a, "lower">>) = <<a, "lower">> /\ Lower(Empty) = Empty
        /\ Upper(DefaultProtocol) = DefaultProtocol
    BY DEF Lower, Upper, Empty, DefaultProtocol
  <2>2. protocol = Upper(protocol)
    BY <1>1 DEF CanonicalOptions
  <2>3. Upper(Or(protocol, DefaultProtocol)) = Or(protocol, DefaultProtocol)
    BY <2>1, <2>2 DEF Or
  <2>4. Or(IF Options[m].channelHash = Null THEN Null ELSE Lower(Options[m].channelHash), Empty)
          = Or(Options[m].channelHash, Empty)
    BY <1>1 DEF CanonicalOptions, Or
  <2>5. Or(Lower(Or(<<a, "lower">>, Empty)), Empty) = Or(<<a, "lower">>, Empty)
    BY <2>1 DEF Or
  <2> QED
    BY <2>1, <2>3, <2>4, <2>5 DEF AnchorPreimage, Normalized, SdkPreimage, Posted
<1> QED
  BY <1>2, <1>3 DEF Received

\* The record of an attempt, as it is created, carries the attempt's own transaction and
\* the commitment that transaction carries.
LEMMA CreatedForOwnAnchor ==
    ASSUME CanonicalOptions, NEW a \in Attempts, NEW id, NEW at, NEW reason
    PROVE  LET record == CreateRecord(id, at, Submission[a], reason)
           IN  /\ record.anchor # Null /\ record.anchor.txid = a
               /\ record.commitment = Carries[a] /\ record.rejectionReason = reason
<1>1. a \in Txids /\ a # Null
  BY WiringAssumption, NullAssumption DEF NullAssumption
<1>2. UnverifiedAnchor(a) \in Anchor /\ UnverifiedAnchor(a).txid = a
  BY <1>1 DEF UnverifiedAnchor, Anchor, Finality
<1>3. UnverifiedAnchor(a) # Null
  BY <1>2, NullAssumption DEF NullAssumption
<1>4. Submission[a].commitment = Carries[a] /\ Submission[a].txid = a
  BY DerivedAlike
<1> QED
  BY <1>1, <1>2, <1>3, <1>4 DEF CreateRecord

\* A reply about attempt a: its anchor matches, or the daemon has forgotten it.
OwnReply(a, reply) ==
    /\ reply.answered => IF reply.found THEN reply.matched ELSE ~Node!Known(a)
    /\ ~reply.answered => ~reply.found

\* A record that was not rejected for its anchor, or only once that was forgotten.
OwnRecord(record) ==
    /\ record.rejectionReason \notin {"anchor-missing", "anchor-mismatch"}
    /\ record.rejectionReason = "anchor-not-found" =>
         \E a \in Attempts : record.anchor.txid = a /\ Sent(a) /\ ~Node!Known(a)

OwnInv ==
    /\ \A a \in Attempts : \A reply :
         tasks[a].pc = "replied" /\ reply = tasks[a].reply => OwnReply(a, reply)
    /\ \A ref \in DOMAIN recs : \A record : record = recs[ref] => OwnRecord(record)

\* What was true of a reply or of a record stays true.
LEMMA OwnStays ==
    ASSUME RetryInv, Node!TypeOK, [SendNext]_sendVars
    PROVE  /\ \A a \in Attempts : \A reply : Sent(a) /\ OwnReply(a, reply) => OwnReply(a, reply)'
           /\ \A record : OwnRecord(record) => OwnRecord(record)'
<1>1. \A a \in Attempts : Sent(a) /\ ~Node!Known(a) => Sent(a)' /\ ~Node!Known(a)'
  BY SendingKeepsSent, UnknownStays DEF SentStays
<1> QED
  BY <1>1 DEF OwnReply, OwnRecord

\* A step that indexes nothing and brings no reply.
LEMMA NothingSettled ==
    ASSUME RetryInv, Node!TypeOK, OwnInv, [SendNext]_sendVars, UNCHANGED recs,
           \A a \in Attempts :
             tasks'[a].pc = "replied" => tasks[a].pc = "replied" /\ tasks'[a].reply = tasks[a].reply
    PROVE  OwnInv'
<1>1. ASSUME NEW ref \in DOMAIN recs', NEW record, record = recs'[ref]
      PROVE  OwnRecord(record)'
  <2>1. OwnRecord(record)
    BY <1>1 DEF OwnInv
  <2> QED
    BY <2>1, OwnStays
<1>2. ASSUME NEW a \in Attempts, NEW reply, tasks'[a].pc = "replied", reply = tasks'[a].reply
      PROVE  OwnReply(a, reply)'
  <2>1. Sent(a) /\ OwnReply(a, reply)
    BY <1>2 DEF RetryInv, TasksOfSent, InFlight, OwnInv
  <2> QED
    BY <2>1, OwnStays
<1> QED
  BY <1>1, <1>2 DEF OwnInv

\* A handler that is done has indexed its record.
LEMMA RecordSettled ==
    ASSUME RetryInv, Node!TypeOK, OwnInv, [SendNext]_sendVars, NEW a \in Attempts, NEW record,
           AddRecord(record), tasks' = [tasks EXCEPT ![a] = Done], OwnRecord(record)'
    PROVE  OwnInv'
<1>1. \A b \in Attempts : tasks'[b] = IF b = a THEN Done ELSE tasks[b]
  BY DEF RetryInv, TasksShaped
<1>2. recs' = With(recs, Ref(record), record)
  BY DEF AddRecord, IndexRecord
<1>3. \A ref \in DOMAIN recs' :
        recs'[ref] = record \/ (ref \in DOMAIN recs /\ recs'[ref] = recs[ref])
  BY <1>2 DEF With
<1>4. ASSUME NEW ref \in DOMAIN recs', NEW it, it = recs'[ref]
      PROVE  OwnRecord(it)'
  <2>1. CASE it = record
    BY <2>1
  <2>2. CASE it # record
    <3>1. OwnRecord(it)
      BY <1>3, <1>4, <2>2 DEF OwnInv
    <3> QED
      BY <3>1, OwnStays
  <2> QED
    BY <2>1, <2>2
<1>5. ASSUME NEW b \in Attempts, NEW reply, tasks'[b].pc = "replied", reply = tasks'[b].reply
      PROVE  OwnReply(b, reply)'
  <2>1. tasks'[b] = tasks[b]
    BY <1>1, <1>5 DEF Done, Idle
  <2>2. Sent(b) /\ OwnReply(b, reply)
    BY <1>5, <2>1 DEF RetryInv, TasksOfSent, InFlight, OwnInv
  <2> QED
    BY <2>2, OwnStays
<1> QED
  BY <1>4, <1>5 DEF OwnInv

\* The daemon's reply about the anchor of an attempt.
LEMMA OwnAnswer ==
    ASSUME NEW a \in Attempts
    PROVE  OwnReply(a, VerifyAnchor(Carries[a], a))
BY DEF OwnReply, VerifyAnchor, NoAnswer, Absent

\* The verdict on that reply.
LEMMA OwnVerdict ==
    ASSUME CanonicalOptions, NEW a \in Attempts, Sent(a), NEW id, NEW at, NEW reply,
           OwnReply(a, reply)
    PROVE  OwnRecord(Settled(CreateRecord(id, at, Submission[a], Null), reply))
<1> DEFINE created == CreateRecord(id, at, Submission[a], Null)
           reason == AnchorRejection(created, reply)
<1>1. created.anchor # Null /\ created.anchor.txid = a /\ created.rejectionReason = Null
  BY CreatedForOwnAnchor
<1>2. created = [id |-> created.id, receivedAt |-> created.receivedAt, key |-> created.key,
                 commitment |-> created.commitment, status |-> created.status,
                 rejectionReason |-> created.rejectionReason,
                 blockHeight |-> created.blockHeight, blockHash |-> created.blockHash,
                 anchor |-> created.anchor]
  BY DEF CreateRecord
<1> HIDE DEF created
<1>3. reason = Null \/ (reason = "anchor-not-found" /\ ~Node!Known(a))
  <2>1. CASE ~reply.answered
    BY <1>1, <2>1 DEF AnchorRejection, OwnReply
  <2>2. CASE reply.answered /\ ~reply.found
    BY <1>1, <2>2 DEF AnchorRejection, OwnReply
  <2>3. CASE reply.answered /\ reply.found
    BY <1>1, <2>3 DEF AnchorRejection, OwnReply
  <2> QED
    BY <2>1, <2>2, <2>3
<1>4. Null \notin {"anchor-missing", "anchor-mismatch", "anchor-not-found"}
  BY NullAssumption DEF NullAssumption, RejectionReasons
<1>5. CASE reason # Null
  <2>1. Settled(created, reply) = Reject(created, reason)
    BY <1>5 DEF Settled
  <2>2. /\ Reject(created, reason).rejectionReason = reason
        /\ Reject(created, reason).anchor = created.anchor
    <3> HIDE DEF reason
    <3> QED
      BY <1>2 DEF Reject
  <2> HIDE DEF reason
  <2> QED
    BY <1>1, <1>3, <1>5, <2>1, <2>2 DEF OwnRecord, created
<1>6. CASE reason = Null
  <2>1. Settled(created, reply) \in {created, ApplyAnchor(created, reply.anchor)}
    BY <1>6 DEF Settled
  <2>2. ApplyAnchor(created, reply.anchor).rejectionReason = Null
    <3>1. \A anchor : [created EXCEPT !.anchor = anchor].rejectionReason = Null
      BY <1>1, <1>2
    <3> QED
      BY <1>1, <1>2, <3>1 DEF ApplyAnchor
  <2>3. Settled(created, reply).rejectionReason = Null
    BY <1>1, <2>1, <2>2
  <2> QED
    BY <1>4, <2>3 DEF OwnRecord, created
<1> QED
  BY <1>5, <1>6

\* The node takes a request.
LEMMA TakenOwn ==
    ASSUME CanonicalOptions, RetryInv, Node!TypeOK, OwnInv, [SendNext]_sendVars,
           NEW m \in Messages, IsTaken(m)
    PROVE  OwnInv'
<1>1. PICK a \in Attempts : a = Attempt(m)
  BY AttemptIsRequest DEF RetryInv, IsTaken, Busy
<1>2. CASE ReceiveRejected(a)
  <2> DEFINE record == CreateRecord(nextId, run, Submission[a], PolicyRejection(Submission[a]))
  <2>1. AddRecord(record) /\ tasks' = [tasks EXCEPT ![a] = Done]
    BY <1>2 DEF ReceiveRejected, Respond
  <2>2. PolicyRejection(Submission[a])
          \notin {"anchor-missing", "anchor-mismatch", "anchor-not-found"}
    BY NullAssumption DEF NullAssumption, PolicyRejection, RejectionReasons
  <2>3. record.rejectionReason = PolicyRejection(Submission[a])
    BY DEF CreateRecord
  <2> PICK it : it = record
    OBVIOUS
  <2> HIDE DEF record
  <2>4. OwnRecord(it)'
    BY <2>2, <2>3 DEF OwnRecord
  <2> QED
    BY <2>1, <2>4, RecordSettled
<1>3. CASE ReceiveAdmissible(a)
  <2> DEFINE record == CreateRecord(nextId, run, Submission[a], Null)
  <2>1. record.anchor # Null
    BY CreatedForOwnAnchor
  <2>2. \A b \in Attempts : tasks'[b].pc = IF b = a THEN "asking" ELSE tasks[b].pc
    BY <1>3, <2>1 DEF ReceiveAdmissible, RetryInv, TasksShaped
  <2>3. \A b \in Attempts : b # a => tasks'[b] = tasks[b]
    BY <1>3 DEF ReceiveAdmissible, RetryInv, TasksShaped
  <2>4. UNCHANGED recs
    BY <1>3 DEF ReceiveAdmissible
  <2> QED
    BY <2>2, <2>3, <2>4, NothingSettled
<1> QED
  BY <1>1, <1>2, <1>3 DEF IsTaken

\* A handler goes on.
LEMMA HandlesOwn ==
    ASSUME CanonicalOptions, RetryInv, Node!TypeOK, OwnInv, [SendNext]_sendVars,
           NEW a \in Attempts, Handles(a)
    PROVE  OwnInv'
<1>1. ASSUME InFlight(a)
      PROVE  /\ Sent(a)
             /\ \E id, at : tasks[a].record = CreateRecord(id, at, Submission[a], Null)
  BY <1>1 DEF RetryInv, TasksOfSent
<1>2. CASE NodeAnswers(a)
  <2>1. PICK id, at : tasks[a].record = CreateRecord(id, at, Submission[a], Null)
    BY <1>1, <1>2 DEF NodeAnswers, InFlight
  <2>2. tasks[a].record.anchor.txid = a /\ tasks[a].record.commitment = Carries[a]
    BY <2>1, CreatedForOwnAnchor
  <2> PICK answer : answer = VerifyAnchor(Carries[a], a)
    OBVIOUS
  <2>3. /\ tasks'[a].reply = answer
        /\ \A b \in Attempts : b # a => tasks'[b] = tasks[b]
    <3>1. tasks' = [tasks EXCEPT ![a] = [[tasks[a] EXCEPT !.pc = "replied"] EXCEPT !.reply = answer]]
      BY <1>2, <2>2 DEF NodeAnswers, RetryInv, TasksShaped
    <3>2. tasks'[a] = [[tasks[a] EXCEPT !.pc = "replied"] EXCEPT !.reply = answer]
      BY <3>1 DEF RetryInv, TasksShaped
    <3>3. tasks[a] = [pc |-> tasks[a].pc, connected |-> tasks[a].connected,
                      record |-> tasks[a].record, reply |-> tasks[a].reply]
      BY DEF RetryInv, TasksShaped
    <3>4. [tasks[a] EXCEPT !.pc = "replied"]
            = [pc |-> "replied", connected |-> tasks[a].connected,
               record |-> tasks[a].record, reply |-> tasks[a].reply]
      BY <3>3
    <3>5. tasks'[a].reply = answer
      BY <3>2, <3>4
    <3> QED
      BY <3>1, <3>5 DEF RetryInv, TasksShaped
  <2>4. OwnReply(a, answer)
    BY OwnAnswer
  <2>5. UNCHANGED recs /\ UNCHANGED <<pool, chain>>
    BY <1>2 DEF NodeAnswers, nodeVars, storeVars, indexVars
  <2>6. OwnReply(a, answer)'
    BY <2>4, <2>5 DEF OwnReply, Node!Known, Node!InBlock
  <2>7. ASSUME NEW ref \in DOMAIN recs', NEW record, record = recs'[ref]
        PROVE  OwnRecord(record)'
    <3>1. OwnRecord(record)
      BY <2>5, <2>7 DEF OwnInv
    <3> QED
      BY <3>1, OwnStays
  <2>8. ASSUME NEW b \in Attempts, NEW reply, tasks'[b].pc = "replied", reply = tasks'[b].reply
        PROVE  OwnReply(b, reply)'
    <3>1. CASE b = a
      BY <2>3, <2>6, <2>8, <3>1
    <3>2. CASE b # a
      <4>1. Sent(b) /\ OwnReply(b, reply)
        BY <2>3, <2>8, <3>2 DEF RetryInv, TasksOfSent, InFlight, OwnInv
      <4> QED
        BY <4>1, OwnStays
    <3> QED
      BY <3>1, <3>2
  <2> QED
    BY <2>7, <2>8 DEF OwnInv
<1>3. CASE Settle(a)
  <2>1. PICK id, at : tasks[a].record = CreateRecord(id, at, Submission[a], Null)
    BY <1>1, <1>3 DEF Settle, InFlight
  <2> PICK reply : reply = tasks[a].reply
    OBVIOUS
  <2> PICK record : record = Settled(CreateRecord(id, at, Submission[a], Null), reply)
    OBVIOUS
  <2>2. AddRecord(record) /\ tasks' = [tasks EXCEPT ![a] = Done]
    BY <1>3, <2>1 DEF Settle, Respond
  <2>3. Sent(a) /\ OwnReply(a, reply)
    BY <1>1, <1>3 DEF Settle, InFlight, OwnInv
  <2>4. OwnRecord(record)
    BY <2>3, OwnVerdict
  <2>5. OwnRecord(record)'
    BY <2>4, OwnStays
  <2> QED
    BY <2>2, <2>5, RecordSettled
<1> QED
  BY <1>2, <1>3 DEF Handles, Proceeds

\* Every step keeps it.
LEMMA OwnStep ==
    ASSUME CanonicalOptions, RetryInv, Node!TypeOK, OwnInv, [SendNext]_sendVars
    PROVE  OwnInv'
<1>1. ASSUME NEW m \in Messages, IsTaken(m) PROVE OwnInv'
  BY <1>1, TakenOwn
<1>2. ASSUME NEW a \in Attempts, Handles(a) PROVE OwnInv'
  BY <1>2, HandlesOwn
<1>3. CASE UNCHANGED recs /\ UNCHANGED tasks
  BY <1>3, NothingSettled
<1>4. ASSUME NEW m \in Messages,
             \/ Begins(m) \/ Pays(m) \/ HasPaid(m) \/ WalletFails(m) \/ IsRefused(m) \/ IsLost(m)
             \/ ReadsRefusal(m) \/ Returns(m) \/ BodyIsCut(m)
      PROVE  UNCHANGED recs /\ UNCHANGED tasks
  BY <1>4 DEF Begins, Pays, HasPaid, WalletFails, IsRefused, IsLost, ReadsRefusal, Returns,
              BodyIsCut, Elsewhere, vars, storeVars, indexVars, taskVars
<1>5. ASSUME NEW m \in Messages, TimesOut(m)
      PROVE  OwnInv'
  <2>1. UNCHANGED recs
    BY <1>5 DEF TimesOut, Disconnect, vars, storeVars, indexVars
  <2>2. ASSUME NEW a \in Attempts
        PROVE  tasks'[a].pc = tasks[a].pc /\ tasks'[a].reply = tasks[a].reply
    <3>1. CASE UNCHANGED vars
      BY <3>1 DEF vars, taskVars
    <3>2. CASE Disconnect(Attempt(m))
      BY <3>2 DEF Disconnect, RetryInv, TasksShaped
    <3> QED
      BY <1>5, <3>1, <3>2 DEF TimesOut
  <2> QED
    BY <2>1, <2>2, NothingSettled
<1>6. ASSUME Starts PROVE UNCHANGED recs /\ UNCHANGED tasks
  <2>1. ~ReplayLine
    BY DEF RetryInv, NothingToReplay, ReplayLine
  <2> QED
    BY <1>6, <2>1 DEF Starts, Replay, ReplayDone, indexVars, taskVars
<1>7. ASSUME ChainMoves \/ OtherPosts \/ ClockTicks \/ UNCHANGED sendVars
      PROVE  UNCHANGED recs /\ UNCHANGED tasks
  BY <1>7 DEF ChainMoves, OtherPosts, ClockTicks, sendVars, vars, storeVars, indexVars, taskVars
<1> QED
  BY <1>1, <1>2, <1>3, <1>4, <1>5, <1>6, <1>7 DEF SendNext, SessionStep

(***************************************************************************)
(* The anchor a session paid for counts, if its options are canonical:     *)
(* however its attempts, the daemon and other clients interleave, the      *)
(* explorer rejects it only if the daemon has forgotten the transaction.   *)
(***************************************************************************)
THEOREM OwnAnchorsCount == CanonicalOptions /\ FairSending => []OwnAnchorCounts
<1> SUFFICES ASSUME CanonicalOptions PROVE FairSending => []OwnAnchorCounts
  OBVIOUS
<1>1. SendInit => OwnInv
  BY WiringAssumption DEF SendInit, Init, StoreInit, EmptyIndex, OwnInv, Idle
<1>2. RetryInv /\ TypeOK /\ OwnInv /\ [SendNext]_sendVars => OwnInv'
  BY OwnStep DEF TypeOK
<1>3. OwnInv => OwnAnchorCounts
  BY DEF OwnInv, OwnRecord, OwnAnchorCounts
<1> QED
  BY <1>1, <1>2, <1>3, RetryInvHolds, RetryStep, SendingImplementsExplorer, TypeCorrect,
     PTL DEF FairSending
=============================================================================
