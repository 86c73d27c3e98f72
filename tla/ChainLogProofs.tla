---------------------------- MODULE ChainLogProofs ----------------------------
(***************************************************************************)
(* The chain log, for every number of events and every number of failures: *)
(* its types, the order of the file, that nothing is lost without a word,  *)
(* and that it implements DurableHistory when no write fails.              *)
(***************************************************************************)
EXTENDS ChainLogHistory, LogLemmas, TLAPS

-----------------------------------------------------------------------------
(* Types *)

\* What BreaksOff leaves behind is still a sequence of events.
LEMMA BreaksOffTyped ==
    ASSUME TypeOK, queue # <<>>, BreaksOff
    PROVE  /\ file' \in Seq(Event)
           /\ tail' \in Tails
           /\ tail' = "unterminated" => file' # <<>>
<1>1. NextLine \in Event
  BY DEF TypeOK, NextLine
<1>2. CASE tail' = "unterminated"
  BY <1>1, <1>2 DEF TypeOK, BreaksOff, Tails
<1>3. CASE tail' = "partial"
  BY <1>1, <1>3, FrontOfSequence DEF TypeOK, BreaksOff, Tails
<1> QED
  BY <1>2, <1>3 DEF BreaksOff

\* One step of the log, whatever it is, keeps the types.
LEMMA LogStepTyped ==
    ASSUME TypeOK, [Next]_logVars
    PROVE  TypeOK'
<1> USE LogAssumption
<1>1. ASSUME NEW event \in Event, Enqueue(event)
      PROVE  TypeOK'
  BY <1>1 DEF TypeOK, Enqueue
<1>2. CASE WriteSucceeds
  <2>1. NextLine \in Event
    BY <1>2 DEF TypeOK, WriteSucceeds, NextLine
  <2>2. file' \in Seq(Event)
    <3>1. CASE tail = "clean"
      BY <1>2, <2>1, <3>1 DEF TypeOK, WriteSucceeds
    <3>2. CASE tail = "partial"
      BY <1>2, <3>2 DEF TypeOK, WriteSucceeds
    <3>3. CASE tail = "unterminated"
      BY <1>2, <3>3, FrontOfSequence DEF TypeOK, WriteSucceeds
    <3> QED
      BY <3>1, <3>2, <3>3 DEF TypeOK, Tails
  <2> QED
    BY <1>2, <2>2 DEF TypeOK, WriteSucceeds, Tails
<1>3. CASE WriteFails
  <2>1. /\ file' \in Seq(Event)
        /\ tail' \in Tails
        /\ tail' = "unterminated" => file' # <<>>
    BY <1>3, BreaksOffTyped DEF WriteFails, TypeOK
  <2> QED
    BY <1>3, <2>1 DEF TypeOK, WriteFails
<1>4. CASE Die
  <2>1. /\ file' \in Seq(Event)
        /\ tail' \in Tails
        /\ tail' = "unterminated" => file' # <<>>
    BY <1>4, BreaksOffTyped DEF Die, TypeOK
  <2> QED
    BY <1>4, <2>1 DEF TypeOK, Die
<1>5. CASE UNCHANGED logVars
  BY <1>5 DEF TypeOK, logVars
<1> QED
  BY <1>1, <1>2, <1>3, <1>4, <1>5 DEF Next

\* The type of every variable of the log.
THEOREM LogTyped == Spec => []TypeOK
<1>1. Init => TypeOK
  <2> SUFFICES ASSUME Init PROVE TypeOK
    OBVIOUS
  <2>1. queue \in Seq(Event) /\ file \in Seq(Event)
    BY DEF Init
  <2>2. tail \in Tails /\ (tail = "unterminated" => file # <<>>)
    BY DEF Init, Tails
  <2>3. faults \in 0..MaxFaults
    BY LogAssumption DEF LogAssumption, Init
  <2>4. corrupt \in BOOLEAN
    BY DEF Init
  <2> QED
    BY <2>1, <2>2, <2>3, <2>4 DEF TypeOK
<1>2. TypeOK /\ [Next]_logVars => TypeOK'
  BY LogStepTyped
<1> QED
  BY <1>1, <1>2, PTL DEF Spec

-----------------------------------------------------------------------------
(* Order and loss *)

\* Later in the log is later accepted.
Newer == {pair \in Nat \X Nat : pair[1] < pair[2]}

\* The log over the events accepted so far, in accept order.
InOrder(lines, waiting, last) == LogOf(1..last, Newer, lines, waiting)

(***************************************************************************)
(* The strengthening of FileInAcceptOrder: the waiting lines are in order  *)
(* too, and newer than the file.  That a readable file is complete needs   *)
(* to know only that an unterminated tail is a line of the file.           *)
(***************************************************************************)
HistoryInv ==
    /\ accepted \in Nat
    /\ InOrder(file, queue, accepted)
    /\ tail \in Tails
    /\ tail = "unterminated" => file # <<>>
    /\ NothingTruncatedSilently

\* append() numbers its event one higher than all before it; without
\* persistence the event goes nowhere.
LEMMA OrderAfterAppend ==
    ASSUME NEW f, NEW q, NEW n \in Nat, InOrder(f, q, n)
    PROVE  InOrder(f, Append(q, n + 1), n + 1) /\ InOrder(f, q, n + 1)
<1>1. /\ 1..n \subseteq 1..n + 1
      /\ n + 1 \in 1..n + 1
      /\ \A d \in 1..n : <<d, n + 1>> \in Newer
  BY DEF Newer
<1> QED
  BY <1>1, LogAfterAppend, LogOverMore DEF InOrder

\* A write that breaks off keeps the order, and what it destroys makes the
\* file unreadable.
LEMMA BreaksOffInOrder ==
    ASSUME HistoryInv, queue # <<>>, BreaksOff
    PROVE  /\ InOrder(file', Tail(queue), accepted)
           /\ InOrder(file', <<>>, accepted)
           /\ tail' \in Tails
           /\ tail' = "unterminated" => file' # <<>>
           /\ tail' = "partial" \/ (tail = "clean" /\ ToSet(file) \subseteq ToSet(file'))
<1>1. CASE /\ tail = "clean"
           /\ file' = Append(file, NextLine)
           /\ tail' = "unterminated"
  <2>1. InOrder(file', Tail(queue), accepted)
    BY <1>1, LogAfterWrite DEF InOrder, HistoryInv, NextLine
  <2>2. InOrder(file', <<>>, accepted)
    BY <2>1, LogWithoutQueue DEF InOrder, HistoryInv
  <2>3. ToSet(file) \subseteq ToSet(file') /\ file' # <<>>
    BY <1>1, ToSetOfAppend DEF HistoryInv, InOrder, LogOf, NextLine
  <2> QED
    BY <1>1, <2>1, <2>2, <2>3 DEF Tails
<1>2. CASE /\ file' = IF tail = "unterminated" THEN Front(file) ELSE file
           /\ tail' = "partial"
  <2>1. InOrder(file', queue, accepted)
    BY <1>2, LogWithoutLast DEF InOrder, HistoryInv
  <2>2. InOrder(file', Tail(queue), accepted) /\ InOrder(file', <<>>, accepted)
    BY <2>1, LogWithoutHead, LogWithoutQueue DEF InOrder, HistoryInv
  <2> QED
    BY <1>2, <2>2 DEF Tails
<1> QED
  BY <1>1, <1>2 DEF BreaksOff

\* The strengthening holds in every state.
THEOREM HistoryInvariant == HistorySpec => []HistoryInv
<1>1. HistoryInit => HistoryInv
  <2> SUFFICES ASSUME HistoryInit PROVE HistoryInv
    OBVIOUS
  <2>1. /\ accepted = 0
        /\ queue = <<>>
        /\ file = <<>>
        /\ tail = "clean"
        /\ written = {}
    BY DEF HistoryInit, Init
  <2>2. InOrder(<<>>, <<>>, 0)
    BY DEF InOrder, LogOf, Related
  <2> QED
    BY <2>1, <2>2 DEF HistoryInv, Tails, NothingTruncatedSilently
<1>2. HistoryInv /\ [HistoryNext]_vars => HistoryInv'
  <2> SUFFICES ASSUME HistoryInv, [HistoryNext]_vars
               PROVE  HistoryInv'
    OBVIOUS
  <2>1. CASE Appends
    <3>1. InOrder(file, queue', accepted + 1)
      BY <2>1, OrderAfterAppend DEF Appends, Enqueue, HistoryInv
    <3>2. NothingTruncatedSilently'
      BY <2>1 DEF Appends, Enqueue, HistoryInv, NothingTruncatedSilently, Readable
    <3> QED
      BY <2>1, <3>1, <3>2 DEF Appends, Enqueue, HistoryInv
  <2>2. CASE AppendsTwo
    <3>1. InOrder(file, Append(Append(queue, accepted + 1), accepted + 2), accepted + 2)
      BY OrderAfterAppend, accepted + 1 + 1 = accepted + 2 DEF HistoryInv
    <3>2. queue \o <<accepted + 1, accepted + 2>>
            = Append(Append(queue, accepted + 1), accepted + 2)
      BY DEF HistoryInv, InOrder, LogOf
    <3>3. InOrder(file, queue, accepted + 2)
      BY OrderAfterAppend, accepted + 1 + 1 = accepted + 2 DEF HistoryInv
    <3>4. InOrder(file, queue', accepted + 2)
      BY <2>2, <3>1, <3>2, <3>3 DEF AppendsTwo, EnqueueBoth
    <3>5. NothingTruncatedSilently'
      BY <2>2 DEF AppendsTwo, EnqueueBoth, HistoryInv, NothingTruncatedSilently, Readable
    <3> QED
      BY <2>2, <3>4, <3>5 DEF AppendsTwo, EnqueueBoth, HistoryInv
  <2>3. CASE Writes
    <3>1. CASE tail = "clean"
      <4>1. /\ queue # <<>>
            /\ file' = Append(file, Head(queue))
            /\ queue' = Tail(queue)
            /\ tail' = "clean"
            /\ written' = written \cup {Head(queue)}
            /\ accepted' = accepted
        BY <2>3, <3>1 DEF Writes, WriteSucceeds, NextLine
      <4>2. corrupt => corrupt'
        BY <2>3 DEF Writes, WriteSucceeds
      <4>3. InOrder(file', queue', accepted)
        BY <4>1, LogAfterWrite DEF InOrder, HistoryInv
      <4>4. ToSet(file) \cup {Head(queue)} \subseteq ToSet(file')
        BY <4>1, ToSetOfAppend DEF HistoryInv, InOrder, LogOf
      <4>5. NothingTruncatedSilently'
        BY <3>1, <4>1, <4>4, <4>2 DEF HistoryInv, NothingTruncatedSilently, Readable
      <4> QED
        BY <4>1, <4>3, <4>5 DEF HistoryInv, Tails
    <3>2. CASE tail # "clean"
      <4>1. /\ queue # <<>>
            /\ file' = IF tail = "unterminated" THEN Front(file) ELSE file
            /\ queue' = Tail(queue)
            /\ tail' = "clean"
            /\ corrupt' = TRUE
            /\ accepted' = accepted
        BY <2>3, <3>2 DEF Writes, WriteSucceeds, HistoryInv, Tails
      <4>2. InOrder(file', queue, accepted)
        BY <4>1, LogWithoutLast DEF InOrder, HistoryInv
      <4>3. InOrder(file', queue', accepted)
        BY <4>1, <4>2, LogWithoutHead DEF InOrder, HistoryInv
      <4>4. NothingTruncatedSilently'
        BY <4>1 DEF NothingTruncatedSilently, Readable
      <4> QED
        BY <4>1, <4>3, <4>4 DEF HistoryInv, Tails
    <3> QED
      BY <3>1, <3>2
  <2>4. CASE WriteFails /\ UNCHANGED <<accepted, written>>
    <3>1. queue # <<>> /\ queue' = Tail(queue) /\ corrupt' = corrupt
      BY <2>4 DEF WriteFails
    <3>2. CASE BreaksOff
      BY <2>4, <3>1, <3>2, BreaksOffInOrder
         DEF InOrder, HistoryInv, NothingTruncatedSilently, Readable
    <3>3. CASE UNCHANGED <<file, tail>>
      BY <2>4, <3>1, <3>3, LogWithoutHead
         DEF InOrder, HistoryInv, NothingTruncatedSilently, Readable
    <3> QED
      BY <2>4, <3>2, <3>3 DEF WriteFails
  <2>5. CASE Die /\ UNCHANGED <<accepted, written>>
    <3>1. queue' = <<>> /\ corrupt' = corrupt
      BY <2>5 DEF Die
    <3>2. CASE queue # <<>> /\ BreaksOff
      BY <2>5, <3>1, <3>2, BreaksOffInOrder
         DEF InOrder, HistoryInv, NothingTruncatedSilently, Readable
    <3>3. CASE UNCHANGED <<file, tail>>
      BY <2>5, <3>1, <3>3, LogWithoutQueue
         DEF InOrder, HistoryInv, NothingTruncatedSilently, Readable
    <3> QED
      BY <2>5, <3>2, <3>3 DEF Die
  <2>6. CASE UNCHANGED vars
    BY <2>6 DEF vars, logVars, HistoryInv, NothingTruncatedSilently, Readable
  <2> QED
    BY <2>1, <2>2, <2>3, <2>4, <2>5, <2>6 DEF HistoryNext
<1> QED
  BY <1>1, <1>2, PTL DEF HistorySpec

\* Log order matches accept order.
THEOREM LogOrderIsAcceptOrder == HistorySpec => []FileInAcceptOrder
<1>1. HistoryInv => FileInAcceptOrder
  BY DEF HistoryInv, InOrder, LogOf, Related, Newer, FileInAcceptOrder
<1> QED
  BY <1>1, HistoryInvariant, PTL

\* What can be read is not silently short of a completed write.
THEOREM ReadableIsComplete == HistorySpec => []NothingTruncatedSilently
<1>1. HistoryInv => NothingTruncatedSilently
  BY DEF HistoryInv
<1> QED
  BY <1>1, HistoryInvariant, PTL

-----------------------------------------------------------------------------
(* Refinement *)

\* What the log promises while no write fails: its lines, written and
\* waiting, are a history of which the written ones are durable.
History == INSTANCE DurableHistory WITH history <- file \o queue, durable <- Len(file)

\* A log in which no write fails or breaks off implements DurableHistory.
THEOREM ImplementsDurableHistory ==
    ASSUME MaxFaults = 0
    PROVE  Spec => History!Spec
<1>1. Init => History!Init
  BY DEF Init, History!Init
<1>2. Init => tail = "clean"
  BY DEF Init
<1>3. TypeOK /\ tail = "clean" /\ [Next]_logVars => (tail = "clean")'
  BY DEF TypeOK, Next, Enqueue, WriteSucceeds, WriteFails, Die, logVars
<1>4. TypeOK /\ tail = "clean" /\ [Next]_logVars
        => [History!Next]_<<file \o queue, Len(file)>>
  <2> SUFFICES ASSUME TypeOK, tail = "clean", [Next]_logVars
               PROVE  [History!Next]_<<file \o queue, Len(file)>>
    OBVIOUS
  <2>1. ASSUME NEW event \in Event, Enqueue(event), Persist
        PROVE  History!Accept
    BY <2>1 DEF TypeOK, Enqueue, History!Accept
  <2>2. CASE WriteSucceeds
    <3>1. file' \o queue' = file \o queue
      BY <2>2 DEF TypeOK, WriteSucceeds, NextLine
    <3>2. Len(file') = Len(file) + 1 /\ Len(file) < Len(file \o queue)
      BY <2>2 DEF TypeOK, WriteSucceeds, NextLine
    <3> QED
      BY <3>1, <3>2 DEF History!Next, History!Endure
  <2>3. CASE Die
    <3>1. file' = file /\ queue' = <<>>
      BY <2>3 DEF TypeOK, Die
    <3>2. file = SubSeq(file \o queue, 1, Len(file))
      BY DEF TypeOK
    <3>3. file' \o queue' = file
      BY <3>1 DEF TypeOK
    <3> QED
      BY <3>1, <3>2, <3>3 DEF History!Next, History!Crash
  <2> QED
    BY <2>1, <2>2, <2>3 DEF Next, Enqueue, WriteFails, TypeOK, logVars, History!Next
<1> QED
  BY <1>1, <1>2, <1>3, <1>4, LogTyped, PTL DEF Spec, History!Spec
=============================================================================
