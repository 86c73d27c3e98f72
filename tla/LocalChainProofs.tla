--------------------------- MODULE LocalChainProofs ---------------------------
(***************************************************************************)
(* A ChatScan node on the local backend, for any number of submissions,    *)
(* blocks, failed writes, kills and restarts, whatever the clock does.     *)
(*                                                                         *)
(* NodeInv: what the index, the log and the process are in every state,    *)
(* failed writes and lost lines included.                                  *)
(* ChainInv: as long as no write has failed there is one function from     *)
(* beginnings of the log to indexes, that replay follows, all of whose     *)
(* values are chained; the index of a node that serves is its last value.  *)
(* WaitInv: all of its values have few records waiting, too.  Both are     *)
(* about every beginning of the log because a kill may leave any of them   *)
(* that is at least the durable part.                                      *)
(***************************************************************************)
EXTENDS LocalChain, LogLemmas, FiniteSetTheorems

-----------------------------------------------------------------------------
(* The mempool *)

\* How many records mempool(limit) returns at most.
Cap(limit) == IF limit >= 1 THEN limit ELSE 1

\* One turn of the loop of mempool().
Took(records, limit, pending, ref) ==
    IF records[ref].status = "pending" /\ (pending = <<>> \/ Len(pending) < limit)
    THEN Append(pending, ref)
    ELSE pending

\* The function the fold takes its value from.
TookBy(records, refs, limit) ==
    CHOOSE f : f = [S \in SUBSET (DOMAIN refs) |->
      IF S = {} THEN <<>> ELSE Took(records, limit, f[S \ {Max(S)}], refs[Max(S)])]

\* `taken` lists pending ones of the first n references, at the positions `at`: in
\* their order, and leaving none out before one that is listed.
OldestAt(at, taken, records, refs, limit, n) ==
    /\ at \in [1..Len(taken) -> 1..n]
    /\ \A j \in 1..Len(taken) :
         taken[j] = refs[at[j]] /\ records[refs[at[j]]].status = "pending"
    /\ \A j, k \in 1..Len(taken) : j < k => at[j] < at[k]
    /\ \A p \in 1..n :
         records[refs[p]].status = "pending" /\ (\A j \in 1..Len(taken) : at[j] # p) =>
           Len(taken) = Cap(limit) /\ \A j \in 1..Len(taken) : at[j] < p

Oldest(taken, records, refs, limit, n) ==
    /\ Len(taken) =< Cap(limit)
    /\ \E at : OldestAt(at, taken, records, refs, limit, n)

\* The next reference is taken, or not.
LEMMA TookOldest ==
    ASSUME NEW R, NEW records, NEW refs \in Seq(R), NEW limit \in Int,
           NEW n \in Nat, n + 1 =< Len(refs),
           NEW taken \in Seq(R), Oldest(taken, records, refs, limit, n)
    PROVE  /\ Took(records, limit, taken, refs[n + 1]) \in Seq(R)
           /\ Oldest(Took(records, limit, taken, refs[n + 1]), records, refs, limit, n + 1)
<1> DEFINE ref == refs[n + 1]
           next == Took(records, limit, taken, ref)
<1>1. n + 1 \in 1..Len(refs) /\ ref \in R /\ Len(taken) \in Nat /\ Cap(limit) \in Nat \ {0}
  BY ElementOfSequence DEF Cap
<1>2. PICK at : OldestAt(at, taken, records, refs, limit, n)
  BY DEF Oldest
<1>3. /\ at \in [1..Len(taken) -> 1..n]
      /\ \A j \in 1..Len(taken) :
           taken[j] = refs[at[j]] /\ records[refs[at[j]]].status = "pending"
      /\ \A j, k \in 1..Len(taken) : j < k => at[j] < at[k]
      /\ \A p \in 1..n :
           records[refs[p]].status = "pending" /\ (\A j \in 1..Len(taken) : at[j] # p) =>
             Len(taken) = Cap(limit) /\ \A j \in 1..Len(taken) : at[j] < p
      /\ Len(taken) =< Cap(limit)
  BY <1>2 DEF OldestAt, Oldest
<1>4. (taken = <<>> \/ Len(taken) < limit) <=> Len(taken) < Cap(limit)
  BY <1>1 DEF Cap
<1>5. CASE records[ref].status = "pending" /\ Len(taken) < Cap(limit)
  <2> DEFINE l == Len(taken)
             to == [j \in 1..l + 1 |-> IF j = l + 1 THEN n + 1 ELSE at[j]]
  <2>1. next = Append(taken, ref)
    BY <1>4, <1>5 DEF Took
  <2>2. /\ next \in Seq(R) /\ Len(next) = l + 1
        /\ \A j \in 1..l : next[j] = taken[j]
        /\ next[l + 1] = ref
        /\ \A j \in 1..l + 1 : j \in 1..l \/ j = l + 1
    BY <1>1, <2>1, AppendToSequence
  <2>3. /\ to \in [1..l + 1 -> 1..n + 1] /\ to[l + 1] = n + 1
        /\ \A j \in 1..l : to[j] = at[j] /\ to[j] \in 1..n
    <3>1. l \in Nat /\ at \in [1..l -> 1..n]
      BY <1>1, <1>3
    <3>2. \A j \in 1..l : j \in 1..l + 1 /\ j # l + 1 /\ at[j] \in 1..n
      BY <3>1
    <3>3. l + 1 \in 1..l + 1 /\ n + 1 \in 1..n + 1
      BY <3>1
    <3> HIDE DEF l
    <3>4. \A j \in 1..l + 1 : j \in 1..l \/ j = l + 1
      BY <3>1
    <3>5. to[l + 1] = n + 1 /\ \A j \in 1..l : to[j] = at[j]
      BY <3>2, <3>3
    <3>6. \A j \in 1..l + 1 : (IF j = l + 1 THEN n + 1 ELSE at[j]) \in 1..n + 1
      BY <3>2, <3>3, <3>4
    <3> QED
      BY <3>2, <3>5, <3>6
  <2> HIDE DEF to, next
  <2>4. \A j \in 1..l + 1 : next[j] = refs[to[j]] /\ records[refs[to[j]]].status = "pending"
    BY <1>3, <1>5, <2>2, <2>3
  <2>5. \A j, k \in 1..l + 1 : j < k => to[j] < to[k]
    <3> SUFFICES ASSUME NEW j \in 1..l + 1, NEW k \in 1..l + 1, j < k PROVE to[j] < to[k]
      OBVIOUS
    <3>1. j \in 1..l
      BY <1>1
    <3>2. CASE k = l + 1
      <4>1. to[j] \in 1..n /\ to[k] = n + 1
        BY <2>3, <3>1, <3>2
      <4> QED
        BY <4>1
    <3>3. CASE k \in 1..l
      BY <1>3, <2>3, <3>1, <3>3
    <3> QED
      BY <2>2, <3>2, <3>3
  <2>6. ASSUME NEW p \in 1..n + 1, records[refs[p]].status = "pending",
               \A j \in 1..l + 1 : to[j] # p
        PROVE  FALSE
    <3>1. p \in 1..n
      <4>1. l + 1 \in 1..l + 1
        BY <1>1
      <4> QED
        BY <2>3, <2>6, <4>1
    <3>2. \A j \in 1..l : at[j] # p
      <4>1. \A j \in 1..l : j \in 1..l + 1
        BY <1>1
      <4> QED
        BY <2>3, <2>6, <4>1
    <3> QED
      BY <1>1, <1>3, <1>5, <2>6, <3>1, <3>2
  <2>7. OldestAt(to, next, records, refs, limit, n + 1)
    BY <2>2, <2>3, <2>4, <2>5, <2>6 DEF OldestAt
  <2>8. Len(next) =< Cap(limit)
    BY <1>1, <1>5, <2>2
  <2> QED
    BY <2>2, <2>7, <2>8 DEF Oldest, next
<1>6. CASE ~(records[ref].status = "pending" /\ Len(taken) < Cap(limit))
  <2>1. next = taken
    BY <1>4, <1>6 DEF Took
  <2>2. at \in [1..Len(taken) -> 1..n + 1]
    BY <1>1, <1>3
  <2>3. ASSUME NEW p \in 1..n + 1, records[refs[p]].status = "pending",
               \A j \in 1..Len(taken) : at[j] # p
        PROVE  Len(taken) = Cap(limit) /\ \A j \in 1..Len(taken) : at[j] < p
    <3>1. CASE p = n + 1
      <4>1. Len(taken) = Cap(limit)
        BY <1>1, <1>3, <1>6, <2>3, <3>1
      <4> QED
        BY <1>3, <3>1, <4>1
    <3>2. CASE p # n + 1
      <4>1. p \in 1..n
        BY <3>2
      <4> QED
        BY <1>3, <2>3, <4>1
    <3> QED
      BY <3>1, <3>2
  <2>4. OldestAt(at, taken, records, refs, limit, n + 1)
    BY <1>3, <2>2, <2>3 DEF OldestAt
  <2> QED
    BY <1>3, <2>1, <2>4 DEF Oldest
<1> QED
  BY <1>5, <1>6

\* mempool() goes through the index once.
LEMMA MempoolIsFold ==
    ASSUME NEW R, NEW records, NEW refs \in Seq(R), NEW limit \in Int
    PROVE  LET f == TookBy(records, refs, limit)
           IN  /\ Mempool(records, refs, limit) = f[1..Len(refs)]
               /\ f[{}] = <<>>
               /\ \A S \in SUBSET (1..Len(refs)) : S # {} =>
                    f[S] = Took(records, limit, f[S \ {Max(S)}], refs[Max(S)])
<1> DEFINE n == Len(refs)
           step == [p \in Seq(R) \X (1..n) |-> Took(records, limit, p[1], refs[p[2]])]
           Fold(f) == [S \in SUBSET (DOMAIN refs) |->
                         IF S = {} THEN <<>>
                         ELSE Took(records, limit, f[S \ {Max(S)}], refs[Max(S)])]
           g == TookBy(records, refs, limit)
<1>1. n \in Nat /\ DOMAIN refs = 1..n /\ \A i \in 1..n : refs[i] \in R
  BY ElementOfSequence
<1>2. step \in [Seq(R) \X (1..n) -> Seq(R)]
  BY <1>1, AppendToSequence DEF Took
<1>3. <<>> \in Seq(R)
  OBVIOUS
<1>4. PICK f : FoldedBy(f, Seq(R), <<>>, step, n)
  BY <1>1, <1>2, <1>3, SetRecursion
<1>5. f = Fold(f)
  <2>1. f \in [SUBSET (1..n) -> Seq(R)] /\ f[{}] = <<>>
    BY <1>4 DEF FoldedBy
  <2>2. ASSUME NEW S \in SUBSET (1..n), S # {}
        PROVE  f[S] = Took(records, limit, f[S \ {Max(S)}], refs[Max(S)])
    <3>1. f[S] = step[<<f[S \ {Max(S)}], Max(S)>>]
      BY <1>4, <2>2 DEF FoldedBy
    <3>2. Max(S) \in 1..n
      BY <1>1, <2>2, MaxOfIndices
    <3>3. f[S \ {Max(S)}] \in Seq(R)
      BY <2>1
    <3> HIDE DEF n
    <3>4. step[<<f[S \ {Max(S)}], Max(S)>>]
            = Took(records, limit, f[S \ {Max(S)}], refs[Max(S)])
      BY <3>2, <3>3
    <3> QED
      BY <3>1, <3>4
  <2> HIDE DEF step, n
  <2> QED
    BY <1>1, <2>1, <2>2
<1>6. g = Fold(g)
  BY <1>5 DEF TookBy
<1>7. Mempool(records, refs, limit) = g[DOMAIN refs]
  BY DEF Mempool, TookBy, FoldLeft, MapThenFoldSet, Took
<1> HIDE DEF step, n, g
<1>8. g[{}] = <<>>
  BY <1>6
<1>9. \A S \in SUBSET (DOMAIN refs) : S # {} =>
        g[S] = Took(records, limit, g[S \ {Max(S)}], refs[Max(S)])
  BY <1>6
<1> QED
  BY <1>1, <1>7, <1>8, <1>9 DEF n, g

\* What mempool() returns: the oldest pending records, at most as many as asked for.
LEMMA MempoolIsOldest ==
    ASSUME NEW R, NEW records, NEW refs \in Seq(R), NEW limit \in Int
    PROVE  /\ Mempool(records, refs, limit) \in Seq(R)
           /\ Oldest(Mempool(records, refs, limit), records, refs, limit, Len(refs))
<1> DEFINE f == TookBy(records, refs, limit)
           n == Len(refs)
           T == {k \in Nat : k =< n =>
                   f[1..k] \in Seq(R) /\ Oldest(f[1..k], records, refs, limit, k)}
<1>1. /\ Mempool(records, refs, limit) = f[1..n]
      /\ f[{}] = <<>>
      /\ \A S \in SUBSET (1..n) : S # {} =>
           f[S] = Took(records, limit, f[S \ {Max(S)}], refs[Max(S)])
  BY MempoolIsFold
<1>2. n \in Nat
  BY ElementOfSequence
<1> HIDE DEF f, n
<1>3. 0 \in T
  <2>1. 1..0 = {} /\ <<>> \in Seq(R) /\ Len(<<>>) = 0
    OBVIOUS
  <2>2. OldestAt([j \in 1..0 |-> 0], <<>>, records, refs, limit, 0)
    BY <2>1 DEF OldestAt
  <2>3. Oldest(<<>>, records, refs, limit, 0)
    BY <2>1, <2>2 DEF Oldest, Cap
  <2> QED
    BY <1>1, <2>1, <2>3
<1>4. \A k \in Nat : k \in T => k + 1 \in T
  <2> SUFFICES ASSUME NEW k \in Nat, k + 1 =< n,
                      f[1..k] \in Seq(R), Oldest(f[1..k], records, refs, limit, k)
               PROVE  /\ f[1..k + 1] \in Seq(R)
                      /\ Oldest(f[1..k + 1], records, refs, limit, k + 1)
    BY <1>2
  <2>1. f[1..k + 1] = Took(records, limit, f[1..k], refs[k + 1])
    <3>1. 1..k + 1 \in SUBSET (1..n)
      BY <1>2
    <3> QED
      BY <1>1, <3>1, MaxOfInterval
  <2>2. k + 1 =< Len(refs)
    BY DEF n
  <2> HIDE DEF T
  <2> QED
    BY <2>1, <2>2, TookOldest
<1> HIDE DEF T
<1>5. n \in T
  BY <1>2, <1>3, <1>4, Induction
<1> QED
  BY <1>1, <1>2, <1>5 DEF T, n

-----------------------------------------------------------------------------
(* The index as one value *)

Indexes ==
    [order  : Seq(Nat \X Nat),
     recs   : UNION {[refs -> Record] : refs \in SUBSET (Nat \X Nat)},
     keys   : SUBSET Keys,
     nextId : Nat,
     blocks : Seq(Block)]

NoIndex == [order |-> <<>>, recs |-> <<>>, keys |-> {}, nextId |-> 1, blocks |-> <<>>]

Index == [order |-> order, recs |-> recs, keys |-> keys, nextId |-> nextId, blocks |-> blocks]

WithRecord(index, record) ==
    [order  |-> Append(index.order, Ref(record)),
     recs   |-> With(index.recs, Ref(record), record),
     keys   |-> IF record.status = "rejected" THEN index.keys
                                              ELSE index.keys \cup {record.key},
     nextId |-> IF record.id >= index.nextId THEN record.id + 1 ELSE index.nextId,
     blocks |-> index.blocks]

WithBlock(index, block) ==
    [order  |-> index.order,
     recs   |-> Confirmed(index.recs, block),
     keys   |-> index.keys,
     nextId |-> index.nextId,
     blocks |-> Append(index.blocks, block)]

\* What a line does to the index when it is replayed.
Turn(index, event) ==
    IF event.t = "block" THEN WithBlock(index, event.block) ELSE WithRecord(index, event.record)

\* The lines this node writes: it updates no record without a block.
LocalEvent == [t : {"record"}, record : Record] \cup [t : {"block"}, block : Block]

\* The index holds each record under its reference and at one position, and the
\* counter is past them all.
Numbered(index) ==
    /\ \A ref \in DOMAIN index.recs : Ref(index.recs[ref]) = ref /\ ref[2] < index.nextId
    /\ \A i \in 1..Len(index.order) : index.order[i] \in DOMAIN index.recs
    /\ \A i, j \in 1..Len(index.order) : index.order[i] = index.order[j] => i = j
    /\ \A ref \in DOMAIN index.recs : \E i \in 1..Len(index.order) : index.order[i] = ref

\* The keys are those of the admitted records, and no two of these share one.
KeyedOnce(index) ==
    /\ \A ref \in DOMAIN index.recs :
         index.recs[ref].status # "rejected" => index.recs[ref].key \in index.keys
    /\ \A a, b \in DOMAIN index.recs :
         /\ index.recs[a].status # "rejected"
         /\ index.recs[b].status # "rejected"
         /\ index.recs[a].key = index.recs[b].key
         => a = b

SameAdmission(a, b) == a.key = b.key /\ (a.status = "rejected" <=> b.status = "rejected")

\* The lines that agree with a map of records: a record line is about one of them.
Known(records) ==
    {event \in LocalEvent : event.t = "record" =>
       /\ Ref(event.record) \in DOMAIN records
       /\ SameAdmission(records[Ref(event.record)], event.record)}

\* A record of the map.
LEMMA RecordOfIndex ==
    ASSUME NEW index \in Indexes
    PROVE  /\ index.order \in Seq(Nat \X Nat)
           /\ DOMAIN index.recs \subseteq Nat \X Nat
           /\ index.recs \in [DOMAIN index.recs -> Record]
           /\ \A ref \in DOMAIN index.recs : index.recs[ref] \in Record
           /\ index.keys \subseteq Keys
           /\ index.nextId \in Nat
           /\ index.blocks \in Seq(Block)
           /\ Len(index.order) \in Nat /\ Len(index.blocks) \in Nat
<1>1. PICK refs \in SUBSET (Nat \X Nat) : index.recs \in [refs -> Record]
  BY DEF Indexes
<1> QED
  BY <1>1 DEF Indexes

\* The map with one record more.
LEMMA WithTyped ==
    ASSUME NEW index \in Indexes, NEW ref \in Nat \X Nat, NEW record \in Record
    PROVE  /\ With(index.recs, ref, record) \in
                UNION {[refs -> Record] : refs \in SUBSET (Nat \X Nat)}
           /\ DOMAIN With(index.recs, ref, record) = DOMAIN index.recs \cup {ref}
           /\ With(index.recs, ref, record)[ref] = record
           /\ \A x \in DOMAIN index.recs : x # ref =>
                With(index.recs, ref, record)[x] = index.recs[x]
<1> DEFINE refs == DOMAIN index.recs \cup {ref}
<1>1. With(index.recs, ref, record) \in [refs -> Record]
  BY RecordOfIndex DEF With
<1>2. refs \in SUBSET (Nat \X Nat)
  BY RecordOfIndex
<1> QED
  BY <1>1, <1>2 DEF With

\* A record joins the index.
LEMMA WithRecordTyped ==
    ASSUME NEW index \in Indexes, NEW record \in Record
    PROVE  WithRecord(index, record) \in Indexes
<1>1. Ref(record) \in Nat \X Nat /\ record.key \in Keys /\ record.id \in Nat
  BY DEF Ref, Record
<1>2. Append(index.order, Ref(record)) \in Seq(Nat \X Nat)
  BY <1>1, RecordOfIndex
<1>3. With(index.recs, Ref(record), record)
        \in UNION {[refs -> Record] : refs \in SUBSET (Nat \X Nat)}
  BY <1>1, WithTyped
<1> QED
  BY <1>1, <1>2, <1>3, RecordOfIndex DEF WithRecord, Indexes

\* The records of a block, confirmed, are the same records.
LEMMA ConfirmedTyped ==
    ASSUME NEW index \in Indexes, NEW block \in Block
    PROVE  /\ Confirmed(index.recs, block) \in [DOMAIN index.recs -> Record]
           /\ \A ref \in DOMAIN index.recs :
                LET old == index.recs[ref]
                    new == Confirmed(index.recs, block)[ref]
                IN  /\ ref \notin Listed(block) => new = old
                    /\ ref \in Listed(block) =>
                         /\ new.status = "confirmed"
                         /\ new.blockHeight = block.height
                         /\ new.blockHash = block.hash
                    /\ new.key = old.key /\ Ref(new) = Ref(old)
<1>1. ASSUME NEW ref \in DOMAIN index.recs
      PROVE  LET old == index.recs[ref]
                 new == Confirmed(index.recs, block)[ref]
             IN  /\ new \in Record
                 /\ ref \notin Listed(block) => new = old
                 /\ ref \in Listed(block) =>
                      /\ new.status = "confirmed"
                      /\ new.blockHeight = block.height
                      /\ new.blockHash = block.hash
                 /\ new.key = old.key /\ Ref(new) = Ref(old)
  <2> DEFINE old == index.recs[ref]
             new == Confirmed(index.recs, block)[ref]
  <2>1. old \in Record /\ block.height \in Nat /\ block.hash \in Nat
    BY RecordOfIndex DEF Block
  <2>2. new = IF ref \in Listed(block)
              THEN [old EXCEPT !.status = "confirmed", !.blockHeight = block.height,
                               !.blockHash = block.hash]
              ELSE old
    BY DEF Confirmed
  <2> HIDE DEF old, new
  <2>3. CASE ref \notin Listed(block)
    BY <2>1, <2>2, <2>3 DEF old, new
  <2>4. CASE ref \in Listed(block)
    <3>1. new = [old EXCEPT !.status = "confirmed", !.blockHeight = block.height,
                            !.blockHash = block.hash]
      BY <2>2, <2>4
    <3>2. /\ new \in Record /\ new.status = "confirmed" /\ new.blockHeight = block.height
          /\ new.blockHash = block.hash
          /\ new.key = old.key /\ new.id = old.id /\ new.receivedAt = old.receivedAt
      BY <2>1, <3>1 DEF Record, RecordStatus
    <3> QED
      BY <2>4, <3>2 DEF Ref, old, new
  <2> QED
    BY <2>3, <2>4
<1>2. Confirmed(index.recs, block)
        = [ref \in DOMAIN index.recs |-> Confirmed(index.recs, block)[ref]]
  BY DEF Confirmed
<1>3. \A ref \in DOMAIN index.recs : Confirmed(index.recs, block)[ref] \in Record
  BY <1>1
<1>4. Confirmed(index.recs, block) \in [DOMAIN index.recs -> Record]
  BY <1>2, <1>3
<1> QED
  BY <1>1, <1>4

\* A block joins the index.
LEMMA WithBlockTyped ==
    ASSUME NEW index \in Indexes, NEW block \in Block
    PROVE  WithBlock(index, block) \in Indexes
<1>1. Confirmed(index.recs, block) \in UNION {[refs -> Record] : refs \in SUBSET (Nat \X Nat)}
  <2>1. DOMAIN index.recs \in SUBSET (Nat \X Nat)
    BY RecordOfIndex
  <2> QED
    BY <2>1, ConfirmedTyped
<1>2. Append(index.blocks, block) \in Seq(Block)
  BY RecordOfIndex
<1> QED
  BY <1>1, <1>2, RecordOfIndex DEF WithBlock, Indexes

\* An index of nothing.
LEMMA NoIndexSound == NoIndex \in Indexes /\ Numbered(NoIndex) /\ KeyedOnce(NoIndex)
<1>1. <<>> \in Seq(Nat \X Nat) /\ <<>> \in [{} -> Record] /\ <<>> \in Seq(Block)
      /\ Len(<<>>) = 0 /\ DOMAIN <<>> = {} /\ 1..0 = {}
  OBVIOUS
<1>2. {} \in SUBSET (Nat \X Nat)
  OBVIOUS
<1>3. NoIndex \in Indexes
  BY <1>1, <1>2 DEF NoIndex, Indexes
<1> QED
  BY <1>1, <1>3 DEF NoIndex, Numbered, KeyedOnce

\* A record with a new reference and, if it is admitted, a new key joins the index.
LEMMA WithRecordSound ==
    ASSUME NEW index \in Indexes, Numbered(index), KeyedOnce(index),
           NEW record \in Record, Ref(record) \notin DOMAIN index.recs,
           \A ref \in DOMAIN index.recs :
             /\ record.status # "rejected"
             /\ index.recs[ref].status # "rejected"
             => index.recs[ref].key # record.key
    PROVE  LET next == WithRecord(index, record)
           IN  /\ next \in Indexes /\ Numbered(next) /\ KeyedOnce(next)
               /\ DOMAIN next.recs = DOMAIN index.recs \cup {Ref(record)}
               /\ Known(index.recs) \subseteq Known(next.recs)
               /\ [t |-> "record", record |-> record] \in Known(next.recs)
<1> DEFINE next == WithRecord(index, record)
           ref == Ref(record)
           n == Len(index.order)
<1>1. next \in Indexes
  BY WithRecordTyped
<1>2. ref \in Nat \X Nat /\ ref[2] = record.id /\ record.id \in Nat
  BY DEF Ref, Record
<1>3. /\ next.recs = With(index.recs, ref, record)
      /\ next.order = Append(index.order, ref)
      /\ index.keys \subseteq next.keys
      /\ record.status # "rejected" => record.key \in next.keys
      /\ index.nextId =< next.nextId /\ record.id < next.nextId /\ next.nextId \in Nat
  BY <1>2, RecordOfIndex DEF WithRecord
<1>4. /\ DOMAIN next.recs = DOMAIN index.recs \cup {ref}
      /\ next.recs[ref] = record
      /\ \A x \in DOMAIN index.recs : next.recs[x] = index.recs[x]
  <2>1. \A x \in DOMAIN index.recs : x # ref
    OBVIOUS
  <2> HIDE DEF next, ref
  <2>2. /\ DOMAIN With(index.recs, ref, record) = DOMAIN index.recs \cup {ref}
        /\ With(index.recs, ref, record)[ref] = record
        /\ \A x \in DOMAIN index.recs : x # ref =>
             With(index.recs, ref, record)[x] = index.recs[x]
    BY <1>2, WithTyped
  <2>3. next.recs = With(index.recs, ref, record)
    BY <1>3
  <2> QED
    BY <2>1, <2>2, <2>3
<1>5. /\ Len(next.order) = n + 1 /\ n \in Nat
      /\ \A i \in 1..n : next.order[i] = index.order[i]
      /\ next.order[n + 1] = ref
      /\ \A i \in 1..n + 1 : i \in 1..n \/ i = n + 1
      /\ n + 1 \in 1..n + 1 /\ \A i \in 1..n : i \in 1..n + 1
  <2>1. index.order \in Seq(Nat \X Nat)
    BY RecordOfIndex
  <2> QED
    BY <1>2, <1>3, <2>1, AppendToSequence
<1>6. ref = Ref(record)
  OBVIOUS
<1> HIDE DEF next, ref, n
<1>7. Numbered(next)
  <2>1. \A x \in DOMAIN next.recs : Ref(next.recs[x]) = x /\ x[2] < next.nextId
    <3> SUFFICES ASSUME NEW x \in DOMAIN next.recs
                 PROVE  Ref(next.recs[x]) = x /\ x[2] < next.nextId
      OBVIOUS
    <3>1. CASE x = ref
      BY <1>2, <1>3, <1>4, <1>6, <3>1
    <3>2. CASE x \in DOMAIN index.recs
      <4>1. x[2] \in Nat /\ x[2] < index.nextId /\ index.nextId \in Nat
        BY <3>2, RecordOfIndex DEF Numbered
      <4> QED
        BY <1>3, <1>4, <3>2, <4>1 DEF Numbered
    <3> QED
      BY <1>4, <3>1, <3>2
  <2>2. \A i \in 1..n : index.order[i] \in DOMAIN index.recs /\ index.order[i] # ref
    BY <1>6 DEF Numbered, n
  <2>3. \A i \in 1..n + 1 : next.order[i] \in DOMAIN next.recs
    BY <1>4, <1>5, <2>2
  <2>4. \A i, j \in 1..n + 1 : next.order[i] = next.order[j] => i = j
    <3>1. \A i, j \in 1..n : index.order[i] = index.order[j] => i = j
      BY DEF Numbered, n
    <3> QED
      BY <1>5, <2>2, <3>1
  <2>5. ASSUME NEW x \in DOMAIN next.recs
        PROVE  \E i \in 1..n + 1 : next.order[i] = x
    <3>1. CASE x = ref
      BY <1>5, <3>1
    <3>2. CASE x \in DOMAIN index.recs
      <4>1. PICK i \in 1..n : index.order[i] = x
        BY <3>2 DEF Numbered, n
      <4> QED
        BY <1>5, <4>1
    <3> QED
      BY <1>4, <3>1, <3>2
  <2> QED
    BY <1>5, <2>1, <2>3, <2>4, <2>5 DEF Numbered
<1>8. KeyedOnce(next)
  <2>1. ASSUME NEW x \in DOMAIN next.recs, next.recs[x].status # "rejected"
        PROVE  next.recs[x].key \in next.keys
    BY <1>3, <1>4, <2>1 DEF KeyedOnce
  <2>2. ASSUME NEW a \in DOMAIN next.recs, NEW b \in DOMAIN next.recs,
               next.recs[a].status # "rejected", next.recs[b].status # "rejected",
               next.recs[a].key = next.recs[b].key
        PROVE  a = b
    BY <1>4, <1>6, <2>2 DEF KeyedOnce
  <2> QED
    BY <2>1, <2>2 DEF KeyedOnce
<1>9. Known(index.recs) \subseteq Known(next.recs)
  BY <1>4 DEF Known
<1>10. [t |-> "record", record |-> record] \in Known(next.recs)
  BY <1>4, <1>6 DEF Known, LocalEvent, SameAdmission
<1> QED
  BY <1>1, <1>4, <1>6, <1>7, <1>8, <1>9, <1>10 DEF next

\* A block of records none of which is rejected joins the index.
LEMMA WithBlockSound ==
    ASSUME NEW index \in Indexes, Numbered(index), KeyedOnce(index),
           NEW block \in Block,
           \A ref \in DOMAIN index.recs :
             ref \in Listed(block) => index.recs[ref].status # "rejected"
    PROVE  LET next == WithBlock(index, block)
           IN  /\ next \in Indexes /\ Numbered(next) /\ KeyedOnce(next)
               /\ DOMAIN next.recs = DOMAIN index.recs
               /\ Known(index.recs) \subseteq Known(next.recs)
               /\ [t |-> "block", block |-> block] \in Known(next.recs)
<1> DEFINE next == WithBlock(index, block)
<1>1. next \in Indexes
  BY WithBlockTyped
<1>2. /\ next.order = index.order /\ next.keys = index.keys /\ next.nextId = index.nextId
      /\ next.recs = Confirmed(index.recs, block)
  BY DEF WithBlock
<1>3. /\ DOMAIN next.recs = DOMAIN index.recs
      /\ \A ref \in DOMAIN index.recs :
           /\ Ref(next.recs[ref]) = Ref(index.recs[ref])
           /\ SameAdmission(next.recs[ref], index.recs[ref])
  BY <1>2, ConfirmedTyped DEF SameAdmission
<1> HIDE DEF next
<1>4. Numbered(next)
  BY <1>2, <1>3 DEF Numbered
<1>5. KeyedOnce(next)
  BY <1>2, <1>3 DEF KeyedOnce, SameAdmission
<1>6. Known(index.recs) \subseteq Known(next.recs)
  BY <1>3 DEF Known, SameAdmission
<1>7. [t |-> "block", block |-> block] \in Known(next.recs)
  BY DEF Known, LocalEvent
<1> QED
  BY <1>1, <1>3, <1>4, <1>5, <1>6, <1>7 DEF next

-----------------------------------------------------------------------------
(* What a serving node adds *)

\* Two lines of the log, the first before the second: they are not about one
\* reference or, if both are admitted, one key; and a block lists no rejected record.
Apart ==
    {pair \in LocalEvent \X LocalEvent :
       pair[1].t = "record" =>
         LET first == pair[1].record
         IN  /\ pair[2].t = "record" =>
                  LET second == pair[2].record
                  IN  /\ Ref(first) # Ref(second)
                      /\ first.key = second.key =>
                           first.status = "rejected" \/ second.status = "rejected"
             /\ pair[2].t = "block" /\ Ref(first) \in Listed(pair[2].block) =>
                  first.status # "rejected"}

\* `refs` are pending records in index order, and none is skipped for a later one.
NoneSkipped(refs, index) ==
    \E at \in [1..Len(refs) -> 1..Len(index.order)] :
      /\ \A j \in 1..Len(refs) :
           /\ refs[j] = index.order[at[j]]
           /\ index.recs[refs[j]].status = "pending"
      /\ \A j, k \in 1..Len(refs) : j < k => at[j] < at[k]
      /\ \A k \in 1..Len(refs) : \A p \in 1..Len(index.order) :
           p < at[k] /\ index.recs[index.order[p]].status = "pending" =>
             \E j \in 1..Len(refs) : at[j] = p

\* A submission may become this record.
MayRecord(index, record) ==
    /\ record \in Record
    /\ record.id = index.nextId
    /\ record.status \in {"pending", "rejected"}
    /\ record.status # "rejected" => record.key \notin index.keys

\* The node may seal this block: genesis, or the oldest pending records on top.
MayBlock(index, block) ==
    /\ block \in Block
    /\ NoneSkipped(block.refs, index)
    /\ index.blocks = <<>> =>
         block.height = 0 /\ block.previousHash = NoParent
    /\ index.blocks # <<>> =>
         LET parent == index.blocks[Len(index.blocks)]
         IN  /\ block.height = parent.height + 1
             /\ block.previousHash = parent.hash
             /\ block.timestamp > parent.timestamp

\* A serving node may add this line to its index and its log.
Live(index, event) ==
    /\ event \in LocalEvent
    /\ event.t = "record" => MayRecord(index, event.record)
    /\ event.t = "block" => MayBlock(index, event.block)

Sound(index) == index \in Indexes /\ Numbered(index) /\ KeyedOnce(index)

\* A line joins the log of a sound index, and the index stays sound.
Follows(index, event) ==
    LET next == Turn(index, event)
    IN  /\ Sound(next)
        /\ Known(index.recs) \subseteq Known(next.recs)
        /\ event \in Known(next.recs)
        /\ \A earlier \in Known(index.recs) : <<earlier, event>> \in Apart

\* A line is one or the other.
LEMMA LineIsEither ==
    ASSUME NEW event \in LocalEvent
    PROVE  /\ event.t \in {"record", "block"}
           /\ event.t = "record" => event.record \in Record
                                    /\ event = [t |-> "record", record |-> event.record]
           /\ event.t = "block" => event.block \in Block
                                   /\ event = [t |-> "block", block |-> event.block]
           /\ event \in Event
<1>1. CASE event \in [t : {"record"}, record : Record]
  BY <1>1 DEF Event
<1>2. CASE event \in [t : {"block"}, block : Block]
  BY <1>2 DEF Event
<1> QED
  BY <1>1, <1>2 DEF LocalEvent

\* Listed references are positions of the index, pending ones.
LEMMA ListedOfNoneSkipped ==
    ASSUME NEW index \in Indexes, Numbered(index), NEW refs \in Seq(Nat \X Nat),
           NoneSkipped(refs, index)
    PROVE  \A j \in 1..Len(refs) :
             refs[j] \in DOMAIN index.recs /\ index.recs[refs[j]].status = "pending"
<1>1. PICK at \in [1..Len(refs) -> 1..Len(index.order)] :
        \A j \in 1..Len(refs) :
          refs[j] = index.order[at[j]] /\ index.recs[refs[j]].status = "pending"
  BY DEF NoneSkipped
<1>2. \A p \in 1..Len(index.order) : index.order[p] \in DOMAIN index.recs
  BY DEF Numbered
<1> QED
  BY <1>1, <1>2

\* The references a block lists.
LEMMA ListedIs ==
    ASSUME NEW block \in Block, NEW ref
    PROVE  /\ ref \in Listed(block) <=> \E j \in 1..Len(block.refs) : block.refs[j] = ref
           /\ block.refs \in Seq(Nat \X Nat) /\ Len(block.refs) \in Nat
<1>1. block.refs \in Seq(Nat \X Nat)
  BY DEF Block
<1>2. DOMAIN block.refs = 1..Len(block.refs)
  BY <1>1
<1> QED
  BY <1>1, <1>2 DEF Listed

\* Whatever a serving node may add follows on what it has.
LEMMA LiveFollows ==
    ASSUME NEW index, Sound(index), NEW event, Live(index, event)
    PROVE  Follows(index, event)
<1>1. index \in Indexes /\ Numbered(index) /\ KeyedOnce(index) /\ event \in LocalEvent
  BY DEF Sound, Live
<1>2. CASE event.t = "record"
  <2>1. PICK record : record = event.record
    OBVIOUS
  <2>2. /\ record \in Record /\ record.id = index.nextId
        /\ record.status # "rejected" => record.key \notin index.keys
        /\ event = [t |-> "record", record |-> record]
        /\ Turn(index, event) = WithRecord(index, record)
    BY <1>1, <1>2, <2>1, LineIsEither DEF Live, MayRecord, Turn
  <2>3. Ref(record) \notin DOMAIN index.recs
    <3>1. Ref(record)[2] = index.nextId
      BY <2>2 DEF Ref
    <3>2. \A ref \in DOMAIN index.recs : ref[2] \in Nat /\ ref[2] < index.nextId
      BY <1>1, RecordOfIndex DEF Numbered
    <3> QED
      BY <3>1, <3>2
  <2>4. \A ref \in DOMAIN index.recs :
          record.status # "rejected" /\ index.recs[ref].status # "rejected"
          => index.recs[ref].key # record.key
    BY <1>1, <2>2 DEF KeyedOnce
  <2>5. LET next == WithRecord(index, record)
        IN  /\ next \in Indexes /\ Numbered(next) /\ KeyedOnce(next)
            /\ Known(index.recs) \subseteq Known(next.recs)
            /\ event \in Known(next.recs)
    BY <1>1, <2>2, <2>3, <2>4, WithRecordSound
  <2>6. ASSUME NEW earlier \in Known(index.recs)
        PROVE  <<earlier, event>> \in Apart
    <3>1. /\ earlier \in LocalEvent
          /\ earlier.t = "record" =>
               /\ Ref(earlier.record) \in DOMAIN index.recs
               /\ SameAdmission(index.recs[Ref(earlier.record)], earlier.record)
      BY DEF Known
    <3>2. event.t = "record" /\ event.t # "block" /\ event.record = record
      BY <1>2, <2>1
    <3> QED
      BY <1>1, <2>3, <2>4, <3>1, <3>2 DEF Apart, SameAdmission
  <2> QED
    BY <2>2, <2>5, <2>6 DEF Follows, Sound
<1>3. CASE event.t = "block"
  <2>1. PICK block : block = event.block
    OBVIOUS
  <2>2. /\ block \in Block /\ NoneSkipped(block.refs, index)
        /\ event = [t |-> "block", block |-> block]
        /\ Turn(index, event) = WithBlock(index, block)
    BY <1>1, <1>3, <2>1, LineIsEither DEF Live, MayBlock, Turn
  <2>3. \A ref \in Listed(block) : ref \in DOMAIN index.recs /\ index.recs[ref].status = "pending"
    BY <1>1, <2>2, ListedIs, ListedOfNoneSkipped
  <2>4. LET next == WithBlock(index, block)
        IN  /\ next \in Indexes /\ Numbered(next) /\ KeyedOnce(next)
            /\ Known(index.recs) \subseteq Known(next.recs)
            /\ event \in Known(next.recs)
    BY <1>1, <2>2, <2>3, WithBlockSound
  <2>5. ASSUME NEW earlier \in Known(index.recs)
        PROVE  <<earlier, event>> \in Apart
    <3>1. /\ earlier \in LocalEvent
          /\ earlier.t = "record" =>
               SameAdmission(index.recs[Ref(earlier.record)], earlier.record)
      BY DEF Known
    <3>2. event.t = "block" /\ event.t # "record" /\ event.block = block
      BY <1>3, <2>1
    <3> QED
      BY <1>1, <2>3, <3>1, <3>2 DEF Apart, SameAdmission
  <2> QED
    BY <2>2, <2>4, <2>5 DEF Follows, Sound
<1> QED
  BY <1>1, <1>2, <1>3, LineIsEither

-----------------------------------------------------------------------------
(* The node invariant: types, references and keys, whatever the log suffers *)

\* The lines of the log agree with each other and, once the replay is over, with
\* the index.
LogInv ==
    /\ LogOf(LocalEvent, Apart, file, queue)
    /\ phase = "serving" => LogOf(Known(recs), Apart, file, queue)
    /\ phase # "serving" => queue = <<>>
    /\ tail \in Log!Tails
    /\ tail = "unterminated" => file # <<>>
    /\ faults = 0 => tail = "clean"
    /\ corrupt \in BOOLEAN
    /\ faults \in 0..MaxFaults

\* The life of the process: what is back of the index during a replay comes from
\* the lines read so far.
LifeInv ==
    /\ phase \in {"replaying", "serving", "dead"}
    /\ run \in 1..MaxStops + 1
    /\ phase = "dead" => run =< MaxStops /\ Index = NoIndex
    /\ phase = "serving" => blocks # <<>>
    /\ phase = "replaying" =>
         /\ replayed \in 0..Len(file)
         /\ \A k \in 1..replayed : file[k] \in Known(recs)
         /\ \A ref \in DOMAIN recs : \E k \in 1..replayed :
              file[k].t = "record" /\ Ref(file[k].record) = ref

RestInv ==
    /\ replayed \in Nat
    /\ clock \in 0..MaxClock
    /\ minted \in Nat
    /\ received \in 0..MaxReceived

NodeInv == Sound(Index) /\ LogInv /\ LifeInv /\ RestInv

\* The node adds a line, or two, to its index and its log.
Adds(event) ==
    /\ Live(Index, event)
    /\ Index' = Turn(Index, event)
    /\ Log!Enqueue(event)

AddsBoth(first, second) ==
    /\ Live(Index, first)
    /\ Live(Turn(Index, first), second)
    /\ Index' = Turn(Turn(Index, first), second)
    /\ Log!EnqueueBoth(first, second)

RecordLine(record) == [t |-> "record", record |-> record]
BlockLine(block) == [t |-> "block", block |-> block]

\* The index and its parts.
LEMMA IndexParts ==
    /\ Index.order = order /\ Index.recs = recs /\ Index.keys = keys
    /\ Index.nextId = nextId /\ Index.blocks = blocks
    /\ (UNCHANGED indexVars => UNCHANGED Index)
  BY DEF Index, indexVars

\* The index and its parts, after a step.
LEMMA NextIndexParts ==
    /\ Index'.order = order' /\ Index'.recs = recs' /\ Index'.keys = keys'
    /\ Index'.nextId = nextId' /\ Index'.blocks = blocks'
  BY DEF Index

\* #indexRecord and #indexBlock are a turn each.
LEMMA IndexingIsATurn ==
    /\ \A record : IndexRecord(record) => Index' = Turn(Index, RecordLine(record))
    /\ \A block : IndexBlock(block) => Index' = Turn(Index, BlockLine(block))
<1>1. ASSUME NEW record, IndexRecord(record)
      PROVE  Index' = Turn(Index, RecordLine(record))
  <2>1. Turn(Index, RecordLine(record)) = WithRecord(Index, record)
    BY DEF Turn, RecordLine
  <2>2. Index' = WithRecord(Index, record)
    BY <1>1 DEF IndexRecord, Index, WithRecord, KeysWith, CounterPast
  <2> QED
    BY <2>1, <2>2
<1>2. ASSUME NEW block, IndexBlock(block)
      PROVE  Index' = Turn(Index, BlockLine(block))
  <2>1. Turn(Index, BlockLine(block)) = WithBlock(Index, block)
    BY DEF Turn, BlockLine
  <2>2. Index' = WithBlock(Index, block)
    BY <1>2 DEF IndexBlock, Index, WithBlock
  <2> QED
    BY <2>1, <2>2
<1> QED
  BY <1>1, <1>2

\* The mempool of an index skips nothing, and leaves something out only when full.
LEMMA MempoolOfIndex ==
    ASSUME NEW index \in Indexes
    PROVE  LET refs == Mempool(index.recs, index.order, MaxRecordsPerBlock)
           IN  /\ refs \in Seq(Nat \X Nat)
               /\ NoneSkipped(refs, index)
               /\ Len(refs) < MaxRecordsPerBlock =>
                    \A p \in 1..Len(index.order) :
                      index.recs[index.order[p]].status = "pending" =>
                        \E j \in 1..Len(refs) : refs[j] = index.order[p]
<1> DEFINE refs == Mempool(index.recs, index.order, MaxRecordsPerBlock)
           n == Len(index.order)
<1>1. index.order \in Seq(Nat \X Nat) /\ n \in Nat /\ MaxRecordsPerBlock \in Int
  BY RecordOfIndex, LocalAssumption DEF LocalAssumption
<1>2. refs \in Seq(Nat \X Nat) /\ Oldest(refs, index.recs, index.order, MaxRecordsPerBlock, n)
  BY <1>1, MempoolIsOldest
<1> HIDE DEF refs, n
<1>3. PICK at : OldestAt(at, refs, index.recs, index.order, MaxRecordsPerBlock, n)
  BY <1>2 DEF Oldest
<1>4. /\ at \in [1..Len(refs) -> 1..n]
      /\ \A j \in 1..Len(refs) :
           refs[j] = index.order[at[j]] /\ index.recs[index.order[at[j]]].status = "pending"
      /\ \A j, k \in 1..Len(refs) : j < k => at[j] < at[k]
      /\ \A p \in 1..n :
           index.recs[index.order[p]].status = "pending" /\ (\A j \in 1..Len(refs) : at[j] # p) =>
             Len(refs) = Cap(MaxRecordsPerBlock) /\ \A j \in 1..Len(refs) : at[j] < p
  BY <1>3 DEF OldestAt
<1>5. \A k \in 1..Len(refs) : \A p \in 1..n :
        p < at[k] /\ index.recs[index.order[p]].status = "pending" =>
          \E j \in 1..Len(refs) : at[j] = p
  <2> SUFFICES ASSUME NEW k \in 1..Len(refs), NEW p \in 1..n, p < at[k],
                      index.recs[index.order[p]].status = "pending",
                      \A j \in 1..Len(refs) : at[j] # p
               PROVE  FALSE
    OBVIOUS
  <2>1. at[k] < p /\ at[k] \in 1..n
    BY <1>4
  <2> QED
    BY <1>1, <2>1
<1>6. NoneSkipped(refs, index)
  BY <1>4, <1>5 DEF NoneSkipped, n
<1>7. ASSUME Len(refs) < MaxRecordsPerBlock, NEW p \in 1..n,
             index.recs[index.order[p]].status = "pending"
      PROVE  \E j \in 1..Len(refs) : refs[j] = index.order[p]
  <2>1. Len(refs) # Cap(MaxRecordsPerBlock)
    BY <1>1, <1>2, <1>7 DEF Cap
  <2> QED
    BY <1>4, <1>7, <2>1
<1> QED
  BY <1>2, <1>6, <1>7 DEF refs, n

\* submit() makes a record the index has room for.
LEMMA NewRecordLive ==
    ASSUME NodeInv, NEW submission \in Offered
    PROVE  Live(Index, RecordLine(NewRecord(submission)))
<1> DEFINE record == NewRecord(submission)
           reason == PolicyRejection(submission)
<1>1. /\ submission \in Submissions /\ nextId \in Nat /\ run \in Nat
      /\ submission.key \in Keys
  <2>1. nextId \in Nat
    BY RecordOfIndex, IndexParts DEF NodeInv, Sound
  <2>2. run \in Nat
    BY StoreAssumption DEF StoreAssumption, NodeInv, LifeInv
  <2> QED
    BY <2>1, <2>2, LocalAssumption DEF LocalAssumption, Submissions
<1>2. reason \in RejectionReasons \cup {Null} /\ (submission.key \in keys => reason # Null)
  BY <1>1, NullAssumption DEF PolicyRejection, RejectionReasons
<1>3. /\ record.id = nextId /\ record.key = submission.key /\ record \in Record
      /\ record.status = IF reason = Null THEN "pending" ELSE "rejected"
  BY <1>1, <1>2 DEF NewRecord, CreateRecord, Submissions, Record, RecordStatus,
                    UnverifiedAnchor, Anchor, Finality
<1> HIDE DEF record, reason
<1>4. MayRecord(Index, record)
  BY <1>2, <1>3, IndexParts DEF MayRecord
<1>5. RecordLine(record) \in LocalEvent
  BY <1>3 DEF RecordLine, LocalEvent
<1> QED
  BY <1>4, <1>5 DEF Live, RecordLine, record

\* sealBlock makes a block that goes on top of an index with the blocks it sees.
LEMMA NextBlockLive ==
    ASSUME NodeInv, NEW index \in Indexes, index.blocks = blocks, blocks # <<>>,
           NEW refs \in Seq(Nat \X Nat), NoneSkipped(refs, index)
    PROVE  Live(index, BlockLine(NextBlock(refs)))
<1> DEFINE block == NextBlock(refs)
           parent == Last(blocks)
<1>1. blocks \in Seq(Block) /\ Len(blocks) \in Nat \ {0} /\ parent = blocks[Len(blocks)]
  BY RecordOfIndex DEF Last
<1>2. parent \in Block
  BY <1>1
<1>3. clock \in Nat /\ minted \in Nat
  BY LocalAssumption DEF LocalAssumption, NodeInv, RestInv
<1>4. /\ block.height = parent.height + 1 /\ block.previousHash = parent.hash
      /\ block.hash = minted + 1 /\ block.refs = refs
      /\ block.timestamp = TimeAfter(parent)
      /\ block = [height |-> parent.height + 1, hash |-> minted + 1,
                  previousHash |-> parent.hash, timestamp |-> TimeAfter(parent), refs |-> refs]
  BY DEF NextBlock
<1> HIDE DEF block, parent
<1>5. parent.height \in Nat /\ parent.hash \in Nat /\ parent.timestamp \in Nat
  BY <1>2 DEF Block
<1>6. TimeAfter(parent) \in Nat /\ TimeAfter(parent) > parent.timestamp
  BY <1>3, <1>5 DEF TimeAfter
<1>7. block \in Block
  BY <1>3, <1>4, <1>5, <1>6 DEF Block
<1>8. MayBlock(index, block)
  BY <1>1, <1>4, <1>6, <1>7 DEF MayBlock
<1>9. BlockLine(block) \in LocalEvent
  BY <1>7 DEF BlockLine, LocalEvent
<1> QED
  BY <1>8, <1>9 DEF Live, BlockLine, block

\* ensureGenesis makes the first block.
LEMMA GenesisLive ==
    ASSUME NodeInv, blocks = <<>>
    PROVE  Live(Index, BlockLine(Genesis))
<1>1. clock \in Nat /\ minted \in Nat
  BY LocalAssumption DEF LocalAssumption, NodeInv, RestInv
<1>2. Genesis \in Block /\ Genesis.height = 0 /\ Genesis.previousHash = NoParent
      /\ Genesis.refs = <<>>
  BY <1>1 DEF Genesis, Block, NoParent
<1>3. NoneSkipped(Genesis.refs, Index)
  <2>1. Len(<<>>) = 0 /\ 1..0 = {} /\ <<>> \in [{} -> 1..Len(Index.order)]
    OBVIOUS
  <2> QED
    BY <1>2, <2>1 DEF NoneSkipped
<1>4. MayBlock(Index, Genesis)
  BY <1>2, <1>3, IndexParts DEF MayBlock
<1>5. BlockLine(Genesis) \in LocalEvent
  BY <1>2 DEF BlockLine, LocalEvent
<1> QED
  BY <1>4, <1>5 DEF Live, BlockLine

-----------------------------------------------------------------------------
(* Its steps *)

\* The four steps that add something, as what they add.
LEMMA SubmitOnlyAdds ==
    ASSUME NodeInv, NEW submission \in Offered, SubmitOnly(submission)
    PROVE  /\ Adds(RecordLine(NewRecord(submission)))
           /\ phase = "serving" /\ blocks' = blocks
           /\ UNCHANGED <<processVars, clock, minted>> /\ received' \in 0..MaxReceived
<1>1. IndexRecord(NewRecord(submission)) /\ Log!Enqueue(RecordLine(NewRecord(submission)))
  BY DEF SubmitOnly, AddRecord, RecordLine
<1>2. /\ phase = "serving" /\ blocks' = blocks
      /\ UNCHANGED <<processVars, clock, minted>> /\ received' \in 0..MaxReceived
  BY <1>1, LocalAssumption
     DEF LocalAssumption, SubmitOnly, Receives, IndexRecord, NodeInv, RestInv
<1> QED
  BY <1>1, <1>2, NewRecordLive, IndexingIsATurn DEF Adds

\* A submission that fills a block: the record and the block it completes are added in
\* one turn, and both are what the node may add.
LEMMA SubmitAndSealAdds ==
    ASSUME NodeInv, NEW submission \in Offered, SubmitAndSeal(submission)
    PROVE  LET record == NewRecord(submission)
           IN  /\ AddsBoth(RecordLine(record), BlockLine(NextBlock(MempoolWith(record))))
               /\ phase = "serving" /\ blocks' # <<>>
               /\ UNCHANGED <<processVars, clock>>
               /\ minted' = minted + 1 /\ received' \in 0..MaxReceived
<1> DEFINE record == NewRecord(submission)
           block == NextBlock(MempoolWith(record))
           between == Turn(Index, RecordLine(record))
<1>1. Live(Index, RecordLine(record))
  BY NewRecordLive
<1>2. between = WithRecord(Index, record)
  BY DEF Turn, RecordLine
<1>3. /\ between.order = RefsWith(record) /\ between.recs = RecsWith(record)
      /\ between.keys = KeysWith(record) /\ between.nextId = CounterPast(record.id)
      /\ between.blocks = blocks
  BY <1>2, IndexParts DEF WithRecord, RefsWith, RecsWith, KeysWith, CounterPast
<1>4. Sound(between)
  <2>1. Sound(Index)
    BY DEF NodeInv
  <2> HIDE DEF record
  <2>2. Follows(Index, RecordLine(record))
    BY <1>1, <2>1, LiveFollows
  <2> QED
    BY <2>2 DEF Follows
<1>5. /\ order' = RefsWith(record) /\ recs' = Confirmed(RecsWith(record), block)
      /\ keys' = KeysWith(record) /\ nextId' = CounterPast(record.id)
      /\ blocks' = Append(blocks, block)
      /\ Log!EnqueueBoth(RecordLine(record), BlockLine(block))
      /\ phase = "serving"
      /\ UNCHANGED <<processVars, clock>>
      /\ minted' = minted + 1 /\ received' = received + 1 /\ received < MaxReceived
  BY DEF SubmitAndSeal, Receives, RecordLine, BlockLine
<1>6. Index' = WithBlock(between, block)
  <2>1. Index' = [order |-> order', recs |-> recs', keys |-> keys', nextId |-> nextId',
                  blocks |-> blocks']
    BY DEF Index
  <2> HIDE DEF record, block, between
  <2> QED
    BY <1>3, <1>5, <2>1 DEF WithBlock
<1>7. WithBlock(between, block) = Turn(between, BlockLine(block))
  BY DEF Turn, BlockLine
<1>8. Live(between, BlockLine(block))
  <2> HIDE DEF between, record
  <2>1. between \in Indexes
    BY <1>4 DEF Sound
  <2>2. MempoolWith(record) \in Seq(Nat \X Nat) /\ NoneSkipped(MempoolWith(record), between)
    BY <1>3, <2>1, MempoolOfIndex DEF MempoolWith
  <2>3. blocks # <<>>
    BY <1>5 DEF NodeInv, LifeInv
  <2> QED
    BY <1>3, <2>1, <2>2, <2>3, NextBlockLive
<1>9. blocks' # <<>>
  <2>1. blocks \in Seq(Block)
    BY RecordOfIndex, IndexParts DEF NodeInv, Sound
  <2> HIDE DEF block, between, record
  <2>2. block \in Block
    BY <1>8, LineIsEither DEF Live, MayBlock, BlockLine
  <2> QED
    BY <1>5, <2>1, <2>2, AppendToSequence
<1>10. received' \in 0..MaxReceived
  BY <1>5, LocalAssumption DEF LocalAssumption, NodeInv, RestInv
<1> HIDE DEF record, block, between
<1>11. AddsBoth(RecordLine(record), BlockLine(block))
  BY <1>1, <1>5, <1>6, <1>7, <1>8 DEF AddsBoth, between
<1> QED
  BY <1>5, <1>9, <1>10, <1>11 DEF record, block

\* The sealer adds the block of what is pending, and nothing else.
LEMMA SealerAdds ==
    ASSUME NodeInv, SealerFires
    PROVE  /\ Adds(BlockLine(NextBlock(Mempool(recs, order, MaxRecordsPerBlock))))
           /\ phase = "serving" /\ blocks' # <<>>
           /\ UNCHANGED <<processVars, clock, received>> /\ minted' = minted + 1
<1> DEFINE refs == Mempool(recs, order, MaxRecordsPerBlock)
           block == NextBlock(refs)
<1>1. /\ phase = "serving" /\ IndexBlock(block) /\ Log!Enqueue(BlockLine(block))
      /\ UNCHANGED <<processVars, clock, received>> /\ minted' = minted + 1
  BY DEF SealerFires, AddBlock, BlockLine
<1>2. Index \in Indexes /\ blocks \in Seq(Block) /\ blocks # <<>>
  BY <1>1, RecordOfIndex, IndexParts DEF NodeInv, Sound, LifeInv
<1>3. refs \in Seq(Nat \X Nat) /\ NoneSkipped(refs, Index)
  BY <1>2, MempoolOfIndex, IndexParts
<1> HIDE DEF refs
<1>4. Live(Index, BlockLine(block))
  BY <1>2, <1>3, NextBlockLive, IndexParts
<1> HIDE DEF block
<1>5. blocks' # <<>>
  <2>1. block \in Block /\ blocks' = Append(blocks, block)
    BY <1>1, <1>4, LineIsEither DEF Live, MayBlock, BlockLine, IndexBlock
  <2> QED
    BY <1>2, <2>1, AppendToSequence
<1> QED
  BY <1>1, <1>4, <1>5, IndexingIsATurn DEF Adds, block, refs

\* The node opens when its log is read: with the genesis block if the log had none.
LEMMA OpensAdds ==
    ASSUME NodeInv, Opens
    PROVE  /\ phase = "replaying" /\ replayed = Len(file) /\ phase' = "serving"
           /\ blocks' # <<>> /\ minted' \in Nat
           /\ UNCHANGED <<run, replayed, clock, received>>
           /\ Adds(BlockLine(Genesis)) \/ UNCHANGED <<indexVars, logVars>>
<1>1. /\ phase = "replaying" /\ replayed = Len(file) /\ phase' = "serving"
      /\ UNCHANGED <<run, replayed, clock, received>>
  BY DEF Opens
<1>2. CASE blocks = <<>>
  <2>1. IndexBlock(Genesis) /\ Log!Enqueue(BlockLine(Genesis)) /\ minted' = minted + 1
    BY <1>2 DEF Opens, AddBlock, BlockLine
  <2>2. Live(Index, BlockLine(Genesis))
    BY <1>2, GenesisLive
  <2>3. blocks' # <<>>
    <3>1. Genesis \in Block /\ blocks' = Append(blocks, Genesis)
      BY <2>1, <2>2, LineIsEither DEF Live, MayBlock, BlockLine, IndexBlock
    <3>2. blocks \in Seq(Block)
      BY RecordOfIndex, IndexParts DEF NodeInv, Sound
    <3> QED
      BY <3>1, <3>2, AppendToSequence
  <2> QED
    BY <1>1, <2>1, <2>2, <2>3, IndexingIsATurn DEF Adds, NodeInv, RestInv
<1>3. CASE blocks # <<>>
  BY <1>1, <1>3 DEF Opens, indexVars, NodeInv, RestInv
<1> QED
  BY <1>2, <1>3

\* Once the replay is over, every line of the log agrees with the index.
LEMMA ReplayedLogKnown ==
    ASSUME NodeInv, phase = "replaying", replayed = Len(file)
    PROVE  LogOf(Known(recs), Apart, file, queue)
<1>1. LogOf(LocalEvent, Apart, file, queue) /\ queue = <<>>
  BY DEF NodeInv, LogInv
<1>2. file \in Seq(LocalEvent) /\ Len(file) \in Nat
      /\ \A k \in 1..Len(file) : file[k] \in Known(recs)
  BY <1>1 DEF LogOf, NodeInv, LifeInv
<1>3. file \in Seq(Known(recs))
  <2>1. file = [k \in 1..Len(file) |-> file[k]]
    BY <1>2
  <2>2. [k \in 1..Len(file) |-> file[k]] \in Seq(Known(recs))
    BY <1>2
  <2> QED
    BY <2>1, <2>2
<1> QED
  BY <1>1, <1>3 DEF LogOf

\* What a line does to index and log when it is added.
LEMMA AddsKeeps ==
    ASSUME NodeInv, LogOf(Known(recs), Apart, file, queue), NEW event, Adds(event)
    PROVE  /\ Sound(Index)'
           /\ LogOf(Known(recs'), Apart, file', queue')
<1>1. Follows(Index, event)
  BY LiveFollows DEF NodeInv, Adds
<1>2. /\ Sound(Index')
      /\ Known(recs) \subseteq Known(recs')
      /\ event \in Known(recs')
      /\ \A earlier \in Known(recs) : <<earlier, event>> \in Apart
  BY <1>1, IndexParts, NextIndexParts DEF Follows, Adds
<1>3. file' = file /\ queue' = IF Persist THEN Append(queue, event) ELSE queue
  BY DEF Adds, Log!Enqueue
<1>4. LogOf(Known(recs'), Apart, file, Append(queue, event))
  BY <1>2, LogAfterAppend
<1>5. LogOf(Known(recs'), Apart, file, queue)
  BY <1>2, LogOverMore
<1> QED
  BY <1>2, <1>3, <1>4, <1>5

\* What two lines do.
LEMMA AddsBothKeeps ==
    ASSUME NodeInv, LogOf(Known(recs), Apart, file, queue), NEW first, NEW second,
           AddsBoth(first, second)
    PROVE  /\ Sound(Index)'
           /\ LogOf(Known(recs'), Apart, file', queue')
<1> DEFINE between == Turn(Index, first)
<1>1. Follows(Index, first)
  BY LiveFollows DEF NodeInv, AddsBoth
<1>2. Sound(between)
  BY <1>1 DEF Follows
<1>3. Live(between, second) /\ Index' = Turn(between, second)
  BY DEF AddsBoth
<1>4. /\ Known(recs) \subseteq Known(between.recs)
      /\ first \in Known(between.recs)
      /\ \A earlier \in Known(recs) : <<earlier, first>> \in Apart
  BY <1>1, IndexParts DEF Follows
<1> HIDE DEF between
<1>5. Follows(between, second)
  BY <1>2, <1>3, LiveFollows
<1>6. /\ Sound(Index')
      /\ Known(between.recs) \subseteq Known(recs')
      /\ second \in Known(recs')
      /\ \A earlier \in Known(between.recs) : <<earlier, second>> \in Apart
  BY <1>3, <1>5, NextIndexParts DEF Follows
<1>7. file' = file /\ queue' = IF Persist THEN queue \o <<first, second>> ELSE queue
  BY DEF AddsBoth, Log!EnqueueBoth
<1>8. LogOf(Known(between.recs), Apart, file, Append(queue, first))
  BY <1>4, LogAfterAppend
<1>9. LogOf(Known(recs'), Apart, file, Append(Append(queue, first), second))
  BY <1>6, <1>8, LogAfterAppend
<1>10. Append(Append(queue, first), second) = queue \o <<first, second>>
  <2>1. queue \in Seq(LocalEvent) /\ first \in LocalEvent /\ second \in LocalEvent
    BY <1>3 DEF NodeInv, LogInv, LogOf, AddsBoth, Live
  <2> QED
    BY <2>1
<1>11. LogOf(Known(recs'), Apart, file, queue)
  BY <1>4, <1>6, LogOverMore
<1> QED
  BY <1>6, <1>7, <1>9, <1>10, <1>11

\* One turn of replay() is the turn of its line, of a record new to the index or of
\* a block that lists no rejected record.
LEMMA ReplayTurns ==
    ASSUME NodeInv, ReplayLine
    PROVE  LET event == file[replayed + 1]
           IN  /\ phase = "replaying" /\ replayed + 1 \in 1..Len(file)
               /\ event \in LocalEvent
               /\ Index' = Turn(Index, event)
               /\ replayed' = replayed + 1
               /\ UNCHANGED <<logVars, phase, run>>
<1> DEFINE event == file[replayed + 1]
<1>1. /\ phase = "replaying" /\ replayed < Len(file)
      /\ CASE event.t = "record"        -> IndexRecord(event.record)
           [] event.t = "block"         -> IndexBlock(event.block)
           [] event.t = "record-update" -> ApplyUpdate(event.record)
      /\ replayed' = replayed + 1
      /\ UNCHANGED <<logVars, phase, run>>
  BY DEF ReplayLine
<1>2. file \in Seq(LocalEvent) /\ Len(file) \in Nat /\ replayed \in Nat
  BY DEF NodeInv, LogInv, LogOf, RestInv
<1>3. replayed + 1 \in 1..Len(file) /\ event \in LocalEvent
  BY <1>1, <1>2
<1> HIDE DEF event
<1>4. ASSUME event.t = "record" PROVE Index' = Turn(Index, event)
  <2>1. IndexRecord(event.record)
    BY <1>1, <1>4
  <2> QED
    BY <1>3, <1>4, <2>1, LineIsEither, IndexingIsATurn DEF RecordLine
<1>5. ASSUME event.t = "block" PROVE Index' = Turn(Index, event)
  <2>1. IndexBlock(event.block)
    BY <1>1, <1>5
  <2> QED
    BY <1>3, <1>5, <2>1, LineIsEither, IndexingIsATurn DEF BlockLine
<1>6. Index' = Turn(Index, event)
  BY <1>3, <1>4, <1>5, LineIsEither
<1> QED
  BY <1>1, <1>3, <1>6 DEF event

\* The index stays sound, and agrees with one line more.
LEMMA ReplayFollows ==
    ASSUME NodeInv, ReplayLine
    PROVE  /\ Sound(Index)'
           /\ Known(recs) \subseteq Known(recs')
           /\ file[replayed + 1] \in Known(recs')
           /\ \A ref \in DOMAIN recs' : ref \in DOMAIN recs
                \/ (file[replayed + 1].t = "record" /\ Ref(file[replayed + 1].record) = ref)
<1> PICK event : event = file[replayed + 1]
  OBVIOUS
<1>1. /\ phase = "replaying" /\ replayed + 1 \in 1..Len(file) /\ event \in LocalEvent
      /\ Index' = Turn(Index, event)
  BY ReplayTurns
<1>2. /\ \A k \in 1..replayed : file[k] \in Known(recs)
      /\ \A ref \in DOMAIN recs : \E k \in 1..replayed :
           file[k].t = "record" /\ Ref(file[k].record) = ref
      /\ Sound(Index)
  BY <1>1 DEF NodeInv, LifeInv
<1>3. \A k \in 1..replayed : <<file[k], event>> \in Apart
  <2>1. LogOf(LocalEvent, Apart, file, queue) /\ replayed \in Nat /\ Len(file) \in Nat
    BY DEF NodeInv, LogInv, LogOf, RestInv
  <2>2. \A k \in 1..replayed : k \in 1..Len(file) /\ k < replayed + 1
    BY <1>1, <2>1
  <2> QED
    BY <1>1, <2>1, <2>2 DEF LogOf, Related
<1>4. ASSUME NEW ref \in DOMAIN recs
      PROVE  \E earlier \in LocalEvent :
               /\ earlier.t = "record" /\ Ref(earlier.record) = ref
               /\ <<earlier, event>> \in Apart
               /\ SameAdmission(recs[ref], earlier.record)
  <2>1. PICK k \in 1..replayed : file[k].t = "record" /\ Ref(file[k].record) = ref
    BY <1>2
  <2> QED
    BY <1>2, <1>3, <2>1 DEF Known
<1>5. CASE event.t = "record"
  <2>1. PICK record : record = event.record
    OBVIOUS
  <2>2. /\ record \in Record /\ event = [t |-> "record", record |-> record]
        /\ Turn(Index, event) = WithRecord(Index, record)
    BY <1>1, <1>5, <2>1, LineIsEither DEF Turn
  <2>3. ASSUME NEW ref \in DOMAIN recs
        PROVE  /\ Ref(record) # ref
               /\ record.status # "rejected" /\ recs[ref].status # "rejected"
                  => recs[ref].key # record.key
    <3>1. PICK earlier \in LocalEvent :
            /\ earlier.t = "record" /\ Ref(earlier.record) = ref
            /\ <<earlier, event>> \in Apart
            /\ SameAdmission(recs[ref], earlier.record)
      BY <1>4
    <3> QED
      BY <1>5, <2>1, <3>1 DEF Apart, SameAdmission
  <2>4. LET next == WithRecord(Index, record)
        IN  /\ next \in Indexes /\ Numbered(next) /\ KeyedOnce(next)
            /\ DOMAIN next.recs = DOMAIN Index.recs \cup {Ref(record)}
            /\ Known(Index.recs) \subseteq Known(next.recs)
            /\ event \in Known(next.recs)
    <3>1. Index \in Indexes /\ Numbered(Index) /\ KeyedOnce(Index) /\ Index.recs = recs
      BY <1>2, IndexParts DEF Sound
    <3> QED
      BY <2>2, <2>3, <3>1, WithRecordSound
  <2>5. Index' = WithRecord(Index, record)
    BY <1>1, <2>2
  <2>6. /\ Sound(Index')
        /\ DOMAIN recs' = DOMAIN recs \cup {Ref(record)}
        /\ Known(recs) \subseteq Known(recs')
        /\ event \in Known(recs')
    BY <2>4, <2>5, IndexParts, NextIndexParts DEF Sound
  <2> QED
    BY <1>5, <2>1, <2>6
<1>6. CASE event.t = "block"
  <2>1. PICK block : block = event.block
    OBVIOUS
  <2>2. /\ block \in Block /\ event = [t |-> "block", block |-> block]
        /\ Turn(Index, event) = WithBlock(Index, block)
    BY <1>1, <1>6, <2>1, LineIsEither DEF Turn
  <2>3. ASSUME NEW ref \in DOMAIN recs, ref \in Listed(block)
        PROVE  recs[ref].status # "rejected"
    <3>1. PICK earlier \in LocalEvent :
            /\ earlier.t = "record" /\ Ref(earlier.record) = ref
            /\ <<earlier, event>> \in Apart
            /\ SameAdmission(recs[ref], earlier.record)
      BY <1>4
    <3> QED
      BY <1>6, <2>1, <2>3, <3>1 DEF Apart, SameAdmission
  <2>4. LET next == WithBlock(Index, block)
        IN  /\ next \in Indexes /\ Numbered(next) /\ KeyedOnce(next)
            /\ DOMAIN next.recs = DOMAIN Index.recs
            /\ Known(Index.recs) \subseteq Known(next.recs)
            /\ event \in Known(next.recs)
    <3>1. Index \in Indexes /\ Numbered(Index) /\ KeyedOnce(Index) /\ Index.recs = recs
      BY <1>2, IndexParts DEF Sound
    <3> QED
      BY <2>2, <2>3, <3>1, WithBlockSound
  <2>5. Index' = WithBlock(Index, block)
    BY <1>1, <2>2
  <2>6. /\ Sound(Index')
        /\ DOMAIN recs' = DOMAIN recs
        /\ Known(recs) \subseteq Known(recs')
        /\ event \in Known(recs')
    BY <2>4, <2>5, IndexParts, NextIndexParts DEF Sound
  <2> QED
    BY <2>6
<1> QED
  BY <1>1, <1>5, <1>6, LineIsEither

\* A write that breaks off leaves a log, with or without the line it wrote.
LEMMA BreaksOffKeeps ==
    ASSUME NEW S, LogOf(S, Apart, file, queue), queue # <<>>,
           tail = "unterminated" => file # <<>>, Log!BreaksOff
    PROVE  /\ LogOf(S, Apart, file', Tail(queue))
           /\ tail' \in Log!Tails
           /\ tail' = "unterminated" => file' # <<>>
<1>1. CASE file' = Append(file, Head(queue)) /\ tail' = "unterminated"
  <2>1. file' # <<>>
    BY <1>1, TailOfSequence, AppendToSequence DEF LogOf
  <2> QED
    BY <1>1, <2>1, LogAfterWrite DEF Log!Tails
<1>2. CASE /\ file' = IF tail = "unterminated" THEN Front(file) ELSE file
           /\ tail' = "partial"
  <2>1. LogOf(S, Apart, file', queue)
    BY <1>2, LogWithoutLast
  <2> QED
    BY <1>2, <2>1, LogWithoutHead DEF Log!Tails
<1>3. \/ file' = Append(file, Log!NextLine) /\ tail' = "unterminated"
      \/ /\ file' = IF tail = "unterminated" THEN Front(file) ELSE file
         /\ tail' = "partial"
  BY DEF Log!BreaksOff, Log!Front, Front
<1> QED
  BY <1>1, <1>2, <1>3 DEF Log!NextLine

\* A write, whether it succeeds or fails, leaves a log.
LEMMA WriteKeeps ==
    ASSUME NEW S, LogOf(S, Apart, file, queue), tail \in Log!Tails,
           tail = "unterminated" => file # <<>>,
           Log!WriteSucceeds \/ Log!WriteFails
    PROVE  /\ LogOf(S, Apart, file', queue')
           /\ tail' \in Log!Tails
           /\ tail' = "unterminated" => file' # <<>>
<1>1. CASE Log!WriteSucceeds
  <2>1. CASE tail = "clean"
    BY <1>1, <2>1, LogAfterWrite DEF Log!WriteSucceeds, Log!NextLine, Log!Tails
  <2>2. CASE tail # "clean"
    <3>1. file' = IF tail = "unterminated" THEN Front(file) ELSE file
      <4>1. tail = "partial" \/ tail = "unterminated"
        BY <2>2 DEF Log!Tails
      <4> QED
        BY <1>1, <4>1 DEF Log!WriteSucceeds, Log!Front, Front
    <3>2. LogOf(S, Apart, file', queue)
      BY <3>1, LogWithoutLast
    <3> QED
      BY <1>1, <3>2, LogWithoutHead DEF Log!WriteSucceeds, Log!Tails
  <2> QED
    BY <2>1, <2>2
<1>2. CASE Log!WriteFails
  <2>1. CASE Log!BreaksOff
    BY <1>2, <2>1, BreaksOffKeeps DEF Log!WriteFails
  <2>2. CASE UNCHANGED <<file, tail>>
    BY <1>2, <2>2, LogWithoutHead DEF Log!WriteFails
  <2> QED
    BY <1>2, <2>1, <2>2 DEF Log!WriteFails
<1> QED
  BY <1>1, <1>2

\* The death of the process empties the queue.
LEMMA DieKeeps ==
    ASSUME NEW S, LogOf(S, Apart, file, queue), tail \in Log!Tails,
           tail = "unterminated" => file # <<>>, Log!Die
    PROVE  /\ LogOf(S, Apart, file', queue')
           /\ queue' = <<>>
           /\ tail' \in Log!Tails
           /\ tail' = "unterminated" => file' # <<>>
<1>1. CASE queue # <<>> /\ Log!BreaksOff
  BY <1>1, BreaksOffKeeps, LogWithoutQueue DEF Log!Die
<1>2. CASE UNCHANGED <<file, tail>>
  BY <1>2, LogWithoutQueue DEF Log!Die
<1> QED
  BY <1>1, <1>2 DEF Log!Die

\* The counters of the log keep their types in the same steps, and a log without a
\* fault ends in a newline.
LEMMA FaultsTyped ==
    ASSUME LogInv, Log!WriteSucceeds \/ Log!WriteFails \/ Log!Die
    PROVE  corrupt' \in BOOLEAN /\ faults' \in 0..MaxFaults /\ (faults' = 0 => tail' = "clean")
           /\ (faults' = 0 => faults = 0)
<1>1. faults \in 0..MaxFaults
  BY DEF LogInv
<1>2. \/ faults' = faults /\ tail' \in {tail, "clean"}
      \/ faults < MaxFaults /\ faults' = faults + 1
  BY DEF Log!WriteSucceeds, Log!WriteFails, Log!Die
<1>3. faults' \in 0..MaxFaults /\ (faults' = 0 => tail' = "clean") /\ (faults' = 0 => faults = 0)
  BY <1>1, <1>2, StoreAssumption DEF StoreAssumption, LogInv
<1>4. corrupt' \in BOOLEAN
  BY DEF LogInv, Log!WriteSucceeds, Log!WriteFails, Log!Die
<1> QED
  BY <1>3, <1>4

\* NodeInv once the index, the log and the life of the node are known.
LEMMA SubmitOnlyKeeps ==
    ASSUME NodeInv, NEW submission \in Offered, SubmitOnly(submission)
    PROVE  NodeInv'
<1> PICK event : event = RecordLine(NewRecord(submission))
  OBVIOUS
<1>1. /\ Adds(event) /\ phase = "serving" /\ blocks' = blocks
      /\ UNCHANGED <<processVars, clock, minted>> /\ received' \in 0..MaxReceived
  BY SubmitOnlyAdds
<1>2. Sound(Index)' /\ LogOf(Known(recs'), Apart, file', queue')
  BY <1>1, AddsKeeps DEF NodeInv, LogInv
<1>3. LogInv'
  <2>1. UNCHANGED <<file, tail, corrupt, faults, phase>>
    BY <1>1 DEF Adds, Log!Enqueue, processVars
  <2>2. LogOf(LocalEvent, Apart, file', queue')
    BY <1>2, LogOverMore DEF Known
  <2> QED
    BY <1>1, <1>2, <2>1, <2>2 DEF NodeInv, LogInv
<1>4. LifeInv' /\ RestInv'
  BY <1>1 DEF NodeInv, LifeInv, RestInv, processVars
<1> QED
  BY <1>2, <1>3, <1>4 DEF NodeInv

\* A submission that fills a block keeps the node invariant.
LEMMA SubmitAndSealKeeps ==
    ASSUME NodeInv, NEW submission \in Offered, SubmitAndSeal(submission)
    PROVE  NodeInv'
<1> PICK first : first = RecordLine(NewRecord(submission))
  OBVIOUS
<1> PICK second : second = BlockLine(NextBlock(MempoolWith(NewRecord(submission))))
  OBVIOUS
<1>1. /\ AddsBoth(first, second) /\ phase = "serving" /\ blocks' # <<>>
      /\ UNCHANGED <<processVars, clock>>
      /\ minted' = minted + 1 /\ received' \in 0..MaxReceived
  BY SubmitAndSealAdds
<1>2. Sound(Index)' /\ LogOf(Known(recs'), Apart, file', queue')
  BY <1>1, AddsBothKeeps DEF NodeInv, LogInv
<1>3. LogInv'
  <2>1. UNCHANGED <<file, tail, corrupt, faults, phase>>
    BY <1>1 DEF AddsBoth, Log!EnqueueBoth, processVars
  <2>2. LogOf(LocalEvent, Apart, file', queue')
    BY <1>2, LogOverMore DEF Known
  <2> QED
    BY <1>1, <1>2, <2>1, <2>2 DEF NodeInv, LogInv
<1>4. LifeInv' /\ RestInv'
  BY <1>1 DEF NodeInv, LifeInv, RestInv, processVars
<1> QED
  BY <1>2, <1>3, <1>4 DEF NodeInv

\* So does a block of the sealer,
LEMMA SealerKeeps ==
    ASSUME NodeInv, SealerFires
    PROVE  NodeInv'
<1> PICK event : event = BlockLine(NextBlock(Mempool(recs, order, MaxRecordsPerBlock)))
  OBVIOUS
<1>1. /\ Adds(event) /\ phase = "serving" /\ blocks' # <<>>
      /\ UNCHANGED <<processVars, clock, received>> /\ minted' = minted + 1
  BY SealerAdds
<1>2. Sound(Index)' /\ LogOf(Known(recs'), Apart, file', queue')
  BY <1>1, AddsKeeps DEF NodeInv, LogInv
<1>3. LogInv'
  <2>1. UNCHANGED <<file, tail, corrupt, faults, phase>>
    BY <1>1 DEF Adds, Log!Enqueue, processVars
  <2>2. LogOf(LocalEvent, Apart, file', queue')
    BY <1>2, LogOverMore DEF Known
  <2> QED
    BY <1>1, <1>2, <2>1, <2>2 DEF NodeInv, LogInv
<1>4. LifeInv' /\ RestInv'
  BY <1>1 DEF NodeInv, LifeInv, RestInv, processVars
<1> QED
  BY <1>2, <1>3, <1>4 DEF NodeInv

\* the start of service, with the genesis block or without,
LEMMA OpensKeeps ==
    ASSUME NodeInv, Opens
    PROVE  NodeInv'
<1>1. /\ phase = "replaying" /\ replayed = Len(file) /\ phase' = "serving"
      /\ blocks' # <<>> /\ minted' \in Nat
      /\ UNCHANGED <<run, replayed, clock, received>>
      /\ Adds(BlockLine(Genesis)) \/ UNCHANGED <<indexVars, logVars>>
  BY OpensAdds
<1>2. LogOf(Known(recs), Apart, file, queue)
  BY <1>1, ReplayedLogKnown
<1>3. /\ Sound(Index)' /\ LogOf(Known(recs'), Apart, file', queue')
      /\ UNCHANGED <<file, tail, corrupt, faults>>
  <2>1. CASE Adds(BlockLine(Genesis))
    BY <1>2, <2>1, AddsKeeps DEF Adds, Log!Enqueue
  <2>2. CASE UNCHANGED <<indexVars, logVars>>
    <3>1. UNCHANGED Index /\ UNCHANGED recs /\ UNCHANGED logVars
      BY <2>2, IndexParts DEF indexVars
    <3> QED
      BY <1>2, <3>1 DEF logVars, NodeInv
  <2> QED
    BY <1>1, <2>1, <2>2
<1>4. LogInv'
  <2>1. LogOf(LocalEvent, Apart, file', queue')
    BY <1>3, LogOverMore DEF Known
  <2> QED
    BY <1>1, <1>3, <2>1 DEF NodeInv, LogInv
<1>5. LifeInv' /\ RestInv'
  BY <1>1 DEF NodeInv, LifeInv, RestInv
<1> QED
  BY <1>3, <1>4, <1>5 DEF NodeInv

\* a line of the log read back: its records are known when it is indexed,
LEMMA ReplayLineKeeps ==
    ASSUME NodeInv, ReplayLine, Outlives
    PROVE  NodeInv'
<1>1. /\ phase = "replaying" /\ replayed + 1 \in 1..Len(file)
      /\ replayed' = replayed + 1
      /\ UNCHANGED <<logVars, phase, run>>
      /\ UNCHANGED <<clock, minted, received>>
  BY ReplayTurns DEF Outlives, outsideVars
<1>2. /\ Sound(Index)'
      /\ Known(recs) \subseteq Known(recs')
      /\ file[replayed + 1] \in Known(recs')
      /\ \A ref \in DOMAIN recs' : ref \in DOMAIN recs
           \/ (file[replayed + 1].t = "record" /\ Ref(file[replayed + 1].record) = ref)
  BY ReplayFollows
<1>3. LogInv'
  BY <1>1 DEF NodeInv, LogInv, logVars
<1>4. LifeInv'
  <2>1. /\ \A k \in 1..replayed : file[k] \in Known(recs)
        /\ \A ref \in DOMAIN recs : \E k \in 1..replayed :
             file[k].t = "record" /\ Ref(file[k].record) = ref
        /\ replayed \in Nat /\ file' = file /\ Len(file) \in Nat
    BY <1>1 DEF NodeInv, LifeInv, RestInv, logVars, LogInv, LogOf
  <2>2. /\ \A k \in 1..replayed + 1 : k \in 1..replayed \/ k = replayed + 1
        /\ \A k \in 1..replayed : k \in 1..replayed + 1
        /\ replayed + 1 \in 1..replayed + 1 /\ replayed + 1 \in 0..Len(file)
    BY <1>1, <2>1
  <2>3. \A k \in 1..replayed + 1 : file[k] \in Known(recs')
    BY <1>2, <2>1, <2>2
  <2>4. \A ref \in DOMAIN recs' : \E k \in 1..replayed + 1 :
          file[k].t = "record" /\ Ref(file[k].record) = ref
    BY <1>2, <2>1, <2>2
  <2> QED
    BY <1>1, <2>1, <2>2, <2>3, <2>4 DEF NodeInv, LifeInv
<1>5. RestInv'
  BY <1>1 DEF NodeInv, RestInv
<1> QED
  BY <1>2, <1>3, <1>4, <1>5 DEF NodeInv

\* a write that ends, well or not,
LEMMA WriteStepKeeps ==
    ASSUME NodeInv, LogWriteSucceeds \/ LogWriteFails, Outlives
    PROVE  NodeInv'
<1>1. /\ Log!WriteSucceeds \/ Log!WriteFails
      /\ phase = "serving"
      /\ UNCHANGED <<indexVars, phase, run, replayed, clock, minted, received>>
  BY DEF LogWriteSucceeds, LogWriteFails, Alive, NodeInv, LifeInv, processVars, Outlives,
         outsideVars
<1>2. UNCHANGED Index /\ UNCHANGED recs /\ UNCHANGED blocks
  BY <1>1, IndexParts DEF indexVars
<1>3. LogInv'
  <2>1. LogOf(LocalEvent, Apart, file, queue) /\ LogOf(Known(recs), Apart, file, queue)
        /\ tail \in Log!Tails /\ (tail = "unterminated" => file # <<>>)
    BY <1>1 DEF NodeInv, LogInv
  <2>2. /\ LogOf(LocalEvent, Apart, file', queue')
        /\ LogOf(Known(recs), Apart, file', queue')
        /\ tail' \in Log!Tails /\ (tail' = "unterminated" => file' # <<>>)
    BY <1>1, <2>1, WriteKeeps
  <2>3. corrupt' \in BOOLEAN /\ faults' \in 0..MaxFaults /\ (faults' = 0 => tail' = "clean")
    BY <1>1, FaultsTyped DEF NodeInv
  <2> QED
    BY <1>1, <1>2, <2>2, <2>3 DEF LogInv
<1>4. LifeInv' /\ RestInv'
  BY <1>1, <1>2 DEF NodeInv, LifeInv, RestInv
<1>5. Sound(Index)'
  BY <1>2 DEF NodeInv
<1> QED
  BY <1>3, <1>4, <1>5 DEF NodeInv

\* a kill, at any time,
LEMMA KilledKeeps ==
    ASSUME NodeInv, Killed, Outlives
    PROVE  NodeInv'
<1>1. /\ Log!Die /\ phase' = "dead" /\ run =< MaxStops
      /\ UNCHANGED <<run, replayed, clock, minted, received>>
  BY DEF Killed, Outlives, outsideVars
<1>2. Index' = NoIndex
  BY DEF Killed, IndexIsGone, Index, NoIndex
<1>3. Sound(Index)'
  BY <1>2, NoIndexSound DEF Sound
<1>4. LogInv'
  <2>1. LogOf(LocalEvent, Apart, file, queue)
        /\ tail \in Log!Tails /\ (tail = "unterminated" => file # <<>>)
    BY DEF NodeInv, LogInv
  <2>2. /\ LogOf(LocalEvent, Apart, file', queue') /\ queue' = <<>>
        /\ tail' \in Log!Tails /\ (tail' = "unterminated" => file' # <<>>)
    BY <1>1, <2>1, DieKeeps
  <2>3. corrupt' \in BOOLEAN /\ faults' \in 0..MaxFaults /\ (faults' = 0 => tail' = "clean")
    BY <1>1, FaultsTyped DEF NodeInv
  <2> QED
    BY <1>1, <2>2, <2>3 DEF LogInv
<1>5. LifeInv' /\ RestInv'
  BY <1>1, <1>2 DEF NodeInv, LifeInv, RestInv
<1> QED
  BY <1>3, <1>4, <1>5 DEF NodeInv

\* the start of the next run,
LEMMA StartKeeps ==
    ASSUME NodeInv, Start, Outlives
    PROVE  NodeInv'
<1>1. /\ phase = "dead" /\ phase' = "replaying" /\ run' = run + 1 /\ replayed' = 0
      /\ UNCHANGED <<indexVars, logVars, clock, minted, received>>
  BY DEF Start, NodeInv, LifeInv, Outlives, outsideVars
<1>2. UNCHANGED Index /\ UNCHANGED recs /\ UNCHANGED file
  BY <1>1, IndexParts DEF indexVars, logVars
<1>3. LogInv'
  BY <1>1 DEF NodeInv, LogInv, logVars
<1>4. LifeInv'
  <2>1. DOMAIN recs = {}
    BY <1>1, NoIndexSound, IndexParts DEF NodeInv, LifeInv, NoIndex
  <2>2. run' \in 1..MaxStops + 1
    BY <1>1, StoreAssumption DEF StoreAssumption, NodeInv, LifeInv
  <2>3. Len(file) \in Nat
    BY DEF NodeInv, LogInv, LogOf
  <2> QED
    BY <1>1, <1>2, <2>1, <2>2, <2>3 DEF LifeInv
<1>5. RestInv' /\ Sound(Index)'
  BY <1>1, <1>2 DEF NodeInv, RestInv
<1> QED
  BY <1>3, <1>4, <1>5 DEF NodeInv

\* and a clock that moves, in either direction.
LEMMA ClockMovesKeeps ==
    ASSUME NodeInv, ClockMoves \/ UNCHANGED vars
    PROVE  NodeInv'
<1>1. UNCHANGED <<indexVars, logVars, phase, run, replayed, minted, received>>
      /\ clock' \in 0..MaxClock
  BY DEF ClockMoves, vars, storeVars, processVars, outsideVars, NodeInv, RestInv
<1>2. UNCHANGED Index /\ UNCHANGED recs /\ UNCHANGED blocks
  BY <1>1, IndexParts DEF indexVars
<1>3. LogInv'
  BY <1>1, <1>2 DEF NodeInv, LogInv, logVars
<1>4. LifeInv'
  BY <1>1, <1>2 DEF NodeInv, LifeInv, logVars
<1> QED
  BY <1>1, <1>2, <1>3, <1>4 DEF NodeInv, RestInv

\* It holds of an empty log and an empty index.
LEMMA InitNode == Init => NodeInv
<1> SUFFICES ASSUME Init PROVE NodeInv
  OBVIOUS
<1>1. /\ Index = NoIndex /\ recs = <<>>
      /\ queue = <<>> /\ file = <<>> /\ tail = "clean" /\ corrupt = FALSE /\ faults = 0
      /\ phase = "replaying" /\ run = 1 /\ replayed = 0
      /\ clock \in 0..MaxClock /\ minted = 0 /\ received = 0
  BY DEF Init, StoreInit, EmptyIndex, Log!Init, Index, NoIndex
<1>2. /\ <<>> \in Seq(LocalEvent) /\ Len(<<>>) = 0 /\ 1..0 = {} /\ DOMAIN <<>> = {}
      /\ 1 \in 1..MaxStops + 1 /\ 0 \in 0..MaxFaults /\ 0 \in 0..MaxReceived
  BY StoreAssumption, LocalAssumption DEF StoreAssumption, LocalAssumption
<1>3. LogInv
  BY <1>1, <1>2 DEF LogInv, LogOf, Related, Log!Tails
<1>4. LifeInv /\ RestInv
  BY <1>1, <1>2 DEF LifeInv, RestInv
<1> QED
  BY <1>1, <1>3, <1>4, NoIndexSound DEF NodeInv, Sound

\* The node invariant holds in every state, after failed writes and crashes too.
THEOREM NodeInvariant == Spec => []NodeInv
<1>1. NodeInv /\ [Next]_vars => NodeInv'
  <2> SUFFICES ASSUME NodeInv, [Next]_vars PROVE NodeInv'
    OBVIOUS
  <2>1. CASE \E submission \in Offered : SubmitOnly(submission) \/ SubmitAndSeal(submission)
    BY <2>1, SubmitOnlyKeeps, SubmitAndSealKeeps
  <2>2. CASE SealerFires
    BY <2>2, SealerKeeps
  <2>3. CASE Opens
    BY <2>3, OpensKeeps
  <2>4. CASE ReplayLine /\ Outlives
    BY <2>4, ReplayLineKeeps
  <2>5. CASE (LogWriteSucceeds /\ Outlives) \/ (LogWriteFails /\ Outlives)
    BY <2>5, WriteStepKeeps
  <2>6. CASE Killed /\ Outlives
    BY <2>6, KilledKeeps
  <2>7. CASE Start /\ Outlives
    BY <2>7, StartKeeps
  <2>8. CASE ClockMoves \/ UNCHANGED vars
    BY <2>8, ClockMovesKeeps
  <2> QED
    BY <2>1, <2>2, <2>3, <2>4, <2>5, <2>6, <2>7, <2>8 DEF Next
<1> QED
  BY <1>1, InitNode, PTL DEF Spec

\* The type of every variable of a local node.
THEOREM TypeCorrect == Spec => []TypeOK
<1>1. NodeInv => TypeOK
  <2> SUFFICES ASSUME NodeInv PROVE TypeOK
    OBVIOUS
  <2>1. /\ order \in Seq(Nat \X Nat) /\ DOMAIN recs \subseteq Nat \X Nat
        /\ \A ref \in DOMAIN recs : recs[ref] \in Record
        /\ keys \subseteq Keys /\ nextId \in Nat /\ blocks \in Seq(Block)
    BY RecordOfIndex, IndexParts DEF NodeInv, Sound
  <2>2. queue \in Seq(Event) /\ file \in Seq(Event)
    <3>1. LocalEvent \subseteq Event
      BY LineIsEither
    <3> QED
      BY <3>1, LogOverMore DEF NodeInv, LogInv, LogOf
  <2>3. Log!TypeOK
    BY <2>2 DEF Log!TypeOK, NodeInv, LogInv
  <2> QED
    BY <2>1, <2>3 DEF TypeOK, NodeInv, LifeInv, RestInv, Phases
<1> QED
  BY <1>1, NodeInvariant, PTL

\* A ciphertext with its nonce is admitted once, over all restarts and whatever the
\* log has lost: #policyRejection never lets a second one into the index.
THEOREM AdmissionIsOnce == Spec => []AdmittedOnce
<1>1. NodeInv => AdmittedOnce
  BY IndexParts DEF NodeInv, Sound, KeyedOnce, AdmittedOnce, Admitted
<1> QED
  BY <1>1, NodeInvariant, PTL

-----------------------------------------------------------------------------
(* What a step is to the log *)

\* The kinds of steps: lines are added, the replay goes on or ends, a write is over,
\* the process dies or starts, or neither index nor log nor process change.
AddsOne ==
    /\ phase = "serving" \/ (phase = "replaying" /\ replayed = Len(file))
    /\ phase' = "serving" /\ UNCHANGED <<run, replayed>>
    /\ \E event \in LocalEvent : Adds(event)

AddsTwo ==
    /\ phase = "serving" /\ UNCHANGED processVars
    /\ \E first, second \in LocalEvent : AddsBoth(first, second)

OpensOnly ==
    /\ phase = "replaying" /\ replayed = Len(file)
    /\ phase' = "serving" /\ UNCHANGED <<run, replayed>>
    /\ UNCHANGED <<indexVars, logVars>>

Writes ==
    /\ phase = "serving" /\ UNCHANGED <<indexVars, processVars>>
    /\ Log!WriteSucceeds \/ Log!WriteFails

\* Every step is of one of these kinds.
LEMMA StepKinds ==
    ASSUME NodeInv, [Next]_vars
    PROVE  \/ AddsOne \/ AddsTwo \/ OpensOnly \/ ReplayLine \/ Writes \/ Killed \/ Start
           \/ UNCHANGED <<indexVars, logVars, processVars>>
<1>1. ASSUME NEW submission \in Offered, SubmitOnly(submission) PROVE AddsOne
  BY <1>1, SubmitOnlyAdds DEF AddsOne, Adds, Live, processVars
<1>2. ASSUME NEW submission \in Offered, SubmitAndSeal(submission) PROVE AddsTwo
  BY <1>2, SubmitAndSealAdds DEF AddsTwo, AddsBoth, Live
<1>3. ASSUME SealerFires PROVE AddsOne
  BY <1>3, SealerAdds DEF AddsOne, Adds, Live, processVars
<1>4. ASSUME Opens PROVE AddsOne \/ OpensOnly
  BY <1>4, OpensAdds DEF AddsOne, OpensOnly, Adds, Live
<1>5. ASSUME LogWriteSucceeds \/ LogWriteFails PROVE Writes
  BY <1>5 DEF LogWriteSucceeds, LogWriteFails, Writes, Alive, NodeInv, LifeInv
<1>6. ASSUME ClockMoves \/ UNCHANGED vars
      PROVE  UNCHANGED <<indexVars, logVars, processVars>>
  BY <1>6 DEF ClockMoves, vars, storeVars
<1> QED
  BY <1>1, <1>2, <1>3, <1>4, <1>5, <1>6 DEF Next

\* The lines of the log, with those that wait.
LEMMA LogTyped ==
    ASSUME NodeInv
    PROVE  /\ file \in Seq(LocalEvent) /\ queue \in Seq(LocalEvent)
           /\ file \o queue \in Seq(LocalEvent)
           /\ Len(file) \in Nat /\ Len(file \o queue) = Len(file) + Len(queue)
<1>1. file \in Seq(LocalEvent) /\ queue \in Seq(LocalEvent)
  BY DEF NodeInv, LogInv, LogOf
<1> QED
  BY <1>1, ConcatOfSequences

\* The whole log when a line is added.
LEMMA LogWithOne ==
    ASSUME NodeInv, NEW event \in LocalEvent, Log!Enqueue(event)
    PROVE  /\ Persist => file' \o queue' = Append(file \o queue, event)
           /\ ~Persist => file' \o queue' = file \o queue
           /\ file' = file /\ faults' = faults
<1>1. file \o Append(queue, event) = Append(file \o queue, event)
  BY LogTyped, AppendToConcat
<1> QED
  BY <1>1 DEF Log!Enqueue

\* The whole log when a record and its block are added together.
LEMMA LogWithTwo ==
    ASSUME NodeInv, NEW first \in LocalEvent, NEW second \in LocalEvent,
           Log!EnqueueBoth(first, second)
    PROVE  /\ Persist => file' \o queue' = Append(Append(file \o queue, first), second)
           /\ ~Persist => file' \o queue' = file \o queue
           /\ file' = file /\ faults' = faults
<1>1. /\ file \in Seq(LocalEvent) /\ queue \in Seq(LocalEvent)
      /\ Append(queue, first) \in Seq(LocalEvent)
  BY LogTyped
<1>2. queue \o <<first, second>> = Append(Append(queue, first), second)
  BY <1>1
<1>3. file \o Append(Append(queue, first), second) = Append(file \o Append(queue, first), second)
  BY <1>1, AppendToConcat
<1>4. file \o Append(queue, first) = Append(file \o queue, first)
  BY <1>1, AppendToConcat
<1> QED
  BY <1>2, <1>3, <1>4 DEF Log!EnqueueBoth

\* As long as no write fails, a write only moves a line from the queue to the file.
LEMMA LogAfterCleanWrite ==
    ASSUME NodeInv, Writes, faults' = 0
    PROVE  /\ file' \o queue' = file \o queue
           /\ Len(file') = Len(file) + 1 /\ Len(file) < Len(file \o queue)
           /\ faults = 0
<1>1. faults \in Nat
  BY StoreAssumption DEF StoreAssumption, NodeInv, LogInv
<1>2. Log!WriteSucceeds
  BY <1>1 DEF Writes, Log!WriteFails
<1>3. faults = 0 /\ tail = "clean" /\ queue # <<>>
  BY <1>2 DEF Log!WriteSucceeds, NodeInv, LogInv
<1>4. file' = Append(file, Head(queue)) /\ queue' = Tail(queue)
  BY <1>2, <1>3 DEF Log!WriteSucceeds, Log!NextLine
<1>5. /\ file \in Seq(LocalEvent) /\ queue \in Seq(LocalEvent) /\ Head(queue) \in LocalEvent
      /\ Len(file \o queue) = Len(file) + Len(queue) /\ Len(queue) \in Nat \ {0}
  BY <1>3, LogTyped, TailOfSequence
<1>6. Len(file') = Len(file) + 1
  BY <1>4, <1>5, AppendToSequence
<1>7. Append(file, Head(queue)) \o Tail(queue) = file \o queue
  BY <1>3, <1>5, HeadMovesOver
<1>8. Len(file) \in Nat
  BY LogTyped
<1> QED
  BY <1>3, <1>4, <1>5, <1>6, <1>7, <1>8

\* As long as no write breaks off, a kill loses the lines that wait, and no other.
LEMMA LogAfterCleanDeath ==
    ASSUME NodeInv, Log!Die, faults' = 0
    PROVE  /\ file' = file /\ queue' = <<>> /\ faults = 0
           /\ file' \o queue' = file
           /\ file = SubSeq(file \o queue, 1, Len(file))
<1>1. faults \in Nat
  BY StoreAssumption DEF StoreAssumption, NodeInv, LogInv
<1>2. file' = file /\ queue' = <<>> /\ faults = 0
  BY <1>1 DEF Log!Die
<1>3. file \in Seq(LocalEvent) /\ queue \in Seq(LocalEvent) /\ Len(file) \in 0..Len(file)
  BY LogTyped
<1>4. SubSeq(file \o queue, 1, Len(file)) = SubSeq(file, 1, Len(file))
  BY <1>3, BeginningOfConcat
<1> QED
  BY <1>2, <1>3, <1>4, BeginningsAtTheEnds

-----------------------------------------------------------------------------
(* Refinement *)

(***************************************************************************)
(* The log of a local node is a durable history as long as no write fails: *)
(* submit() and the sealer accept, the promise queue makes durable, a kill *)
(* keeps what is durable, and nothing else touches it.                     *)
(***************************************************************************)
THEOREM ImplementsDurableHistory == Spec => KeepsDurableHistory
<1>1. Init => History!Init
  BY DEF Init, StoreInit, Log!Init, History!Init
<1>2. NodeInv /\ [Next]_vars => [faults' = 0 => History!Next]_<<file \o queue, Len(file)>>
  <2> SUFFICES ASSUME NodeInv, [Next]_vars, faults' = 0
               PROVE  History!Next \/ UNCHANGED <<file \o queue, Len(file)>>
    OBVIOUS
  <2>1. ASSUME NEW event \in LocalEvent, Adds(event), Persist
        PROVE  History!Accept
    <3>1. file' \o queue' = Append(file \o queue, event) /\ file' = file
      BY <2>1, LogWithOne DEF Adds
    <3>2. event \in Event /\ file \o queue \in Seq(Event)
      <4>1. LocalEvent \subseteq Event
        BY LineIsEither
      <4> QED
        BY <4>1, LogTyped
    <3>3. /\ file' \o queue' \in Seq(Event)
          /\ Len(file' \o queue') = Len(file \o queue) + 1 /\ Len(file \o queue) \in Nat
          /\ \A i \in 1..Len(file \o queue) : (file' \o queue')[i] = (file \o queue)[i]
      BY <3>1, <3>2, AppendToSequence
    <3> QED
      BY <3>1, <3>3 DEF History!Accept
  <2>2. ASSUME NEW first \in LocalEvent, NEW second \in LocalEvent, AddsBoth(first, second),
               Persist
        PROVE  History!Accept
    <3>1. file' \o queue' = Append(Append(file \o queue, first), second) /\ file' = file
      BY <2>2, LogWithTwo DEF AddsBoth
    <3>2. first \in Event /\ second \in Event /\ file \o queue \in Seq(Event)
      <4>1. LocalEvent \subseteq Event
        BY LineIsEither
      <4> QED
        BY <4>1, LogTyped
    <3>3. PICK more : more = Append(file \o queue, first)
      OBVIOUS
    <3>4. /\ more \in Seq(Event)
          /\ Len(more) = Len(file \o queue) + 1 /\ Len(file \o queue) \in Nat
          /\ \A i \in 1..Len(file \o queue) : more[i] = (file \o queue)[i]
      BY <3>2, <3>3, AppendToSequence
    <3>5. /\ file' \o queue' \in Seq(Event)
          /\ Len(file' \o queue') = Len(more) + 1
          /\ \A i \in 1..Len(more) : (file' \o queue')[i] = more[i]
      <4>1. /\ Append(more, second) \in Seq(Event)
            /\ Len(Append(more, second)) = Len(more) + 1
            /\ \A i \in 1..Len(more) : Append(more, second)[i] = more[i]
        <5>1. more \in Seq(Event) /\ second \in Event
          BY <3>2, <3>4
        <5> QED
          BY <5>1, AppendToSequence
      <4>2. file' \o queue' = Append(more, second)
        BY <3>1, <3>3
      <4> QED
        BY <4>1, <4>2
    <3>6. \A i \in 1..Len(file \o queue) : i \in 1..Len(more)
      BY <3>4
    <3>7. Len(file' \o queue') > Len(file \o queue)
      BY <3>4, <3>5
    <3>8. \A i \in 1..Len(file \o queue) : (file' \o queue')[i] = (file \o queue)[i]
      BY <3>4, <3>5, <3>6
    <3> QED
      BY <3>1, <3>5, <3>7, <3>8 DEF History!Accept
  <2>3. CASE AddsOne
    <3>1. CASE Persist
      BY <2>1, <2>3, <3>1 DEF AddsOne, History!Next
    <3>2. CASE ~Persist
      BY <2>3, <3>2, LogWithOne DEF AddsOne, Adds
    <3> QED
      BY <3>1, <3>2
  <2>4. CASE AddsTwo
    <3>1. CASE Persist
      BY <2>2, <2>4, <3>1 DEF AddsTwo, History!Next
    <3>2. CASE ~Persist
      BY <2>4, <3>2, LogWithTwo DEF AddsTwo, AddsBoth
    <3> QED
      BY <3>1, <3>2
  <2>5. CASE Writes
    BY <2>5, LogAfterCleanWrite DEF History!Next, History!Endure
  <2>6. CASE Killed
    BY <2>6, LogAfterCleanDeath DEF Killed, History!Next, History!Crash
  <2>7. CASE ReplayLine \/ Start \/ OpensOnly \/ UNCHANGED <<indexVars, logVars, processVars>>
    BY <2>7 DEF ReplayLine, Start, OpensOnly, logVars
  <2> QED
    BY <2>3, <2>4, <2>5, <2>6, <2>7, StepKinds
<1> QED
  BY <1>1, <1>2, NodeInvariant, PTL DEF Spec, KeepsDurableHistory

-----------------------------------------------------------------------------
(* The chain of an index *)

\* Consecutive heights from genesis, each block naming the one before, time going on.
Linked(index) ==
    \A i \in 1..Len(index.blocks) :
      /\ index.blocks[i].height = i - 1
      /\ i = 1 => index.blocks[i].previousHash = NoParent
      /\ i # 1 =>
           /\ index.blocks[i].previousHash = index.blocks[i - 1].hash
           /\ index.blocks[i].timestamp > index.blocks[i - 1].timestamp

\* Blocks list records of the index that are not rejected, each in one place.
ListsOnce(index) ==
    /\ \A k \in 1..Len(index.blocks) : \A ref \in Listed(index.blocks[k]) :
         ref \in DOMAIN index.recs /\ index.recs[ref].status # "rejected"
    /\ \A ref \in DOMAIN index.recs : \A a, b \in Places(index.blocks, ref) : a = b

\* No record is listed before an older admitted one.
ListsInOrder(index) ==
    \A i, j \in 1..Len(index.order) :
      i < j /\ index.recs[index.order[i]].status # "rejected" =>
        \A late \in Places(index.blocks, index.order[j]) :
          \E early \in Places(index.blocks, index.order[i]) : Before(early, late)

\* The confirmed records are the listed ones, and show their block.
ShowsItsBlock(index) ==
    \A ref \in DOMAIN index.recs :
      /\ (index.recs[ref].status = "confirmed") <=>
           (\E k \in 1..Len(index.blocks) : ref \in Listed(index.blocks[k]))
      /\ \A k \in 1..Len(index.blocks) :
           ref \in Listed(index.blocks[k]) =>
             /\ index.recs[ref].blockHeight = index.blocks[k].height
             /\ index.recs[ref].blockHash = index.blocks[k].hash

Chained(index) ==
    Linked(index) /\ ListsOnce(index) /\ ListsInOrder(index) /\ ShowsItsBlock(index)

\* The places of a reference.
LEMMA PlacesAre ==
    ASSUME NEW chain \in Seq(Block), NEW ref
    PROVE  /\ \A place : place \in Places(chain, ref) <=>
                \E k \in 1..Len(chain) : \E i \in 1..Len(chain[k].refs) :
                  place = <<k, i>> /\ chain[k].refs[i] = ref
           /\ \A k \in 1..Len(chain) :
                ref \in Listed(chain[k]) <=> \E place \in Places(chain, ref) : place[1] = k
<1>1. ASSUME NEW place
      PROVE  place \in Places(chain, ref) <=>
               \E k \in 1..Len(chain) : \E i \in 1..Len(chain[k].refs) :
                 place = <<k, i>> /\ chain[k].refs[i] = ref
  <2>1. ASSUME place \in Places(chain, ref)
        PROVE  \E k \in 1..Len(chain) : \E i \in 1..Len(chain[k].refs) :
                 place = <<k, i>> /\ chain[k].refs[i] = ref
    <3>1. PICK k \in 1..Len(chain) : place \in {k} \X (1..Len(chain[k].refs))
      BY <2>1 DEF Places
    <3>2. chain[place[1]].refs[place[2]] = ref
      BY <2>1 DEF Places
    <3>3. place = <<k, place[2]>> /\ place[1] = k /\ place[2] \in 1..Len(chain[k].refs)
      BY <3>1
    <3> QED
      BY <3>2, <3>3
  <2>2. ASSUME NEW k \in 1..Len(chain), NEW i \in 1..Len(chain[k].refs),
               place = <<k, i>>, chain[k].refs[i] = ref
        PROVE  place \in Places(chain, ref)
    <3>1. <<k, i>> \in {k} \X (1..Len(chain[k].refs))
      OBVIOUS
    <3>2. <<k, i>> \in UNION {{m} \X (1..Len(chain[m].refs)) : m \in 1..Len(chain)}
      BY <3>1
    <3> QED
      BY <2>2, <3>2 DEF Places
  <2> QED
    BY <2>1, <2>2
<1>2. ASSUME NEW k \in 1..Len(chain)
      PROVE  ref \in Listed(chain[k]) <=> \E place \in Places(chain, ref) : place[1] = k
  <2>1. chain[k] \in Block
    BY ElementOfSequence
  <2>2. ref \in Listed(chain[k]) <=> \E i \in 1..Len(chain[k].refs) : chain[k].refs[i] = ref
    BY <2>1, ListedIs
  <2>3. ASSUME NEW i \in 1..Len(chain[k].refs), chain[k].refs[i] = ref
        PROVE  \E place \in Places(chain, ref) : place[1] = k
    <3>1. <<k, i>> \in Places(chain, ref)
      BY <1>1, <2>3
    <3> QED
      BY <3>1
  <2>4. ASSUME NEW place \in Places(chain, ref), place[1] = k
        PROVE  \E i \in 1..Len(chain[k].refs) : chain[k].refs[i] = ref
    BY <1>1, <2>4
  <2> QED
    BY <2>2, <2>3, <2>4
<1> QED
  BY <1>1, <1>2

\* The places of a reference once a block is added.
LEMMA PlacesOfAppend ==
    ASSUME NEW chain \in Seq(Block), NEW block \in Block, NEW ref
    PROVE  \A place : place \in Places(Append(chain, block), ref) <=>
             \/ place \in Places(chain, ref)
             \/ \E i \in 1..Len(block.refs) :
                  place = <<Len(chain) + 1, i>> /\ block.refs[i] = ref
<1> DEFINE longer == Append(chain, block)
           n == Len(chain)
<1>1. /\ longer \in Seq(Block) /\ n \in Nat /\ Len(longer) = n + 1
      /\ \A k \in 1..n : longer[k] = chain[k]
      /\ longer[n + 1] = block
  BY AppendToSequence
<1>2. /\ \A k \in 1..n + 1 : k \in 1..n \/ k = n + 1
      /\ \A k \in 1..n : k \in 1..n + 1
      /\ n + 1 \in 1..n + 1
  BY <1>1
<1> HIDE DEF longer, n
<1>3. \A place : place \in Places(longer, ref) <=>
        \E k \in 1..n + 1 : \E i \in 1..Len(longer[k].refs) :
          place = <<k, i>> /\ longer[k].refs[i] = ref
  <2>1. longer \in Seq(Block) /\ Len(longer) = n + 1
    BY <1>1
  <2>2. \A place : place \in Places(longer, ref) <=>
          \E k \in 1..Len(longer) : \E i \in 1..Len(longer[k].refs) :
            place = <<k, i>> /\ longer[k].refs[i] = ref
    BY <2>1, PlacesAre
  <2> QED
    BY <2>1, <2>2
<1>4. \A place : place \in Places(chain, ref) <=>
        \E k \in 1..n : \E i \in 1..Len(chain[k].refs) :
          place = <<k, i>> /\ chain[k].refs[i] = ref
  BY PlacesAre DEF n
<1>5. \A place : place \in Places(longer, ref) <=>
        \/ place \in Places(chain, ref)
        \/ \E i \in 1..Len(block.refs) : place = <<n + 1, i>> /\ block.refs[i] = ref
  <2> SUFFICES ASSUME NEW place
               PROVE  place \in Places(longer, ref) <=>
                        \/ place \in Places(chain, ref)
                        \/ \E i \in 1..Len(block.refs) :
                             place = <<n + 1, i>> /\ block.refs[i] = ref
    OBVIOUS
  <2>1. ASSUME NEW k \in 1..n + 1, NEW i \in 1..Len(longer[k].refs),
               place = <<k, i>>, longer[k].refs[i] = ref
        PROVE  \/ place \in Places(chain, ref)
               \/ \E m \in 1..Len(block.refs) :
                    place = <<n + 1, m>> /\ block.refs[m] = ref
    <3>1. CASE k \in 1..n
      <4>1. longer[k] = chain[k]
        BY <1>1, <3>1
      <4> QED
        BY <1>4, <2>1, <3>1, <4>1
    <3>2. CASE k = n + 1
      <4>1. longer[k] = block
        BY <1>1, <3>2
      <4> QED
        BY <2>1, <3>2, <4>1
    <3> QED
      BY <1>2, <3>1, <3>2
  <2>2. ASSUME place \in Places(chain, ref)
        PROVE  place \in Places(longer, ref)
    <3>1. PICK k \in 1..n : \E i \in 1..Len(chain[k].refs) :
            place = <<k, i>> /\ chain[k].refs[i] = ref
      BY <1>4, <2>2
    <3>2. longer[k] = chain[k] /\ k \in 1..n + 1
      BY <1>1, <1>2
    <3> QED
      BY <1>3, <3>1, <3>2
  <2>3. ASSUME NEW i \in 1..Len(block.refs), place = <<n + 1, i>>, block.refs[i] = ref
        PROVE  place \in Places(longer, ref)
    BY <1>1, <1>2, <1>3, <2>3
  <2> QED
    BY <1>3, <2>1, <2>2, <2>3
<1> QED
  BY <1>5 DEF longer, n

\* A record joins the index, and the chain stays what it is.
LEMMA ChainedWithRecord ==
    ASSUME NEW index, Sound(index), Chained(index), NEW record, MayRecord(index, record)
    PROVE  Chained(WithRecord(index, record))
<1> DEFINE next == WithRecord(index, record)
           ref == Ref(record)
           n == Len(index.order)
<1>1. /\ index \in Indexes /\ Numbered(index) /\ record \in Record /\ record.id = index.nextId
      /\ record.status \in {"pending", "rejected"}
  BY DEF Sound, MayRecord
<1>2. ref \in Nat \X Nat /\ ref[2] = index.nextId
  BY <1>1 DEF Ref, Record
<1>3. ref \notin DOMAIN index.recs
  <2>1. \A x \in DOMAIN index.recs : x[2] \in Nat /\ x[2] < index.nextId
    BY <1>1, RecordOfIndex DEF Numbered
  <2> QED
    BY <1>2, <2>1
<1>4. /\ next.blocks = index.blocks
      /\ next.order = Append(index.order, ref)
      /\ next.recs = With(index.recs, ref, record)
  BY DEF WithRecord
<1> HIDE DEF next, ref
<1>5. /\ DOMAIN next.recs = DOMAIN index.recs \cup {ref}
      /\ next.recs[ref] = record
      /\ \A x \in DOMAIN index.recs : next.recs[x] = index.recs[x]
  <2>1. \A x \in DOMAIN index.recs : x # ref
    BY <1>3
  <2>2. /\ DOMAIN With(index.recs, ref, record) = DOMAIN index.recs \cup {ref}
        /\ With(index.recs, ref, record)[ref] = record
        /\ \A x \in DOMAIN index.recs : x # ref =>
             With(index.recs, ref, record)[x] = index.recs[x]
    BY <1>1, <1>2, WithTyped
  <2> QED
    BY <1>4, <2>1, <2>2
<1>6. /\ Len(next.order) = n + 1 /\ n \in Nat
      /\ \A i \in 1..n : next.order[i] = index.order[i]
      /\ next.order[n + 1] = ref
      /\ \A i \in 1..n + 1 : i \in 1..n \/ i = n + 1
  <2>1. index.order \in Seq(Nat \X Nat)
    BY <1>1, RecordOfIndex
  <2> QED
    BY <1>2, <1>4, <2>1, AppendToSequence
<1>7. \A i \in 1..n : index.order[i] \in DOMAIN index.recs
  BY <1>1 DEF Numbered
<1>8. index.blocks \in Seq(Block)
  BY <1>1, RecordOfIndex
<1>9. \A k \in 1..Len(index.blocks) : ref \notin Listed(index.blocks[k])
  BY <1>3 DEF Chained, ListsOnce
<1>10. Places(index.blocks, ref) = {}
  <2> SUFFICES ASSUME NEW place \in Places(index.blocks, ref) PROVE FALSE
    OBVIOUS
  <2>1. place[1] \in 1..Len(index.blocks)
    BY <1>8, PlacesAre
  <2>2. ref \in Listed(index.blocks[place[1]])
    BY <1>8, <2>1, PlacesAre
  <2> QED
    BY <1>9, <2>1, <2>2
<1>11. Linked(next)
  BY <1>4 DEF Chained, Linked
<1>12. ListsOnce(next)
  BY <1>4, <1>5, <1>10 DEF Chained, ListsOnce
<1>13. ListsInOrder(next)
  <2> SUFFICES ASSUME NEW i \in 1..n + 1, NEW j \in 1..n + 1, i < j,
                      next.recs[next.order[i]].status # "rejected",
                      NEW late \in Places(index.blocks, next.order[j])
               PROVE  \E early \in Places(index.blocks, next.order[i]) : Before(early, late)
    BY <1>4, <1>6 DEF ListsInOrder
  <2>1. j \in 1..n
    BY <1>6, <1>10
  <2>2. i \in 1..n
    BY <1>6, <2>1
  <2> QED
    BY <1>5, <1>6, <1>7, <2>1, <2>2 DEF Chained, ListsInOrder, n
<1>14. ShowsItsBlock(next)
  <2> SUFFICES ASSUME NEW x \in DOMAIN next.recs
               PROVE  /\ (next.recs[x].status = "confirmed") <=>
                           (\E k \in 1..Len(index.blocks) : x \in Listed(index.blocks[k]))
                      /\ \A k \in 1..Len(index.blocks) :
                           x \in Listed(index.blocks[k]) =>
                             /\ next.recs[x].blockHeight = index.blocks[k].height
                             /\ next.recs[x].blockHash = index.blocks[k].hash
    BY <1>4 DEF ShowsItsBlock
  <2>1. CASE x = ref
    BY <1>1, <1>5, <1>9, <2>1
  <2>2. CASE x \in DOMAIN index.recs
    BY <1>5, <2>2 DEF Chained, ShowsItsBlock
  <2> QED
    BY <1>5, <2>1, <2>2
<1> QED
  BY <1>11, <1>12, <1>13, <1>14 DEF Chained, next

\* A block joins the index, and so does the chain: the oldest pending records become
\* confirmed in it.
LEMMA ChainedWithBlock ==
    ASSUME NEW index, Sound(index), Chained(index), NEW block, MayBlock(index, block)
    PROVE  Chained(WithBlock(index, block))
<1> DEFINE next == WithBlock(index, block)
           m == Len(index.blocks)
           n == Len(index.order)
           refs == block.refs
<1>1. index \in Indexes /\ Numbered(index) /\ block \in Block
  BY DEF Sound, MayBlock
<1>2. PICK at \in [1..Len(refs) -> 1..n] :
      /\ \A j \in 1..Len(refs) :
           refs[j] = index.order[at[j]] /\ index.recs[refs[j]].status = "pending"
      /\ \A j, k \in 1..Len(refs) : j < k => at[j] < at[k]
      /\ \A k \in 1..Len(refs) : \A p \in 1..n :
           p < at[k] /\ index.recs[index.order[p]].status = "pending" =>
             \E j \in 1..Len(refs) : at[j] = p
  BY DEF MayBlock, NoneSkipped
<1>3. /\ next.blocks = Append(index.blocks, block) /\ next.order = index.order
      /\ next.recs = Confirmed(index.recs, block)
  BY DEF WithBlock
<1>4. \A ref : ref \in Listed(block) <=> \E j \in 1..Len(refs) : refs[j] = ref
  BY <1>1, ListedIs
<1>5. refs \in Seq(Nat \X Nat) /\ Len(refs) \in Nat
  BY <1>1, ListedIs
<1> HIDE DEF next, m, n, refs
<1>6. /\ next.blocks \in Seq(Block) /\ m \in Nat /\ Len(next.blocks) = m + 1
      /\ \A k \in 1..m : next.blocks[k] = index.blocks[k]
      /\ next.blocks[m + 1] = block
      /\ \A k \in 1..m + 1 : k \in 1..m \/ k = m + 1
      /\ m + 1 \in 1..m + 1 /\ \A k \in 1..m : k \in 1..m + 1
  <2>1. index.blocks \in Seq(Block)
    BY <1>1, RecordOfIndex
  <2> QED
    BY <1>1, <1>3, <2>1, AppendToSequence DEF m
<1>7. /\ DOMAIN next.recs = DOMAIN index.recs
      /\ \A ref \in DOMAIN index.recs :
           /\ ref \notin Listed(block) => next.recs[ref] = index.recs[ref]
           /\ ref \in Listed(block) =>
                /\ next.recs[ref].status = "confirmed"
                /\ next.recs[ref].blockHeight = block.height
                /\ next.recs[ref].blockHash = block.hash
  BY <1>1, <1>3, ConfirmedTyped
<1>8. ASSUME NEW ref \in Listed(block)
      PROVE  /\ ref \in DOMAIN index.recs /\ index.recs[ref].status = "pending"
             /\ next.recs[ref].status = "confirmed"
  <2>1. PICK j \in 1..Len(refs) : refs[j] = ref
    BY <1>4
  <2>2. ref = index.order[at[j]] /\ at[j] \in 1..n /\ index.recs[ref].status = "pending"
    BY <1>2, <2>1
  <2>3. ref \in DOMAIN index.recs
    BY <1>1, <2>2 DEF Numbered, n
  <2> QED
    BY <1>7, <2>2, <2>3
<1>9. ASSUME NEW ref \in DOMAIN index.recs, index.recs[ref].status = "pending"
      PROVE  /\ \A k \in 1..m : ref \notin Listed(index.blocks[k])
             /\ Places(index.blocks, ref) = {}
  <2>1. \A k \in 1..m : ref \notin Listed(index.blocks[k])
    BY <1>9 DEF Chained, ShowsItsBlock, m
  <2>2. ASSUME NEW place \in Places(index.blocks, ref) PROVE FALSE
    <3>1. index.blocks \in Seq(Block)
      BY <1>1, RecordOfIndex
    <3>2. place[1] \in 1..m
      BY <3>1, PlacesAre DEF m
    <3>3. ref \in Listed(index.blocks[place[1]])
      BY <3>1, <3>2, PlacesAre DEF m
    <3> QED
      BY <2>1, <3>2, <3>3
  <2> QED
    BY <2>1, <2>2
<1>10. \A ref : \A place : place \in Places(next.blocks, ref) <=>
         \/ place \in Places(index.blocks, ref)
         \/ \E i \in 1..Len(refs) : place = <<m + 1, i>> /\ refs[i] = ref
  <2>1. index.blocks \in Seq(Block)
    BY <1>1, RecordOfIndex
  <2> QED
    BY <1>1, <1>3, <2>1, PlacesOfAppend DEF m, refs
<1>11. \A ref \in DOMAIN index.recs : ref \notin Listed(block) =>
         Places(next.blocks, ref) = Places(index.blocks, ref)
  BY <1>4, <1>10
<1>12. ASSUME NEW j \in 1..Len(refs), NEW k \in 1..Len(refs), refs[j] = refs[k]
       PROVE  j = k
  <2>1. at[j] \in 1..n /\ at[k] \in 1..n /\ index.order[at[j]] = index.order[at[k]]
    BY <1>2, <1>12
  <2>2. at[j] = at[k]
    BY <1>1, <2>1 DEF Numbered, n
  <2>3. at[j] \in Int /\ at[k] \in Int /\ (j < k => at[j] < at[k]) /\ (k < j => at[k] < at[j])
    BY <1>2, <2>1
  <2> QED
    BY <1>5, <2>2, <2>3
<1>13. Linked(next)
  <2> SUFFICES ASSUME NEW i \in 1..m + 1
               PROVE  /\ next.blocks[i].height = i - 1
                      /\ i = 1 => next.blocks[i].previousHash = NoParent
                      /\ i # 1 =>
                           /\ next.blocks[i].previousHash = next.blocks[i - 1].hash
                           /\ next.blocks[i].timestamp > next.blocks[i - 1].timestamp
    BY <1>6 DEF Linked
  <2>1. CASE i \in 1..m
    <3>1. i # 1 => i - 1 \in 1..m
      BY <1>6, <2>1
    <3> QED
      BY <1>6, <2>1, <3>1 DEF Chained, Linked, m
  <2>2. CASE i = m + 1 /\ m = 0
    <3>1. index.blocks = <<>>
      <4>1. index.blocks \in Seq(Block)
        BY <1>1, RecordOfIndex
      <4> QED
        BY <2>2, <4>1 DEF m
    <3> QED
      BY <1>6, <2>2, <3>1 DEF MayBlock
  <2>3. CASE i = m + 1 /\ m # 0
    <3>1. index.blocks # <<>> /\ m \in 1..m /\ i - 1 = m /\ i # 1 /\ i - 1 \in 1..m
      BY <1>6, <2>3 DEF m
    <3>2. /\ block.height = index.blocks[m].height + 1
          /\ block.previousHash = index.blocks[m].hash
          /\ block.timestamp > index.blocks[m].timestamp
      BY <3>1 DEF MayBlock, m
    <3>3. index.blocks[m].height = m - 1
      BY <3>1 DEF Chained, Linked, m
    <3>4. next.blocks[i] = block /\ next.blocks[i - 1] = index.blocks[m]
      BY <1>6, <2>3, <3>1
    <3>5. next.blocks[i].height = i - 1
      BY <1>6, <3>1, <3>2, <3>3, <3>4
    <3> QED
      BY <3>1, <3>2, <3>4, <3>5
  <2> QED
    BY <1>6, <2>1, <2>2, <2>3
<1>14. ListsOnce(next)
  <2>1. ASSUME NEW k \in 1..m + 1, NEW ref \in Listed(next.blocks[k])
        PROVE  ref \in DOMAIN next.recs /\ next.recs[ref].status # "rejected"
    <3>1. CASE ref \in Listed(block)
      BY <1>7, <1>8, <3>1
    <3>2. CASE ref \notin Listed(block)
      <4>1. k \in 1..m /\ ref \in Listed(index.blocks[k])
        BY <1>6, <2>1, <3>2
      <4> QED
        BY <1>7, <3>2, <4>1 DEF Chained, ListsOnce, m
    <3> QED
      BY <3>1, <3>2
  <2>2. ASSUME NEW ref \in DOMAIN next.recs,
               NEW a \in Places(next.blocks, ref), NEW b \in Places(next.blocks, ref)
        PROVE  a = b
    <3>1. CASE ref \in Listed(block)
      <4>1. Places(index.blocks, ref) = {}
        BY <1>8, <1>9, <3>1
      <4> QED
        BY <1>10, <1>12, <4>1
    <3>2. CASE ref \notin Listed(block)
      BY <1>7, <1>11, <3>2 DEF Chained, ListsOnce
    <3> QED
      BY <3>1, <3>2
  <2> QED
    BY <1>6, <2>1, <2>2 DEF ListsOnce
<1>15. ListsInOrder(next)
  <2> SUFFICES ASSUME NEW i \in 1..n, NEW j \in 1..n, i < j,
                      next.recs[index.order[i]].status # "rejected",
                      NEW late \in Places(next.blocks, index.order[j])
               PROVE  \E early \in Places(next.blocks, index.order[i]) : Before(early, late)
    BY <1>3 DEF ListsInOrder, n
  <2>1. index.order[i] \in DOMAIN index.recs /\ index.order[j] \in DOMAIN index.recs
    BY <1>1 DEF Numbered, n
  <2>2. index.recs[index.order[i]].status # "rejected"
    BY <1>7, <1>8, <2>1
  <2>3. CASE late \in Places(index.blocks, index.order[j])
    <3>1. PICK early \in Places(index.blocks, index.order[i]) : Before(early, late)
      BY <2>2, <2>3 DEF Chained, ListsInOrder, n
    <3> QED
      BY <1>10, <3>1
  <2>4. CASE late \notin Places(index.blocks, index.order[j])
    <3>1. PICK q \in 1..Len(refs) : late = <<m + 1, q>> /\ refs[q] = index.order[j]
      BY <1>10, <2>4
    <3>2. at[q] = j
      <4>1. at[q] \in 1..n /\ index.order[at[q]] = index.order[j]
        BY <1>2, <3>1
      <4> QED
        BY <1>1, <4>1 DEF Numbered, n
    <3>3. CASE index.recs[index.order[i]].status = "pending"
      <4>1. PICK p \in 1..Len(refs) : at[p] = i
        BY <1>2, <3>2, <3>3
      <4>2. p < q
        <5>1. at[p] < at[q] /\ at[p] \in Int /\ at[q] \in Int
          BY <1>2, <3>2, <4>1
        <5>2. p # q /\ ~(q < p)
          BY <1>2, <5>1
        <5> QED
          BY <1>5, <5>2
      <4>3. <<m + 1, p>> \in Places(next.blocks, index.order[i])
        BY <1>2, <1>10, <4>1
      <4>4. Before(<<m + 1, p>>, late)
        BY <3>1, <4>2 DEF Before
      <4> QED
        BY <4>3, <4>4
    <3>4. CASE index.recs[index.order[i]].status = "confirmed"
      <4>1. PICK k \in 1..m : index.order[i] \in Listed(index.blocks[k])
        BY <2>1, <3>4 DEF Chained, ShowsItsBlock, m
      <4>2. index.blocks \in Seq(Block)
        BY <1>1, RecordOfIndex
      <4>3. PICK early \in Places(index.blocks, index.order[i]) : early[1] = k
        BY <4>1, <4>2, PlacesAre DEF m
      <4>4. Before(early, late)
        <5>1. k < m + 1 /\ late[1] = m + 1
          BY <1>6, <3>1
        <5> QED
          BY <4>3, <5>1 DEF Before
      <4> QED
        BY <1>10, <4>3, <4>4
    <3>5. index.recs[index.order[i]].status \in RecordStatus
      BY <1>1, <2>1, RecordOfIndex DEF Record
    <3> QED
      BY <2>2, <3>3, <3>4, <3>5 DEF RecordStatus
  <2> QED
    BY <2>3, <2>4
<1>16. ShowsItsBlock(next)
  <2> SUFFICES ASSUME NEW ref \in DOMAIN index.recs
               PROVE  /\ (next.recs[ref].status = "confirmed") <=>
                           (\E k \in 1..m + 1 : ref \in Listed(next.blocks[k]))
                      /\ \A k \in 1..m + 1 :
                           ref \in Listed(next.blocks[k]) =>
                             /\ next.recs[ref].blockHeight = next.blocks[k].height
                             /\ next.recs[ref].blockHash = next.blocks[k].hash
    BY <1>6, <1>7 DEF ShowsItsBlock
  <2>1. CASE ref \in Listed(block)
    <3>1. \A k \in 1..m : ref \notin Listed(next.blocks[k])
      BY <1>6, <1>8, <1>9, <2>1
    <3> QED
      BY <1>6, <1>7, <2>1, <3>1
  <2>2. CASE ref \notin Listed(block)
    <3>1. next.recs[ref] = index.recs[ref]
      BY <1>7, <2>2
    <3>2. \A k \in 1..m + 1 : ref \in Listed(next.blocks[k]) =>
            k \in 1..m /\ ref \in Listed(index.blocks[k])
      BY <1>6, <2>2
    <3>3. \A k \in 1..m : ref \in Listed(index.blocks[k]) =>
            k \in 1..m + 1 /\ ref \in Listed(next.blocks[k])
      BY <1>6
    <3>4. /\ (index.recs[ref].status = "confirmed") <=>
               (\E k \in 1..m : ref \in Listed(index.blocks[k]))
          /\ \A k \in 1..m :
               ref \in Listed(index.blocks[k]) =>
                 /\ index.recs[ref].blockHeight = index.blocks[k].height
                 /\ index.recs[ref].blockHash = index.blocks[k].hash
      BY DEF Chained, ShowsItsBlock, m
    <3> QED
      BY <1>6, <3>1, <3>2, <3>3, <3>4
  <2> QED
    BY <2>1, <2>2
<1> QED
  BY <1>13, <1>14, <1>15, <1>16 DEF Chained, next

\* Whatever a serving node may add continues the chain.
LEMMA LiveChained ==
    ASSUME NEW index, Sound(index), Chained(index), NEW event, Live(index, event)
    PROVE  Chained(Turn(index, event))
<1>1. event \in LocalEvent
  BY DEF Live
<1>2. CASE event.t = "record"
  BY <1>2, ChainedWithRecord DEF Live, Turn
<1>3. CASE event.t = "block"
  BY <1>3, ChainedWithBlock DEF Live, Turn
<1> QED
  BY <1>1, <1>2, <1>3, LineIsEither

\* An index of nothing has a chain of nothing.
LEMMA NoIndexChained == Chained(NoIndex)
<1>1. /\ NoIndex.blocks = <<>> /\ NoIndex.order = <<>> /\ DOMAIN NoIndex.recs = {}
      /\ Len(<<>>) = 0 /\ 1..0 = {}
  BY DEF NoIndex
<1> QED
  BY <1>1 DEF Chained, Linked, ListsOnce, ListsInOrder, ShowsItsBlock

-----------------------------------------------------------------------------
(* The log rebuilds the index *)

\* h is what the lines of the log rebuild, one after the other.
Rebuilds(h, log) ==
    /\ h \in [0..Len(log) -> Indexes]
    /\ h[0] = NoIndex
    /\ \A k \in 1..Len(log) : h[k] = Turn(h[k - 1], log[k])

\* The log rebuilds the index - all of it while the node serves, and during a replay
\* the lines read so far what is back - and every beginning of it something in G:
\* a crash may leave any of them.
LogIn(G) ==
    \E h :
      /\ Rebuilds(h, file \o queue)
      /\ \A k \in 0..Len(file \o queue) : h[k] \in G
      /\ Persist /\ phase = "serving" => h[Len(file \o queue)] = Index
      /\ phase = "replaying" => h[replayed] = Index

\* One line more.
LEMMA RebuildsMore ==
    ASSUME NEW log \in Seq(LocalEvent), NEW event \in LocalEvent, NEW h, Rebuilds(h, log),
           NEW next \in Indexes, next = Turn(h[Len(log)], event)
    PROVE  \E g : /\ Rebuilds(g, Append(log, event))
                  /\ g[Len(log) + 1] = next
                  /\ \A k \in 0..Len(log) : g[k] = h[k]
<1> DEFINE n == Len(log)
           longer == Append(log, event)
           g == [k \in 0..n + 1 |-> IF k = n + 1 THEN next ELSE h[k]]
<1>1. /\ longer \in Seq(LocalEvent) /\ n \in Nat /\ Len(longer) = n + 1
      /\ \A k \in 1..n : longer[k] = log[k]
      /\ longer[n + 1] = event
  BY AppendToSequence
<1>2. /\ h \in [0..n -> Indexes] /\ h[0] = NoIndex
      /\ \A k \in 1..n : h[k] = Turn(h[k - 1], log[k])
  BY DEF Rebuilds
<1>3. next = Turn(h[n], event)
  OBVIOUS
<1> HIDE DEF n, longer
<1>4. /\ g \in [0..n + 1 -> Indexes] /\ g[n + 1] = next
      /\ \A k \in 0..n : g[k] = h[k] /\ 0 \in 0..n /\ n \in 0..n
  BY <1>1, <1>2
<1> HIDE DEF g
<1>5. ASSUME NEW k \in 1..n + 1
      PROVE  g[k] = Turn(g[k - 1], longer[k])
  <2>1. CASE k = n + 1
    <3>1. k - 1 = n /\ n \in 0..n
      BY <1>1, <2>1
    <3>2. g[k - 1] = h[n] /\ longer[k] = event /\ g[k] = next
      BY <1>1, <1>4, <2>1, <3>1
    <3> QED
      BY <1>3, <3>2
  <2>2. CASE k # n + 1
    <3>1. k \in 1..n /\ k \in 0..n /\ k - 1 \in 0..n
      BY <1>1, <2>2
    <3> QED
      BY <1>1, <1>2, <1>4, <3>1
  <2> QED
    BY <2>1, <2>2
<1>6. g[0] = NoIndex
  BY <1>1, <1>2, <1>4
<1>7. Rebuilds(g, longer)
  BY <1>1, <1>4, <1>5, <1>6 DEF Rebuilds
<1> QED
  BY <1>4, <1>7 DEF n, longer

\* The last lines gone.
LEMMA RebuildsLess ==
    ASSUME NEW f \in Seq(LocalEvent), NEW q \in Seq(LocalEvent), NEW h, Rebuilds(h, f \o q)
    PROVE  /\ Rebuilds([k \in 0..Len(f) |-> h[k]], f)
           /\ \A k \in 0..Len(f) : k \in 0..Len(f \o q)
<1> PICK log : log = f \o q
  OBVIOUS
<1>1. /\ Len(f) \in Nat /\ Len(q) \in Nat /\ Len(log) = Len(f) + Len(q)
      /\ \A i \in 1..Len(f) : log[i] = f[i]
  BY ConcatOfSequences
<1>2. /\ h \in [0..Len(log) -> Indexes] /\ h[0] = NoIndex
      /\ \A k \in 1..Len(log) : h[k] = Turn(h[k - 1], log[k])
  BY DEF Rebuilds
<1>3. /\ \A k \in 0..Len(f) : k \in 0..Len(log)
      /\ \A k \in 1..Len(f) : k \in 1..Len(log) /\ k \in 0..Len(f) /\ k - 1 \in 0..Len(f)
      /\ 0 \in 0..Len(f)
  BY <1>1
<1> PICK g : g = [k \in 0..Len(f) |-> h[k]]
  OBVIOUS
<1>4. g \in [0..Len(f) -> Indexes] /\ \A k \in 0..Len(f) : g[k] = h[k]
  BY <1>2, <1>3
<1>5. \A k \in 1..Len(f) : g[k] = Turn(g[k - 1], f[k])
  BY <1>1, <1>2, <1>3, <1>4
<1>6. Rebuilds(g, f)
  BY <1>2, <1>3, <1>4, <1>5 DEF Rebuilds
<1> QED
  BY <1>3, <1>6

\* As long as no write fails, the log stays one that rebuilds the index, and stays
\* in G if what the node adds does.
LEMMA LogInKeeps ==
    ASSUME NodeInv, [Next]_vars, faults' = 0, NEW G, LogIn(G),
           \A event \in LocalEvent : AddsOne /\ Adds(event) => Index' \in G,
           \A first, second \in LocalEvent : AddsTwo /\ AddsBoth(first, second) =>
             Turn(Index, first) \in G /\ Index' \in G
    PROVE  LogIn(G)'
<1> PICK log : log = file \o queue
  OBVIOUS
<1> PICK h : /\ Rebuilds(h, log)
             /\ \A k \in 0..Len(log) : h[k] \in G
             /\ Persist /\ phase = "serving" => h[Len(log)] = Index
             /\ phase = "replaying" => h[replayed] = Index
  BY DEF LogIn
<1>1. /\ log \in Seq(LocalEvent) /\ Len(log) \in Nat
      /\ file \in Seq(LocalEvent) /\ queue \in Seq(LocalEvent) /\ Len(file) \in Nat
  BY LogTyped, ConcatOfSequences
<1>2. ASSUME phase = "serving" \/ (phase = "replaying" /\ replayed = Len(file)), Persist
      PROVE  h[Len(log)] = Index
  <2>1. CASE phase = "serving"
    BY <1>2, <2>1
  <2>2. CASE phase = "replaying" /\ replayed = Len(file)
    <3>1. queue = <<>>
      BY <2>2 DEF NodeInv, LogInv
    <3>2. log = file
      BY <1>1, <3>1, BeginningsAtTheEnds
    <3> QED
      BY <2>2, <3>2
  <2> QED
    BY <1>2, <2>1, <2>2
<1>3. ASSUME NEW line \in LocalEvent, NEW g, NEW lines \in Seq(LocalEvent),
             Rebuilds(g, lines), \A k \in 0..Len(lines) : g[k] \in G,
             Turn(g[Len(lines)], line) \in Indexes, Turn(g[Len(lines)], line) \in G
      PROVE  \E more : /\ Rebuilds(more, Append(lines, line))
                       /\ \A k \in 0..Len(Append(lines, line)) : more[k] \in G
                       /\ more[Len(Append(lines, line))] = Turn(g[Len(lines)], line)
  <2> PICK n : n = Len(lines)
    OBVIOUS
  <2> PICK next \in Indexes : next = Turn(g[n], line)
    BY <1>3
  <2>1. PICK more : /\ Rebuilds(more, Append(lines, line))
                    /\ more[n + 1] = next
                    /\ \A k \in 0..n : more[k] = g[k]
    BY <1>3, RebuildsMore
  <2>2. Len(Append(lines, line)) = n + 1 /\ n \in Nat
    BY AppendToSequence
  <2>3. \A k \in 0..n + 1 : k \in 0..n \/ k = n + 1
    BY <2>2
  <2>4. \A k \in 0..n + 1 : more[k] \in G
    BY <1>3, <2>1, <2>3
  <2> QED
    BY <2>1, <2>2, <2>4
<1>4. CASE AddsOne
  <2>1. PICK event \in LocalEvent : Adds(event)
    BY <1>4 DEF AddsOne
  <2>2. /\ Index' = Turn(Index, event) /\ Index' \in G
        /\ phase' = "serving"
        /\ phase = "serving" \/ (phase = "replaying" /\ replayed = Len(file))
    BY <1>4, <2>1 DEF AddsOne, Adds
  <2>3. Index' \in Indexes
    <3>1. Follows(Index, event)
      BY <2>1, LiveFollows DEF NodeInv, Adds
    <3> QED
      BY <2>2, <3>1 DEF Follows, Sound
  <2>4. CASE Persist
    <3>1. file' \o queue' = Append(log, event)
      BY <2>1, <2>4, LogWithOne DEF Adds
    <3>2. h[Len(log)] = Index
      BY <1>2, <2>2, <2>4
    <3>3. \E more : /\ Rebuilds(more, Append(log, event))
                    /\ \A k \in 0..Len(Append(log, event)) : more[k] \in G
                    /\ more[Len(Append(log, event))] = Index'
      BY <1>1, <1>3, <2>2, <2>3, <3>2
    <3> QED
      BY <2>2, <3>1, <3>3 DEF LogIn
  <2>5. CASE ~Persist
    <3>1. file' \o queue' = log
      BY <2>1, <2>5, LogWithOne DEF Adds
    <3> QED
      BY <2>2, <2>5, <3>1 DEF LogIn
  <2> QED
    BY <2>4, <2>5
<1>5. CASE AddsTwo
  <2>1. PICK first \in LocalEvent, second \in LocalEvent : AddsBoth(first, second)
    BY <1>5 DEF AddsTwo
  <2>2. PICK between : between = Turn(Index, first)
    OBVIOUS
  <2>3. /\ Index' = Turn(between, second) /\ Index' \in G /\ between \in G
        /\ phase = "serving" /\ phase' = "serving"
        /\ Live(Index, first) /\ Live(between, second)
    BY <1>5, <2>1, <2>2 DEF AddsTwo, AddsBoth, processVars
  <2>4. between \in Indexes /\ Index' \in Indexes
    <3>1. Follows(Index, first)
      BY <2>3, LiveFollows DEF NodeInv
    <3>2. Sound(between)
      BY <2>2, <3>1 DEF Follows
    <3>3. Follows(between, second)
      BY <2>3, <3>2, LiveFollows
    <3> QED
      BY <2>3, <3>2, <3>3 DEF Follows, Sound
  <2>5. CASE Persist
    <3>1. file' \o queue' = Append(Append(log, first), second)
      BY <2>1, <2>5, LogWithTwo DEF AddsBoth
    <3>2. h[Len(log)] = Index
      BY <1>2, <2>3, <2>5
    <3>3. PICK lines : lines = Append(log, first)
      OBVIOUS
    <3>4. lines \in Seq(LocalEvent)
      BY <1>1, <3>3
    <3>5. PICK g : /\ Rebuilds(g, lines)
                   /\ \A k \in 0..Len(lines) : g[k] \in G
                   /\ g[Len(lines)] = between
      BY <1>1, <1>3, <2>2, <2>3, <2>4, <3>2, <3>3
    <3>6. \E more : /\ Rebuilds(more, Append(lines, second))
                    /\ \A k \in 0..Len(Append(lines, second)) : more[k] \in G
                    /\ more[Len(Append(lines, second))] = Index'
      BY <1>3, <2>3, <2>4, <3>4, <3>5
    <3> QED
      BY <2>3, <3>1, <3>3, <3>6 DEF LogIn
  <2>6. CASE ~Persist
    <3>1. file' \o queue' = log
      BY <2>1, <2>6, LogWithTwo DEF AddsBoth
    <3> QED
      BY <2>3, <2>6, <3>1 DEF LogIn
  <2> QED
    BY <2>5, <2>6
<1>6. CASE OpensOnly
  <2>1. /\ phase' = "serving" /\ phase = "replaying" /\ replayed = Len(file)
        /\ file' \o queue' = log /\ Index' = Index
    BY <1>6, IndexParts DEF OpensOnly, logVars
  <2> QED
    BY <1>2, <2>1 DEF LogIn
<1>7. CASE ReplayLine
  <2>1. /\ phase = "replaying" /\ replayed + 1 \in 1..Len(file) /\ replayed' = replayed + 1
        /\ Index' = Turn(Index, file[replayed + 1])
        /\ UNCHANGED <<logVars, phase, run>>
    BY <1>7, ReplayTurns
  <2>2. file' \o queue' = log /\ phase' = "replaying"
    BY <2>1 DEF logVars
  <2>3. replayed \in Nat /\ replayed + 1 \in 1..Len(log) /\ log[replayed + 1] = file[replayed + 1]
    <3>1. Len(log) = Len(file) + Len(queue) /\ Len(queue) \in Nat
          /\ \A i \in 1..Len(file) : log[i] = file[i]
      BY <1>1, ConcatOfSequences
    <3> QED
      BY <1>1, <2>1, <3>1 DEF NodeInv, RestInv
  <2>4. (replayed + 1) - 1 = replayed
    BY <2>3
  <2>5. h[replayed + 1] = Turn(h[replayed], log[replayed + 1])
    BY <2>3, <2>4 DEF Rebuilds
  <2>6. h[replayed'] = Index'
    BY <2>1, <2>3, <2>5
  <2> QED
    BY <2>2, <2>6 DEF LogIn
<1>8. CASE Writes
  <2>1. file' \o queue' = log
    BY <1>8, LogAfterCleanWrite
  <2>2. phase' = phase /\ replayed' = replayed /\ Index' = Index
    BY <1>8, IndexParts DEF Writes, processVars
  <2> QED
    BY <2>1, <2>2 DEF LogIn
<1>9. CASE Killed
  <2>1. file' \o queue' = file /\ phase' = "dead"
    BY <1>9, LogAfterCleanDeath DEF Killed
  <2>2. PICK g : g = [k \in 0..Len(file) |-> h[k]]
    OBVIOUS
  <2>3. Rebuilds(g, file) /\ \A k \in 0..Len(file) : k \in 0..Len(log)
    BY <1>1, <2>2, RebuildsLess
  <2>4. \A k \in 0..Len(file) : g[k] \in G
    BY <2>2, <2>3
  <2> QED
    BY <2>1, <2>3, <2>4 DEF LogIn
<1>10. CASE Start
  <2>1. /\ phase' = "replaying" /\ replayed' = 0 /\ file' \o queue' = log /\ Index' = Index
        /\ phase = "dead"
    BY <1>10, IndexParts DEF Start, logVars, NodeInv, LifeInv
  <2>2. Index' = h[0]
    BY <2>1 DEF NodeInv, LifeInv, Rebuilds
  <2> QED
    BY <2>1, <2>2 DEF LogIn
<1>11. CASE UNCHANGED <<indexVars, logVars, processVars>>
  <2>1. /\ phase' = phase /\ replayed' = replayed /\ file' \o queue' = log /\ Index' = Index
    BY <1>11, IndexParts DEF logVars, processVars
  <2> QED
    BY <2>1 DEF LogIn
<1> QED
  BY <1>4, <1>5, <1>6, <1>7, <1>8, <1>9, <1>10, <1>11, StepKinds

-----------------------------------------------------------------------------
(* The chain invariant: as long as no write has failed *)

ChainedIndexes == {index \in Indexes : Chained(index)}

\* What the node serves is a chain, and so is whatever the beginnings of its log
\* rebuild: a crash, then a replay, may come at any moment.
ChainInv ==
    faults = 0 =>
      /\ LogIn(ChainedIndexes)
      /\ phase = "serving" => Chained(Index)

\* No step takes a fault back.
LEMMA FaultsStay ==
    ASSUME NodeInv, [Next]_vars, faults' = 0
    PROVE  faults = 0
<1>1. CASE AddsOne
  BY <1>1, LogWithOne DEF AddsOne, Adds
<1>2. CASE AddsTwo
  BY <1>2, LogWithTwo DEF AddsTwo, AddsBoth
<1>3. CASE Writes
  BY <1>3, LogAfterCleanWrite
<1>4. CASE Killed
  BY <1>4, LogAfterCleanDeath DEF Killed
<1>5. CASE OpensOnly \/ ReplayLine \/ Start \/ UNCHANGED <<indexVars, logVars, processVars>>
  BY <1>5 DEF OpensOnly, ReplayLine, Start, logVars
<1> QED
  BY <1>1, <1>2, <1>3, <1>4, <1>5, StepKinds

\* What a replay has brought back so far.
LEMMA ReplayedIn ==
    ASSUME NodeInv, NEW G, LogIn(G), phase = "replaying"
    PROVE  Index \in G
<1>1. replayed \in 0..Len(file) /\ Len(file) \in Nat /\ Len(queue) \in Nat
      /\ Len(file \o queue) = Len(file) + Len(queue)
  <2>1. file \in Seq(LocalEvent) /\ queue \in Seq(LocalEvent)
    BY LogTyped
  <2> QED
    BY <2>1, ConcatOfSequences DEF NodeInv, LifeInv
<1>2. replayed \in 0..Len(file \o queue)
  BY <1>1
<1> QED
  BY <1>2 DEF LogIn

\* The index of a node that is about to serve, or serves, is what its lines continue.
LEMMA ChainGoesOn ==
    ASSUME NodeInv, Chained(Index)
    PROVE  /\ \A event \in LocalEvent : Adds(event) => Index' \in ChainedIndexes
           /\ \A first, second \in LocalEvent : AddsBoth(first, second) =>
                Turn(Index, first) \in ChainedIndexes /\ Index' \in ChainedIndexes
<1>1. ASSUME NEW index, Sound(index), Chained(index), NEW event, Live(index, event)
      PROVE  /\ Turn(index, event) \in ChainedIndexes
             /\ Sound(Turn(index, event)) /\ Chained(Turn(index, event))
  BY <1>1, LiveChained, LiveFollows DEF Follows, Sound, ChainedIndexes
<1>2. Sound(Index)
  BY DEF NodeInv
<1> QED
  BY <1>1, <1>2 DEF Adds, AddsBoth

\* The chain invariant holds in every state.
THEOREM ChainInvariant == Spec => []ChainInv
<1>1. Init => ChainInv
  <2> SUFFICES ASSUME Init PROVE LogIn(ChainedIndexes) /\ phase # "serving"
    BY DEF ChainInv
  <2>1. file \o queue = <<>> /\ Len(<<>>) = 0 /\ phase = "replaying" /\ replayed = 0
        /\ Index = NoIndex
    BY DEF Init, StoreInit, EmptyIndex, Log!Init, Index, NoIndex
  <2>2. NoIndex \in ChainedIndexes /\ NoIndex \in Indexes
    BY NoIndexSound, NoIndexChained DEF ChainedIndexes
  <2> PICK h : h = [k \in 0..0 |-> NoIndex]
    OBVIOUS
  <2>3. h \in [0..0 -> Indexes] /\ h[0] = NoIndex /\ 1..0 = {} /\ \A k \in 0..0 : k = 0
    BY <2>2
  <2>4. Rebuilds(h, <<>>)
    BY <2>1, <2>3 DEF Rebuilds
  <2> QED
    BY <2>1, <2>2, <2>3, <2>4 DEF LogIn
<1>2. NodeInv /\ ChainInv /\ [Next]_vars => ChainInv'
  <2> SUFFICES ASSUME NodeInv, ChainInv, [Next]_vars, faults' = 0
               PROVE  LogIn(ChainedIndexes)' /\ (phase' = "serving" => Chained(Index'))
    BY DEF ChainInv
  <2>1. LogIn(ChainedIndexes) /\ (phase = "serving" => Chained(Index))
    BY FaultsStay DEF ChainInv
  <2>2. phase = "replaying" => Chained(Index)
    BY <2>1, ReplayedIn DEF ChainedIndexes
  <2>3. ASSUME AddsOne \/ AddsTwo PROVE Chained(Index)
    BY <2>1, <2>2, <2>3 DEF AddsOne, AddsTwo
  <2>4. LogIn(ChainedIndexes)'
    <3>1. \A event \in LocalEvent : AddsOne /\ Adds(event) => Index' \in ChainedIndexes
      BY <2>3, ChainGoesOn
    <3>2. \A first, second \in LocalEvent : AddsTwo /\ AddsBoth(first, second) =>
            Turn(Index, first) \in ChainedIndexes /\ Index' \in ChainedIndexes
      BY <2>3, ChainGoesOn
    <3> QED
      BY <2>1, <3>1, <3>2, LogInKeeps
  <2>5. ASSUME phase' = "serving" PROVE Chained(Index')
    <3>1. CASE AddsOne
      <4>1. PICK event \in LocalEvent : Adds(event)
        BY <3>1 DEF AddsOne
      <4> QED
        BY <2>3, <3>1, <4>1, ChainGoesOn DEF ChainedIndexes
    <3>2. CASE AddsTwo
      <4>1. PICK first \in LocalEvent, second \in LocalEvent : AddsBoth(first, second)
        BY <3>2 DEF AddsTwo
      <4> QED
        BY <2>3, <3>2, <4>1, ChainGoesOn DEF ChainedIndexes
    <3>3. CASE OpensOnly \/ Writes \/ UNCHANGED <<indexVars, logVars, processVars>>
      <4>1. Index' = Index /\ phase \in {"replaying", "serving"}
        BY <2>5, <3>3, IndexParts DEF OpensOnly, Writes, processVars
      <4> QED
        BY <2>1, <2>2, <4>1
    <3>4. ~(ReplayLine \/ Killed \/ Start)
      BY <2>5 DEF ReplayLine, Killed, Start
    <3> QED
      BY <3>1, <3>2, <3>3, <3>4, StepKinds
  <2> QED
    BY <2>4, <2>5
<1> QED
  BY <1>1, <1>2, NodeInvariant, PTL DEF Spec

\* So the index is a chain in every state.
LEMMA IndexIsChained ==
    ASSUME NodeInv, ChainInv, faults = 0
    PROVE  Chained(Index)
<1>1. CASE phase = "serving"
  BY <1>1 DEF ChainInv
<1>2. CASE phase = "replaying"
  BY <1>2, ReplayedIn DEF ChainInv, ChainedIndexes
<1>3. CASE phase = "dead"
  BY <1>3, NoIndexChained DEF NodeInv, LifeInv
<1> QED
  BY <1>1, <1>2, <1>3 DEF NodeInv, LifeInv

\* sealBlock and ensureGenesis make one chain, whatever the clock does and wherever
\* the process was killed.
THEOREM ChainIsLinked == Spec => []BlocksAreLinked
<1>1. NodeInv /\ ChainInv => BlocksAreLinked
  <2> SUFFICES ASSUME NodeInv, ChainInv, faults = 0, NEW i \in 1..Len(blocks)
               PROVE  /\ blocks[i].height = i - 1
                      /\ IF i = 1 THEN blocks[i].previousHash = NoParent
                         ELSE /\ blocks[i].previousHash = blocks[i - 1].hash
                              /\ blocks[i].timestamp > blocks[i - 1].timestamp
    BY DEF BlocksAreLinked
  <2>1. Linked(Index)
    BY IndexIsChained DEF Chained
  <2> QED
    BY <2>1, IndexParts DEF Linked
<1> QED
  BY <1>1, NodeInvariant, ChainInvariant, PTL

\* mempool() and sealBlock take records oldest first, each once, over all restarts.
THEOREM SealingIsInOrder == Spec => []SealedInOrder
<1>1. NodeInv /\ ChainInv => SealedInOrder
  <2> SUFFICES ASSUME NodeInv, ChainInv, faults = 0
               PROVE  /\ \A k \in 1..Len(blocks) : \A ref \in Listed(blocks[k]) :
                           /\ Indexed(ref) /\ Admitted(ref)
                           /\ \A a, b \in Places(blocks, ref) : a = b
                      /\ \A i, j \in 1..Len(order) : i < j /\ Admitted(order[i]) =>
                           \A late \in Places(blocks, order[j]) :
                             \E early \in Places(blocks, order[i]) : Before(early, late)
    BY DEF SealedInOrder
  <2>1. ListsOnce(Index) /\ ListsInOrder(Index)
    BY IndexIsChained DEF Chained
  <2>2. \A k \in 1..Len(blocks) : \A ref \in Listed(blocks[k]) :
          /\ Indexed(ref) /\ Admitted(ref)
          /\ \A a, b \in Places(blocks, ref) : a = b
    BY <2>1, IndexParts DEF ListsOnce, Indexed, Admitted
  <2>3. \A i, j \in 1..Len(order) : i < j /\ Admitted(order[i]) =>
          \A late \in Places(blocks, order[j]) :
            \E early \in Places(blocks, order[i]) : Before(early, late)
    BY <2>1, IndexParts DEF ListsInOrder, Admitted
  <2> QED
    BY <2>2, <2>3
<1> QED
  BY <1>1, NodeInvariant, ChainInvariant, PTL

\* #indexBlock confirms what a block lists and nothing else, live and in the replay.
THEOREM ConfirmationIsSealing == Spec => []ConfirmedIffSealed
<1>1. NodeInv /\ ChainInv => ConfirmedIffSealed
  <2> SUFFICES ASSUME NodeInv, ChainInv, faults = 0
               PROVE  \A ref \in DOMAIN recs :
                        /\ (recs[ref].status = "confirmed") <=>
                             (\E i \in 1..Len(blocks) : ref \in Listed(blocks[i]))
                        /\ \A i \in 1..Len(blocks) :
                             ref \in Listed(blocks[i]) =>
                               /\ recs[ref].blockHeight = blocks[i].height
                               /\ recs[ref].blockHash = blocks[i].hash
    BY DEF ConfirmedIffSealed
  <2>1. ShowsItsBlock(Index)
    BY IndexIsChained DEF Chained
  <2> QED
    BY <2>1, IndexParts DEF ShowsItsBlock
<1> QED
  BY <1>1, NodeInvariant, ChainInvariant, PTL

-----------------------------------------------------------------------------
(* The size of the mempool *)

\* The pending records of an index, all of them.
Waiting(index) == {ref \in DOMAIN index.recs : index.recs[ref].status = "pending"}

AtMost(n) ==
    {index \in Indexes : IsFiniteSet(Waiting(index)) /\ Cardinality(Waiting(index)) =< n}

\* What a serving node may have waiting: below one block, and one record more for
\* every earlier run, which may have died between a record and the block it filled.
\* So far is every beginning of the log from it, too, that a crash can leave.
Room == MaxRecordsPerBlock + (run - 1) - 1

WaitInv ==
    MaxRecordsPerBlock >= 1 /\ faults = 0 =>
      \A n \in Int : n = Room =>
        /\ phase = "serving" => Index \in AtMost(n)
        /\ phase = "replaying" => LogIn(AtMost(n))
        /\ phase # "replaying" => LogIn(AtMost(n + 1))

\* A smaller set of waiting records.
LEMMA FewerWait ==
    ASSUME NEW n \in Int, NEW index \in AtMost(n), NEW next \in Indexes,
           Waiting(next) \subseteq Waiting(index)
    PROVE  next \in AtMost(n)
<1> DEFINE S == Waiting(index)
           T == Waiting(next)
<1>1. IsFiniteSet(S) /\ Cardinality(S) =< n
  BY DEF AtMost
<1>2. T \in SUBSET S
  OBVIOUS
<1> HIDE DEF S, T
<1>3. /\ IsFiniteSet(T) /\ Cardinality(T) =< Cardinality(S)
      /\ Cardinality(S) \in Nat /\ Cardinality(T) \in Nat
  BY <1>1, <1>2, FS_Subset, FS_CardinalityType
<1>4. Cardinality(T) =< n
  BY <1>1, <1>3
<1> QED
  BY <1>3, <1>4 DEF AtMost, T

\* A larger bound.
LEMMA AtMostMore ==
    ASSUME NEW n \in Int, NEW m \in Int, n =< m
    PROVE  AtMost(n) \subseteq AtMost(m)
<1> SUFFICES ASSUME NEW index \in AtMost(n) PROVE index \in AtMost(m)
  OBVIOUS
<1>1. index \in Indexes /\ IsFiniteSet(Waiting(index)) /\ Cardinality(Waiting(index)) =< n
  BY DEF AtMost
<1>2. Cardinality(Waiting(index)) \in Nat
  BY <1>1, FS_CardinalityType
<1>3. Cardinality(Waiting(index)) =< m
  BY <1>1, <1>2
<1> QED
  BY <1>1, <1>3 DEF AtMost

\* A log in one set of indexes is in a larger one.
LEMMA LogInMore ==
    ASSUME NEW G, NEW H, G \subseteq H, LogIn(G)
    PROVE  LogIn(H)
  BY DEF LogIn

\* A block takes records out of the mempool, if it lists any.
LEMMA BlockTakesOut ==
    ASSUME NEW index \in Indexes, NEW block \in Block
    PROVE  /\ Waiting(WithBlock(index, block)) = Waiting(index) \ Listed(block)
           /\ WithBlock(index, block) \in Indexes
<1> DEFINE next == WithBlock(index, block)
<1>1. /\ DOMAIN next.recs = DOMAIN index.recs
      /\ \A ref \in DOMAIN index.recs :
           /\ ref \notin Listed(block) => next.recs[ref] = index.recs[ref]
           /\ ref \in Listed(block) => next.recs[ref].status = "confirmed"
  BY ConfirmedTyped DEF WithBlock
<1> HIDE DEF next
<1>2. Waiting(next) = Waiting(index) \ Listed(block)
  BY <1>1 DEF Waiting
<1> QED
  BY <1>2, WithBlockTyped DEF next

\* A record is one more in it, unless it is rejected.
LEMMA RecordPutsIn ==
    ASSUME NEW index \in Indexes, NEW record \in Record, Ref(record) \notin DOMAIN index.recs
    PROVE  /\ WithRecord(index, record) \in Indexes
           /\ record.status = "rejected" => Waiting(WithRecord(index, record)) = Waiting(index)
           /\ Waiting(WithRecord(index, record)) \subseteq Waiting(index) \cup {Ref(record)}
<1> DEFINE next == WithRecord(index, record)
           ref == Ref(record)
<1>1. ref \in Nat \X Nat
  BY DEF Ref, Record
<1>2. ref \notin DOMAIN index.recs /\ next.recs = With(index.recs, ref, record)
  BY DEF WithRecord
<1>3. next \in Indexes
  BY WithRecordTyped
<1> HIDE DEF next, ref
<1>4. /\ DOMAIN next.recs = DOMAIN index.recs \cup {ref}
      /\ next.recs[ref] = record
      /\ \A x \in DOMAIN index.recs : next.recs[x] = index.recs[x]
  BY <1>1, <1>2, WithTyped
<1>5. Waiting(next) \subseteq Waiting(index) \cup {ref}
  BY <1>4 DEF Waiting
<1>6. ASSUME record.status = "rejected" PROVE Waiting(next) = Waiting(index)
  BY <1>2, <1>4, <1>6 DEF Waiting
<1> QED
  BY <1>3, <1>5, <1>6 DEF next, ref

\* Whatever the node adds, at most one record more waits.
LEMMA LiveWaits ==
    ASSUME NEW index, Sound(index), NEW event, Live(index, event),
           NEW n \in Int, index \in AtMost(n)
    PROVE  Turn(index, event) \in AtMost(n + 1)
<1>1. index \in Indexes /\ Numbered(index) /\ event \in LocalEvent
  BY DEF Sound, Live
<1>2. CASE event.t = "block"
  <2>1. event.block \in Block /\ Turn(index, event) = WithBlock(index, event.block)
    BY <1>1, <1>2, LineIsEither DEF Turn
  <2>2. Turn(index, event) \in AtMost(n)
    BY <1>1, <2>1, BlockTakesOut, FewerWait
  <2>3. n =< n + 1 /\ n + 1 \in Int
    OBVIOUS
  <2> QED
    BY <2>2, <2>3, AtMostMore
<1>3. CASE event.t = "record"
  <2>1. PICK record : record = event.record
    OBVIOUS
  <2>2. /\ record \in Record /\ record.id = index.nextId
        /\ Turn(index, event) = WithRecord(index, record)
    BY <1>3, <2>1 DEF Live, MayRecord, Turn
  <2>3. Ref(record) \notin DOMAIN index.recs
    <3>1. Ref(record)[2] = index.nextId
      BY <2>2 DEF Ref
    <3>2. \A ref \in DOMAIN index.recs : ref[2] \in Nat /\ ref[2] < index.nextId
      BY <1>1, RecordOfIndex DEF Numbered
    <3> QED
      BY <3>1, <3>2
  <2> PICK next : next = WithRecord(index, record)
    OBVIOUS
  <2> PICK S : S = Waiting(index)
    OBVIOUS
  <2> PICK T : T = Waiting(next)
    OBVIOUS
  <2>4. next \in Indexes /\ T \subseteq S \cup {Ref(record)}
    BY <1>1, <2>2, <2>3, RecordPutsIn
  <2>5. IsFiniteSet(S) /\ Cardinality(S) =< n /\ Cardinality(S) \in Nat
    BY FS_CardinalityType DEF AtMost
  <2>6. /\ IsFiniteSet(S \cup {Ref(record)}) /\ Cardinality(S \cup {Ref(record)}) \in Nat
        /\ Cardinality(S \cup {Ref(record)}) =< Cardinality(S) + 1
    <3> PICK ref : ref = Ref(record)
      OBVIOUS
    <3>1. /\ IsFiniteSet(S \cup {ref})
          /\ Cardinality(S \cup {ref}) = IF ref \in S THEN Cardinality(S) ELSE Cardinality(S) + 1
      BY <2>5, FS_AddElement
    <3>2. Cardinality(S \cup {ref}) \in Nat /\ Cardinality(S \cup {ref}) =< Cardinality(S) + 1
      BY <2>5, <3>1
    <3> QED
      BY <3>1, <3>2
  <2>7. /\ IsFiniteSet(T) /\ Cardinality(T) \in Nat
        /\ Cardinality(T) =< Cardinality(S \cup {Ref(record)})
    BY <2>4, <2>6, FS_Subset, FS_CardinalityType
  <2>8. Cardinality(T) =< n + 1
    BY <2>5, <2>6, <2>7
  <2> QED
    BY <2>2, <2>4, <2>7, <2>8 DEF AtMost
<1> QED
  BY <1>1, <1>2, <1>3, LineIsEither

\* No more records wait than a list of them has elements.
LEMMA WaitingInList ==
    ASSUME NEW index \in Indexes, NEW R, NEW refs \in Seq(R),
           \A ref \in Waiting(index) : \E j \in 1..Len(refs) : refs[j] = ref
    PROVE  index \in AtMost(Len(refs))
<1> DEFINE T == {refs[j] : j \in 1..Len(refs)}
           n == Len(refs)
<1>1. n \in Nat /\ refs \in [1..n -> T] /\ \A ref \in T : \E j \in 1..n : refs[j] = ref
  OBVIOUS
<1>2. Waiting(index) \in SUBSET T
  OBVIOUS
<1> HIDE DEF T, n
<1>3. refs \in Surjection(1..n, T)
  BY <1>1 DEF Surjection
<1>4. IsFiniteSet(1..n) /\ Cardinality(1..n) = n
  BY <1>1, FS_Interval
<1>5. IsFiniteSet(T) /\ Cardinality(T) =< n
  BY <1>3, <1>4, FS_Surjection
<1>6. /\ IsFiniteSet(Waiting(index)) /\ Cardinality(Waiting(index)) =< Cardinality(T)
      /\ Cardinality(Waiting(index)) \in Nat /\ Cardinality(T) \in Nat
  BY <1>2, <1>5, FS_Subset, FS_CardinalityType
<1>7. Cardinality(Waiting(index)) =< n
  BY <1>1, <1>5, <1>6
<1> QED
  BY <1>6, <1>7 DEF AtMost, n

\* A submission that leaves the mempool below one block, and is not rejected: what
\* waits is what mempool() lists.
LEMMA SubmitOnlyWaits ==
    ASSUME NodeInv, NEW submission \in Offered, SubmitOnly(submission),
           NEW n \in Int, MaxRecordsPerBlock - 1 =< n, Index \in AtMost(n)
    PROVE  Index' \in AtMost(n)
<1> PICK record : record = NewRecord(submission)
  OBVIOUS
<1> PICK next : next = WithRecord(Index, record)
  OBVIOUS
<1>1. Adds(RecordLine(record)) /\ Sound(Index)
  BY SubmitOnlyAdds DEF NodeInv
<1>2. Index' = next
  BY <1>1 DEF Adds, Turn, RecordLine
<1>3. Sound(next)
  <2>1. Follows(Index, RecordLine(record))
    BY <1>1, LiveFollows DEF Adds
  <2> QED
    BY <1>1, <1>2, <2>1 DEF Follows, Adds
<1>4. record \in Record /\ Ref(record) \notin DOMAIN Index.recs
  <2>1. record \in Record /\ record.id = Index.nextId
    BY <1>1 DEF Adds, Live, MayRecord, RecordLine
  <2>2. Ref(record)[2] = Index.nextId
    BY <2>1 DEF Ref
  <2>3. \A ref \in DOMAIN Index.recs : ref[2] \in Nat /\ ref[2] < Index.nextId
    BY <1>1, RecordOfIndex DEF Sound, Numbered
  <2> QED
    BY <2>1, <2>2, <2>3
<1>5. CASE record.status = "rejected"
  <2>1. Waiting(next) = Waiting(Index)
    BY <1>1, <1>4, <1>5, RecordPutsIn DEF Sound
  <2> QED
    BY <1>2, <1>3, <2>1, FewerWait DEF Sound
<1>6. CASE record.status # "rejected"
  <2>1. Len(MempoolWith(record)) < MaxRecordsPerBlock
    BY <1>6 DEF SubmitOnly
  <2>2. next.recs = RecsWith(record) /\ next.order = RefsWith(record)
    BY IndexParts DEF WithRecord, RecsWith, RefsWith
  <2> PICK refs : refs = MempoolWith(record)
    OBVIOUS
  <2>3. refs = Mempool(next.recs, next.order, MaxRecordsPerBlock)
    BY <2>2 DEF MempoolWith
  <2>4. /\ refs \in Seq(Nat \X Nat)
        /\ \A p \in 1..Len(next.order) :
             next.recs[next.order[p]].status = "pending" =>
               \E j \in 1..Len(refs) : refs[j] = next.order[p]
    <3>1. next \in Indexes /\ Len(refs) < MaxRecordsPerBlock
      BY <1>3, <2>1 DEF Sound
    <3> DEFINE listed == Mempool(next.recs, next.order, MaxRecordsPerBlock)
    <3>2. next \in Indexes => 
            /\ listed \in Seq(Nat \X Nat)
            /\ Len(listed) < MaxRecordsPerBlock =>
                 \A p \in 1..Len(next.order) :
                   next.recs[next.order[p]].status = "pending" =>
                     \E j \in 1..Len(listed) : listed[j] = next.order[p]
      BY MempoolOfIndex
    <3> HIDE DEF listed
    <3>3. refs = listed
      BY <2>3 DEF listed
    <3> QED
      BY <3>1, <3>2, <3>3
  <2>5. ASSUME NEW ref \in Waiting(next)
        PROVE  \E j \in 1..Len(refs) : refs[j] = ref
    <3>1. PICK p \in 1..Len(next.order) : next.order[p] = ref
      BY <1>3 DEF Sound, Numbered, Waiting
    <3> QED
      BY <2>4, <3>1 DEF Waiting
  <2>6. next \in AtMost(Len(refs))
    BY <1>3, <2>4, <2>5, WaitingInList DEF Sound
  <2>7. Len(refs) \in Int /\ Len(refs) =< n
    BY <2>1, <2>4, LocalAssumption DEF LocalAssumption
  <2> QED
    BY <1>2, <2>6, <2>7, AtMostMore
<1> QED
  BY <1>5, <1>6

\* A submission that fills a block takes itself out again, or an older record.
LEMMA SubmitAndSealWaits ==
    ASSUME NodeInv, NEW submission \in Offered, SubmitAndSeal(submission),
           NEW n \in Int, MaxRecordsPerBlock >= 1, Index \in AtMost(n)
    PROVE  Index' \in AtMost(n)
<1> PICK record : record = NewRecord(submission)
  OBVIOUS
<1> PICK refs : refs = MempoolWith(record)
  OBVIOUS
<1> PICK block : block = NextBlock(refs)
  OBVIOUS
<1> PICK between : between = Turn(Index, RecordLine(record))
  OBVIOUS
<1>1. AddsBoth(RecordLine(record), BlockLine(block)) /\ Sound(Index)
  BY SubmitAndSealAdds DEF NodeInv
<1>2. Live(Index, RecordLine(record)) /\ Index' = Turn(between, BlockLine(block))
      /\ Live(between, BlockLine(block))
  BY <1>1 DEF AddsBoth
<1>3. Index' = WithBlock(between, block) /\ block \in Block
  <2>1. block \in Block
    BY <1>2 DEF Live, MayBlock, BlockLine
  <2> QED
    BY <1>2, <2>1 DEF Turn, BlockLine
<1>4. between \in Indexes /\ Numbered(between)
  <2>1. Follows(Index, RecordLine(record))
    BY <1>1, <1>2, LiveFollows
  <2> QED
    BY <2>1 DEF Follows, Sound
<1>5. between \in AtMost(n + 1)
  BY <1>1, <1>2, LiveWaits
<1>6. refs \in Seq(Nat \X Nat) /\ Len(refs) >= 1 /\ NoneSkipped(refs, between)
  <2>1. between = WithRecord(Index, record)
    BY DEF Turn, RecordLine
  <2>2. between.recs = RecsWith(record) /\ between.order = RefsWith(record)
    BY <2>1, IndexParts DEF WithRecord, RecsWith, RefsWith
  <2>3. refs = Mempool(between.recs, between.order, MaxRecordsPerBlock)
    BY <2>2 DEF MempoolWith
  <2>4. refs \in Seq(Nat \X Nat) /\ NoneSkipped(refs, between)
    BY <1>4, <2>3, MempoolOfIndex
  <2>5. Len(refs) >= MaxRecordsPerBlock
    BY DEF SubmitAndSeal
  <2> QED
    BY <2>4, <2>5, LocalAssumption DEF LocalAssumption
<1> PICK first : first = refs[1]
  OBVIOUS
<1> PICK S : S = Waiting(between)
  OBVIOUS
<1> PICK T : T = Waiting(Index')
  OBVIOUS
<1>7. first \in S /\ first \in Listed(block)
  <2>1. 1 \in 1..Len(refs)
    BY <1>6
  <2>2. first \in DOMAIN between.recs /\ between.recs[first].status = "pending"
    BY <1>4, <1>6, <2>1, ListedOfNoneSkipped
  <2>3. block.refs = refs
    BY DEF NextBlock
  <2>4. first \in Listed(block)
    BY <1>3, <2>1, <2>3, ListedIs
  <2> QED
    BY <2>2, <2>4 DEF Waiting
<1>8. T \subseteq S \ {first} /\ Index' \in Indexes
  BY <1>3, <1>4, <1>7, BlockTakesOut
<1>9. IsFiniteSet(S) /\ Cardinality(S) \in Nat /\ Cardinality(S) =< n + 1
  BY <1>5, FS_CardinalityType DEF AtMost
<1>10. /\ IsFiniteSet(S \ {first})
       /\ Cardinality(S \ {first}) = Cardinality(S) - 1
  BY <1>7, <1>9, FS_RemoveElement
<1>11. /\ IsFiniteSet(T) /\ Cardinality(T) \in Nat
       /\ Cardinality(T) =< Cardinality(S \ {first})
  BY <1>8, <1>10, FS_Subset, FS_CardinalityType
<1>12. Cardinality(T) =< n
  BY <1>9, <1>10, <1>11
<1> QED
  BY <1>8, <1>11, <1>12 DEF AtMost

\* A block alone adds nothing to what waits.
LEMMA BlockWaits ==
    ASSUME NodeInv, NEW block, Adds(BlockLine(block)), NEW n \in Int, Index \in AtMost(n)
    PROVE  Index' \in AtMost(n)
<1>1. block \in Block
  BY DEF Adds, Live, MayBlock, BlockLine
<1>2. Index' = WithBlock(Index, block)
  BY DEF Adds, Turn, BlockLine
<1>3. Index \in Indexes
  BY DEF NodeInv, Sound
<1>4. Waiting(WithBlock(Index, block)) \subseteq Waiting(Index) /\ WithBlock(Index, block) \in Indexes
  BY <1>1, <1>3, BlockTakesOut
<1> QED
  BY <1>2, <1>4, FewerWait

\* A node that serves after a step has no more waiting than there was room for.
LEMMA ServedWaits ==
    ASSUME NodeInv, [Next]_vars, phase' = "serving", MaxRecordsPerBlock >= 1,
           NEW n \in Int, n = Room, Index \in AtMost(n)
    PROVE  Index' \in AtMost(n)
<1>1. MaxRecordsPerBlock - 1 =< n
  BY StoreAssumption, LocalAssumption
     DEF StoreAssumption, LocalAssumption, NodeInv, LifeInv, Room
<1>2. CASE \E submission \in Offered : SubmitOnly(submission) \/ SubmitAndSeal(submission)
  BY <1>1, <1>2, SubmitOnlyWaits, SubmitAndSealWaits
<1>3. CASE SealerFires
  BY <1>1, <1>3, SealerAdds, BlockWaits
<1>4. CASE Opens
  <2>1. Adds(BlockLine(Genesis)) \/ UNCHANGED Index
    BY <1>4, OpensAdds, IndexParts
  <2> QED
    BY <1>1, <2>1, BlockWaits
<1>5. CASE LogWriteSucceeds \/ LogWriteFails \/ ClockMoves \/ UNCHANGED vars
  <2>1. UNCHANGED indexVars
    BY <1>5 DEF LogWriteSucceeds, LogWriteFails, ClockMoves, vars, storeVars
  <2> QED
    BY <2>1, IndexParts
<1>6. ~(ReplayLine \/ Killed \/ Start)
  BY DEF ReplayLine, Killed, Start
<1> QED
  BY <1>2, <1>3, <1>4, <1>5, <1>6 DEF Next

\* How the run and the phase of the process go on.
LEMMA RunGoesOn ==
    ASSUME NodeInv, [Next]_vars
    PROVE  /\ phase \in {"replaying", "serving", "dead"}
           /\ phase' \in {"replaying", "serving", "dead"}
           /\ phase' = "serving" => phase \in {"replaying", "serving"}
           /\ phase' = "replaying" /\ phase # "replaying" => run' = run + 1
           /\ phase' # "replaying" \/ phase = "replaying" => run' = run
           /\ run \in Nat \ {0}
<1>1. phase \in {"replaying", "serving", "dead"} /\ run \in Nat \ {0}
  BY StoreAssumption DEF StoreAssumption, NodeInv, LifeInv
<1>2. CASE AddsOne \/ AddsTwo \/ OpensOnly \/ Writes
  BY <1>1, <1>2 DEF AddsOne, AddsTwo, OpensOnly, Writes, processVars
<1>3. CASE ReplayLine \/ Killed \/ Start
  BY <1>1, <1>3 DEF ReplayLine, Killed, Start
<1>4. CASE UNCHANGED <<indexVars, logVars, processVars>>
  BY <1>1, <1>4 DEF processVars
<1> QED
  BY <1>2, <1>3, <1>4, StepKinds

\* The bound on what waits holds in every state.
THEOREM WaitInvariant == Spec => []WaitInv
<1>1. Init => WaitInv
  <2> SUFFICES ASSUME Init, MaxRecordsPerBlock >= 1, NEW n \in Int, n = Room
               PROVE  LogIn(AtMost(n)) /\ phase = "replaying"
    BY DEF WaitInv
  <2>1. file \o queue = <<>> /\ Len(<<>>) = 0 /\ phase = "replaying" /\ replayed = 0
        /\ Index = NoIndex /\ run = 1
    BY DEF Init, StoreInit, EmptyIndex, Log!Init, Index, NoIndex
  <2>2. NoIndex \in AtMost(n)
    <3>1. Waiting(NoIndex) = {}
      BY DEF Waiting, NoIndex
    <3>2. 0 =< n
      BY <2>1, LocalAssumption DEF LocalAssumption, Room
    <3> QED
      BY <3>1, <3>2, FS_EmptySet, NoIndexSound DEF AtMost
  <2> PICK h : h = [k \in 0..0 |-> NoIndex]
    OBVIOUS
  <2>3. h \in [0..0 -> Indexes] /\ h[0] = NoIndex /\ 1..0 = {} /\ \A k \in 0..0 : k = 0
    BY NoIndexSound
  <2>4. Rebuilds(h, <<>>)
    BY <2>1, <2>3 DEF Rebuilds
  <2> QED
    BY <2>1, <2>2, <2>3, <2>4 DEF LogIn
<1>2. NodeInv /\ WaitInv /\ [Next]_vars => WaitInv'
  <2> SUFFICES ASSUME NodeInv, WaitInv, [Next]_vars, MaxRecordsPerBlock >= 1, faults' = 0,
                      NEW m \in Int, m = Room'
               PROVE  /\ phase' = "serving" => Index' \in AtMost(m)
                      /\ phase' = "replaying" => LogIn(AtMost(m))'
                      /\ phase' # "replaying" => LogIn(AtMost(m + 1))'
    BY DEF WaitInv
  <2>1. PICK n : n = Room
    OBVIOUS
  <2>2. /\ n \in Int
        /\ phase' # "replaying" \/ phase = "replaying" => m = n
        /\ phase' = "replaying" /\ phase # "replaying" => m = n + 1
    BY <2>1, RunGoesOn, LocalAssumption DEF LocalAssumption, Room
  <2>3. /\ phase = "serving" => Index \in AtMost(n)
        /\ phase = "replaying" => LogIn(AtMost(n))
        /\ phase # "replaying" => LogIn(AtMost(n + 1))
    BY <2>1, <2>2, FaultsStay DEF WaitInv
  <2>4. phase' = "serving" => Index' \in AtMost(n)
    <3>1. phase = "replaying" => Index \in AtMost(n)
      BY <2>3, ReplayedIn
    <3> QED
      BY <2>1, <2>2, <2>3, <3>1, RunGoesOn, ServedWaits
  <2>5. n + 1 \in Int /\ AtMost(n) \subseteq AtMost(n + 1)
    <3>1. n + 1 \in Int /\ n =< n + 1
      BY <2>2
    <3> QED
      BY <2>2, <3>1, AtMostMore
  <2>6. ASSUME NEW first, AddsTwo, Live(Index, first)
        PROVE  Turn(Index, first) \in AtMost(n + 1)
    <3>1. Index \in AtMost(n) /\ Sound(Index)
      BY <2>3, <2>6 DEF AddsTwo, NodeInv
    <3> QED
      BY <2>2, <2>6, <3>1, LiveWaits
  <2>7. AddsOne \/ AddsTwo => phase' = "serving"
    BY DEF AddsOne, AddsTwo, processVars
  <2>8. ASSUME phase = "replaying"
        PROVE  LogIn(AtMost(n))'
    <3>1. ~AddsTwo
      BY <2>8 DEF AddsTwo
    <3>2. \A event \in LocalEvent : AddsOne /\ Adds(event) => Index' \in AtMost(n)
      BY <2>4, <2>7
    <3> QED
      BY <2>3, <2>8, <3>1, <3>2, LogInKeeps
  <2>9. LogIn(AtMost(n + 1))'
    <3>1. LogIn(AtMost(n + 1))
      BY <2>3, <2>5, LogInMore
    <3>2. \A event \in LocalEvent : AddsOne /\ Adds(event) => Index' \in AtMost(n + 1)
      BY <2>4, <2>5, <2>7
    <3>3. \A first, second \in LocalEvent : AddsTwo /\ AddsBoth(first, second) =>
            Turn(Index, first) \in AtMost(n + 1) /\ Index' \in AtMost(n + 1)
      BY <2>4, <2>5, <2>6, <2>7 DEF AddsBoth
    <3> QED
      BY <3>1, <3>2, <3>3, LogInKeeps
  <2>10. CASE phase' # "replaying"
    BY <2>2, <2>4, <2>9, <2>10
  <2>11. CASE phase' = "replaying" /\ phase = "replaying"
    BY <2>2, <2>8, <2>11
  <2>12. CASE phase' = "replaying" /\ phase # "replaying"
    BY <2>2, <2>9, <2>12
  <2> QED
    BY <2>10, <2>11, <2>12
<1> QED
  BY <1>1, <1>2, NodeInvariant, PTL DEF Spec

\* The mempool stays below one block and a record for every earlier run: the check in
\* submit() counts the record it has just added.
THEOREM MempoolIsBounded == Spec => []MempoolFitsOneBlock
<1>1. NodeInv /\ WaitInv => MempoolFitsOneBlock
  <2> SUFFICES ASSUME NodeInv, WaitInv, MaxRecordsPerBlock >= 1, faults = 0
               PROVE  Cardinality({ref \in DOMAIN recs : recs[ref].status = "pending"})
                        < MaxRecordsPerBlock + (run - 1)
    BY DEF MempoolFitsOneBlock
  <2>1. PICK n : n = Room
    OBVIOUS
  <2>2. n \in Int /\ 0 =< n /\ n < MaxRecordsPerBlock + (run - 1)
    BY <2>1, StoreAssumption, LocalAssumption
       DEF StoreAssumption, LocalAssumption, NodeInv, LifeInv, Room
  <2>3. /\ phase = "serving" => Index \in AtMost(n)
        /\ phase = "replaying" => LogIn(AtMost(n))
    BY <2>1, <2>2 DEF WaitInv
  <2>4. Index \in AtMost(n)
    <3>1. CASE phase = "serving"
      BY <2>3, <3>1
    <3>2. CASE phase = "replaying"
      BY <2>3, <3>2, ReplayedIn
    <3>3. CASE phase = "dead"
      <4>1. Waiting(Index) = {}
        BY <3>3 DEF NodeInv, LifeInv, Waiting, NoIndex
      <4> QED
        BY <2>2, <4>1, FS_EmptySet DEF AtMost, NodeInv, Sound
    <3> QED
      BY <3>1, <3>2, <3>3 DEF NodeInv, LifeInv
  <2>5. Waiting(Index) = {ref \in DOMAIN recs : recs[ref].status = "pending"}
    BY IndexParts DEF Waiting
  <2> PICK S : S = Waiting(Index)
    OBVIOUS
  <2>6. Cardinality(S) \in Nat /\ Cardinality(S) =< n
    BY <2>4, FS_CardinalityType DEF AtMost
  <2>7. run \in Int /\ MaxRecordsPerBlock \in Int
    BY LocalAssumption, StoreAssumption DEF LocalAssumption, StoreAssumption, NodeInv, LifeInv
  <2>8. Cardinality(S) < MaxRecordsPerBlock + (run - 1)
    BY <2>2, <2>6, <2>7
  <2> QED
    BY <2>5, <2>8
<1> QED
  BY <1>1, NodeInvariant, WaitInvariant, PTL
=============================================================================
