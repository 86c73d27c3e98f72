--------------------------- MODULE EventStreamProofs ---------------------------
(***************************************************************************)
(* The live stream, for any number of clients, connections, payloads,      *)
(* heartbeats and breaks: the store's listeners are those of the           *)
(* connections, but for clients that left before their first snapshot;     *)
(* and a watcher is given the payloads of its connection in order and      *)
(* once, wherever the chunks of the stream end.                            *)
(*                                                                         *)
(* StreamInv is the first; FaithInv, on top of it, says of every           *)
(* connection that somebody holds what the handed payloads, those of the   *)
(* buffer and those on the wire are together: all that was emitted since   *)
(* it opened (Holds).  What is buffered and on the wire is whole frames    *)
(* (Framed), whatever a chunk cut, since the client only cuts off whole    *)
(* frames at the front.                                                    *)
(***************************************************************************)
EXTENDS EventStream, LogLemmas, SequenceTheorems, TLAPS

\* The connections, and the history they point into, keep their types.
ConnectionsTyped == emitted \in Seq(Payloads) /\ conn \in [Slots -> Connection]

\* Only a snapshot that is awaited lets a client leave before the listeners are there.
SnapshotsAwaited == \A k \in Slots : conn[k].pc = "snapshot" => Cdci

StreamInv == ConnectionsTyped /\ ListenersFollowConnections /\ SnapshotsAwaited

\* What ListenersFollowConnections and SnapshotsAwaited ask of one connection.
Sound(connection) ==
    /\ connection.pc = "open" => connection.listening /\ connection.live
    /\ connection.pc \in {"unused", "snapshot"} => ~connection.listening
    /\ connection.pc \in {"orphaned", "snapshot"} => Cdci

\* All connections are sound when the listeners follow them.
LEMMA SoundConnections ==
    (\A k \in Slots : Sound(conn[k])) <=> ListenersFollowConnections /\ SnapshotsAwaited
BY DEF Sound, ListenersFollowConnections, SnapshotsAwaited

\* A connection that is not there.
LEMMA UnusedSound == Unused \in Connection /\ Sound(Unused)
BY DEF Unused, Connection, Sound

\* It is enough to look at the connection that changes.
LEMMA OneConnectionChanges ==
    ASSUME StreamInv, NEW k \in Slots, NEW connection \in Connection, Sound(connection),
           conn' = [conn EXCEPT ![k] = connection], UNCHANGED emitted
    PROVE  StreamInv'
<1>1. conn' \in [Slots -> Connection]
  BY DEF StreamInv, ConnectionsTyped
<1>2. \A j \in Slots : Sound(conn[j])
  BY SoundConnections DEF StreamInv
<1>3. \A j \in Slots : conn'[j] = IF j = k THEN connection ELSE conn[j]
  BY DEF StreamInv, ConnectionsTyped
<1>4. \A j \in Slots : Sound(conn'[j])
  BY <1>2, <1>3
<1>5. (ListenersFollowConnections /\ SnapshotsAwaited)'
  BY <1>4 DEF Sound, ListenersFollowConnections, SnapshotsAwaited
<1>6. ConnectionsTyped'
  BY <1>1 DEF StreamInv, ConnectionsTyped
<1> QED
  BY <1>5, <1>6 DEF StreamInv

\* At first, and when the process ends, there are no connections.
LEMMA NoConnections ==
    ASSUME \A k \in Slots : conn[k] = Unused
    PROVE  ListenersFollowConnections /\ SnapshotsAwaited
BY UnusedSound, SoundConnections

\* It holds at the start.
LEMMA StreamInvHolds == Init => StreamInv
BY UnusedSound, NoConnections DEF Init, StreamInv, ConnectionsTyped

-----------------------------------------------------------------------------
(* The steps that change connections or history *)

\* A client is connected, and its snapshot is there or awaited.
LEMMA AcceptKeeps ==
    ASSUME StreamInv, NEW c \in Clients, NEW k \in Slots, Accept(c, k)
    PROVE  StreamInv'
<1> PICK waits \in {FALSE, Cdci} :
      conn' = [conn EXCEPT ![k] = [pc |-> IF waits THEN "snapshot" ELSE "open",
                                   client |-> c,
                                   live |-> TRUE,
                                   listening |-> ~waits,
                                   from |-> Len(emitted)]]
  BY DEF Accept
<1>1. Len(emitted) \in Nat
  BY LenProperties DEF StreamInv, ConnectionsTyped
<1>2. UNCHANGED emitted
  BY DEF Accept
<1>3. CASE waits = FALSE
  <2> DEFINE connection == [pc |-> "open", client |-> c, live |-> TRUE,
                            listening |-> TRUE, from |-> Len(emitted)]
  <2>1. connection \in Connection /\ Sound(connection)
    BY <1>1 DEF Connection, Sound
  <2>2. conn' = [conn EXCEPT ![k] = connection]
    BY <1>3
  <2> QED
    BY <1>2, <2>1, <2>2, OneConnectionChanges
<1>4. CASE waits = TRUE
  <2> DEFINE connection == [pc |-> "snapshot", client |-> c, live |-> TRUE,
                            listening |-> FALSE, from |-> Len(emitted)]
  <2>1. Cdci
    BY <1>4
  <2>2. connection \in Connection /\ Sound(connection)
    BY <1>1, <2>1 DEF Connection, Sound
  <2>3. conn' = [conn EXCEPT ![k] = connection]
    BY <1>4
  <2> QED
    BY <1>2, <2>2, <2>3, OneConnectionChanges
<1> QED
  BY <1>3, <1>4, StreamAssumption

\* The snapshot is there: for a client that is, or has left.
LEMMA OpensKeeps ==
    ASSUME StreamInv, NEW k \in Slots, Opens(k)
    PROVE  StreamInv'
<1> DEFINE connection == [conn[k] EXCEPT !.pc = IF conn[k].live THEN "open" ELSE "orphaned",
                                         !.listening = TRUE,
                                         !.from = Len(emitted)]
<1>1. Len(emitted) \in Nat
  BY LenProperties DEF StreamInv, ConnectionsTyped
<1>2. conn[k] \in Connection
  BY DEF StreamInv, ConnectionsTyped
<1>3. Cdci
  BY DEF StreamInv, SnapshotsAwaited, Opens
<1>4. connection \in Connection
  BY <1>1, <1>2 DEF Connection
<1>5. Sound(connection)
  BY <1>2, <1>3 DEF Connection, Sound
<1>6. conn' = [conn EXCEPT ![k] = connection] /\ UNCHANGED emitted
  BY DEF Opens
<1> QED
  BY <1>4, <1>5, <1>6, OneConnectionChanges

\* The server notices that a client has left: cleanup(), if it is registered.
LEMMA ConnectionClosesKeeps ==
    ASSUME StreamInv, NEW k \in Slots, ConnectionCloses(k)
    PROVE  StreamInv'
<1>1. UNCHANGED emitted
  BY DEF ConnectionCloses
<1>2. CASE conn[k].pc = "open"
  <2>1. conn' = [conn EXCEPT ![k] = Unused]
    BY <1>2 DEF ConnectionCloses, CleanUp
  <2> QED
    BY <1>1, <2>1, UnusedSound, OneConnectionChanges
<1>3. CASE conn[k].pc # "open"
  <2> DEFINE connection == [conn[k] EXCEPT !.live = FALSE]
  <2>1. conn[k] \in Connection /\ Sound(conn[k])
    BY SoundConnections DEF StreamInv, ConnectionsTyped
  <2>2. connection \in Connection
    BY <2>1 DEF Connection
  <2>3. Sound(connection)
    BY <1>3, <2>1 DEF Connection, Sound
  <2>4. conn' = [conn EXCEPT ![k] = connection]
    BY <1>3 DEF ConnectionCloses
  <2> QED
    BY <1>1, <2>2, <2>3, <2>4, OneConnectionChanges
<1> QED
  BY <1>2, <1>3

\* The process ends.
LEMMA EndsKeeps ==
    ASSUME StreamInv, Ends
    PROVE  StreamInv'
<1>1. \A k \in Slots : conn'[k] = Unused
  BY DEF Ends
<1>2. ConnectionsTyped'
  BY UnusedSound DEF Ends, StreamInv, ConnectionsTyped
<1>3. (ListenersFollowConnections /\ SnapshotsAwaited)'
  BY <1>1, UnusedSound DEF Sound, ListenersFollowConnections, SnapshotsAwaited
<1> QED
  BY <1>2, <1>3 DEF StreamInv

\* A step that touches neither the connections nor the history.
LEMMA OthersKeep ==
    ASSUME StreamInv, UNCHANGED conn, emitted' \in Seq(Payloads)
    PROVE  StreamInv'
BY DEF StreamInv, ConnectionsTyped, ListenersFollowConnections, SnapshotsAwaited

\* Every step keeps it.
LEMMA StreamStep == StreamInv /\ [Next]_vars => StreamInv'
<1> SUFFICES ASSUME StreamInv, [Next]_vars PROVE StreamInv'
  OBVIOUS
<1>1. ASSUME UNCHANGED <<emitted, conn>> PROVE StreamInv'
  BY <1>1, OthersKeep DEF StreamInv, ConnectionsTyped
<1>2. ASSUME NEW c \in Clients, NEW k \in Slots, Accept(c, k) PROVE StreamInv'
  BY <1>2, AcceptKeeps
<1>3. ASSUME NEW k \in Slots, Opens(k) \/ ConnectionCloses(k) PROVE StreamInv'
  BY <1>3, OpensKeeps, ConnectionClosesKeeps
<1>4. ASSUME NEW k \in Slots, Heartbeat(k) PROVE StreamInv'
  BY <1>4, <1>1 DEF Heartbeat
<1>5. ASSUME NEW payload \in Payloads, Emits(payload) PROVE StreamInv'
  <2>1. emitted' \in Seq(Payloads)
    BY <1>5 DEF Emits, StreamInv, ConnectionsTyped
  <2> QED
    BY <1>5, <2>1, OthersKeep DEF Emits
<1>6. ASSUME Stops \/ Exits PROVE StreamInv'
  BY <1>6, EndsKeeps DEF Stops, Exits
<1>7. ASSUME Signal \/ Restarts PROVE StreamInv'
  BY <1>7, <1>1 DEF Signal, Restarts
<1>8. ASSUME NEW c \in Clients, Loops(c) \/ Close(c) \/ Breaks(c) PROVE StreamInv'
  <2>1. UNCHANGED <<emitted, conn>>
    BY <1>8 DEF Loops, Chunk, Dispatch, ReadOn, StreamEnds, Refused, Retries, Close, Breaks,
                serverVars
  <2> QED
    BY <2>1, <1>1
<1>9. ASSUME UNCHANGED vars PROVE StreamInv'
  BY <1>9, <1>1 DEF vars, serverVars
<1> QED
  BY <1>2, <1>3, <1>4, <1>5, <1>6, <1>7, <1>8, <1>9 DEF Next, Server

(***************************************************************************)
(* The store keeps no listener of a connection that has closed, whoever    *)
(* comes, leaves, breaks or is slow - but those of clients that left while *)
(* the first snapshot was awaited, which only the CDCI backend does.       *)
(***************************************************************************)
THEOREM ListenersAreFollowed == Spec => []ListenersFollowConnections
<1>1. StreamInv => ListenersFollowConnections
  BY DEF StreamInv
<1> QED
  BY <1>1, StreamInvHolds, StreamStep, PTL DEF Spec

-----------------------------------------------------------------------------
(* The payloads among tokens *)

\* kept[k] is what the first k tokens are about.
Keeps(kept, tokens) ==
    /\ kept \in [0..Len(tokens) -> Seq(Payloads)]
    /\ kept[0] = <<>>
    /\ \A k \in 1..Len(tokens) :
         kept[k] = IF tokens[k] \in Payloads THEN Append(kept[k - 1], tokens[k]) ELSE kept[k - 1]

\* There is such a function for every sequence,
LEMMA SomethingKeeps ==
    ASSUME NEW T, NEW tokens \in Seq(T)
    PROVE  \E kept : Keeps(kept, tokens)
<1> DEFINE A == Seq(Payloads)
           n == Len(tokens)
           step == [at \in A \X (1..n) |->
                      IF tokens[at[2]] \in Payloads THEN Append(at[1], tokens[at[2]]) ELSE at[1]]
<1>1. n \in Nat /\ <<>> \in A
  OBVIOUS
<1>2. step \in [A \X (1..n) -> A]
  <2>1. ASSUME NEW at \in A \X (1..n)
        PROVE  (IF tokens[at[2]] \in Payloads THEN Append(at[1], tokens[at[2]]) ELSE at[1]) \in A
    <3>1. at[1] \in Seq(Payloads)
      OBVIOUS
    <3> QED
      BY <3>1
  <2> QED
    BY <2>1
<1>3. \A s \in A, k \in 1..n :
        step[<<s, k>>] = IF tokens[k] \in Payloads THEN Append(s, tokens[k]) ELSE s
  OBVIOUS
<1> HIDE DEF A, n, step
<1>4. PICK f : IteratedBy(f, A, <<>>, step, n)
  BY <1>1, <1>2, Recursion
<1>5. f \in [0..n -> A] /\ f[0] = <<>> /\ \A k \in 1..n : f[k] = step[<<f[k - 1], k>>]
  BY <1>4 DEF IteratedBy
<1>6. ASSUME NEW k \in 1..n
      PROVE  f[k] = IF tokens[k] \in Payloads THEN Append(f[k - 1], tokens[k]) ELSE f[k - 1]
  <2>1. f[k - 1] \in A
    BY <1>1, <1>5
  <2> QED
    BY <1>3, <1>5, <2>1
<1>7. Keeps(f, tokens)
  BY <1>5, <1>6 DEF Keeps, A, n
<1> QED
  BY <1>7

\* and only one.
LEMMA OneKeeps ==
    ASSUME NEW T, NEW tokens \in Seq(T), NEW f, NEW g, Keeps(f, tokens), Keeps(g, tokens)
    PROVE  f = g
<1> DEFINE S == {k \in Nat : k =< Len(tokens) => f[k] = g[k]}
<1>1. Len(tokens) \in Nat
  OBVIOUS
<1>2. 0 \in S
  BY DEF Keeps
<1>3. \A k \in Nat : k \in S => k + 1 \in S
  <2> SUFFICES ASSUME NEW k \in Nat, k + 1 =< Len(tokens), f[k] = g[k]
               PROVE  f[k + 1] = g[k + 1]
    BY <1>1
  <2>1. k + 1 \in 1..Len(tokens) /\ (k + 1) - 1 = k
    BY <1>1
  <2> QED
    BY <2>1 DEF Keeps
<1>4. Nat \subseteq S
  <2> HIDE DEF S
  <2> QED
    BY <1>2, <1>3, Induction
<1>5. \A k \in 0..Len(tokens) : f[k] = g[k]
  BY <1>1, <1>4
<1> QED
  BY <1>5 DEF Keeps

\* PayloadsIn is its last value.
LEMMA RecordsInIsLast ==
    ASSUME NEW T, NEW tokens \in Seq(T), NEW f, Keeps(f, tokens)
    PROVE  PayloadsIn(tokens) = f[Len(tokens)]
<1> DEFINE Body(g) == [n \in 0..Len(tokens) |->
                         IF n = 0 THEN <<>>
                         ELSE IF tokens[n] \in Payloads THEN Append(g[n - 1], tokens[n])
                                                        ELSE g[n - 1]]
           kept == CHOOSE g : g = Body(g)
<1>1. Len(tokens) \in Nat
  OBVIOUS
<1>2. f = Body(f)
  <2>1. \A n \in 0..Len(tokens) : n = 0 \/ n \in 1..Len(tokens)
    BY <1>1
  <2> QED
    BY <2>1 DEF Keeps
<1>3. kept = Body(kept)
  BY <1>2
<1>4. PayloadsIn(tokens) = kept[Len(tokens)]
  BY DEF PayloadsIn
<1> HIDE DEF kept
<1>5. /\ kept[0] = <<>>
      /\ \A k \in 1..Len(tokens) :
           kept[k] = IF tokens[k] \in Payloads THEN Append(kept[k - 1], tokens[k])
                                               ELSE kept[k - 1]
  <2>1. ASSUME NEW k \in 0..Len(tokens)
        PROVE  kept[k] = IF k = 0 THEN <<>>
                         ELSE IF tokens[k] \in Payloads THEN Append(kept[k - 1], tokens[k])
                                                        ELSE kept[k - 1]
    <3>1. Body(kept)[k] = IF k = 0 THEN <<>>
                          ELSE IF tokens[k] \in Payloads THEN Append(kept[k - 1], tokens[k])
                                                         ELSE kept[k - 1]
      OBVIOUS
    <3> HIDE DEF Body
    <3> QED
      BY <1>3, <3>1
  <2>2. 0 \in 0..Len(tokens) /\ \A k \in 1..Len(tokens) : k \in 0..Len(tokens) /\ k # 0
    BY <1>1
  <2> HIDE DEF Body
  <2> QED
    BY <2>1, <2>2
<1> DEFINE S == {k \in Nat : k =< Len(tokens) => kept[k] = f[k]}
<1>6. 0 \in S
  BY <1>5 DEF Keeps
<1>7. \A k \in Nat : k \in S => k + 1 \in S
  <2> SUFFICES ASSUME NEW k \in Nat, k + 1 =< Len(tokens), kept[k] = f[k]
               PROVE  kept[k + 1] = f[k + 1]
    BY <1>1
  <2>1. k + 1 \in 1..Len(tokens) /\ (k + 1) - 1 = k
    BY <1>1
  <2> HIDE DEF Body
  <2> QED
    BY <1>5, <2>1 DEF Keeps
<1>8. Len(tokens) \in S
  <2> HIDE DEF S
  <2> QED
    BY <1>1, <1>6, <1>7, Induction
<1> QED
  BY <1>1, <1>4, <1>8

\* What one sequence and then another is about.
LEMMA RecordsOfConcat ==
    ASSUME NEW T, NEW s \in Seq(T), NEW t \in Seq(T)
    PROVE  /\ PayloadsIn(s) \in Seq(Payloads) /\ PayloadsIn(t) \in Seq(Payloads)
           /\ PayloadsIn(s \o t) = PayloadsIn(s) \o PayloadsIn(t)
<1>1. PICK f : Keeps(f, s)
  BY SomethingKeeps
<1>2. PICK g : Keeps(g, t)
  BY SomethingKeeps
<1> DEFINE both == s \o t
           m == Len(s)
           n == Len(t)
           h == [k \in 0..m + n |-> IF k =< m THEN f[k] ELSE f[m] \o g[k - m]]
<1>3. /\ both \in Seq(T) /\ Len(both) = m + n /\ m \in Nat /\ n \in Nat
      /\ \A k \in 1..m : both[k] = s[k]
      /\ \A k \in 1..n : both[m + k] = t[k]
  BY ConcatOfSequences
<1>4. /\ f \in [0..m -> Seq(Payloads)] /\ f[0] = <<>>
      /\ \A k \in 1..m : f[k] = IF s[k] \in Payloads THEN Append(f[k - 1], s[k]) ELSE f[k - 1]
  BY <1>1 DEF Keeps
<1>5. /\ g \in [0..n -> Seq(Payloads)] /\ g[0] = <<>>
      /\ \A k \in 1..n : g[k] = IF t[k] \in Payloads THEN Append(g[k - 1], t[k]) ELSE g[k - 1]
  BY <1>2 DEF Keeps
<1> HIDE DEF both, m, n
<1>6. f[m] \in Seq(Payloads) /\ g[n] \in Seq(Payloads) /\ f[m] \o <<>> = f[m]
  <2>1. f[m] \in Seq(Payloads) /\ g[n] \in Seq(Payloads)
    BY <1>3, <1>4, <1>5
  <2> QED
    BY <2>1, ConcatEmptySeq
<1>7. \A k \in 0..m : h[k] = f[k]
  BY <1>3
<1>8. \A k \in 0..n : h[m + k] = f[m] \o g[k]
  <2> SUFFICES ASSUME NEW k \in 0..n
               PROVE  h[m + k] = f[m] \o g[k]
    OBVIOUS
  <2>1. CASE k = 0
    <3>1. m \in 0..m /\ m + 0 = m
      BY <1>3
    <3>2. h[m] = f[m] /\ f[m] = f[m] \o g[0]
      BY <1>5, <1>6, <1>7, <3>1
    <3> HIDE DEF h
    <3> QED
      BY <2>1, <3>1, <3>2
  <2>2. CASE k # 0
    <3>1. m + k \in 0..m + n /\ ~(m + k =< m) /\ (m + k) - m = k
      BY <1>3, <2>2
    <3> QED
      BY <3>1
  <2> QED
    BY <2>1, <2>2
<1>9. h \in [0..m + n -> Seq(Payloads)]
  <2>1. ASSUME NEW k \in 0..m + n
        PROVE  (IF k =< m THEN f[k] ELSE f[m] \o g[k - m]) \in Seq(Payloads)
    <3>1. CASE k =< m
      BY <1>3, <1>4, <3>1
    <3>2. CASE ~(k =< m)
      <4>1. k - m \in 0..n
        BY <1>3, <3>2
      <4>2. g[k - m] \in Seq(Payloads)
        BY <1>5, <4>1
      <4>3. f[m] \o g[k - m] \in Seq(Payloads)
        BY <1>6, <4>2
      <4> QED
        BY <3>2, <4>3
    <3> QED
      BY <3>1, <3>2
  <2> QED
    BY <2>1
<1> HIDE DEF h
<1>10. ASSUME NEW k \in 1..m
       PROVE  h[k] = IF both[k] \in Payloads THEN Append(h[k - 1], both[k]) ELSE h[k - 1]
  <2>1. k \in 0..m /\ k - 1 \in 0..m
    BY <1>3
  <2> QED
    BY <1>3, <1>4, <1>7, <2>1
<1>11. ASSUME NEW k \in 1..n, NEW p, p = m + k
       PROVE  h[p] = IF both[p] \in Payloads THEN Append(h[p - 1], both[p]) ELSE h[p - 1]
  <2>1. k \in 0..n /\ k - 1 \in 0..n /\ p - 1 = m + (k - 1)
    BY <1>3, <1>11
  <2>2. h[p] = f[m] \o g[k] /\ h[p - 1] = f[m] \o g[k - 1] /\ both[p] = t[k]
        /\ g[k - 1] \in Seq(Payloads)
    BY <1>3, <1>5, <1>8, <1>11, <2>1
  <2>3. CASE t[k] \in Payloads
    <3>1. g[k] = Append(g[k - 1], t[k])
      BY <1>5, <2>3
    <3>2. f[m] \o Append(g[k - 1], t[k]) = Append(f[m] \o g[k - 1], t[k])
      <4>1. f[m] \in Seq(Payloads) /\ g[k - 1] \in Seq(Payloads) /\ t[k] \in Payloads
        BY <1>6, <2>2, <2>3
      <4>2. \A a, b \in Seq(Payloads), e \in Payloads : a \o Append(b, e) = Append(a \o b, e)
        BY AppendToConcat
      <4> QED
        BY <4>1, <4>2
    <3> QED
      BY <2>2, <2>3, <3>1, <3>2
  <2>4. CASE t[k] \notin Payloads
    BY <1>5, <2>2, <2>4
  <2> QED
    BY <2>3, <2>4
<1>12. ASSUME NEW k \in 1..m + n
       PROVE  h[k] = IF both[k] \in Payloads THEN Append(h[k - 1], both[k]) ELSE h[k - 1]
  <2>1. CASE k =< m
    BY <1>3, <1>10, <2>1
  <2>2. CASE ~(k =< m)
    <3>1. PICK j : j = k - m
      OBVIOUS
    <3>2. j \in 1..n /\ m + j = k
      BY <1>3, <2>2, <3>1
    <3> QED
      BY <1>11, <3>2
  <2> QED
    BY <2>1, <2>2
<1>13. Keeps(h, both)
  <2>1. h[0] = <<>>
    BY <1>3, <1>4, <1>7
  <2> QED
    BY <1>3, <1>9, <1>12, <2>1 DEF Keeps
<1>14. PayloadsIn(both) = h[m + n] /\ h[m + n] = f[m] \o g[n]
  <2>1. n \in 0..n
    BY <1>3
  <2>2. PayloadsIn(both) = h[Len(both)]
    BY <1>3, <1>13, RecordsInIsLast
  <2> QED
    BY <1>3, <1>8, <2>1, <2>2
<1>15. PayloadsIn(s) = f[m] /\ PayloadsIn(t) = g[n]
  BY <1>1, <1>2, RecordsInIsLast DEF m, n
<1> QED
  BY <1>6, <1>14, <1>15 DEF both

\* What a frame is about, and what nothing is about.
LEMMA RecordsOfFrame ==
    ASSUME NEW token \in Token, token # NL
    PROVE  /\ Frame(token) \in Seq(Token) /\ Len(Frame(token)) = 3
           /\ PayloadsIn(Frame(token)) = IF token \in Payloads THEN <<token>> ELSE <<>>
           /\ PayloadsIn(<<>>) = <<>>
<1> DEFINE s == Frame(token)
           one == IF token \in Payloads THEN <<token>> ELSE <<>>
           f == [k \in 0..3 |-> IF k = 0 THEN <<>> ELSE one]
<1>1. s \in Seq(Token) /\ Len(s) = 3 /\ s[1] = token /\ s[2] = NL /\ s[3] = NL
  BY DEF Frame, Token
<1>2. one \in Seq(Payloads) /\ one = IF token \in Payloads THEN Append(<<>>, token) ELSE <<>>
  OBVIOUS
<1> HIDE DEF one, s
<1>3. f \in [0..3 -> Seq(Payloads)] /\ f[0] = <<>> /\ f[1] = one /\ f[2] = one /\ f[3] = one
  BY <1>2
<1> HIDE DEF f
<1>4. ASSUME NEW k \in 1..3
      PROVE  f[k] = IF s[k] \in Payloads THEN Append(f[k - 1], s[k]) ELSE f[k - 1]
  <2>1. CASE k = 1
    <3>1. k - 1 = 0
      BY <2>1
    <3>2. f[k] = one /\ f[k - 1] = <<>> /\ s[k] = token
      BY <1>1, <1>3, <2>1, <3>1
    <3> QED
      BY <1>2, <3>2
  <2>2. CASE k = 2
    BY <1>1, <1>3, <2>2, StreamAssumption DEF StreamAssumption
  <2>3. CASE k = 3
    BY <1>1, <1>3, <2>3, StreamAssumption DEF StreamAssumption
  <2> QED
    BY <2>1, <2>2, <2>3
<1>5. Keeps(f, s)
  BY <1>1, <1>3, <1>4 DEF Keeps
<1>6. PayloadsIn(s) = f[Len(s)]
  BY <1>1, <1>5, RecordsInIsLast
<1>7. PayloadsIn(s) = one
  BY <1>1, <1>3, <1>6
<1>8. PayloadsIn(<<>>) = <<>>
  <2> DEFINE g == [k \in 0..0 |-> <<>>]
  <2>1. <<>> \in Seq(Token) /\ Len(<<>>) = 0 /\ 1..0 = {} /\ 0 \in 0..0
    OBVIOUS
  <2>2. g \in [0..0 -> Seq(Payloads)] /\ g[0] = <<>>
    OBVIOUS
  <2> HIDE DEF g
  <2>3. Keeps(g, <<>>)
    BY <2>1, <2>2 DEF Keeps
  <2> QED
    BY <2>1, <2>2, <2>3, RecordsInIsLast
<1> QED
  BY <1>1, <1>7, <1>8 DEF s, one

-----------------------------------------------------------------------------
(* Frames, cut anywhere *)

\* Whole frames.
Framed(tokens) ==
    \E n \in Nat :
      /\ Len(tokens) = 3 * n
      /\ \A j \in 0..n - 1 :
           tokens[3 * j + 1] # NL /\ tokens[3 * j + 2] = NL /\ tokens[3 * j + 3] = NL

\* No token is no part of a frame.
LEMMA NothingFramed == Framed(<<>>)
<1>1. 0 \in Nat /\ Len(<<>>) = 3 * 0 /\ 0..0 - 1 = {}
  OBVIOUS
<1> QED
  BY <1>1 DEF Framed

\* One frame more.
LEMMA FrameJoins ==
    ASSUME NEW s \in Seq(Token), Framed(s), NEW token \in Token, token # NL
    PROVE  Framed(s \o Frame(token))
<1> DEFINE t == s \o Frame(token)
<1>1. PICK n \in Nat : /\ Len(s) = 3 * n
                       /\ \A j \in 0..n - 1 :
                            s[3 * j + 1] # NL /\ s[3 * j + 2] = NL /\ s[3 * j + 3] = NL
  BY DEF Framed
<1>2. /\ Frame(token) \in Seq(Token) /\ Len(Frame(token)) = 3
      /\ Frame(token)[1] = token /\ Frame(token)[2] = NL /\ Frame(token)[3] = NL
  BY DEF Frame, Token
<1>3. /\ Len(t) = 3 * n + 3
      /\ \A i \in 1..3 * n : t[i] = s[i]
      /\ \A i \in 1..3 : t[3 * n + i] = Frame(token)[i]
  <2> PICK f : f = Frame(token)
    OBVIOUS
  <2>1. f \in Seq(Token) /\ Len(f) = 3
    BY <1>2
  <2>2. /\ Len(s \o f) = Len(s) + Len(f)
        /\ \A i \in 1..Len(s) : (s \o f)[i] = s[i]
        /\ \A i \in 1..Len(f) : (s \o f)[Len(s) + i] = f[i]
    <3>1. f \in Seq(Token)
      BY <2>1
    <3> HIDE DEF t
    <3> QED
      BY ONLY <3>1, s \in Seq(Token), ConcatOfSequences
  <2>3. t = s \o f /\ Len(s) = 3 * n
    BY <1>1
  <2> HIDE DEF t
  <2> QED
    BY <2>1, <2>2, <2>3
<1> HIDE DEF t
<1>4. t[3 * n + 1] = token /\ t[3 * n + 2] = NL /\ t[3 * n + 3] = NL
  BY <1>2, <1>3
<1>5. ASSUME NEW j \in 0..n
      PROVE  t[3 * j + 1] # NL /\ t[3 * j + 2] = NL /\ t[3 * j + 3] = NL
  <2>1. CASE j = n
    BY <1>4, <2>1
  <2>2. CASE j # n
    <3>1. /\ j \in 0..n - 1
          /\ 3 * j + 1 \in 1..3 * n /\ 3 * j + 2 \in 1..3 * n /\ 3 * j + 3 \in 1..3 * n
      BY <2>2
    <3> QED
      BY <1>1, <1>3, <3>1
  <2> QED
    BY <2>1, <2>2
<1>6. n + 1 \in Nat /\ Len(t) = 3 * (n + 1) /\ (n + 1) - 1 = n
  BY <1>3
<1>7. \A j \in 0..(n + 1) - 1 : t[3 * j + 1] # NL /\ t[3 * j + 2] = NL /\ t[3 * j + 3] = NL
  BY <1>5, <1>6
<1>8. Framed(t)
  BY <1>6, <1>7 DEF Framed
<1> QED
  BY <1>8 DEF t

\* What has been read begins with a frame, whose blank line is at i; `rest` is not
\* read yet.
FrameEnds(buffer, i, rest) ==
    \E token \in Token : \E left \in Seq(Token) :
      /\ token # NL
      /\ SubSeq(buffer, 1, i - 1) = <<token>>
      /\ SubSeq(buffer, i + 2, Len(buffer)) = left
      /\ buffer = Frame(token) \o left
      /\ Framed(left \o rest)

\* Where what has been read of whole frames has its first blank line, a frame ends.
LEMMA FirstFrame ==
    ASSUME NEW buffer \in Seq(Token), NEW rest \in Seq(Token), Framed(buffer \o rest),
           NEW i \in 1..Len(buffer), BlankLineAt(buffer, i)
    PROVE  FrameEnds(buffer, i, rest)
<1> DEFINE all == buffer \o rest
           m == Len(buffer)
           token == buffer[1]
           left == SubSeq(buffer, 4, m)
<1>1. PICK n \in Nat : /\ Len(all) = 3 * n
                       /\ \A j \in 0..n - 1 :
                            all[3 * j + 1] # NL /\ all[3 * j + 2] = NL /\ all[3 * j + 3] = NL
  BY DEF Framed
<1>2. /\ m \in Nat /\ Len(rest) \in Nat /\ Len(all) = m + Len(rest)
      /\ \A p \in 1..m : all[p] = buffer[p]
      /\ \A p \in 1..Len(rest) : all[m + p] = rest[p]
  BY ConcatOfSequences
<1> HIDE DEF all
<1>3. /\ i < m /\ buffer[i] = NL /\ buffer[i + 1] = NL
      /\ \A p \in 1..i - 1 : ~(buffer[p] = NL /\ buffer[p + 1] = NL)
  BY DEF BlankLineAt
<1>4. n >= 1 /\ m >= 2
  BY <1>1, <1>2, <1>3
<1>5. all[1] # NL /\ all[2] = NL /\ all[3] = NL
  <2>1. 0 \in 0..n - 1 /\ 3 * 0 + 1 = 1 /\ 3 * 0 + 2 = 2 /\ 3 * 0 + 3 = 3
    BY <1>4
  <2> QED
    BY <1>1, <2>1
<1>6. i # 1 /\ m >= 3
  BY <1>2, <1>3, <1>4, <1>5
<1>7. i = 2
  <2> SUFFICES ASSUME i > 2 PROVE FALSE
    BY <1>6
  <2>1. 2 \in 1..i - 1 /\ 2 \in 1..m /\ 3 \in 1..m /\ 2 + 1 = 3
    BY <1>6
  <2> QED
    BY <1>2, <1>3, <1>5, <2>1
<1>8. buffer[1] = token /\ buffer[2] = NL /\ buffer[3] = NL /\ token # NL /\ token \in Token
  <2>1. 1 \in 1..m /\ 2 \in 1..m /\ 3 \in 1..m
    BY <1>2, <1>6
  <2> QED
    BY <1>2, <1>5, <2>1, ElementOfSequence
<1> HIDE DEF token
<1>9. left \in Seq(Token) /\ Len(left) = m - 3 /\ \A p \in 1..m - 3 : left[p] = buffer[3 + p]
  <2>1. 4 \in Int /\ m \in Int /\ \A p \in 4..m : buffer[p] \in Token
    BY <1>2, ElementOfSequence
  <2>2. /\ left \in Seq(Token) /\ Len(left) = IF 4 <= m THEN m - 4 + 1 ELSE 0
        /\ \A p \in 1..m - 4 + 1 : left[p] = buffer[4 + p - 1]
    BY <2>1, SubSeqProperties
  <2> HIDE DEF left
  <2>3. Len(left) = m - 3 /\ m - 4 + 1 = m - 3
    <3>1. m \in Int /\ 3 =< m
      BY <1>2, <1>6
    <3>2. Len(left) = IF 4 <= m THEN m - 4 + 1 ELSE 0
      BY <2>2
    <3> HIDE DEF m
    <3>3. 4 <= m \/ m = 3
      BY <3>1
    <3> QED
      BY <3>1, <3>2, <3>3
  <2>4. \A p \in 1..m - 3 : 4 + p - 1 = 3 + p
    BY <1>2
  <2> QED
    BY <2>2, <2>3, <2>4
<1> HIDE DEF left, m
<1>10. SubSeq(buffer, 1, i - 1) = <<token>>
  <2>1. 1 \in 0..Len(buffer) /\ i - 1 = 1
    BY <1>2, <1>6, <1>7 DEF m
  <2>2. /\ SubSeq(buffer, 1, 1) \in Seq(Token) /\ Len(SubSeq(buffer, 1, 1)) = 1
        /\ SubSeq(buffer, 1, 1)[1] = buffer[1]
    BY <2>1, BeginningOfSequence
  <2>3. /\ <<token>> \in Seq(Token) /\ Len(<<token>>) = 1 /\ <<token>>[1] = token
    BY <1>8
  <2> QED
    <3>1. \A u, v \in Seq(Token) : Len(u) = 1 /\ Len(v) = 1 /\ u[1] = v[1] => u = v
      OBVIOUS
    <3>2. buffer[1] = token
      BY <1>8
    <3> QED
      BY <2>1, <2>2, <2>3, <3>1, <3>2
<1>11. buffer = Frame(token) \o left
  <2> DEFINE f == Frame(token)
             both == f \o left
  <2>1. f \in Seq(Token) /\ Len(f) = 3 /\ f[1] = token /\ f[2] = NL /\ f[3] = NL
    BY <1>8 DEF Frame, Token
  <2> HIDE DEF f
  <2>2. /\ both \in Seq(Token) /\ Len(both) = 3 + (m - 3)
        /\ \A p \in 1..3 : both[p] = f[p]
        /\ \A p \in 1..m - 3 : both[3 + p] = left[p]
    <3>1. /\ both \in Seq(Token) /\ Len(both) = Len(f) + Len(left)
          /\ \A p \in 1..Len(f) : both[p] = f[p]
          /\ \A p \in 1..Len(left) : both[Len(f) + p] = left[p]
      <4>1. f \in Seq(Token) /\ left \in Seq(Token)
        BY <1>9, <2>1
      <4> QED
        BY ONLY <4>1, ConcatOfSequences
    <3> HIDE DEF both
    <3>2. Len(f) = 3 /\ Len(left) = m - 3
      BY <1>9, <2>1
    <3> QED
      BY <3>1, <3>2
  <2> HIDE DEF both
  <2>3. Len(both) = Len(buffer)
    BY <1>2, <2>2 DEF m
  <2>4. ASSUME NEW p \in 1..Len(buffer) PROVE both[p] = buffer[p]
    <3>1. CASE p \in 1..3
      BY <1>8, <2>1, <2>2, <3>1
    <3>2. CASE p \notin 1..3
      <4>1. PICK q : q = p - 3
        OBVIOUS
      <4>2. q \in 1..m - 3 /\ 3 + q = p
        BY <1>2, <3>2, <4>1 DEF m
      <4> QED
        BY <1>9, <2>2, <4>2
    <3> QED
      BY <3>1, <3>2
  <2>5. both = buffer
    BY <2>2, <2>3, <2>4, SameSequence
  <2> QED
    BY <2>5 DEF both, f
<1>12. Framed(left \o rest)
  <2> DEFINE after == left \o rest
  <2>1. /\ Len(after) = (m - 3) + Len(rest)
        /\ \A p \in 1..m - 3 : after[p] = left[p]
        /\ \A p \in 1..Len(rest) : after[(m - 3) + p] = rest[p]
    <3>1. /\ Len(after) = Len(left) + Len(rest)
          /\ \A p \in 1..Len(left) : after[p] = left[p]
          /\ \A p \in 1..Len(rest) : after[Len(left) + p] = rest[p]
      <4>1. left \in Seq(Token)
        BY <1>9
      <4> QED
        BY ONLY <4>1, rest \in Seq(Token), ConcatOfSequences
    <3> HIDE DEF after
    <3>2. Len(left) = m - 3
      BY <1>9
    <3> QED
      BY <3>1, <3>2
  <2> HIDE DEF after
  <2>2. ASSUME NEW p \in 1..3 * n - 3, NEW q, q = p + 3 PROVE after[p] = all[q]
    <3>1. CASE p \in 1..m - 3
      <4>1. q = 3 + p /\ q \in 1..m
        BY <1>2, <2>2, <3>1
      <4> QED
        BY <1>2, <1>9, <2>1, <3>1, <4>1
    <3>2. CASE p \notin 1..m - 3
      <4>1. PICK r : r = p - (m - 3)
        OBVIOUS
      <4>2. r \in 1..Len(rest) /\ (m - 3) + r = p /\ m + r = q
        BY <1>1, <1>2, <1>6, <2>2, <3>2, <4>1
      <4> QED
        BY <1>2, <2>1, <4>2
    <3> QED
      BY <3>1, <3>2
  <2>3. ASSUME NEW j \in 0..(n - 1) - 1
        PROVE  after[3 * j + 1] # NL /\ after[3 * j + 2] = NL /\ after[3 * j + 3] = NL
    <3>1. /\ j + 1 \in 0..n - 1
          /\ 3 * j + 1 \in 1..3 * n - 3 /\ 3 * j + 2 \in 1..3 * n - 3 /\ 3 * j + 3 \in 1..3 * n - 3
          /\ 3 * (j + 1) + 1 = (3 * j + 1) + 3
          /\ 3 * (j + 1) + 2 = (3 * j + 2) + 3
          /\ 3 * (j + 1) + 3 = (3 * j + 3) + 3
      BY <1>4
    <3>2. PICK l : l = j + 1
      OBVIOUS
    <3>3. all[3 * l + 1] # NL /\ all[3 * l + 2] = NL /\ all[3 * l + 3] = NL
      BY <1>1, <3>1, <3>2
    <3>4. 3 * l + 1 = (3 * j + 1) + 3 /\ 3 * l + 2 = (3 * j + 2) + 3 /\ 3 * l + 3 = (3 * j + 3) + 3
      BY <3>1, <3>2
    <3>5. after[3 * j + 1] = all[3 * l + 1]
      BY <2>2, <3>1, <3>4
    <3>6. after[3 * j + 2] = all[3 * l + 2]
      BY <2>2, <3>1, <3>4
    <3>7. after[3 * j + 3] = all[3 * l + 3]
      BY <2>2, <3>1, <3>4
    <3> QED
      BY <3>3, <3>5, <3>6, <3>7
  <2>4. n - 1 \in Nat /\ Len(after) = 3 * (n - 1)
    <3>1. 3 * n = m + Len(rest) /\ m \in Nat /\ Len(rest) \in Nat
      BY <1>1, <1>2
    <3>2. Len(after) = (m - 3) + Len(rest)
      BY <2>1
    <3> QED
      BY <1>4, <3>1, <3>2
  <2>5. Framed(after)
    BY <2>3, <2>4 DEF Framed
  <2> QED
    BY <2>5 DEF after
<1>13. i + 2 = 4 /\ SubSeq(buffer, i + 2, Len(buffer)) = left
  BY <1>7 DEF left, m
<1> QED
  BY <1>8, <1>9, <1>10, <1>11, <1>12, <1>13 DEF FrameEnds

-----------------------------------------------------------------------------
(* Types *)

\* The tokens that are written.
LEMMA FramesTyped ==
    /\ StatusFrame \in Token /\ StatusFrame # NL /\ StatusFrame \notin Payloads
    /\ Frame(StatusFrame) \in Seq(Token)
    /\ \A payload \in Payloads :
         payload \in Token /\ payload # NL /\ Frame(payload) \in Seq(Token)
<1>1. StatusFrame \in Token /\ StatusFrame # NL /\ StatusFrame \notin Payloads
  BY StreamAssumption DEF StreamAssumption, Token
<1>2. \A payload \in Payloads : payload \in Token /\ payload # NL
  BY StreamAssumption DEF StreamAssumption, Token
<1> QED
  BY <1>1, <1>2, RecordsOfFrame

\* What a client has on the wire grows by a frame, for some.
LEMMA WireTyped ==
    ASSUME wire \in [Clients -> Seq(Token)], NEW frame \in Seq(Token), NEW some,
           wire' = [c \in Clients |-> IF c \in some THEN wire[c] \o frame ELSE wire[c]]
    PROVE  wire' \in [Clients -> Seq(Token)]
<1>1. ASSUME NEW c \in Clients PROVE wire[c] \o frame \in Seq(Token)
  BY ConcatOfSequences
<1> QED
  BY <1>1

\* A frame is taken off what has been read: what is left, and what it was about.
LEMMA DispatchTyped ==
    ASSUME NEW c \in Clients, watcher[c].buffer \in Seq(Token), NEW i \in 1..Len(watcher[c].buffer)
    PROVE  SubSeq(watcher[c].buffer, i + 2, Len(watcher[c].buffer)) \in Seq(Token)
<1> PICK buffer : buffer = watcher[c].buffer
  OBVIOUS
<1>1. buffer \in Seq(Token) /\ Len(buffer) \in Nat /\ i + 2 \in Int
  OBVIOUS
<1>2. \A p \in (i + 2)..Len(buffer) : buffer[p] \in Token
  BY <1>1, ElementOfSequence
<1> QED
  BY <1>1, <1>2, SubSeqProperties

\* The end of a connection.
LEMMA LeavesTyped ==
    ASSUME TypeOK, NEW c \in Clients, Leaves(c)
    PROVE  watcher' \in [Clients -> Watcher] /\ wire' \in [Clients -> Seq(Token)]
<1>1. watcher[c] \in Watcher /\ watcher \in [Clients -> Watcher] /\ <<>> \in Seq(Token)
  BY DEF TypeOK
<1>2. [watcher[c] EXCEPT !.pc = IF watcher[c].closed THEN "stopped" ELSE "waiting",
                         !.slot = NoSlot, !.buffer = <<>>] \in Watcher
  BY <1>1 DEF Watcher
<1>3. watcher' = [watcher EXCEPT ![c] =
        [watcher[c] EXCEPT !.pc = IF watcher[c].closed THEN "stopped" ELSE "waiting",
                           !.slot = NoSlot, !.buffer = <<>>]]
  BY <1>1 DEF Leaves, AfterTheEnd, BufferForNext
<1> QED
  BY <1>1, <1>2, <1>3 DEF Leaves, TypeOK

\* A step of the server keeps the types.
LEMMA ServerTyped ==
    ASSUME TypeOK, Server
    PROVE  /\ serving' \in BOOLEAN /\ closing' \in BOOLEAN
           /\ breaks' \in 0..MaxBreaks /\ beats' \in 0..MaxBeats
           /\ watcher' \in [Clients -> Watcher] /\ wire' \in [Clients -> Seq(Token)]
           /\ seen' \in [Clients -> Seq(Payloads)]
<1> DEFINE Goal == /\ serving' \in BOOLEAN /\ closing' \in BOOLEAN
                   /\ breaks' \in 0..MaxBreaks /\ beats' \in 0..MaxBeats
                   /\ watcher' \in [Clients -> Watcher] /\ wire' \in [Clients -> Seq(Token)]
                   /\ seen' \in [Clients -> Seq(Payloads)]
<1>1. /\ serving \in BOOLEAN /\ closing \in BOOLEAN
      /\ breaks \in 0..MaxBreaks /\ beats \in 0..MaxBeats
      /\ watcher \in [Clients -> Watcher] /\ wire \in [Clients -> Seq(Token)]
      /\ seen \in [Clients -> Seq(Payloads)] /\ <<>> \in Seq(Token) /\ <<>> \in Seq(Payloads)
      /\ MaxBreaks \in Nat /\ MaxBeats \in Nat
  BY StreamAssumption DEF StreamAssumption, TypeOK
<1>2. ASSUME NEW c \in Clients, NEW k \in Slots, Accept(c, k) PROVE Goal
  <2>1. watcher[c] \in Watcher
    BY <1>1
  <2>2. [watcher[c] EXCEPT !.pc = "reading", !.slot = k] \in Watcher
    BY <2>1 DEF Watcher
  <2>3. watcher' \in [Clients -> Watcher]
    BY <1>1, <1>2, <2>2 DEF Accept
  <2>4. wire' \in [Clients -> Seq(Token)]
    BY <1>1, <1>2, FramesTyped DEF Accept
  <2>5. seen' \in [Clients -> Seq(Payloads)]
    BY <1>1, <1>2 DEF Accept
  <2> QED
    BY <1>1, <1>2, <2>3, <2>4, <2>5 DEF Accept, processVars
<1>3. ASSUME NEW k \in Slots, Opens(k) PROVE Goal
  <2>1. wire' = [c \in Clients |-> IF c \in {d \in Clients : Reaches(d, k)}
                                   THEN wire[c] \o Frame(StatusFrame) ELSE wire[c]]
    BY <1>3 DEF Opens
  <2>2. wire' \in [Clients -> Seq(Token)]
    BY <1>1, <2>1, FramesTyped, WireTyped
  <2> QED
    BY <1>1, <1>3, <2>2 DEF Opens, processVars
<1>4. ASSUME NEW k \in Slots, ConnectionCloses(k) PROVE Goal
  BY <1>1, <1>4 DEF ConnectionCloses, processVars, clientVars
<1>5. ASSUME NEW k \in Slots, Heartbeat(k) PROVE Goal
  <2>1. wire' = [c \in Clients |-> IF c \in {d \in Clients : Reaches(d, k)}
                                   THEN wire[c] \o Frame(StatusFrame) ELSE wire[c]]
    BY <1>5 DEF Heartbeat
  <2>2. wire' \in [Clients -> Seq(Token)]
    BY <1>1, <2>1, FramesTyped, WireTyped
  <2>3. beats' \in 0..MaxBeats
    BY <1>1, <1>5 DEF Heartbeat
  <2> QED
    BY <1>1, <1>5, <2>2, <2>3 DEF Heartbeat, processVars
<1>6. ASSUME NEW payload \in Payloads, Emits(payload) PROVE Goal
  <2>1. wire' = [c \in Clients |->
                   IF c \in {d \in Clients : \E k \in Slots : conn[k].listening /\ Reaches(d, k)}
                   THEN wire[c] \o Frame(payload) ELSE wire[c]]
    BY <1>6 DEF Emits
  <2>2. wire' \in [Clients -> Seq(Token)]
    BY <1>1, <2>1, FramesTyped, WireTyped
  <2> QED
    BY <1>1, <1>6, <2>2 DEF Emits, processVars
<1>7. ASSUME Stops \/ Exits PROVE Goal
  <2>1. breaks' \in 0..MaxBreaks
    BY <1>1, <1>7 DEF Stops, Exits
  <2>2. Ends
    BY <1>7 DEF Stops, Exits
  <2>3. \A c \in Clients : [watcher[c] EXCEPT !.slot = NoSlot] \in Watcher
    BY <1>1 DEF Watcher
  <2>4. watcher' \in [Clients -> Watcher]
    BY <2>2, <2>3 DEF Ends
  <2> QED
    BY <1>1, <2>1, <2>2, <2>4 DEF Ends
<1>8. ASSUME Signal \/ Restarts PROVE Goal
  <2>1. UNCHANGED <<beats, watcher, wire, seen>>
    BY <1>8 DEF Signal, Restarts, clientVars
  <2>2. serving' \in BOOLEAN /\ closing' \in BOOLEAN
    BY <1>1, <1>8 DEF Signal, Restarts
  <2>3. breaks' \in 0..MaxBreaks
    BY <1>1, <1>8 DEF Signal, Restarts
  <2> QED
    BY <1>1, <2>1, <2>2, <2>3
<1> QED
  BY <1>2, <1>3, <1>4, <1>5, <1>6, <1>7, <1>8 DEF Server

\* So does a step of a client.
LEMMA ClientTyped ==
    ASSUME TypeOK, NEW c \in Clients, Loops(c) \/ Close(c) \/ Breaks(c)
    PROVE  /\ watcher' \in [Clients -> Watcher] /\ wire' \in [Clients -> Seq(Token)]
           /\ seen' \in [Clients -> Seq(Payloads)]
<1> DEFINE Goal == /\ watcher' \in [Clients -> Watcher] /\ wire' \in [Clients -> Seq(Token)]
                   /\ seen' \in [Clients -> Seq(Payloads)]
<1>1. /\ watcher \in [Clients -> Watcher] /\ wire \in [Clients -> Seq(Token)]
      /\ seen \in [Clients -> Seq(Payloads)] /\ <<>> \in Seq(Token)
      /\ watcher[c] \in Watcher /\ wire[c] \in Seq(Token) /\ seen[c] \in Seq(Payloads)
      /\ watcher[c].buffer \in Seq(Token)
  BY DEF TypeOK, Watcher
<1>2. CASE Chunk(c)
  <2>1. PICK n \in 1..Len(wire[c]) :
          /\ watcher' = [watcher EXCEPT ![c] =
               [watcher[c] EXCEPT !.pc = "dispatching",
                                  !.buffer = watcher[c].buffer \o SubSeq(wire[c], 1, n)]]
          /\ wire' = [wire EXCEPT ![c] = SubSeq(wire[c], n + 1, Len(wire[c]))]
    BY <1>1, <1>2 DEF Chunk
  <2>2. SubSeq(wire[c], 1, n) \in Seq(Token) /\ SubSeq(wire[c], n + 1, Len(wire[c])) \in Seq(Token)
    <3>1. n \in Int /\ n + 1 \in Int /\ Len(wire[c]) \in Int
      BY <1>1
    <3>2. \A p \in 1..n : wire[c][p] \in Token
      BY <1>1, ElementOfSequence
    <3>3. \A p \in (n + 1)..Len(wire[c]) : wire[c][p] \in Token
      BY <1>1, <3>1, ElementOfSequence
    <3> QED
      BY <3>1, <3>2, <3>3, SubSeqProperties
  <2>3. watcher[c].buffer \o SubSeq(wire[c], 1, n) \in Seq(Token)
    BY <1>1, <2>2, ConcatOfSequences
  <2>4. [watcher[c] EXCEPT !.pc = "dispatching",
                           !.buffer = watcher[c].buffer \o SubSeq(wire[c], 1, n)] \in Watcher
    BY <1>1, <2>3 DEF Watcher
  <2>5. watcher' \in [Clients -> Watcher]
    BY <1>1, <2>1, <2>4
  <2>6. wire' \in [Clients -> Seq(Token)]
    BY <1>1, <2>1, <2>2
  <2> QED
    BY <1>1, <1>2, <2>5, <2>6 DEF Chunk
<1>3. CASE Dispatch(c)
  <2>1. PICK i \in 1..Len(watcher[c].buffer) :
          LET left == SubSeq(watcher[c].buffer, i + 2, Len(watcher[c].buffer))
              frame == SubSeq(watcher[c].buffer, 1, i - 1)
          IN  /\ watcher' = [watcher EXCEPT ![c] =
                   [watcher[c] EXCEPT !.pc = "dispatching", !.buffer = left]]
              /\ seen' = [seen EXCEPT ![c] =
                   IF Len(frame) = 1 /\ frame[1] \in Payloads
                   THEN Append(seen[c], frame[1]) ELSE seen[c]]
    BY <1>1, <1>3 DEF Dispatch, AfterAFrame
  <2> PICK left : left = SubSeq(watcher[c].buffer, i + 2, Len(watcher[c].buffer))
    OBVIOUS
  <2>2. [watcher[c] EXCEPT !.pc = "dispatching", !.buffer = left] \in Watcher
    BY <1>1, DispatchTyped DEF Watcher
  <2>3. watcher' \in [Clients -> Watcher]
    BY <1>1, <2>1, <2>2
  <2>4. seen' \in [Clients -> Seq(Payloads)]
    BY <1>1, <2>1
  <2> QED
    BY <1>1, <1>3, <2>3, <2>4 DEF Dispatch
<1>4. CASE ReadOn(c)
  <2>1. CASE watcher[c].closed
    BY <1>1, <1>4, <2>1, LeavesTyped DEF ReadOn
  <2>2. CASE ~watcher[c].closed
    <3>1. [watcher[c] EXCEPT !.pc = "reading"] \in Watcher
      BY <1>1 DEF Watcher
    <3> QED
      BY <1>1, <1>4, <2>2, <3>1 DEF ReadOn
  <2> QED
    BY <2>1, <2>2
<1>5. CASE StreamEnds(c) \/ Refused(c)
  BY <1>1, <1>5, LeavesTyped DEF StreamEnds, Refused
<1>6. CASE Retries(c)
  <2>1. [watcher[c] EXCEPT !.pc = IF watcher[c].closed THEN "stopped" ELSE "connecting"] \in Watcher
    BY <1>1 DEF Watcher
  <2> QED
    BY <1>1, <1>6, <2>1 DEF Retries
<1>7. CASE Close(c)
  <2>1. [watcher[c] EXCEPT !.closed = TRUE, !.slot = NoSlot] \in Watcher
    BY <1>1 DEF Watcher
  <2> QED
    BY <1>1, <1>7, <2>1 DEF Close
<1>8. CASE Breaks(c)
  <2>1. [watcher[c] EXCEPT !.slot = NoSlot] \in Watcher
    BY <1>1 DEF Watcher
  <2> QED
    BY <1>1, <1>8, <2>1 DEF Breaks
<1> QED
  BY <1>2, <1>3, <1>4, <1>5, <1>6, <1>7, <1>8 DEF Loops

\* Every variable keeps its type.
THEOREM StreamTypeCorrect == Spec => []TypeOK
<1>1. Init => TypeOK
  <2> SUFFICES ASSUME Init PROVE TypeOK
    OBVIOUS
  <2>1. ConnectionsTyped
    BY StreamInvHolds DEF StreamInv
  <2>2. [pc |-> "connecting", closed |-> FALSE, slot |-> NoSlot, buffer |-> <<>>] \in Watcher
    BY DEF Watcher
  <2>3. /\ watcher \in [Clients -> Watcher] /\ wire \in [Clients -> Seq(Token)]
        /\ seen \in [Clients -> Seq(Payloads)]
    BY <2>2 DEF Init
  <2>4. serving \in BOOLEAN /\ closing \in BOOLEAN /\ breaks \in 0..MaxBreaks
        /\ beats \in 0..MaxBeats
    <3>1. serving = TRUE /\ closing = FALSE /\ breaks = 0 /\ beats = 0
      BY DEF Init
    <3>2. MaxBreaks \in Nat /\ MaxBeats \in Nat
      BY StreamAssumption DEF StreamAssumption
    <3>3. breaks \in 0..MaxBreaks /\ beats \in 0..MaxBeats
      BY <3>1, <3>2
    <3>4. serving \in BOOLEAN /\ closing \in BOOLEAN
      BY <3>1
    <3> QED
      BY <3>3, <3>4
  <2> QED
    BY <2>1, <2>3, <2>4 DEF TypeOK, ConnectionsTyped
<1>2. TypeOK /\ ConnectionsTyped' /\ [Next]_vars => TypeOK'
  <2> SUFFICES ASSUME TypeOK, ConnectionsTyped', [Next]_vars PROVE TypeOK'
    OBVIOUS
  <2>1. CASE Server
    BY <2>1, ServerTyped DEF TypeOK, ConnectionsTyped
  <2>2. ASSUME NEW c \in Clients, Loops(c) \/ Close(c) \/ Breaks(c) PROVE TypeOK'
    <3>1. /\ watcher' \in [Clients -> Watcher] /\ wire' \in [Clients -> Seq(Token)]
          /\ seen' \in [Clients -> Seq(Payloads)]
      BY <2>2, ClientTyped
    <3>2. UNCHANGED <<serving, closing, beats>>
      BY <2>2 DEF Loops, Chunk, Dispatch, ReadOn, StreamEnds, Refused, Retries, Close, Breaks,
                  serverVars, processVars
    <3>3. breaks' \in 0..MaxBreaks
      <4>1. CASE Breaks(c)
        BY <4>1, StreamAssumption DEF Breaks, TypeOK, StreamAssumption
      <4>2. CASE Loops(c) \/ Close(c)
        BY <4>2 DEF Loops, Chunk, Dispatch, ReadOn, StreamEnds, Refused, Retries, Close,
                    serverVars, processVars, TypeOK
      <4> QED
        BY <2>2, <4>1, <4>2
    <3> QED
      BY <3>1, <3>2, <3>3 DEF TypeOK, ConnectionsTyped
  <2>3. CASE UNCHANGED vars
    BY <2>3 DEF vars, serverVars, processVars, clientVars, TypeOK
  <2> QED
    BY <2>1, <2>2, <2>3 DEF Next
<1>3. StreamInv => ConnectionsTyped
  BY DEF StreamInv
<1> QED
  BY <1>1, <1>2, <1>3, StreamInvHolds, StreamStep, PTL DEF Spec

-----------------------------------------------------------------------------
(* What a connection has carried *)

\* Connection x, held by client c: the client has `buffer` and has handed over
\* `handed`, `tokens` are on the wire, and `history` is what the store has emitted.
Holds(x, c, buffer, tokens, handed, history) ==
    /\ x.client = c /\ x.live
    /\ x.from \in 0..Len(history)
    /\ Framed(buffer \o tokens)
    /\ \/ x.pc = "snapshot" /\ buffer = <<>> /\ tokens = <<>> /\ handed = <<>>
       \/ /\ x.pc = "open"
          /\ handed \o PayloadsIn(buffer) \o PayloadsIn(tokens)
               = SubSeq(history, x.from + 1, Len(history))

\* Brackets do not matter to payloads and tokens.
LEMMA Brackets ==
    /\ \A s, t, u \in Seq(Payloads) : (s \o t) \o u = s \o (t \o u)
    /\ \A s, t, u \in Seq(Token) : (s \o t) \o u = s \o (t \o u)
<1>1. ASSUME NEW S, NEW s \in Seq(S), NEW t \in Seq(S), NEW u \in Seq(S)
      PROVE  (s \o t) \o u = s \o (t \o u)
  BY <1>1, ConcatAssociative
<1>2. \A s, t, u \in Seq(Payloads) : (s \o t) \o u = s \o (t \o u)
  BY <1>1
<1>3. \A s, t, u \in Seq(Token) : (s \o t) \o u = s \o (t \o u)
  BY <1>1
<1> QED
  BY <1>2, <1>3

\* The end of a sequence grows with it.
LEMMA EndOfAppend ==
    ASSUME NEW S, NEW s \in Seq(S), NEW e \in S, NEW n \in 0..Len(s)
    PROVE  /\ SubSeq(s, n + 1, Len(s)) \in Seq(S)
           /\ SubSeq(Append(s, e), n + 1, Len(Append(s, e))) = Append(SubSeq(s, n + 1, Len(s)), e)
<1> DEFINE longer == Append(s, e)
           end == SubSeq(s, n + 1, Len(s))
           one == SubSeq(longer, n + 1, Len(s) + 1)
           two == Append(end, e)
<1>1. /\ longer \in Seq(S) /\ Len(s) \in Nat /\ Len(longer) = Len(s) + 1
      /\ \A i \in 1..Len(s) : longer[i] = s[i]
      /\ longer[Len(s) + 1] = e
  BY AppendToSequence
<1> HIDE DEF longer
<1>2. /\ end \in Seq(S) /\ Len(end) = Len(s) - n
      /\ \A i \in 1..Len(s) - n : end[i] = s[n + i]
  <2>1. n + 1 \in Int /\ Len(s) \in Int /\ \A i \in n + 1..Len(s) : s[i] \in S
    BY <1>1, ElementOfSequence
  <2>2. /\ end \in Seq(S) /\ Len(end) = IF n + 1 <= Len(s) THEN Len(s) - (n + 1) + 1 ELSE 0
        /\ \A i \in 1..Len(s) - (n + 1) + 1 : end[i] = s[n + 1 + i - 1]
    BY <2>1, SubSeqProperties
  <2> HIDE DEF end
  <2>3. Len(s) - (n + 1) + 1 = Len(s) - n /\ (n + 1 <= Len(s) \/ Len(s) - n = 0)
    BY <1>1
  <2>4. \A i \in 1..Len(s) - n : n + 1 + i - 1 = n + i
    OBVIOUS
  <2> QED
    BY <2>2, <2>3, <2>4
<1>3. /\ one \in Seq(S) /\ Len(one) = Len(s) + 1 - n
      /\ \A i \in 1..Len(s) + 1 - n : one[i] = longer[n + i]
  <2>1. n + 1 \in Int /\ Len(s) + 1 \in Int /\ \A i \in n + 1..Len(s) + 1 : longer[i] \in S
    BY <1>1, ElementOfSequence
  <2>2. /\ one \in Seq(S)
        /\ Len(one) = IF n + 1 <= Len(s) + 1 THEN Len(s) + 1 - (n + 1) + 1 ELSE 0
        /\ \A i \in 1..Len(s) + 1 - (n + 1) + 1 : one[i] = longer[n + 1 + i - 1]
    BY <2>1, SubSeqProperties
  <2> HIDE DEF one
  <2>3. Len(s) + 1 - (n + 1) + 1 = Len(s) + 1 - n /\ n + 1 <= Len(s) + 1
    BY <1>1
  <2>4. \A i \in 1..Len(s) + 1 - n : n + 1 + i - 1 = n + i
    OBVIOUS
  <2> QED
    BY <2>2, <2>3, <2>4
<1> HIDE DEF end, one
<1>4. /\ two \in Seq(S) /\ Len(two) = Len(end) + 1
      /\ \A i \in 1..Len(end) : two[i] = end[i]
      /\ two[Len(end) + 1] = e
  BY <1>2, AppendToSequence
<1> HIDE DEF two
<1>5. Len(one) = Len(two)
  BY <1>1, <1>2, <1>3, <1>4
<1>6. ASSUME NEW i \in 1..Len(one) PROVE one[i] = two[i]
  <2>1. CASE i \in 1..Len(end)
    <3>1. i \in 1..Len(s) - n /\ i \in 1..Len(s) + 1 - n /\ n + i \in 1..Len(s)
      BY <1>1, <1>2, <2>1
    <3> QED
      BY <1>1, <1>2, <1>3, <1>4, <2>1, <3>1
  <2>2. CASE i \notin 1..Len(end)
    <3>1. i = Len(end) + 1 /\ i \in 1..Len(s) + 1 - n /\ n + i = Len(s) + 1
      BY <1>1, <1>2, <1>3, <2>2
    <3> QED
      BY <1>1, <1>3, <1>4, <3>1
  <2> QED
    BY <2>1, <2>2
<1>7. one = two
  BY <1>3, <1>4, <1>5, <1>6, SameSequence
<1> QED
  BY <1>1, <1>2, <1>7 DEF one, two, longer, end

\* A payload goes to the client of an open connection.
LEMMA EmittedHolds ==
    ASSUME NEW x \in Connection, NEW c, NEW buffer \in Seq(Token), NEW tokens \in Seq(Token),
           NEW handed \in Seq(Payloads), NEW history \in Seq(Payloads),
           Holds(x, c, buffer, tokens, handed, history), x.pc = "open",
           NEW payload \in Payloads
    PROVE  Holds(x, c, buffer, tokens \o Frame(payload), handed, Append(history, payload))
<1> DEFINE frame == Frame(payload)
           b == PayloadsIn(buffer)
           t == PayloadsIn(tokens)
           end == SubSeq(history, x.from + 1, Len(history))
<1>1. /\ x.client = c /\ x.live /\ x.from \in 0..Len(history)
      /\ Framed(buffer \o tokens)
      /\ handed \o b \o t = end
  BY DEF Holds
<1>2. payload \in Token /\ payload # NL
  BY FramesTyped
<1>3. frame \in Seq(Token) /\ PayloadsIn(frame) = <<payload>>
  BY <1>2, RecordsOfFrame
<1> HIDE DEF frame
<1>4. b \in Seq(Payloads) /\ t \in Seq(Payloads) /\ PayloadsIn(tokens \o frame) = t \o <<payload>>
  BY <1>3, RecordsOfConcat
<1>5. x.from \in 0..Len(Append(history, payload))
  <2>1. Len(Append(history, payload)) = Len(history) + 1 /\ Len(history) \in Nat
    OBVIOUS
  <2> QED
    BY <1>1, <2>1
<1>6. Framed(buffer \o (tokens \o frame))
  <2>1. buffer \o tokens \in Seq(Token) /\ (buffer \o tokens) \o frame = buffer \o (tokens \o frame)
    BY <1>3, ConcatOfSequences, ConcatAssociative
  <2>2. Framed((buffer \o tokens) \o frame)
    BY <1>1, <1>2, <2>1, FrameJoins DEF frame
  <2> QED
    BY <2>1, <2>2
<1>7. handed \o b \o (t \o <<payload>>)
        = SubSeq(Append(history, payload), x.from + 1, Len(Append(history, payload)))
  <2> HIDE DEF b, t, end
  <2>1. handed \o b \in Seq(Payloads) /\ <<payload>> \in Seq(Payloads)
    BY <1>4, ConcatOfSequences
  <2>2. (handed \o b) \o (t \o <<payload>>) = ((handed \o b) \o t) \o <<payload>>
    <3>1. handed \o b \in Seq(Payloads) /\ t \in Seq(Payloads) /\ <<payload>> \in Seq(Payloads)
      BY <1>4, <2>1
    <3> QED
      BY ONLY <3>1, ConcatAssociative
  <2>3. end \in Seq(Payloads)
        /\ SubSeq(Append(history, payload), x.from + 1, Len(Append(history, payload)))
             = Append(end, payload)
    BY <1>1, EndOfAppend DEF end
  <2>4. Append(end, payload) = end \o <<payload>>
    BY <2>3, AppendIsConcat
  <2> QED
    BY <1>1, <2>2, <2>3, <2>4
<1> QED
  BY <1>1, <1>4, <1>5, <1>6, <1>7 DEF Holds, frame

\* It does not concern a client whose snapshot is awaited.
LEMMA AwaitedHolds ==
    ASSUME NEW x \in Connection, NEW c, NEW history \in Seq(Payloads), NEW buffer, NEW tokens,
           NEW handed, Holds(x, c, buffer, tokens, handed, history), x.pc = "snapshot",
           NEW payload \in Payloads
    PROVE  Holds(x, c, buffer, tokens, handed, Append(history, payload))
<1>1. Len(Append(history, payload)) = Len(history) + 1 /\ Len(history) \in Nat
  OBVIOUS
<1>2. x.from \in 0..Len(Append(history, payload))
  BY <1>1 DEF Holds
<1> QED
  BY <1>2 DEF Holds

\* A frame that is no payload: a heartbeat, or the first snapshot.
LEMMA StatusHolds ==
    ASSUME NEW x \in Connection, NEW c, NEW buffer \in Seq(Token), NEW tokens \in Seq(Token),
           NEW handed \in Seq(Payloads), NEW history \in Seq(Payloads),
           Holds(x, c, buffer, tokens, handed, history), x.pc = "open"
    PROVE  Holds(x, c, buffer, tokens \o Frame(StatusFrame), handed, history)
<1> DEFINE frame == Frame(StatusFrame)
           t == PayloadsIn(tokens)
<1>1. frame \in Seq(Token) /\ PayloadsIn(frame) = <<>>
  BY FramesTyped, RecordsOfFrame
<1> HIDE DEF frame
<1>2. PayloadsIn(tokens \o frame) = PayloadsIn(tokens)
  <2>1. t \in Seq(Payloads) /\ PayloadsIn(tokens \o frame) = t \o <<>>
    BY <1>1, RecordsOfConcat
  <2> HIDE DEF t
  <2>2. t \o <<>> = t
    BY <2>1, ConcatEmptySeq
  <2> QED
    BY <2>1, <2>2 DEF t
<1>3. Framed(buffer \o (tokens \o frame))
  <2>1. buffer \o tokens \in Seq(Token) /\ (buffer \o tokens) \o frame = buffer \o (tokens \o frame)
    BY <1>1, ConcatOfSequences, ConcatAssociative
  <2>2. Framed((buffer \o tokens) \o frame)
    BY <2>1, FramesTyped, FrameJoins DEF frame, Holds
  <2> QED
    BY <2>1, <2>2
<1> QED
  BY <1>2, <1>3 DEF Holds, frame

\* A connection that opens: with the request, or when its snapshot is there.
LEMMA OpenedHolds ==
    ASSUME NEW x \in Connection, NEW c, NEW history \in Seq(Payloads),
           x.client = c, x.live, x.pc = "open", x.from = Len(history)
    PROVE  Holds(x, c, <<>>, Frame(StatusFrame), <<>>, history)
<1> DEFINE frame == Frame(StatusFrame)
<1>1. frame \in Seq(Token) /\ PayloadsIn(frame) = <<>> /\ PayloadsIn(<<>>) = <<>>
  BY FramesTyped, RecordsOfFrame
<1>2. <<>> \in Seq(Token) /\ <<>> \in Seq(Payloads)
  OBVIOUS
<1> HIDE DEF frame
<1>3. <<>> \o frame = frame /\ Framed(<<>> \o frame)
  BY <1>1, <1>2, FramesTyped, NothingFramed, FrameJoins, ConcatEmptySeq DEF frame
<1>4. <<>> \o <<>> \o <<>> = <<>>
  BY <1>2, ConcatEmptySeq
<1>5. x.from \in 0..Len(history) /\ SubSeq(history, x.from + 1, Len(history)) = <<>>
  <2>1. Len(history) \in Nat /\ Len(history) < Len(history) + 1
    OBVIOUS
  <2> QED
    BY <2>1, SubSeqEmpty
<1> QED
  BY <1>1, <1>3, <1>4, <1>5 DEF Holds, frame

\* A chunk is read: it changes its place, and nothing else.
LEMMA ReadHolds ==
    ASSUME NEW x \in Connection, NEW c, NEW buffer \in Seq(Token), NEW tokens \in Seq(Token),
           NEW handed \in Seq(Payloads), NEW history \in Seq(Payloads),
           Holds(x, c, buffer, tokens, handed, history), NEW n \in 1..Len(tokens)
    PROVE  Holds(x, c, buffer \o SubSeq(tokens, 1, n), SubSeq(tokens, n + 1, Len(tokens)),
                 handed, history)
<1> DEFINE now == SubSeq(tokens, 1, n)
           later == SubSeq(tokens, n + 1, Len(tokens))
           b == PayloadsIn(buffer)
<1>1. now \in Seq(Token) /\ later \in Seq(Token)
  <2>1. n \in Int /\ n + 1 \in Int /\ 1 \in Int /\ Len(tokens) \in Int
    OBVIOUS
  <2>2. \A p \in 1..n : tokens[p] \in Token
    BY ElementOfSequence
  <2>3. \A p \in n + 1..Len(tokens) : tokens[p] \in Token
    BY <2>1, ElementOfSequence
  <2> QED
    BY <2>1, <2>2, <2>3, SubSeqProperties
<1>2. now \o later = tokens
  <2>1. /\ 1 \in 1..Len(tokens) + 1 /\ n \in 1 - 1..Len(tokens) /\ Len(tokens) \in n..Len(tokens)
    OBVIOUS
  <2>2. SubSeq(tokens, 1, Len(tokens)) = tokens
    BY SubSeqFull
  <2> QED
    BY <2>1, <2>2, ConcatAdjacentSubSeq
<1> HIDE DEF now, later
<1>3. (buffer \o now) \o later = buffer \o tokens
  <2>1. (buffer \o now) \o later = buffer \o (now \o later)
    BY <1>1, Brackets
  <2> QED
    BY <1>2, <2>1
<1>4. /\ PayloadsIn(buffer \o now) = b \o PayloadsIn(now)
      /\ PayloadsIn(tokens) = PayloadsIn(now) \o PayloadsIn(later)
      /\ b \in Seq(Payloads) /\ PayloadsIn(now) \in Seq(Payloads)
      /\ PayloadsIn(later) \in Seq(Payloads)
  BY <1>1, <1>2, RecordsOfConcat
<1>5. handed \o PayloadsIn(buffer \o now) \o PayloadsIn(later) = handed \o b \o PayloadsIn(tokens)
  <2> HIDE DEF b
  <2> PICK p, q : p = PayloadsIn(now) /\ q = PayloadsIn(later)
    OBVIOUS
  <2>1. p \in Seq(Payloads) /\ q \in Seq(Payloads) /\ b \in Seq(Payloads)
    BY <1>4
  <2>2. handed \o b \in Seq(Payloads)
    BY <2>1, ConcatOfSequences
  <2>3. handed \o (b \o p) = (handed \o b) \o p
    BY ONLY <2>1, handed \in Seq(Payloads), Brackets
  <2>4. ((handed \o b) \o p) \o q = (handed \o b) \o (p \o q)
    <3>1. \A s, t, u \in Seq(Payloads) : (s \o t) \o u = s \o (t \o u)
      BY Brackets
    <3>2. \A t, u \in Seq(Payloads) : ((handed \o b) \o t) \o u = (handed \o b) \o (t \o u)
      BY <2>2, <3>1
    <3> QED
      BY <2>1, <3>2
  <2> QED
    BY <1>4, <2>3, <2>4
<1>6. x.pc = "open"
  <2>1. tokens # <<>>
    OBVIOUS
  <2> QED
    BY <2>1 DEF Holds
<1> QED
  BY <1>3, <1>5, <1>6 DEF Holds, now, later

\* A frame is dispatched.
LEMMA DispatchedHolds ==
    ASSUME NEW x \in Connection, NEW c, NEW buffer \in Seq(Token), NEW tokens \in Seq(Token),
           NEW handed \in Seq(Payloads), NEW history \in Seq(Payloads),
           Holds(x, c, buffer, tokens, handed, history),
           NEW i \in 1..Len(buffer), BlankLineAt(buffer, i)
    PROVE  LET frame == SubSeq(buffer, 1, i - 1)
           IN  Holds(x, c, SubSeq(buffer, i + 2, Len(buffer)), tokens,
                     IF Len(frame) = 1 /\ frame[1] \in Payloads
                     THEN Append(handed, frame[1]) ELSE handed,
                     history)
<1>1. PICK token \in Token : \E left \in Seq(Token) :
        /\ token # NL
        /\ SubSeq(buffer, 1, i - 1) = <<token>>
        /\ SubSeq(buffer, i + 2, Len(buffer)) = left
        /\ buffer = Frame(token) \o left
        /\ Framed(left \o tokens)
  <2>1. Framed(buffer \o tokens)
    BY DEF Holds
  <2>2. FrameEnds(buffer, i, tokens)
    BY <2>1, FirstFrame
  <2> QED
    BY <2>2 DEF FrameEnds
<1>2. PICK left \in Seq(Token) :
        /\ token # NL
        /\ SubSeq(buffer, 1, i - 1) = <<token>>
        /\ SubSeq(buffer, i + 2, Len(buffer)) = left
        /\ buffer = Frame(token) \o left
        /\ Framed(left \o tokens)
  BY <1>1
<1> DEFINE one == IF token \in Payloads THEN <<token>> ELSE <<>>
           more == IF token \in Payloads THEN Append(handed, token) ELSE handed
           l == PayloadsIn(left)
           t == PayloadsIn(tokens)
<1>3. one \in Seq(Payloads) /\ more = handed \o one
  <2>1. CASE token \in Payloads
    <3>1. Append(handed, token) = handed \o <<token>>
      BY <2>1, AppendIsConcat
    <3> QED
      BY <2>1, <3>1
  <2>2. CASE token \notin Payloads
    BY <2>2, ConcatEmptySeq
  <2> QED
    BY <2>1, <2>2
<1>4. /\ PayloadsIn(buffer) = one \o l /\ l \in Seq(Payloads) /\ t \in Seq(Payloads)
  <2>1. Frame(token) \in Seq(Token) /\ PayloadsIn(Frame(token)) = one
    BY <1>2, RecordsOfFrame
  <2> QED
    BY <1>2, <2>1, RecordsOfConcat
<1> HIDE DEF one, l, t
<1>5. more \o l \o t = handed \o PayloadsIn(buffer) \o t
  <2>1. (handed \o one) \o l = handed \o (one \o l)
    <3>1. handed \in Seq(Payloads) /\ one \in Seq(Payloads) /\ l \in Seq(Payloads)
      BY <1>3, <1>4
    <3> QED
      BY <3>1, Brackets
  <2> QED
    BY <1>3, <1>4, <2>1
<1>6. x.pc = "open"
  <2>1. buffer # <<>>
    OBVIOUS
  <2> QED
    BY <2>1 DEF Holds
<1>7. Len(<<token>>) = 1 /\ <<token>>[1] = token
  OBVIOUS
<1> HIDE DEF more
<1>8. Holds(x, c, left, tokens, more, history)
  BY <1>2, <1>5, <1>6 DEF Holds, l, t
<1> QED
  BY <1>2, <1>7, <1>8 DEF more

-----------------------------------------------------------------------------
(* The stream of every client *)

\* Every connection that a client holds has carried what it should; and a client that
\* is between two connections has no part of a frame left.
FaithInv ==
    /\ \A c \in Clients, k \in Slots :
         Reaches(c, k) => Holds(conn[k], c, watcher[c].buffer, wire[c], seen[c], emitted)
    /\ \A c \in Clients :
         watcher[c].pc \notin {"reading", "dispatching"} => watcher[c].buffer = <<>>

\* Types of the parts.
LEMMA Parts ==
    ASSUME TypeOK
    PROVE  /\ emitted \in Seq(Payloads)
           /\ watcher \in [Clients -> Watcher] /\ wire \in [Clients -> Seq(Token)]
           /\ seen \in [Clients -> Seq(Payloads)] /\ conn \in [Slots -> Connection]
           /\ \A k \in Slots : conn[k] \in Connection /\ k # NoSlot
           /\ \A c \in Clients :
                /\ watcher[c] \in Watcher
                /\ watcher[c].buffer \in Seq(Token)
                /\ wire[c] \in Seq(Token)
                /\ seen[c] \in Seq(Payloads)
  BY StreamAssumption DEF StreamAssumption, TypeOK, Watcher

\* A step of client c to watcher w, with tokens on its wire and handed given to it, each
\* as it should be.
MovesTo(c, w, tokens, handed) ==
    /\ watcher' = [watcher EXCEPT ![c] = w]
    /\ wire' = [wire EXCEPT ![c] = tokens]
    /\ seen' = [seen EXCEPT ![c] = handed]
    /\ UNCHANGED <<conn, emitted>>
    /\ \A k \in Slots : w.slot = k => Holds(conn[k], c, w.buffer, tokens, handed, emitted)
    /\ w.pc \notin {"reading", "dispatching"} => w.buffer = <<>>

\* It is enough to look at the client that takes the step.
LEMMA OneClientMoves ==
    ASSUME TypeOK, FaithInv, NEW c \in Clients, NEW w, NEW tokens, NEW handed,
           MovesTo(c, w, tokens, handed)
    PROVE  FaithInv'
<1> USE DEF MovesTo
<1>1. /\ watcher'[c] = w /\ wire'[c] = tokens /\ seen'[c] = handed
      /\ \A d \in Clients : d # c =>
           watcher'[d] = watcher[d] /\ wire'[d] = wire[d] /\ seen'[d] = seen[d]
  BY Parts
<1>2. ASSUME NEW d \in Clients, NEW k \in Slots, Reaches(d, k)'
      PROVE  Holds(conn[k], d, watcher'[d].buffer, wire'[d], seen'[d], emitted)
  <2>1. watcher'[d].slot = k
    BY <1>2 DEF Reaches
  <2>2. CASE d = c
    BY <1>1, <2>1, <2>2
  <2>3. CASE d # c
    <3>1. Reaches(d, k)
      BY <1>1, <2>1, <2>3 DEF Reaches
    <3> QED
      BY <1>1, <2>3, <3>1 DEF FaithInv
  <2> QED
    BY <2>2, <2>3
<1>3. \A d \in Clients :
        watcher'[d].pc \notin {"reading", "dispatching"} => watcher'[d].buffer = <<>>
  BY <1>1 DEF FaithInv
<1> QED
  BY <1>2, <1>3 DEF FaithInv

\* A client is connected.
LEMMA AcceptIsFaithful ==
    ASSUME TypeOK, FaithInv, NEW c \in Clients, NEW k \in Slots, Accept(c, k)
    PROVE  FaithInv'
<1>1. PICK waits \in {FALSE, Cdci} :
        /\ conn' = [conn EXCEPT ![k] = [pc |-> IF waits THEN "snapshot" ELSE "open",
                                        client |-> c,
                                        live |-> TRUE,
                                        listening |-> ~waits,
                                        from |-> Len(emitted)]]
        /\ wire' = [wire EXCEPT ![c] = IF waits THEN <<>> ELSE Frame(StatusFrame)]
  BY DEF Accept
<1>2. /\ watcher' = [watcher EXCEPT ![c] = [watcher[c] EXCEPT !.pc = "reading", !.slot = k]]
      /\ seen' = [seen EXCEPT ![c] = <<>>]
      /\ emitted' = emitted
      /\ watcher[c].pc = "connecting" /\ conn[k] = Unused
  BY Parts DEF Accept
<1>3. watcher[c].buffer = <<>>
  BY <1>2 DEF FaithInv
<1>4. watcher'[c].pc = "reading" /\ watcher'[c].slot = k /\ watcher'[c].buffer = <<>>
  BY <1>2, <1>3, Parts DEF Watcher
<1>5. \A d \in Clients : d # c =>
        watcher'[d] = watcher[d] /\ wire'[d] = wire[d] /\ seen'[d] = seen[d]
  BY <1>1, <1>2, Parts
<1>6. \A j \in Slots : j # k => conn'[j] = conn[j]
  BY <1>1, Parts
<1>7. Holds(conn'[k], c, <<>>, wire'[c], <<>>, emitted)
  <2>1. emitted \in Seq(Payloads) /\ Len(emitted) \in Nat
    BY Parts
  <2>2. CASE waits = FALSE
    <3> PICK x : x = [pc |-> "open", client |-> c, live |-> TRUE, listening |-> TRUE,
                      from |-> Len(emitted)]
      OBVIOUS
    <3>1. conn'[k] = x /\ wire'[c] = Frame(StatusFrame)
      BY <1>1, <2>2, Parts
    <3>2. /\ x \in Connection
          /\ x.client = c /\ x.live /\ x.pc = "open" /\ x.from = Len(emitted)
      BY <2>1 DEF Connection
    <3> QED
      BY <2>1, <3>1, <3>2, OpenedHolds
  <2>3. CASE waits = TRUE
    <3> PICK x : x = [pc |-> "snapshot", client |-> c, live |-> TRUE, listening |-> FALSE,
                      from |-> Len(emitted)]
      OBVIOUS
    <3>1. conn'[k] = x /\ wire'[c] = <<>>
      BY <1>1, <2>3, Parts
    <3>2. /\ x.client = c /\ x.live /\ x.pc = "snapshot" /\ x.from \in 0..Len(emitted)
      BY <2>1
    <3>3. <<>> \o <<>> = <<>>
      OBVIOUS
    <3>4. Framed(<<>> \o <<>>)
      BY <3>3, NothingFramed
    <3> QED
      BY <3>1, <3>2, <3>4 DEF Holds
  <2> QED
    BY <2>2, <2>3, StreamAssumption DEF StreamAssumption
<1>8. ASSUME NEW d \in Clients, NEW j \in Slots, Reaches(d, j)'
      PROVE  Holds(conn'[j], d, watcher'[d].buffer, wire'[d], seen'[d], emitted')
  <2>1. watcher'[d].slot = j
    BY <1>8 DEF Reaches
  <2>2. CASE d = c
    <3>1. j = k /\ seen'[c] = <<>>
      BY <1>2, <1>4, <2>1, <2>2, Parts
    <3> QED
      BY <1>2, <1>4, <1>7, <2>2, <3>1
  <2>3. CASE d # c
    <3>1. Holds(conn[j], d, watcher[d].buffer, wire[d], seen[d], emitted)
      BY <1>5, <2>1, <2>3 DEF Reaches, FaithInv
    <3>2. j # k
      BY <1>2, <3>1 DEF Holds, Unused
    <3> QED
      BY <1>2, <1>5, <1>6, <2>3, <3>1, <3>2
  <2> QED
    BY <2>2, <2>3
<1>9. \A d \in Clients :
        watcher'[d].pc \notin {"reading", "dispatching"} => watcher'[d].buffer = <<>>
  BY <1>4, <1>5 DEF FaithInv
<1> QED
  BY <1>8, <1>9 DEF FaithInv

\* A step of the server that leaves every loop alone.
LEMMA ServerMoves ==
    ASSUME TypeOK, FaithInv, UNCHANGED watcher,
           \A c \in Clients, k \in Slots :
             /\ Reaches(c, k)
             /\ Holds(conn[k], c, watcher[c].buffer, wire[c], seen[c], emitted)
             => Holds(conn'[k], c, watcher[c].buffer, wire'[c], seen'[c], emitted')
    PROVE  FaithInv'
  BY DEF FaithInv, Reaches

\* The first snapshot is there.
LEMMA OpensIsFaithful ==
    ASSUME TypeOK, FaithInv, NEW k \in Slots, Opens(k)
    PROVE  FaithInv'
<1>1. /\ conn[k].pc = "snapshot" /\ UNCHANGED <<watcher, seen, emitted>>
      /\ conn' = [conn EXCEPT ![k] =
           [conn[k] EXCEPT !.pc = IF conn[k].live THEN "open" ELSE "orphaned",
                           !.listening = TRUE, !.from = Len(emitted)]]
      /\ \A c \in Clients :
           wire'[c] = IF watcher[c].slot = k THEN wire[c] \o Frame(StatusFrame) ELSE wire[c]
  BY Parts DEF Opens, Reaches
<1>2. ASSUME NEW c \in Clients, NEW j \in Slots, Reaches(c, j),
             Holds(conn[j], c, watcher[c].buffer, wire[c], seen[c], emitted)
      PROVE  Holds(conn'[j], c, watcher[c].buffer, wire'[c], seen[c], emitted)
  <2>1. watcher[c].slot = j
    BY <1>2 DEF Reaches
  <2>2. CASE j = k
    <3>1. /\ conn[k].client = c /\ conn[k].live
          /\ watcher[c].buffer = <<>> /\ wire[c] = <<>> /\ seen[c] = <<>>
      BY <1>1, <1>2, <2>2 DEF Holds
    <3> PICK x : x = [conn[k] EXCEPT !.pc = "open", !.listening = TRUE, !.from = Len(emitted)]
      OBVIOUS
    <3>2. conn'[k] = x
      BY <1>1, <3>1, Parts
    <3>3. /\ x \in Connection
          /\ x.client = c /\ x.live /\ x.pc = "open" /\ x.from = Len(emitted)
      <4>1. conn[k] \in Connection /\ Len(emitted) \in Nat
        BY Parts
      <4> QED
        BY <3>1, <4>1 DEF Connection
    <3>4. wire'[c] = Frame(StatusFrame)
      <4>1. wire'[c] = <<>> \o Frame(StatusFrame)
        BY <1>1, <2>1, <2>2, <3>1
      <4>2. <<>> \o Frame(StatusFrame) = Frame(StatusFrame)
        BY FramesTyped, ConcatEmptySeq
      <4> QED
        BY <4>1, <4>2
    <3>5. emitted \in Seq(Payloads)
      BY Parts
    <3>6. Holds(x, c, <<>>, Frame(StatusFrame), <<>>, emitted)
      BY ONLY <3>3, <3>5, OpenedHolds
    <3> QED
      BY <2>2, <3>1, <3>2, <3>4, <3>6
  <2>3. CASE j # k
    <3>1. conn'[j] = conn[j] /\ wire'[c] = wire[c]
      BY <1>1, <2>1, <2>3, Parts
    <3> QED
      BY <1>2, <3>1
  <2> QED
    BY <2>2, <2>3
<1> QED
  BY <1>1, <1>2, ServerMoves

\* A closed connection is noticed: nobody holds it.
LEMMA ClosedIsFaithful ==
    ASSUME TypeOK, FaithInv, NEW k \in Slots, ConnectionCloses(k)
    PROVE  FaithInv'
<1>1. /\ ~Reaches(conn[k].client, k) /\ UNCHANGED <<watcher, wire, seen, emitted>>
      /\ \A j \in Slots : j # k => conn'[j] = conn[j]
  BY Parts DEF ConnectionCloses, clientVars
<1>2. ASSUME NEW c \in Clients, NEW j \in Slots, Reaches(c, j),
             Holds(conn[j], c, watcher[c].buffer, wire[c], seen[c], emitted)
      PROVE  Holds(conn'[j], c, watcher[c].buffer, wire[c], seen[c], emitted)
  <2>1. j # k
    BY <1>1, <1>2 DEF Holds
  <2> QED
    BY <1>1, <1>2, <2>1
<1> QED
  BY <1>1, <1>2, ServerMoves

\* A heartbeat.
LEMMA HeartbeatIsFaithful ==
    ASSUME TypeOK, StreamInv, FaithInv, NEW k \in Slots, Heartbeat(k)
    PROVE  FaithInv'
<1>1. /\ conn[k].listening /\ UNCHANGED <<watcher, seen, emitted, conn>>
      /\ \A c \in Clients :
           wire'[c] = IF watcher[c].slot = k THEN wire[c] \o Frame(StatusFrame) ELSE wire[c]
  BY Parts DEF Heartbeat, Reaches
<1>2. conn[k].pc # "snapshot"
  BY <1>1 DEF StreamInv, ListenersFollowConnections
<1>3. ASSUME NEW c \in Clients, NEW j \in Slots, Reaches(c, j),
             Holds(conn[j], c, watcher[c].buffer, wire[c], seen[c], emitted)
      PROVE  Holds(conn[j], c, watcher[c].buffer, wire'[c], seen[c], emitted)
  <2>1. watcher[c].slot = j
    BY <1>3 DEF Reaches
  <2>2. CASE j = k
    <3>1. conn[j].pc = "open"
      BY <1>2, <1>3, <2>2 DEF Holds
    <3>2. wire'[c] = wire[c] \o Frame(StatusFrame)
      BY <1>1, <2>1, <2>2
    <3>3. /\ conn[j] \in Connection /\ watcher[c].buffer \in Seq(Token) /\ wire[c] \in Seq(Token)
          /\ seen[c] \in Seq(Payloads) /\ emitted \in Seq(Payloads)
      BY Parts
    <3> QED
      BY <1>3, <3>1, <3>2, <3>3, StatusHolds
  <2>3. CASE j # k
    <3>1. wire'[c] = wire[c]
      BY <1>1, <2>1, <2>3
    <3> QED
      BY <1>3, <3>1
  <2> QED
    BY <2>2, <2>3
<1> QED
  BY <1>1, <1>3, ServerMoves

\* A payload is emitted: it goes to those who listen, which are those who are open.
LEMMA EmitsIsFaithful ==
    ASSUME TypeOK, StreamInv, FaithInv, NEW payload \in Payloads, Emits(payload)
    PROVE  FaithInv'
<1>1. /\ UNCHANGED <<watcher, seen, conn>> /\ emitted' = Append(emitted, payload)
      /\ \A c \in Clients :
           wire'[c] = IF \E k \in Slots : conn[k].listening /\ watcher[c].slot = k
                      THEN wire[c] \o Frame(payload) ELSE wire[c]
  BY Parts DEF Emits, Reaches
<1>2. ASSUME NEW c \in Clients, NEW j \in Slots, Reaches(c, j),
             Holds(conn[j], c, watcher[c].buffer, wire[c], seen[c], emitted)
      PROVE  Holds(conn[j], c, watcher[c].buffer, wire'[c], seen[c], emitted')
  <2>1. watcher[c].slot = j
    BY <1>2 DEF Reaches
  <2>2. /\ conn[j] \in Connection /\ watcher[c].buffer \in Seq(Token) /\ wire[c] \in Seq(Token)
        /\ seen[c] \in Seq(Payloads) /\ emitted \in Seq(Payloads)
    BY Parts
  <2>3. CASE conn[j].pc = "open"
    <3>1. conn[j].listening
      BY <2>3 DEF StreamInv, ListenersFollowConnections
    <3>2. wire'[c] = wire[c] \o Frame(payload)
      BY <1>1, <2>1, <3>1
    <3> QED
      BY <1>1, <1>2, <2>2, <2>3, <3>2, EmittedHolds
  <2>4. CASE conn[j].pc = "snapshot"
    <3>1. ~conn[j].listening
      BY <2>4 DEF StreamInv, ListenersFollowConnections
    <3>2. wire'[c] = wire[c]
      BY <1>1, <2>1, <3>1
    <3> QED
      BY <1>1, <1>2, <2>2, <2>4, <3>2, AwaitedHolds
  <2> QED
    BY <1>2, <2>3, <2>4 DEF Holds
<1> QED
  BY <1>1, <1>2, ServerMoves

\* The process ends, and every connection with it.
LEMMA EndsIsFaithful ==
    ASSUME TypeOK, FaithInv, Ends
    PROVE  FaithInv'
<1>1. \A c \in Clients : /\ watcher'[c].slot = NoSlot
                         /\ watcher'[c].pc = watcher[c].pc
                         /\ watcher'[c].buffer = watcher[c].buffer
  <2>1. ASSUME NEW c \in Clients
        PROVE  /\ [watcher[c] EXCEPT !.slot = NoSlot].slot = NoSlot
               /\ [watcher[c] EXCEPT !.slot = NoSlot].pc = watcher[c].pc
               /\ [watcher[c] EXCEPT !.slot = NoSlot].buffer = watcher[c].buffer
    BY Parts DEF Watcher
  <2>2. \A c \in Clients : watcher'[c] = [watcher[c] EXCEPT !.slot = NoSlot]
    BY DEF Ends
  <2> QED
    BY <2>1, <2>2
<1>2. \A c \in Clients, k \in Slots : ~Reaches(c, k)'
  BY <1>1, Parts DEF Reaches
<1> QED
  BY <1>1, <1>2 DEF FaithInv

\* The end of a connection, as the client has it.
LEMMA LeavesIsFaithful ==
    ASSUME TypeOK, FaithInv, NEW c \in Clients, Leaves(c), UNCHANGED <<conn, emitted, seen>>
    PROVE  FaithInv'
<1> PICK w : w = [watcher[c] EXCEPT !.pc = IF watcher[c].closed THEN "stopped" ELSE "waiting",
                                    !.slot = NoSlot, !.buffer = <<>>]
  OBVIOUS
<1>1. /\ watcher' = [watcher EXCEPT ![c] = w] /\ wire' = [wire EXCEPT ![c] = <<>>]
      /\ seen' = [seen EXCEPT ![c] = seen[c]]
  BY Parts DEF Leaves, AfterTheEnd, BufferForNext
<1>2. w.slot = NoSlot /\ w.buffer = <<>>
  BY Parts DEF Watcher
<1>3. MovesTo(c, w, <<>>, seen[c])
  BY <1>1, <1>2, Parts DEF MovesTo
<1> QED
  BY <1>3, OneClientMoves

\* A step of the loop of watch(), a close or a break.
LEMMA ClientIsFaithful ==
    ASSUME TypeOK, FaithInv, NEW c \in Clients, Loops(c) \/ Close(c) \/ Breaks(c)
    PROVE  FaithInv'
<1>1. /\ watcher \in [Clients -> Watcher] /\ wire \in [Clients -> Seq(Token)]
      /\ seen \in [Clients -> Seq(Payloads)] /\ emitted \in Seq(Payloads)
      /\ watcher[c] \in Watcher /\ wire[c] \in Seq(Token) /\ seen[c] \in Seq(Payloads)
      /\ watcher[c].buffer \in Seq(Token) /\ \A k \in Slots : conn[k] \in Connection
      /\ \A k \in Slots : k # NoSlot
  BY Parts
<1>2. \A k \in Slots : watcher[c].slot = k =>
        Holds(conn[k], c, watcher[c].buffer, wire[c], seen[c], emitted)
  BY DEF FaithInv, Reaches
<1>3. UNCHANGED <<conn, emitted>>
  BY DEF Loops, Chunk, Dispatch, ReadOn, StreamEnds, Refused, Retries, Close, Breaks, serverVars
<1>4. /\ wire = [wire EXCEPT ![c] = wire[c]] /\ seen = [seen EXCEPT ![c] = seen[c]]
  BY <1>1
<1>5. CASE Chunk(c)
  <2>1. PICK n \in 1..Len(wire[c]) :
          /\ watcher' = [watcher EXCEPT ![c] =
               [watcher[c] EXCEPT !.pc = "dispatching",
                                  !.buffer = watcher[c].buffer \o SubSeq(wire[c], 1, n)]]
          /\ wire' = [wire EXCEPT ![c] = SubSeq(wire[c], n + 1, Len(wire[c]))]
    BY <1>1, <1>5 DEF Chunk
  <2> PICK read : read = watcher[c].buffer \o SubSeq(wire[c], 1, n)
    OBVIOUS
  <2> PICK left : left = SubSeq(wire[c], n + 1, Len(wire[c]))
    OBVIOUS
  <2> PICK w : w = [watcher[c] EXCEPT !.pc = "dispatching", !.buffer = read]
    OBVIOUS
  <2>2. watcher' = [watcher EXCEPT ![c] = w] /\ wire' = [wire EXCEPT ![c] = left]
    BY <2>1
  <2>3. w.slot = watcher[c].slot /\ w.buffer = read /\ w.pc = "dispatching"
    BY <1>1 DEF Watcher
  <2>4. ASSUME NEW k \in Slots, w.slot = k
        PROVE  Holds(conn[k], c, w.buffer, left, seen[c], emitted)
    <3>1. Holds(conn[k], c, watcher[c].buffer, wire[c], seen[c], emitted)
      BY <1>2, <2>3, <2>4
    <3>2. conn[k] \in Connection
      BY <1>1
    <3>3. Holds(conn[k], c, read, left, seen[c], emitted)
      BY <1>1, <3>1, <3>2, ReadHolds
    <3> QED
      BY <2>3, <3>3
  <2>5. seen' = [seen EXCEPT ![c] = seen[c]]
    BY <1>4, <1>5 DEF Chunk
  <2>6. MovesTo(c, w, left, seen[c])
    BY <1>3, <2>2, <2>3, <2>4, <2>5 DEF MovesTo
  <2> QED
    BY <2>6, OneClientMoves
<1>6. CASE Dispatch(c)
  <2>1. PICK i \in 1..Len(watcher[c].buffer) :
          /\ BlankLineAt(watcher[c].buffer, i)
          /\ LET left == SubSeq(watcher[c].buffer, i + 2, Len(watcher[c].buffer))
                 frame == SubSeq(watcher[c].buffer, 1, i - 1)
             IN  /\ watcher' = [watcher EXCEPT ![c] =
                      [watcher[c] EXCEPT !.pc = "dispatching", !.buffer = left]]
                 /\ seen' = [seen EXCEPT ![c] =
                      IF Len(frame) = 1 /\ frame[1] \in Payloads
                      THEN Append(seen[c], frame[1]) ELSE seen[c]]
    BY <1>1, <1>6 DEF Dispatch, AfterAFrame
  <2> PICK left : left = SubSeq(watcher[c].buffer, i + 2, Len(watcher[c].buffer))
    OBVIOUS
  <2> PICK frame : frame = SubSeq(watcher[c].buffer, 1, i - 1)
    OBVIOUS
  <2> PICK handed : handed = IF Len(frame) = 1 /\ frame[1] \in Payloads
                             THEN Append(seen[c], frame[1]) ELSE seen[c]
    OBVIOUS
  <2> PICK w : w = [watcher[c] EXCEPT !.pc = "dispatching", !.buffer = left]
    OBVIOUS
  <2>2. watcher' = [watcher EXCEPT ![c] = w] /\ seen' = [seen EXCEPT ![c] = handed]
    BY <2>1
  <2>3. w.slot = watcher[c].slot /\ w.buffer = left /\ w.pc = "dispatching"
    BY <1>1 DEF Watcher
  <2>4. ASSUME NEW k \in Slots, w.slot = k
        PROVE  Holds(conn[k], c, w.buffer, wire[c], handed, emitted)
    <3>1. Holds(conn[k], c, watcher[c].buffer, wire[c], seen[c], emitted)
      BY <1>2, <2>3, <2>4
    <3>2. conn[k] \in Connection /\ BlankLineAt(watcher[c].buffer, i)
      BY <1>1, <2>1
    <3>3. Holds(conn[k], c, left, wire[c], handed, emitted)
      BY <1>1, <3>1, <3>2, DispatchedHolds
    <3> QED
      BY <2>3, <3>3
  <2>5. wire' = [wire EXCEPT ![c] = wire[c]]
    BY <1>4, <1>6 DEF Dispatch
  <2>6. MovesTo(c, w, wire[c], handed)
    BY <1>3, <2>2, <2>3, <2>4, <2>5 DEF MovesTo
  <2> QED
    BY <2>6, OneClientMoves
<1>7. CASE ReadOn(c) \/ StreamEnds(c) \/ Refused(c)
  <2>1. UNCHANGED seen
    BY <1>7 DEF ReadOn, StreamEnds, Refused
  <2>2. CASE Leaves(c)
    BY <1>3, <2>1, <2>2, LeavesIsFaithful
  <2>3. CASE ~Leaves(c)
    <3> PICK w : w = [watcher[c] EXCEPT !.pc = "reading"]
      OBVIOUS
    <3>1. watcher' = [watcher EXCEPT ![c] = w] /\ wire' = wire
      BY <1>7, <2>3 DEF ReadOn, StreamEnds, Refused
    <3>2. w.slot = watcher[c].slot /\ w.buffer = watcher[c].buffer /\ w.pc = "reading"
      BY <1>1 DEF Watcher
    <3>3. MovesTo(c, w, wire[c], seen[c])
      BY <1>2, <1>3, <1>4, <2>1, <3>1, <3>2 DEF MovesTo
    <3> QED
      BY <3>3, OneClientMoves
  <2> QED
    BY <2>2, <2>3
<1>8. CASE Retries(c)
  <2> PICK w : w = [watcher[c] EXCEPT !.pc = IF watcher[c].closed THEN "stopped"
                                                                  ELSE "connecting"]
    OBVIOUS
  <2>1. watcher' = [watcher EXCEPT ![c] = w] /\ UNCHANGED <<wire, seen>>
        /\ watcher[c].pc = "waiting"
    BY <1>8 DEF Retries
  <2>2. w.slot = watcher[c].slot /\ w.buffer = watcher[c].buffer
    BY <1>1 DEF Watcher
  <2>3. w.buffer = <<>>
    BY <2>1, <2>2 DEF FaithInv
  <2>4. MovesTo(c, w, wire[c], seen[c])
    BY <1>2, <1>3, <1>4, <2>1, <2>2, <2>3 DEF MovesTo
  <2> QED
    BY <2>4, OneClientMoves
<1>9. CASE Close(c)
  <2> PICK w : w = [watcher[c] EXCEPT !.closed = TRUE, !.slot = NoSlot]
    OBVIOUS
  <2>1. watcher' = [watcher EXCEPT ![c] = w] /\ wire' = [wire EXCEPT ![c] = <<>>] /\ seen' = seen
    BY <1>9 DEF Close
  <2>2. w.slot = NoSlot /\ w.buffer = watcher[c].buffer /\ w.pc = watcher[c].pc
    BY <1>1 DEF Watcher
  <2>3. w.pc \notin {"reading", "dispatching"} => w.buffer = <<>>
    BY <2>2 DEF FaithInv
  <2>4. \A k \in Slots : w.slot # k
    BY <1>1, <2>2
  <2>5. MovesTo(c, w, <<>>, seen[c])
    BY <1>3, <1>4, <2>1, <2>3, <2>4 DEF MovesTo
  <2> QED
    BY <2>5, OneClientMoves
<1>10. CASE Breaks(c)
  <2> PICK w : w = [watcher[c] EXCEPT !.slot = NoSlot]
    OBVIOUS
  <2>1. watcher' = [watcher EXCEPT ![c] = w] /\ wire' = [wire EXCEPT ![c] = <<>>] /\ seen' = seen
    BY <1>10 DEF Breaks
  <2>2. w.slot = NoSlot /\ w.buffer = watcher[c].buffer /\ w.pc = watcher[c].pc
    BY <1>1 DEF Watcher
  <2>3. w.pc \notin {"reading", "dispatching"} => w.buffer = <<>>
    BY <2>2 DEF FaithInv
  <2>4. \A k \in Slots : w.slot # k
    BY <1>1, <2>2
  <2>5. MovesTo(c, w, <<>>, seen[c])
    BY <1>3, <1>4, <2>1, <2>3, <2>4 DEF MovesTo
  <2> QED
    BY <2>5, OneClientMoves
<1> QED
  BY <1>5, <1>6, <1>7, <1>8, <1>9, <1>10 DEF Loops

\* Every connection of every client is faithful in every state.
THEOREM FaithInvariant == Spec => []FaithInv
<1>1. Init => FaithInv
  <2> SUFFICES ASSUME Init PROVE FaithInv
    OBVIOUS
  <2>1. \A c \in Clients : watcher[c].slot = NoSlot /\ watcher[c].buffer = <<>>
    BY DEF Init
  <2> QED
    BY <2>1, StreamAssumption DEF StreamAssumption, FaithInv, Reaches
<1>2. TypeOK /\ StreamInv /\ FaithInv /\ [Next]_vars => FaithInv'
  <2> SUFFICES ASSUME TypeOK, StreamInv, FaithInv, [Next]_vars PROVE FaithInv'
    OBVIOUS
  <2>1. ASSUME NEW c \in Clients, NEW k \in Slots, Accept(c, k) PROVE FaithInv'
    BY <2>1, AcceptIsFaithful
  <2>2. ASSUME NEW k \in Slots, Opens(k) \/ ConnectionCloses(k) \/ Heartbeat(k) PROVE FaithInv'
    BY <2>2, OpensIsFaithful, ClosedIsFaithful, HeartbeatIsFaithful
  <2>3. ASSUME NEW payload \in Payloads, Emits(payload) PROVE FaithInv'
    BY <2>3, EmitsIsFaithful
  <2>4. CASE Stops \/ Exits
    BY <2>4, EndsIsFaithful DEF Stops, Exits
  <2>5. CASE Signal \/ Restarts \/ UNCHANGED vars
    <3>1. UNCHANGED <<emitted, conn, watcher, wire, seen>>
      BY <2>5 DEF Signal, Restarts, vars, serverVars, clientVars
    <3> QED
      BY <3>1 DEF FaithInv, Reaches
  <2>6. ASSUME NEW c \in Clients, Loops(c) \/ Close(c) \/ Breaks(c) PROVE FaithInv'
    BY <2>6, ClientIsFaithful
  <2> QED
    BY <2>1, <2>2, <2>3, <2>4, <2>5, <2>6 DEF Next, Server
<1> QED
  BY <1>1, <1>2, StreamInvHolds, StreamStep, StreamTypeCorrect, PTL DEF Spec

(***************************************************************************)
(* A watcher is given what the store emits, from the moment its connection *)
(* opens, in order, once, wherever chunks end and whatever heartbeats,     *)
(* breaks and restarts come in between.                                    *)
(***************************************************************************)
THEOREM StreamsAreFaithful == Spec => []StreamIsFaithful
<1>1. FaithInv => StreamIsFaithful
  BY DEF FaithInv, Holds, StreamIsFaithful
<1> QED
  BY <1>1, FaithInvariant, PTL
=============================================================================
