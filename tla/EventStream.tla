------------------------------ MODULE EventStream ------------------------------
(***************************************************************************)
(* The live stream: GET /api/v1/stream of src/src/http/api.js, which turns *)
(* the store's "record" and "block" events into server-sent events, and    *)
(* watch() of src/sdk/src/client.js at the other end, which cuts the bytes *)
(* it reads into frames and connects again until it is closed.             *)
(*                                                                         *)
(* A frame "event: ...\ndata: ...\n\n" is three tokens: what it says, and  *)
(* two newlines.  The network hands the client chunks that end anywhere.   *)
(***************************************************************************)
EXTENDS Naturals, Sequences, SequencesExt

CONSTANTS
    Clients,          \* SDK clients that call watch()
    Payloads,         \* records and, on the local backend, blocks: what events carry
    Slots,            \* bound: connections the server holds at a time
    Cdci,             \* the CDCI backend: the node may have to be asked, anchors change
    MaxEvents,        \* bound: the store's events in one behaviour
    MaxBeats,         \* bound: heartbeats in one behaviour
    MaxBreaks,        \* bound: connections that break and times the explorer stops
    NoSlot, NL, StatusFrame

ASSUME StreamAssumption ==
    /\ Cdci \in BOOLEAN
    /\ MaxEvents \in Nat
    /\ MaxBeats \in Nat
    /\ MaxBreaks \in Nat
    /\ NoSlot \notin Slots
    /\ NL # StatusFrame
    /\ NL \notin Payloads
    /\ StatusFrame \notin Payloads

VARIABLES
    emitted,          \* the payloads of the store's events, in order
    serving,          \* the process is up
    closing,          \* it has had a signal: server.close() waits for connections
    breaks,           \* broken connections, signals and stops so far
    beats,
    conn,             \* conn[k]: a stream request, as the server sees it
    watcher,          \* watcher[c]: the loop of watch()
    wire,             \* wire[c]: written to its connection, not yet read
    seen              \* seen[c]: handed to onRecord and onBlock on this connection

processVars == <<serving, closing, breaks>>
serverVars == <<emitted, processVars, beats, conn>>
clientVars == <<watcher, wire, seen>>
vars == <<serverVars, clientVars>>

Unused == [pc |-> "unused", client |-> NoSlot, live |-> FALSE, listening |-> FALSE, from |-> 0]

\* What goes over a connection.
Token == Payloads \cup {StatusFrame, NL}

\* A connection waits for its first snapshot, then it is open; "orphaned" if its
\* client had left by then.
Connection ==
    [pc : {"unused", "snapshot", "open", "orphaned"}, client : Clients \cup {NoSlot},
     live : BOOLEAN, listening : BOOLEAN, from : Nat]

\* "connecting": fetch().  "reading": reader.read().  "dispatching": a chunk is
\* cut into frames.  "waiting": reconnectMs.  "stopped": the loop returned.
Watcher ==
    [pc : {"connecting", "reading", "dispatching", "waiting", "stopped"},
     closed : BOOLEAN, slot : Slots \cup {NoSlot},
     buffer : Seq(Token)]

Init ==
    /\ emitted = <<>>
    /\ serving = TRUE
    /\ closing = FALSE
    /\ breaks = 0
    /\ beats = 0
    /\ conn = [k \in Slots |-> Unused]
    /\ watcher = [c \in Clients |->
                    [pc |-> "connecting", closed |-> FALSE, slot |-> NoSlot, buffer |-> <<>>]]
    /\ wire = [c \in Clients |-> <<>>]
    /\ seen = [c \in Clients |-> <<>>]

-----------------------------------------------------------------------------
(* The server *)

Frame(event) == <<event, NL, NL>>

\* write(): what goes to connection k reaches the client that still holds it.
Reaches(c, k) == watcher[c].slot = k

\* The explorer takes connections.
Takes == serving /\ ~closing

\* GET /api/v1/stream: the head is written and the snapshot asked for.  On the local
\* backend, and from the cache, it is there before anything else happens.
Accept(c, k) ==
    /\ Takes
    /\ watcher[c].pc = "connecting"
    /\ ~watcher[c].closed
    /\ conn[k] = Unused
    /\ \E waits \in {FALSE, Cdci} :
         /\ conn' = [conn EXCEPT ![k] = [pc |-> IF waits THEN "snapshot" ELSE "open",
                                         client |-> c,
                                         live |-> TRUE,
                                         listening |-> ~waits,
                                         from |-> Len(emitted)]]
         /\ wire' = [wire EXCEPT ![c] = IF waits THEN <<>> ELSE Frame(StatusFrame)]
    /\ watcher' = [watcher EXCEPT ![c] = [@ EXCEPT !.pc = "reading", !.slot = k]]
    /\ seen' = [seen EXCEPT ![c] = <<>>]
    /\ UNCHANGED <<emitted, processVars, beats>>

\* The snapshot is there: it is written and the listeners are registered, whether
\* or not the client has left meanwhile.
Opens(k) ==
    /\ conn[k].pc = "snapshot"
    /\ conn' = [conn EXCEPT ![k] = [@ EXCEPT !.pc = IF conn[k].live THEN "open" ELSE "orphaned",
                                             !.listening = TRUE,
                                             !.from = Len(emitted)]]
    /\ wire' = [c \in Clients |->
                  IF Reaches(c, k) THEN wire[c] \o Frame(StatusFrame) ELSE wire[c]]
    /\ UNCHANGED <<emitted, processVars, beats, watcher, seen>>

\* Wrong on purpose: the listeners stay on the store.
CleanUpHeartbeatOnly(connection) == [connection EXCEPT !.live = FALSE]

\* cleanup(): nothing of the connection is left.
CleanUp(connection) == Unused

\* The "close" events of request and response.  Before the listeners are
\* registered, cleanup() is not registered either.
ConnectionCloses(k) ==
    /\ conn[k].live
    /\ ~Reaches(conn[k].client, k)
    /\ conn' = [conn EXCEPT ![k] = IF conn[k].pc = "open" THEN CleanUp(conn[k])
                                                         ELSE [@ EXCEPT !.live = FALSE]]
    /\ UNCHANGED <<emitted, processVars, beats, clientVars>>

\* store.emit: addRecord has indexed a record, addBlock a block that was sealed, or, on
\* CDCI, updateRecord has changed the anchor of a record: its event comes once more.
Emits(payload) ==
    /\ serving
    /\ Len(emitted) < MaxEvents
    /\ Contains(emitted, payload) => Cdci
    /\ emitted' = Append(emitted, payload)
    /\ wire' = [c \in Clients |->
                  IF \E k \in Slots : conn[k].listening /\ Reaches(c, k)
                  THEN wire[c] \o Frame(payload)
                  ELSE wire[c]]
    /\ UNCHANGED <<processVars, beats, conn, watcher, seen>>

Heartbeat(k) ==
    /\ conn[k].listening
    /\ beats < MaxBeats
    /\ beats' = beats + 1
    /\ wire' = [c \in Clients |->
                  IF Reaches(c, k) THEN wire[c] \o Frame(StatusFrame) ELSE wire[c]]
    /\ UNCHANGED <<emitted, processVars, conn, watcher, seen>>

\* The process ends; its sockets with it.
Ends ==
    /\ serving' = FALSE
    /\ closing' = FALSE
    /\ conn' = [k \in Slots |-> Unused]
    /\ watcher' = [c \in Clients |-> [watcher[c] EXCEPT !.slot = NoSlot]]
    /\ UNCHANGED <<emitted, beats, wire, seen>>

\* It is killed, dies, or has a second signal.
Stops ==
    /\ serving
    /\ breaks < MaxBreaks
    /\ breaks' = breaks + 1
    /\ Ends

\* A signal: nothing is accepted any more, but open streams go on.
Signal ==
    /\ Takes
    /\ breaks < MaxBreaks
    /\ breaks' = breaks + 1
    /\ closing' = TRUE
    /\ UNCHANGED <<emitted, serving, beats, conn, clientVars>>

\* Wrong on purpose: a connection counts as long as the store has its listeners.
HoldsListeners(k) == conn[k].listening

\* server.close() waits for this connection.
StillOpen(k) == conn[k].live

\* The last connection is gone: flush, and exit.
Exits ==
    /\ closing
    /\ \A k \in Slots : ~StillOpen(k)
    /\ UNCHANGED breaks
    /\ Ends

Restarts ==
    /\ ~serving
    /\ serving' = TRUE
    /\ UNCHANGED <<emitted, closing, breaks, beats, conn, clientVars>>

-----------------------------------------------------------------------------
(* The client: watch() *)

\* The first blank line in what has been read: where a frame ends.
BlankLineAt(buffer, i) ==
    /\ i < Len(buffer)
    /\ buffer[i] = NL
    /\ buffer[i + 1] = NL
    /\ \A j \in 1..i - 1 : ~(buffer[j] = NL /\ buffer[j + 1] = NL)

HasFrame(buffer) == \E i \in 1..Len(buffer) : BlankLineAt(buffer, i)

\* Wrong on purpose: what is left of a frame is kept for the next connection.
BufferKept(buffer) == buffer

\* Wrong on purpose: the next connection starts with no buffer at all.
BufferDropped(buffer) == NoSlot

\* `buffer` is declared anew for each connection.
BufferForNext(buffer) == <<>>

\* Wrong on purpose: a stream that ends ends the loop.
StopsAtTheEnd == "stopped"

\* A stream that ends, or fails, is opened again after reconnectMs.
AfterTheEnd == "waiting"

\* Wrong on purpose: one frame of each chunk is dispatched.
OneFrameOfAChunk == "reading"

\* The loop over the frames goes on after each.
AfterAFrame == "dispatching"

Chunk(c) ==
    /\ watcher[c].pc = "reading"
    /\ \E n \in 1..Len(wire[c]) :
         /\ watcher' = [watcher EXCEPT ![c] =
                          [@ EXCEPT !.pc = "dispatching",
                                    !.buffer = watcher[c].buffer \o SubSeq(wire[c], 1, n)]]
         /\ wire' = [wire EXCEPT ![c] = SubSeq(@, n + 1, Len(@))]
    /\ UNCHANGED <<serverVars, seen>>

\* One turn of the loop over the frames; also for a watcher that was closed by
\* its own handler.
Dispatch(c) ==
    /\ watcher[c].pc = "dispatching"
    /\ \E i \in 1..Len(watcher[c].buffer) :
         /\ BlankLineAt(watcher[c].buffer, i)
         /\ LET buffer == watcher[c].buffer
                frame == SubSeq(buffer, 1, i - 1)
            IN  /\ watcher' = [watcher EXCEPT ![c] =
                                 [@ EXCEPT !.pc = AfterAFrame,
                                           !.buffer = SubSeq(buffer, i + 2, Len(buffer))]]
                /\ seen' = [seen EXCEPT ![c] =
                              IF Len(frame) = 1 /\ frame[1] \in Payloads
                              THEN Append(@, frame[1]) ELSE @]
    /\ UNCHANGED <<serverVars, wire>>

\* The end of a connection: the loop returns, or goes round.
Leaves(c) ==
    /\ watcher' = [watcher EXCEPT ![c] =
                     [@ EXCEPT !.pc = IF watcher[c].closed THEN "stopped" ELSE AfterTheEnd,
                               !.slot = NoSlot,
                               !.buffer = BufferForNext(@)]]
    /\ wire' = [wire EXCEPT ![c] = <<>>]

\* No frame is left in the buffer: read on.
ReadOn(c) ==
    /\ watcher[c].pc = "dispatching"
    /\ ~HasFrame(watcher[c].buffer)
    /\ IF watcher[c].closed
       THEN Leaves(c)
       ELSE /\ watcher' = [watcher EXCEPT ![c].pc = "reading"]
            /\ UNCHANGED wire
    /\ UNCHANGED <<serverVars, seen>>

\* read() says done, or throws.
StreamEnds(c) ==
    /\ watcher[c].pc = "reading"
    /\ watcher[c].slot = NoSlot
    /\ Leaves(c)
    /\ UNCHANGED <<serverVars, seen>>

\* fetch() throws: nobody takes the connection, or the watcher was closed.
Refused(c) ==
    /\ watcher[c].pc = "connecting"
    /\ ~Takes \/ watcher[c].closed
    /\ Leaves(c)
    /\ UNCHANGED <<serverVars, seen>>

Retries(c) ==
    /\ watcher[c].pc = "waiting"
    /\ watcher' = [watcher EXCEPT ![c].pc = IF watcher[c].closed THEN "stopped" ELSE "connecting"]
    /\ UNCHANGED <<serverVars, wire, seen>>

\* handle.close(), at any time, from a handler too.
Close(c) ==
    /\ ~watcher[c].closed
    /\ watcher' = [watcher EXCEPT ![c] = [@ EXCEPT !.closed = TRUE, !.slot = NoSlot]]
    /\ wire' = [wire EXCEPT ![c] = <<>>]
    /\ UNCHANGED <<serverVars, seen>>

\* The network breaks the connection; the server may notice late.
Breaks(c) ==
    /\ watcher[c].slot # NoSlot
    /\ breaks < MaxBreaks
    /\ breaks' = breaks + 1
    /\ watcher' = [watcher EXCEPT ![c].slot = NoSlot]
    /\ wire' = [wire EXCEPT ![c] = <<>>]
    /\ UNCHANGED <<emitted, serving, closing, beats, conn, seen>>

-----------------------------------------------------------------------------
Server ==
    \/ \E c \in Clients, k \in Slots : Accept(c, k)
    \/ \E k \in Slots : Opens(k) \/ ConnectionCloses(k) \/ Heartbeat(k)
    \/ \E payload \in Payloads : Emits(payload)
    \/ Stops
    \/ Signal
    \/ Exits
    \/ Restarts

\* What the loop of watch() does by itself.
Loops(c) == Chunk(c) \/ Dispatch(c) \/ ReadOn(c) \/ StreamEnds(c) \/ Refused(c) \/ Retries(c)

Next == Server \/ \E c \in Clients : Loops(c) \/ Close(c) \/ Breaks(c)

Spec == Init /\ [][Next]_vars

(***************************************************************************)
(* Fairness: promises that settle resume the loop, the timer of            *)
(* reconnectMs fires, a serving explorer takes connections, its snapshot   *)
(* arrives (info() answers or times out), a closed socket is noticed, and  *)
(* server.close() calls back when the last one is.                         *)
(***************************************************************************)
Fairness ==
    /\ \A c \in Clients : WF_vars(Loops(c)) /\ WF_vars(\E k \in Slots : Accept(c, k))
    /\ \A k \in Slots : WF_vars(Opens(k)) /\ WF_vars(ConnectionCloses(k))
    /\ WF_vars(Exits)

FairSpec == Spec /\ Fairness

-----------------------------------------------------------------------------
(* Properties *)

\* The type of every variable.
TypeOK ==
    /\ emitted \in Seq(Payloads)
    /\ serving \in BOOLEAN
    /\ closing \in BOOLEAN
    /\ breaks \in 0..MaxBreaks
    /\ beats \in 0..MaxBeats
    /\ conn \in [Slots -> Connection]
    /\ watcher \in [Clients -> Watcher]
    /\ wire \in [Clients -> Seq(Token)]
    /\ seen \in [Clients -> Seq(Payloads)]

\* The payloads among tokens: SelectSeq, unfolded for the sake of the proofs.
PayloadsIn(tokens) ==
    LET kept[n \in 0..Len(tokens)] ==
          IF n = 0 THEN <<>>
          ELSE IF tokens[n] \in Payloads THEN Append(kept[n - 1], tokens[n]) ELSE kept[n - 1]
    IN  kept[Len(tokens)]

(***************************************************************************)
(* What the handlers have been given on a connection, with what is in the  *)
(* buffer and on the wire, is what the store emitted since the connection  *)
(* opened: nothing lost, doubled, glued or out of order, wherever chunks   *)
(* end, whatever the heartbeats put in between, and nothing of an earlier  *)
(* connection.                                                             *)
(***************************************************************************)
StreamIsFaithful ==
    \A c \in Clients, k \in Slots :
      Reaches(c, k) /\ conn[k].pc = "open" =>
        seen[c] \o PayloadsIn(watcher[c].buffer) \o PayloadsIn(wire[c])
          = SubSeq(emitted, conn[k].from + 1, Len(emitted))

(***************************************************************************)
(* The store has a listener for every connection that is open, and none    *)
(* for one whose end the server has noticed - but for the connections that *)
(* ended while their first snapshot was awaited: cleanup() is registered   *)
(* after it, so their listeners stay until the process ends.  With an      *)
(* immediate snapshot there are none of those.                             *)
(***************************************************************************)
ListenersFollowConnections ==
    \A k \in Slots :
      /\ conn[k].pc = "open" => conn[k].listening /\ conn[k].live
      /\ conn[k].pc \in {"unused", "snapshot"} => ~conn[k].listening
      /\ conn[k].pc = "orphaned" => Cdci

Connected(c) == watcher[c].slot # NoSlot

\* "The stream reconnects on its own until closed" (client.js): as long as the
\* explorer takes connections, a watcher is connected again and again, or closed.
WatchReconnects ==
    \A c \in Clients : <>[]Takes => []<>(Connected(c) \/ watcher[c].closed)

\* A connected watcher does not sit on an event: it has handed over all of its
\* connection, time and again, or lost the connection.
WatchCatchesUp ==
    \A c \in Clients :
      []<>(Connected(c) => PayloadsIn(watcher[c].buffer \o wire[c]) = <<>>)

(***************************************************************************)
(* A shutdown waits for streams that are open and for nothing else: once   *)
(* every watcher has been closed it ends, although a stream whose client   *)
(* left before its first snapshot keeps its listeners.                     *)
(***************************************************************************)
ShutdownEnds == closing /\ (\A c \in Clients : watcher[c].closed) ~> ~closing
=============================================================================
