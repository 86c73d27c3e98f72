# ChatScan: formal models

TLA+ models of the ChatScan message explorer, checked with TLC, and theorems
about them checked with TLAPS. ChatScan is one Node.js process: clients submit
*message records* (digests of end-to-end encrypted messages, never content),
the process indexes them, and either seals them into blocks of its own (the
`local` backend) or follows the confirmation of an anchor transaction on the
CDCI chain (the `cdci` backend). Everything it knows is in memory and in one
append-only file, which it replays when it starts.

Paths below are relative to the repository root; the comments of the modules and
`PROJECT.json` name the same files with the checkout directory, `src/`, in front.

## 1. Inventory of the system

| Part | State | Operations | What is hard about it |
|---|---|---|---|
| **Message records** `src/core/records.js` | one record: ID-number, hash, status, block fields, anchor | `createRecord`, `applyAnchor`, `formatRef`, `normalizeSubmission` | an anchor moves back and forth between pending and confirmed, and leaves its block fields behind |
| **Chain log** `src/store/chain-log.js` | the file; a promise queue of writes | `append`, `read`, `flush` | writes fail with a warning, break off in the middle of a line, or die with the process |
| **Store** `src/store/store.js` | `records`, `recordsByRef`, `recordsByCiphertext`, `blocks`, `nextRecordId` | `replay`, `reserveRecordId`, `addRecord`, `updateRecord`, `addBlock`, `mempool`, `unsettledAnchors`, queries; emits `record`, `block` | the counter, the key index and every record must come back from a log that may have lost its end |
| **Admission** `src/core/chain.js` `submit` | none of its own | policy checks, ID-number, *await* the node, index, answer | handlers of several requests interleave at the await |
| **Sealer / local chain** `src/core/chain.js` | none of its own (the store's blocks) | `ensureGenesis`, `sealBlock`, the interval | two events in one step, a crash between their two lines, a clock that is set back |
| **Anchor watcher** `src/chain/anchor-watcher.js` | a timer, one tick in progress | `tick`: re-check the oldest unsettled anchors one by one | compares a reply with a record after an await; a batch bound; reorganisations in between |
| **CDCI facade** `src/chain/cdci.js`, `commitment.js` | none | `verifyAnchor`, `finalityOf`, `info`, `listBlocks`, `getBlock`, `publishAnchor` | several RPC calls make one answer |
| **Chain service** `src/chain/service.js` | `chainInfo` cache, the request in flight | delegation, the cache | age of what is cached |
| **RPC client** `src/chain/cdci-rpc.js` | request counter | `call`, `batch`, timeouts | pairing of replies and calls |
| **HTTP API, event stream** `src/http/api.js` | per stream: listeners and a heartbeat | `POST /records`, reads, search, `GET /stream` | listeners are registered after an await; clients leave at any time |
| **SDK** `sdk/src/*` | per `watch()`: loop and buffer | `send`, `submit`, `watch`, wallet, encryption | frames cut by chunks, reconnecting, an anchor paid before the submission |
| **Rate limiter** `src/http/rate-limit.js` | windows per client | `take` | fixed windows, eviction |
| **Process** `src/index.js` | phase of its life | start, signals, `server.close`, flush, exit | shutdown against suspended handlers; a second signal |
| **CDCI daemon** (external) | mempool, active chain, ChainLock | mines, reorganises, evicts, goes away | it does all this between any two steps of ChatScan |
| **Request checks** `src/http/server.js`, `router.js`, `respond.js`, `records.js` | none | routing, key, limiter, body, `normalizeSubmission` | which check answers, and what a client makes of the answer |
| **Pages** `src/http/pages.js` | none | home, list, block, record and search pages | like the API, but tolerant of a failing node; blocks and figures are fetched side by side or one after the other |
| Views, static files, config, X11, merkle, network snapshot, utilities, scripts | - | formatting, parsing, hashing | pure |

How they interact. `createApp` replays the log into the store, the
`ChainService` constructor builds the node (and its genesis block when local)
and `start` sets the sealer's or the watcher's interval. A `POST /records`
runs `submit`, which calls the store, which appends to the log *without
waiting* and emits an event; the open streams write that event to their
clients. The watcher calls `verifyAnchor` and `updateRecord`, which appends and
emits likewise. The only shared state is the store and the log's queue, and
JavaScript runs one piece of code at a time between two awaits: an action of the
models is such a piece.

What makes each part correct is stated as the properties of section 4; the
hazards they are for are listed, each at its line, under `hazards` in
`PROJECT.json`.

## 2. Modules

```
Records      CdciNode       ChainLog        DurableHistory
    \          /  \             |   \              |
     CdciChain    |           Store  ChainLogHistory
           \      |          /    \                |
            Explorer --------      LocalChain -----+      EventStream
            /     \                   |
    MCExplorer     \              MCLocalChain
                    \
     Ingest ------- Sending ------ RateLimiter      CdciNode  CdciRpc  Queries
   Commitment ------/  |                                 \       |       /
                   MCSending                              --- ChainReads
                                                                 |
                                                            MCChainReads

LogLemmas <- ExplorerProofs (Explorer), ChainLogProofs (ChainLogHistory),
             LocalChainProofs (LocalChain), EventStreamProofs (EventStream),
             ChainReadsProofs (ChainReads)
ExplorerProofs, RateLimiterProofs (RateLimiter) <- SendingProofs (Sending)
```

| Module | Models | Correspondence |
|---|---|---|
| `Records` | `records.js`, reasons of `chain.js`, `finalityOf` | a record is a record; a ciphertext digest with its nonce is one value (`key`), the commitment another. `Ref` is `<<receivedAt, id>>`: the hash in a reference covers `receivedAt`, and two records that got the same ID-number did so in different runs, so `receivedAt` is the number of the run. |
| `CdciNode` | the daemon (external) | written from what `cdci.js` reads of it and what `test/support/cdci-stub.js` imitates; blocks are named by the order they were mined in |
| `CdciChain` | `verifyAnchor`, `absentAnchor` | the reply is computed when the *node* evaluates the call; the caller gets it in a later step |
| `ChainLog` | `chain-log.js` | `queue` is the promise chain; `file` holds the events of the lines that parse, `tail` how the file ends (newline, part of a line, whole line without newline), `corrupt` that an earlier line does not parse. `read()` throws when `~Readable`. |
| `ChainLogHistory` | the log alone | events are numbered by their `append()`; with variables for what was handed over and what was written |
| `DurableHistory` | abstract | a history with a durable prefix: accept at the end, endure from the front, a crash keeps the prefix |
| `Store` | `store.js`, with the log inside | `order` is `records`, `recs` is `recordsByRef`, `keys` is the key set of `recordsByCiphertext`; also the process phases that start, replay and kill it |
| `Explorer` | the node on `cdci`: `submit`, watcher, shutdown, composed with `Store` and `CdciNode` | `tasks[r]` is a suspended handler with the locals it holds over its await; `watch` a tick in progress; `phase`, `signals`, `flushLeft` the shutdown |
| `LocalChain` | the node on `local`, composed with `Store` | no await in `submit`, so a submission with the block it seals is one action with two log lines |
| `EventStream` | `GET /stream` and `watch()` | `conn[k]` is a request as the server sees it, `watcher[c]` the loop with its buffer, `wire[c]` bytes in transit. A frame is three tokens (payload, newline, newline), and chunks end between any two. A payload is what an event carries: a record, or on the local backend a sealed block; both travel alike. |
| `CdciRpc` | `cdci-rpc.js` | what a batch comes to, given the entries of its reply in the order they arrived; how a failure looks further up |
| `Queries` | the store's queries, paging and clamping of `api.js` | a 64-digit hash is a pair of what it is the hash of and a number, so that one kind is never taken for another; `SearchLimit` is the 50 of `search()` |
| `ChainReads` | reads: lists, blocks, search and the walk through `records`, over `service.js` and `cdci.js`, with the `chainInfo` cache | `reads[r]` is a handler suspended on a batch, `entries` what the node has replied to so far; `cache` and `inFlight` are the fields of `ChainService`; the node evaluates each call in a step of its own. A page that ends with an error gives up its figures (`EndsWithError`), and the error page asks for its own (`AsksForCard`) |
| `Ingest` | the checks of `POST /records` in their order, `errors.js` of the SDK | a request is the set of checks it does not pass; the first one answers. `ErrorFromResponse` is `errorFromResponse`: without a body that can be read the explorer's code is replaced by `http_<status>` |
| `RateLimiter` | `rate-limit.js` | `buckets` is the map; `latest` is a history variable |
| `Commitment` | the preimage of the anchor commitment, as client and explorer derive it | a text is what it spells and in which case |
| `Sending` | `ChatSession.send` and the wallet in front of `Explorer`, `Ingest` and `RateLimiter` | `sends[m]` is how far the last attempt to send a message has come; attempt `<<m, n>>` is also the request, the ciphertext and the transaction that come with it. `errors[m]` is the refusal on its way, then what the app was told: a refusal and its reply are two steps, and the reply may be lost (`TimesOut`), cut (`ReadsRefusal`) or, if it is a success, cut as well (`BodyIsCut`) |
| `MCExplorer`, `MCLocalChain`, `MCChainReads`, `MCSending` | small instances | the submissions and what each transaction carries; what clients ask; what a submission may get wrong |
| `LogLemmas`, `ChainLogProofs`, `ExplorerProofs`, `LocalChainProofs`, `RateLimiterProofs`, `SendingProofs`, `EventStreamProofs`, `ChainReadsProofs` | proofs | section 5 |

Definitions marked *wrong on purpose* are variants that a plausible bug would
give. No specification uses them; each property is known to fail when one
of them takes the place of the definition it stands next to (`mutants` in
`PROJECT.json`).

Choices a reader should know of:

- The response of `submit` does not wait for the log, as in the code. What a
  crash may lose is therefore lost in the model too.
- Where one write has failed, log and index differ for good and the code says so
  with a warning only. Properties that relate log and index assume `faults = 0`
  and say so (all of `LocalChain` but its types and `AdmittedOnce`: a line that is
  missing from the middle leaves a gap in the chain after the next restart); those that do not depend on it (`IdNamesOneRecord`,
  `AnswersStand`, `AdmittedOnce` of LocalChain, the two log properties) do not assume it.
- A key is freed only by a rejection, and the index's map from key to record is
  modelled by its key set: `submit` only asks whether the key is there.
- A tick of the watcher that is still running when the next is due is skipped
  by the code; `Tick` needs `watch.todo = {}`.
- `server.close()` in `Explorer` waits for submissions that still have their
  client, in `EventStream` for streams that are open; each has its own copy of the
  signal, as the two do not influence each other but through this wait.
- The nonce search and X11 are a fresh value per header (`minted`).
- `ChainReads` has a *workload* chosen at the start: which requests are
  made, which records arrive meanwhile, how many blocks are mined. One
  constant with four small workloads keeps the combinations that cannot
  influence each other out of one state space.
- A node that is down is, to a handler that reads, a call that fails: `CallFails`
  is enabled whenever a call is out, so `ChainReads` has no outages of its own.
- `getblock` answers for every block the node ever had, also one of an abandoned
  branch, as a daemon's block index does; `getblockhash` only for the active chain.
- In `Sending` the wallet's four calls are two steps, before and after the node
  takes the transaction: only the last one has an effect outside the wallet.
- `Sending` keeps the watcher and the shutdown of `Explorer` still: they are
  checked by the runs of `Explorer`. Requests are lost while the process has not
  started, on their way, or on their way back.

## 3. Abstract specification

`DurableHistory` is what persistence promises. `ChainLogProofs` proves that the
log implements it while no write fails; `local_chain` checks and `LocalChainProofs`
proves it for the whole local node (`KeepsDurableHistory`), where the durable prefix must
also survive replay, genesis and the two-line step of a sealing submission.

`RateLimiter` and `Explorer` are themselves what the composition `Sending` must
implement: the one lets any client ask at any time, the other lets any request
arrive at any time and the node do what it likes. `SendingProofs` proves that every step of
the composition is a step of each or leaves it alone, so whatever is proved of either
holds in the composition.

## 4. Runs

All runs say `CHECK_DEADLOCK FALSE`: the process may exit for good, and bounded
inputs (requests, blocks, faults, stops) run out.

| Run | Bounds | Shows |
|---|---|---|
| `chain_log` | 6 appends, 3 faults, any deaths | what can be read back is in accept order; a log that can be read has silently lost nothing that was written. Three faults are enough for a torn line, a line glued to it and a torn line behind that. |
| `explorer_crash` | 2 requests with one ciphertext, 1 mined block, 1 failed write, 2 stops | ID-numbers stay unique over the await and over restarts; the log rebuilds the served index; answers stand; an exit after one signal keeps them. Two requests are the least that race; two stops let a number be handed out, lost and handed out again, and then replayed. |
| `explorer_reorg` | 2 requests (own and foreign anchor), 3 blocks, reorganisation depth 1, finality at 2, 1 outage, batch of 2 | a confirmed record is confirmed by a transaction that carries its commitment; a final one is in a block of the active chain; an anchor that the node keeps reporting final is settled, when the batch holds all unsettled anchors. Three blocks allow a transaction to be mined, undone, mined again and buried. |
| `local_chain` | 3 messages (one also sent too large), blocks of 2, 1 fault, 1 kill, clock in 0..1 | the chain is linked, ordered and complete, a ciphertext is admitted once, the mempool fits a block, the log is a durable history, pending records get sealed. Three messages make one full block and one the timer seals; one kill splits the two-line step. |
| `event_stream` | 1 watcher, 2 connections, 3 events, 1 heartbeat, 1 break, signal or stop | every event since the connection opened arrives once, whole and in order; the watcher reconnects until closed; the store's listeners are those of open connections, and of those that left before their first snapshot; a shutdown ends once every watcher is closed |
| `chain_reads` | 2 handlers, up to 3 blocks, reorganisation depth 1, 3 records, a search shows 1 record of a channel, cache of 2 ticks, timeout of 1, clock in 0..4 | a list is newest first, without a gap, of blocks that were active during the request, whatever order a batch is answered in; a failing node is not an empty chain or an absent block (also when `getBlock` takes an error code for "none"); shown figures are at most the time to live and two calls old; walking through pages while records arrive, and searching while the chain moves, miss nothing that was there at the start; every request ends. Three blocks give a list with a replaced block in its middle, two handlers are the least that share the request in flight, and with a limit of 1 a second record of the channel keeps the first off the list. |
| `sending` | 1 message, 3 attempts, finality at 2, 1 block, window of 2, limit 1, 1 bucket kept, clock in 0..2, a message with no flaw, a bad key, or two flaws of its options | a retry is never a replay of an attempt that did arrive; the anchor an attempt paid for is never rejected as missing or foreign, nor as unknown while the node knows it; what the app drops would have failed at any other time, but for a 429 whose body was lost; the limiter lets at most twice the limit through around the end of a window, with eviction; `send` ends. Three attempts give one lost, one refused by the limiter and one admitted; a clock up to the window's end lets a second window open; one bucket makes the other client's request evict. |

Runs that disagree with a text of the repository (each is a finding):

| Run | The code does | The text says |
|---|---|---|
| `replay_race` | the replay check is before the await, the index after it: two concurrent submissions of one ciphertext are admitted | a replay is rejected (`docs/ARCHITECTURE.md:103`, `docs/API.md:70`) |
| `watcher_starved` | a tick takes the oldest unsettled records, without a cursor: a batch of dead anchors hides all later ones (batch 1 here, 50 in the code) | the watcher re-checks every anchor that is not final (`docs/ARCHITECTURE.md:113`) |
| `unverified_stuck` | a record admitted while the node was unreachable stays pending when its transaction turns out foreign or unknown | the watcher settles it once the node answers (`docs/CDCI.md:181`) |
| `block_lists_orphans` | a transaction mined again with as many confirmations (or dropped by the reorganisation) is no news: the record stays listed under a block that replaced its own, in the first case until its confirmations next differ | the watcher keeps the block an anchor landed in current (`src/chain/anchor-watcher.js:7`); a block is shown with the records it carries (`docs/API.md:162`) |
| `commitment_case` | the SDK takes the commitment over protocol and channel hash as the caller spelled them, the explorer over their normal form: a session with `protocol: 'c7'` pays for an anchor and is rejected with `anchor-mismatch` | "derived exactly as the explorer derives it" (`sdk/src/commitment.js:2`); hashes and protocols are case-insensitive (`test/records.test.js:32`) |

`watcher_starved` and `explorer_reorg` check the same property, `AnchorsSettle`, with
a batch that does not and one that does hold every unsettled anchor;
`sending` and `commitment_case` check `OwnAnchorCounts` with options in normal form
and in the other case.

Three more disagreements are in the models without a run of their own. The runs above
refute a text by a property that should hold; these are stated here, as exceptions of
properties that hold:

| Behaviour | Where it is modelled | The text says |
|---|---|---|
| A 429 whose body breaks off, or does not end in time, reaches the app as `http_429` (`sdk/src/errors.js:52-61`), which is not `retryable`: the app reports a bug and drops a message that has no flaw | `ReadsRefusal` with `ErrorFromResponse`; the second disjunct of `DroppedForCause`, without which `sending` fails | `retryable` covers a rate limit (`sdk/README.md:136`); "queue the message rather than drop it" (`sdk/src/errors.js:27-28`) |
| Every change of an anchor is emitted as another `record` event (`src/store/store.js:131`): a subscriber is told of one message several times | `Emits`, which repeats a payload on the CDCI backend; `StreamIsFaithful` speaks of events, not of messages | `record` is sent "when a message is indexed" (`docs/API.md:230`); `onRecord` is shown for "new message recorded" (`sdk/README.md:74-79`) |
| A reply of the node whose body breaks off is no `CdciRpcError` (`src/chain/cdci-rpc.js:146` is outside the `try`): the API answers 500, and a tolerant page fails | `BodyBreaksOff`, `HttpStatus`; `NeverMistaken` leaves the error status open | the API "answers `502 cdci_unavailable`", a page renders without its blocks (`docs/ARCHITECTURE.md:55-58`) |

Behaviour met while modelling that no text of the repository promises otherwise: a block
page of a node that does not answer is a 404, as for a block that does not exist; the home
page may show an empty block list under a cached status that says the node is reachable, as
the two are fetched separately; a success whose body breaks off is thrown by `send()` as
the error of `response.json()` and no `ChatScanError` (`BodyIsCut`), though the record
stands.

### Fairness

`explorer_reorg` and the liveness findings of `Explorer`: an RPC call ends, by
its reply or its timeout, and a settled promise resumes its handler (`Proceeds`);
the watcher's `setInterval` keeps firing and its tick goes on. `local_chain`: the
sealer's `setInterval`. `event_stream`: the `watch()` loop goes on when its
promise settles or its timer fires; a serving explorer takes connections, its
first snapshot arrives (`info()` answers or times out), a closed
socket is noticed, and `server.close()` calls back when the last connection is gone. `chain_reads`: every call ends by its reply or by its
timeout (`CDCI_RPC_TIMEOUT_MS`), a settled promise resumes its handler, and a
client that reads a list page by page asks for the next one; one weak fairness
condition over all of them, as whatever they do only finitely often can be done.
`sending`: `SessionStep` alone, as every call the SDK and the wallet make has a
timeout; neither the node nor the explorer has to answer. Nothing makes the CDCI node answer, mine or lock, a client
come, a write succeed, a broken network heal by itself or a stopped process
start: liveness properties name those as assumptions (`<>[]...`).

## 5. Proofs

TLAPS checks them for every value of the constants the `ASSUME`s allow:
any number of requests, blocks, events, faults and stops.

- `ChainLogProofs`: `LogTyped`; `LogOrderIsAcceptOrder` and
  `ReadableIsComplete`, from `HistoryInvariant` (`HistoryInv`: the file followed
  by the queue is increasing and below the counter of `append()` calls, what was
  written is below the queue, and while the log is readable it contains what was
  written); `ImplementsDurableHistory`, step by step under `faults' = 0`.
- `ExplorerProofs`: `TypeCorrect` and `IdsAreUnique` from `IdInvariant`;
  `ConfirmedByAnchor` and `FinalStays` from `AnchorInvariant`; `AnswersAreKept` from
  `AnswerInvariant`; `ExitIsOrderly` from `ExitInvariant`; `LogIsEnough` from
  `RebuildInvariant`.

The argument for ID-numbers. `IdNamesOneRecord` is not inductive: the counter
is ahead of the index while a handler is suspended, and a restart takes it from
the log. `IdInv` adds that every record stands under its own reference and
below the counter; that a suspended handler's number is below it too and nowhere
else; that the watcher works on records that are indexed and have an anchor; and, for
the log, that a `record` line is the first of its number, that every line of a
living process belongs to an indexed record, and that the file of a dead one
tells numbers apart - so a replay, whatever prefix is left, and however far it has come,
rebuilds an index with the same property. `LogLemmas` has the facts about sequences the log's
conjuncts need: a relation between earlier and later elements of `file \o queue`
survives appending, writing, dropping and tearing.

The four other invariants of `Explorer` build on it. Three of them are about *stored*
records, which stand in the index, in a line of the file or of the queue, or in the
locals of a handler or of the watcher: what a record owes to a reply must hold
everywhere it may come back from.

- `AnchorInv`: a reply in flight says what the node knew when it evaluated the
  call; a record rests on such a reply about its own anchor and commitment; and a block that
  was final when it was reported is on every chain since. The last is
  where `FinalIsOnChain` needs its hypothesis: a reply may be any number of reorganisations
  old, and only their depth keeps it true. Final by a ChainLock needs no such bound.
- `AnswerInv`: the record a client was answered about is indexed while its run
  lives, and any stored record under that reference agrees with the answer - so a
  replay, of whatever the crash left, agrees with it too, and a number that was lost with
  its line and handed out again goes with a later run.
- `ExitInv`: while no write has failed every indexed record has a line, and a process that shuts
  down after one signal waits for as much of the queue as holds the lines it owes.
- `RebuildInv`: replaying the file and the queue gives the index; during a replay, the lines read so
  far give what is back. Its conjunct on keys is the subtle one: the watcher's lines
  are updates and do not add their key, which is right only because the records it looks at
  were admitted, and so have theirs there already.

- `LocalChainProofs`: `TypeCorrect` and `AdmissionIsOnce` from `NodeInvariant`,
  whatever is lost; `ImplementsDurableHistory`; `ChainIsLinked`, `SealingIsInOrder` and
  `ConfirmationIsSealing` from `ChainInvariant`; `MempoolIsBounded` from a third
  invariant, `WaitInv`.

A kill leaves some beginning of the log, and a replay passes through all beginnings of that
one. So `ChainInv` does not speak of the index, but of a function from beginnings of the
log to indexes that replaying follows line by line, all of whose values are
*chained*: blocks linked, records listed once, in order, and showing their block. It is
enough that submission and sealing extend the function by one chained value, or by two:
between the line of the record that fills a block and the line of the block there must be a chained
value as well, as that is what a kill between the two leaves. `mempool()` is
shown to return the oldest pending records (`Oldest`), by induction over its loop.
`WaitInv` counts: each run ends at most one record over, when it is killed between
those two lines. The proof attempt corrected `MempoolFitsOneBlock`: it used to
allow one record more altogether, which the third run can exceed - the run `local_chain` is
too short to see it - and now allows one for each restart.

- `RateLimiterProofs`: `LimiterTypes` and `LimiterLimits`, from `LimiterInv`. A
  client's history and its bucket must agree (`Synced`): while it has a bucket,
  the latest window ends when the bucket does and let no more requests through than the
  bucket counts; when it has none, because it never asked or was evicted, its latest
  window is over - which is why an eviction that only drops expired buckets is harmless,
  and one that drops others is not (`KeptOnlyOne`).
- `SendingProofs`: `SendingImplementsLimiter` and `SendingImplementsExplorer`, by cases over
  the actions of the composition; with `LimiterLimits` the limiter's bound for the
  whole (`SendingLimits`), and with both the types (`SendingTypes`).
  `RetriesAreNoReplays`, from `RetryInv`: every key in the index, and every record a
  handler holds over its await, belongs to an attempt whose submission has left the
  app; attempts have different keys (`KeysDiffer`); so the key of the one that is
  being posted is not there yet. The handlers must be part of it: they outlive their
  clients, and index their records while the next attempt is under way.
  `DropsAreForCause`, from `DropInv`: the error on its way to an app is the verdict on
  the message's flaws or the limiter's, and of all that can become of the latter - read,
  cut, or lost with the connection - only the cut one is not retryable (`ReadForCause`,
  `RefusalHasCause`). `OwnAnchorsCount`, from `OwnInv`: a reply that says "unknown" is about
  a transaction that had been broadcast before, and one that was and is gone does not
  return. It is proved under `CanonicalOptions`, that a caller spells protocol and channel
  hash as the explorer normalises them - which is exactly what
  the finding `commitment_case` violates.
- `EventStreamProofs`: `ListenersAreFollowed`, from the property itself strengthened by the
  types of the connections and by `SnapshotsAwaited`: without it nothing says that a
  client that leaves before its snapshot has met the CDCI backend. `StreamTypeCorrect`.
  `StreamsAreFaithful`, from `FaithInv`: what a client has handed over, then the payloads in its
  buffer, then those on the wire are what was emitted since its connection
  opened; buffer and wire together are whole frames (`Framed`), though neither need be.
  The lemma below it: cutting a text of whole frames after its last blank line, as
  `parseFrames` does, leaves two such texts, wherever the chunk ended.

- `ChainReadsProofs`: `ListsAreWindows`, `NothingIsMistaken`, `WalksMissNothing` and
  `SearchesFind` from `ReadsInvariant`; `FiguresRecent` and, with both, `ReadsTyped` from
  `FiguresInvariant`.

None of those properties says anything of a request before it has ended, so all of
`ReadsInv` is about requests under way. Its node (`NodeOk`) only adds to what it has: a
chain that does not get shorter, and a block index that forgets no block and changes no
height. So an entry that has arrived, however long it has waited for the rest of its
batch, says something that was so at some time since the request began and still
counts (`Tells`): the tip was at least the first one, the hash at that height has been
active, the block has that height - or was not there when the request began. `CallsOk`
says which calls a handler waits for and what it knew when it made them: the hashes it
asks for stand at the heights of the window below the tip it was told, the blocks at
those of the hashes. `BatchPairs` gives each reply back to its call, whatever order
the batch came in: with one entry for each call, sorting by id can only be one
sequence (`SortedPairs`), and that the ids are all there is a counting argument over
finite sets (`EveryCallHasOne`). For the walk, `WalkOk` counts from the *old* end of the list: of
what it is owed, a client lacks at most the oldest `Len - offset` records, and a record
added at the head makes that remainder longer, never shorter. That a page
is a window of the filtered list and that filtering commutes with adding a record are lemmas
about the fold (`FilteredIs`, `FilteredAppend`, `PageIs`). `FiguresInv` bounds ages: of what is
cached by two calls when it was stored, of what is under way by the timeout of the call
it waits for.

The proof attempt corrected `SearchFinds`: it used to say that a search for a channel
gives every record of it, which is false once the channel has more than `SearchLimit`
- no run had that many - and now leaves out those that newer ones keep off the list
(`Outnumbered`). The run `chain_reads` reaches such states since.

Two techniques are worth knowing. Induction theorems that take an operator as a
parameter cannot be used here, so `LogLemmas` proves induction over the natural numbers in terms
of a set (`Induction`, from the well-foundedness of `<`) and the existence of recursive
functions from it (`Recursion`, `SetRecursion`), and what the folds of replay, `mempool()` and the frame
parser compute is proved with those. And `SelectSeq` and `SortSeq` are
opaque to the provers: `Mempool`, `PayloadsIn`, `Verdict`, `Filtered` and `Sorted` are written
without them.

The only assumptions are the named `ASSUME`s (types of constants; configuration
values as `config.js` lets them through; in `Sending`, that the explorer's requests are the
attempts of the app; in `ChainReads`, that requests are what the routes let through), and each is evaluated by the runs.

Only model-checked: all liveness (the prover has no rules for fairness and ENABLED here:
`AnchorsSettle`, `PendingIsSealed`, the liveness of `EventStream`, `EveryReadEnds`,
`SendSettles`). Every safety property that a run
checks is proved.

## 6. Not modelled

- Views, static files, formatting, escaping, configuration parsing: no state
  of their own. The handlers of the pages are modelled by what they fetch.
- X11, the merkle tree, encryption: arithmetic with nothing to interleave. Hashes and
  ciphertexts are distinct values, a commitment is its preimage.
- The network snapshot and the store's statistics: figures for a dashboard, among them
  `genesisMatches`, which compares no hash (`src/chain/cdci.js:69`).
- Reads of the local backend: lookups in an array, without an await.
- `publishAnchor` of the explorer, which no route calls, and `genesisHash`,
  which is printed once at start.
- Malformed replies of the CDCI daemon: its replies are those a daemon gives.

The status of every part is in `PROJECT.json`, `components`.

## 7. Plan

Done: `Records`, `CdciNode`, `CdciChain`, `ChainLog`, `Store`, `Explorer`,
`LocalChain`, `EventStream`, `ChainReads` with `CdciRpc` and `Queries`, `Sending` with
`Ingest`, `RateLimiter` and `Commitment`, the abstract `DurableHistory`, the proofs
above.

Next, in this order:

1. Pure parts against reference definitions: the merkle root, the list filters.
2. The snapshot of the dashboard, with the statistics it takes before its await.
3. The reads of the local backend beside the sealer.
