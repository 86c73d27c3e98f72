------------------------------ MODULE ChainReads ------------------------------
(***************************************************************************)
(* Reading the explorer on the CDCI backend: the block lists, blocks and   *)
(* search of src/src/http/api.js, the home page of src/src/http/pages.js   *)
(* and the chain figures of src/src/chain/service.js with their cache, as  *)
(* concurrent handlers that ask the CDCI node in several calls, through    *)
(* src/src/chain/cdci.js, while that node mines, reorganises and goes away *)
(* and records are indexed.                                                *)
(***************************************************************************)
EXTENDS Queries

CONSTANTS
    Readers,          \* concurrent requests
    Workloads,        \* what clients do: asks[r], one of which request r asks,
                      \* ids, the records that are submitted meanwhile, and
                      \* blocks, how many are mined (a bound)
    Channel,          \* Channel[id]: the channel of the record with this number
    TTL,              \* CHAIN_INFO_TTL_MS
    RpcTimeout,       \* CDCI_RPC_TIMEOUT_MS
    MaxClock,         \* bound: the wall clock stays within 0..MaxClock
    MaxBlocks, MaxReorgDepth     \* bounds: see CdciNode

Ids == DOMAIN Channel

\* Chain figures as they are shown, and as they are cached; blocks.
Info == [reachable : BOOLEAN, asOf : Nat]
Cached == [at : Nat, info : Info]
Block == [hash : Nat, height : Nat]

\* In place of the figures a request waits for.
Waiting == [reachable |-> Null]

\* 64-digit hashes.
Hash == [of : {"block", "record", "txid", "channel"}, n : Nat]

\* What the routes let through: pagination() clamps the offset, a page of blocks is
\* tolerant, a term is a number, a reference or a hash.
IsAsk(ask) ==
    /\ ask # Null
    /\ ask.op \in {"home", "list", "block", "search", "walk", "info"}
    /\ ask.tolerant \in BOOLEAN
    /\ ask.limit \in Int \cup {Null}
    /\ ask.offset \in Nat
    /\ ask.op = "home" => ask.tolerant
    /\ ask.op = "list" => ~ask.tolerant
    /\ ask.op = "block" => ask.by \in {"number", "hash"}
    /\ ask.op = "search" => ask.by \in {"number", "hash", "ref"}
    /\ ask.op = "walk" => ask.term \in Nat \cup {Null}
    /\ ask.by \in {"number", "ref"} => ask.term \in Nat
    /\ ask.by = "hash" => ask.term \in Hash

ASSUME ReadsAssumption ==
    /\ TTL \in Nat \ {0}
    /\ RpcTimeout \in Nat \ {0}
    /\ MaxClock \in Nat
    /\ MaxBlocks \in Nat
    /\ MaxReorgDepth \in Nat
    /\ SearchLimit \in Nat \ {0}
    /\ Channel \in [Ids -> Nat]
    /\ Ids \subseteq Nat

ASSUME WorkloadsAssumption ==
    \A w \in Workloads :
      /\ w.ids \subseteq Ids
      /\ \A r \in Readers : \A ask \in w.asks[r] : IsAsk(ask)

ASSUME NullAssumption ==
    Null \notin Int \cup BOOLEAN \cup Info \cup {Waiting} \cup Cached \cup Block

INSTANCE CdciRpc

VARIABLES
    workload,         \* what clients do in this behaviour
    chain, mined,     \* the CDCI node
    heights,          \* its block index: the height of every block it ever had
    records,          \* the index: records in the order they were added
    reads,            \* reads[r]: how far request r has come
    cache,            \* chain figures and when they were stored, or Null
    inFlight,         \* the shared request for chain figures, or Null
    clock             \* Date.now()

\* Its mempool, its ChainLocks and its outages do not show here: to a handler, a
\* node that does not answer is a call that fails (CallFails).
Node == INSTANCE CdciNode
          WITH Txids <- {}, pool <- {}, lockedHeight <- 0,
               MaxOutages <- 0, outages <- 0, answering <- ~FALSE

nodeVars == <<chain, mined, heights>>
infoVars == <<cache, inFlight>>
vars == <<workload, nodeVars, records, reads, infoVars, clock>>

\* Active blocks; genesis is block 0 at height 0.
ActiveHashes == {0} \cup {chain[h].hash : h \in DOMAIN chain}
HashAt(height) == IF height = 0 THEN 0 ELSE chain[height].hash

\* What a handler has put together for its response.
NoResponse == [status |-> 200, blocks |-> <<>>, ids |-> {}, total |-> 0, offline |-> FALSE]

(***************************************************************************)
(* A request: `ask` what is asked; `calls` the RPC calls it waits for and  *)
(* `entries` what the node has replied to them so far; `card` the chain    *)
(* figures it also waits for; `tip` and `offset` its place in a list.      *)
(* The rest only the properties read: `seen`, the blocks that were active  *)
(* at some time since it began; `tipThen`, `minedThen` and `idsThen`, the  *)
(* tip, the blocks and the records there were then; `shownAt`, when it was *)
(* given its figures.                                                      *)
(***************************************************************************)
Unasked ==
    [ask |-> Null, calls |-> <<>>, entries |-> <<>>, card |-> Null, tip |-> 0,
     offset |-> 0, response |-> NoResponse, seen |-> {}, tipThen |-> 0,
     minedThen |-> 0, idsThen |-> {}, shownAt |-> 0]

Init ==
    /\ workload \in Workloads
    /\ Node!Init
    /\ heights = [hash \in {0} |-> 0]
    /\ records = <<>>
    /\ reads = [r \in Readers |-> Unasked]
    /\ cache = Null
    /\ inFlight = Null
    /\ clock = 0

Calling(r) == reads[r].calls # <<>>
Walking(r) == reads[r].ask # Null /\ reads[r].ask.op = "walk" /\ reads[r].offset # Null

\* A page without the chain figures, now that it has all the rest: that of a block or
\* of a search asks for them last, and so does the error page in place of any.
WantsCardYet(r) ==
    /\ reads[r].ask # Null
    /\ reads[r].ask.op \in {"home", "block", "search"}
    /\ reads[r].ask.tolerant
    /\ ~Calling(r)
    /\ reads[r].card = Null

Ended(r) ==
    /\ reads[r].ask # Null
    /\ ~Calling(r)
    /\ ~Walking(r)
    /\ ~WantsCardYet(r)
    /\ reads[r].card # Waiting

-----------------------------------------------------------------------------
(* What one call comes to when the node evaluates it *)

Call(method, arg) == [method |-> method, arg |-> arg]
CallSet == [method : {"getblockcount", "getblockhash", "getblock"}, arg : Nat \cup {Null}]

Evaluated(id, call) ==
    CASE call.method = "getblockcount" -> Result(id, Len(chain))
      [] call.method = "getblockhash" ->
           IF call.arg =< Len(chain) THEN Result(id, HashAt(call.arg))
                                     ELSE Error(id, OutOfRange)
      [] call.method = "getblock" ->
           IF call.arg \in DOMAIN heights
           THEN Result(id, [hash |-> call.arg, height |-> heights[call.arg]])
           ELSE Error(id, NotFound)

-----------------------------------------------------------------------------
(* Requests *)

\* The calls CdciChain.listBlocks or getBlock begins with.
FirstCalls(ask) ==
    CASE ask.op \in {"home", "list"} -> <<Call("getblockcount", Null)>>
      [] ask.op \in {"block", "search"} /\ ask.by = "number" ->
           <<Call("getblockhash", ask.term)>>
      [] ask.op \in {"block", "search"} /\ ask.by = "hash" ->
           <<Call("getblock", IF ask.term.of = "block" THEN ask.term.n ELSE Null)>>
      [] OTHER -> <<>>

\* Wrong on purpose: a number that is a height is not looked up as an ID-number.
FoundFirstUnlessHeight(ask) ==
    IF ask.op = "search" /\ ask.by \in {"number", "ref"} /\ ask.term > Len(chain)
    THEN ById(records, ask.term) ELSE {}

\* What search() takes from the index before it asks the node.
FoundFirst(ask) ==
    IF ask.op = "search" /\ ask.by \in {"number", "ref"}
    THEN ById(records, ask.term) ELSE {}

IdsOf(found) == {record.id : record \in found}

\* Wrong on purpose: figures once fetched are good for ever.
FreshForEver == cache # Null

\* chainInfo() answers from its cache.
Fresh == cache # Null /\ clock - cache.at < TTL

\* The home page and the list of blocks, which ask for them beside the blocks; and
\* what shows nothing of the chain but them: a record, the status, the stream.
WantsCard(ask) == ask.op \in {"home", "info"}

\* The request for chain figures as it starts: two calls, one after the other.
FirstInfoCall == [step |-> "chain", since |-> clock, info |-> Null, pending |-> {}]

\* What chainInfo() gives a request, and the request for figures it starts if
\* there is neither an answer in the cache nor somebody who asks already.
CardNow == IF Fresh THEN cache.info ELSE Waiting
InFlightNow == IF ~Fresh /\ inFlight = Null THEN FirstInfoCall ELSE inFlight

\* A request arrives; it runs up to its first await.
Asked(r, ask) ==
    /\ reads[r].ask = Null
    /\ reads' = [reads EXCEPT ![r] =
         [Unasked EXCEPT !.ask = ask,
                         !.calls = FirstCalls(ask),
                         !.card = IF WantsCard(ask) THEN CardNow ELSE Null,
                         !.response.ids = IdsOf(FoundFirst(ask)),
                         !.seen = ActiveHashes,
                         !.tipThen = Len(chain),
                         !.minedThen = mined,
                         !.idsThen = IdsOf(ToSet(records)),
                         !.shownAt = clock]]
    /\ inFlight' = IF WantsCard(ask) THEN InFlightNow ELSE inFlight
    /\ UNCHANGED <<workload, nodeVars, records, cache, clock>>

\* snapshot(), or that of sendErrorPage: the chain figures are asked for.
AsksForCard(r) ==
    /\ WantsCardYet(r)
    /\ reads' = [reads EXCEPT ![r].card = CardNow, ![r].shownAt = clock]
    /\ inFlight' = InFlightNow
    /\ UNCHANGED <<workload, nodeVars, records, cache, clock>>

\* The node evaluates one entry of the batch request r waits for.
Evaluates(r, id) ==
    /\ id \in DOMAIN reads[r].calls
    /\ \A i \in DOMAIN reads[r].entries : reads[r].entries[i].id # id
    /\ reads' = [reads EXCEPT ![r].entries = Append(@, Evaluated(id, reads[r].calls[id]))]
    /\ UNCHANGED <<workload, nodeVars, records, infoVars, clock>>

\* A request that waits for the chain figures is given them.
Given(r, info) ==
    IF reads[r].card = Waiting
    THEN [reads[r] EXCEPT !.card = info, !.shownAt = clock]
    ELSE reads[r]

\* Newest first, `limit` heights from `offset` below the tip.
HeightsWanted(tip, limit, offset) ==
    [i \in 1..Min({limit, Max({tip - offset + 1, 0})}) |-> tip - offset - i + 1]

Ends(r, response) ==
    reads' = [reads EXCEPT ![r].calls = <<>>, ![r].entries = <<>>, ![r].response = response]

\* An error in place of the response; a page gives up the figures it had asked for too.
EndsWithError(r, status) ==
    reads' = [reads EXCEPT ![r].calls = <<>>, ![r].entries = <<>>,
                           ![r].response.status = status, ![r].card = Null]

Calls(r, calls, tip) ==
    reads' = [reads EXCEPT ![r].calls = calls, ![r].entries = <<>>, ![r].tip = tip]

\* What search() adds from the index once getBlock has answered.
FoundAfter(ask, block) ==
    IF ask.op = "search" /\ ask.by = "hash" /\ block = Null
    THEN ByHash(records, ask.term) ELSE {}

\* One block, or none: 404 from the block route, what else there is from search.
EndsWithBlock(r, block) ==
    LET ask == reads[r].ask
        so_far == reads[r].response
    IN  Ends(r, [so_far EXCEPT
                   !.status = IF block = Null /\ ask.op = "block" THEN 404 ELSE 200,
                   !.blocks = IF block = Null THEN <<>> ELSE <<block>>,
                   !.ids = @ \cup IdsOf(FoundAfter(ask, block))])

(***************************************************************************)
(* listBlocks and getBlock of ChainService when the node fails: a page is  *)
(* tolerant and goes on without the blocks, the API answers 502.           *)
(***************************************************************************)
Fails(r, outcome) ==
    LET ask == reads[r].ask
        so_far == reads[r].response
    IN  CASE ~(ask.tolerant /\ outcome.end = "CdciRpcError") ->
               EndsWithError(r, HttpStatus(outcome))
          [] ask.tolerant /\ outcome.end = "CdciRpcError" /\ ask.op \in {"block", "search"} ->
               EndsWithBlock(r, Null)
          [] OTHER -> Ends(r, [so_far EXCEPT !.offline = TRUE])

\* The values of the last batch are in: the next calls, or the response.
Goes(r, method, values) ==
    LET ask == reads[r].ask
        wanted == HeightsWanted(values[1], PageLimit(ask.limit, 10), ask.offset)
    IN  CASE method = "getblockcount" /\ wanted # <<>> ->
               Calls(r, [i \in DOMAIN wanted |-> Call("getblockhash", wanted[i])], values[1])
          [] method = "getblockcount" /\ wanted = <<>> ->
               Ends(r, [reads[r].response EXCEPT !.total = values[1] + 1])
          [] method = "getblockhash" /\ values # <<Null>> ->
               Calls(r, [i \in DOMAIN values |-> Call("getblock", values[i])], reads[r].tip)
          [] method = "getblockhash" /\ values = <<Null>> -> EndsWithBlock(r, Null)
          [] method = "getblock" /\ ask.op \in {"home", "list"} ->
               Ends(r, [reads[r].response EXCEPT !.blocks = values,
                                                 !.total = reads[r].tip + 1])
          [] method = "getblock" /\ ask.op \in {"block", "search"} ->
               EndsWithBlock(r, values[1])

\* listBlocks takes no "not found" for an answer, getBlock does.
Taken(r, outcome) ==
    IF reads[r].ask.op \in {"block", "search"} THEN AllowingAbsent(outcome) ELSE outcome

\* The promise of the call settles, and the handler resumes.
Resumes(r, outcome) ==
    /\ LET taken == Taken(r, outcome)
       IN  IF taken.end = "answered" THEN Goes(r, reads[r].calls[1].method, taken.values)
                                     ELSE Fails(r, taken)
    /\ UNCHANGED <<workload, nodeVars, records, infoVars, clock>>

Replied(r) == Calling(r) /\ Len(reads[r].entries) = Len(reads[r].calls)

\* The reply arrives whole.
Arrives(r) == Replied(r) /\ Resumes(r, BatchOutcome(reads[r].entries))

\* The reply begins to arrive, and its body breaks off.
BodyBreaksOff(r) == Replied(r) /\ Resumes(r, BodyBroken)

\* Wrong on purpose: a call that gets no reply is waited for.
NoTimeout(r) == FALSE

\* The call is refused or times out.
CallFails(r) == Calling(r) /\ Resumes(r, NoReply)

\* One page of GET /api/v1/records, asked for by a client that reads them all.
WalkOn(r) ==
    /\ Walking(r)
    /\ LET ask == reads[r].ask
           limit == PageLimit(ask.limit, 25)
           page == ListRecords(records, [channel |-> ask.term], limit, reads[r].offset)
           next == reads[r].offset + limit
       IN  reads' = [reads EXCEPT ![r].response.ids = @ \cup IdsOf(ToSet(page.items)),
                                  ![r].offset = IF next < page.total THEN next ELSE Null]
    /\ UNCHANGED <<workload, nodeVars, records, infoVars, clock>>

-----------------------------------------------------------------------------
(* CdciChain.info, shared by those who wait for it *)

Unreachable == [reachable |-> FALSE, asOf |-> clock]

\* Wrong on purpose: the request is cached in place of what it came to.
SettlesUnawaited(info) ==
    /\ cache' = [at |-> clock, info |-> inFlight]
    /\ inFlight' = Null
    /\ reads' = [r \in Readers |-> Given(r, info)]

\* chainInfo's promise settles: it is cached, and everyone who waits is given it.
Settles(info) ==
    /\ cache' = [at |-> clock, info |-> info]
    /\ inFlight' = Null
    /\ reads' = [r \in Readers |-> Given(r, info)]

\* The node evaluates getblockchaininfo.
InfoEvaluated ==
    /\ inFlight # Null
    /\ inFlight.step = "chain"
    /\ inFlight' = [inFlight EXCEPT !.step = "replied",
                                    !.info = [reachable |-> TRUE, asOf |-> clock]]
    /\ UNCHANGED <<workload, nodeVars, records, reads, cache, clock>>

\* The reply arrives, and two calls go out at once: the ChainLock, the tip's header.
InfoArrives ==
    /\ inFlight # Null
    /\ inFlight.step = "replied"
    /\ inFlight' = [inFlight EXCEPT !.step = "extras",
                                    !.since = clock,
                                    !.pending = {"getbestchainlock", "getblockheader"}]
    /\ UNCHANGED <<workload, nodeVars, records, reads, cache, clock>>

\* One of the two is answered, or fails with a CdciRpcError, which leaves null.
ExtraEnds(method) ==
    /\ inFlight # Null
    /\ inFlight.step = "extras"
    /\ method \in inFlight.pending
    /\ inFlight' = [inFlight EXCEPT !.pending = @ \ {method}]
    /\ UNCHANGED <<workload, nodeVars, records, reads, cache, clock>>

InfoDone ==
    /\ inFlight # Null
    /\ inFlight.step = "extras"
    /\ inFlight.pending = {}
    /\ Settles(inFlight.info)
    /\ UNCHANGED <<workload, nodeVars, records, clock>>

\* The first call fails, or the body of any of them breaks off: info() reports it.
InfoFails ==
    /\ inFlight # Null
    /\ Settles(Unreachable)
    /\ UNCHANGED <<workload, nodeVars, records, clock>>

-----------------------------------------------------------------------------
(* The CDCI chain, the index and the clock go on *)

\* The block index remembers the blocks of abandoned branches.
Outside ==
    /\ \/ Node!Mine({})
       \/ \E depth \in 1..MaxReorgDepth : Node!Reorg(depth)
    /\ mined' =< workload.blocks
    /\ heights' = [hash \in 0..mined' |->
                     IF hash \in DOMAIN heights THEN heights[hash]
                     ELSE CHOOSE h \in DOMAIN chain' : chain'[h].hash = hash]
    /\ reads' = [r \in Readers |->
                   IF Calling(r)
                   THEN [reads[r] EXCEPT !.seen = @ \cup {chain'[h].hash : h \in DOMAIN chain'}]
                   ELSE reads[r]]
    /\ UNCHANGED <<workload, records, infoVars, clock>>

\* addRecord, in whatever order the submissions were settled.
Indexes(id) ==
    /\ ById(records, id) = {}
    /\ records' = Append(records, [id |-> id, channel |-> Channel[id], txid |-> id])
    /\ UNCHANGED <<workload, nodeVars, reads, infoVars, clock>>

\* Time passes, once it matters, but no call outlasts its timeout.
ClockMoves ==
    /\ clock < MaxClock
    /\ cache # Null \/ inFlight # Null
    /\ inFlight # Null => clock < inFlight.since + RpcTimeout
    /\ clock' = clock + 1
    /\ UNCHANGED <<workload, nodeVars, records, reads, infoVars>>

-----------------------------------------------------------------------------
\* What a handler does next, whatever becomes of the call it waits for.
ReaderStep(r) ==
    \/ Arrives(r)
    \/ CallFails(r)
    \/ BodyBreaksOff(r)
    \/ AsksForCard(r)
    \/ WalkOn(r)

InfoStep ==
    \/ InfoEvaluated
    \/ InfoArrives
    \/ \E method \in {"getbestchainlock", "getblockheader"} : ExtraEnds(method)
    \/ InfoDone
    \/ InfoFails

Next ==
    \/ \E r \in Readers : \E ask \in workload.asks[r] : Asked(r, ask)
    \/ \E r \in Readers : \E id \in DOMAIN reads[r].calls : Evaluates(r, id)
    \/ \E r \in Readers : ReaderStep(r)
    \/ InfoStep
    \/ \E id \in workload.ids : Indexes(id)
    \/ ClockMoves
    \/ Outside

\* A call ends, by a reply or by its timeout, and a settled promise resumes; the
\* node need not answer.
FairSpec ==
    /\ Init /\ [][Next]_vars
    /\ WF_vars((\E r \in Readers : ReaderStep(r)) \/ InfoStep)

-----------------------------------------------------------------------------
(* Properties *)

\* The type of every variable; a reply is that of one of the calls.
TypeOK ==
    /\ workload \in Workloads
    /\ Node!TypeOK
    /\ heights \in [0..mined -> Nat]
    /\ ToSet(records) \subseteq [id : Ids, channel : Nat, txid : Ids]
    /\ \A r \in Readers :
         /\ reads[r].ask = Null \/ IsAsk(reads[r].ask)
         /\ ToSet(reads[r].calls) \subseteq CallSet
         /\ \A i \in DOMAIN reads[r].entries :
              /\ reads[r].entries[i].id \in DOMAIN reads[r].calls
              /\ reads[r].entries[i].code \in {Null, NotFound, OutOfRange}
         /\ reads[r].card \in Info \cup {Null, Waiting}
         /\ reads[r].response.status \in {200, 404, 500, 502}
         /\ ToSet(reads[r].response.blocks) \subseteq Block
         /\ reads[r].response.ids \subseteq Ids
    /\ cache = Null \/ cache \in Cached
    /\ inFlight = Null \/ inFlight.step \in {"chain", "replied", "extras"}
    /\ clock \in 0..MaxClock

(***************************************************************************)
(* listBlocks asks for the tip, then the hashes, then the blocks, each in  *)
(* its own call: whatever the chain does in between and in whatever order  *)
(* the node replies, the list is newest first without a gap from the       *)
(* offset below the total it reports, and lists no block that was not on   *)
(* the active chain at some time during the request.                       *)
(***************************************************************************)
ListIsAWindow ==
    \A r \in Readers :
      Ended(r) /\ reads[r].ask.op \in {"home", "list"} =>
        LET ask == reads[r].ask
            response == reads[r].response
        IN  response.status = 200 /\ ~response.offline =>
              /\ Len(response.blocks)
                   = Min({PageLimit(ask.limit, 10), Max({response.total - ask.offset, 0})})
              /\ \A i \in DOMAIN response.blocks :
                   /\ response.blocks[i].height = response.total - ask.offset - i
                   /\ response.blocks[i].hash \in reads[r].seen

(***************************************************************************)
(* "A client never mistakes an unreachable node for an empty chain"        *)
(* (ARCHITECTURE.md): the API answers with an empty list, or that there is *)
(* no such block, only for what the node did not have when it was asked.   *)
(***************************************************************************)
NeverMistaken ==
    \A r \in Readers :
      Ended(r) /\ ~reads[r].ask.tolerant =>
        LET ask == reads[r].ask
            response == reads[r].response
        IN  /\ ask.op = "list" /\ response.status = 200 /\ response.blocks = <<>> =>
                 ask.offset > reads[r].tipThen
            /\ ask.op = "block" /\ response.status = 404 =>
                 IF ask.by = "number" THEN ask.term > reads[r].tipThen
                 ELSE ask.term.of # "block" \/ ask.term.n > reads[r].minedThen

(***************************************************************************)
(* The figures of the header, cached and shared as they are, were true of  *)
(* the node at most the time to live and two calls ago.                    *)
(***************************************************************************)
FiguresAreRecent ==
    \A r \in Readers :
      Ended(r) /\ reads[r].card # Null =>
        reads[r].shownAt - reads[r].card.asOf =< TTL - 1 + 2 * RpcTimeout

(***************************************************************************)
(* A client that reads a list of records page by page, while records are   *)
(* added at its head, gets every record that was there when it began -     *)
(* some twice, none never.  (Filtered by a field that never changes.)      *)
(***************************************************************************)
WalkMissesNothing ==
    \A r \in Readers :
      Ended(r) /\ reads[r].ask.op = "walk" =>
        {id \in reads[r].idsThen : reads[r].ask.term \in {Null, Channel[id]}}
          \subseteq reads[r].response.ids

\* The search term names this record, in one of the ways search() knows.
Names(ask, id) ==
    IF ask.by = "hash"
    THEN ask.term \in {HashOf("record", id), HashOf("txid", id), HashOf("channel", Channel[id])}
    ELSE ask.term = id

\* A record that newer ones of its channel keep off the list of a search.
Outnumbered(ask, id) ==
    /\ ask.by = "hash"
    /\ ask.term.of = "channel"
    /\ id \notin IdsOf(OfChannel(records, Channel[id]))

(***************************************************************************)
(* Search finds what was there when it was asked, in the index and on the  *)
(* chain, although it awaits the node between the two: a number that is    *)
(* both a height and an ID-number gives both, a channel the records that   *)
(* are still among its newest.  When the node fails it says so, and on a   *)
(* page it still gives what the index has.                                 *)
(***************************************************************************)
SearchFinds ==
    \A r \in Readers :
      Ended(r) /\ reads[r].ask.op = "search" =>
        LET ask == reads[r].ask
            response == reads[r].response
        IN  response.status = 200 =>
              /\ \A id \in reads[r].idsThen : Names(ask, id) /\ ~Outnumbered(ask, id) =>
                   id \in response.ids
              /\ ask.by = "number" /\ ask.term =< reads[r].tipThen /\ ~ask.tolerant =>
                   response.blocks # <<>>

\* Every request is answered: no handler waits for ever on the node, or on the
\* chain figures another handler asked for.
EveryReadEnds == \A r \in Readers : reads[r].ask # Null ~> Ended(r)
=============================================================================
