------------------------------ MODULE CdciNode ------------------------------
(***************************************************************************)
(* The CDCI daemon, centraldatabased, as far as ChatScan's RPC calls see   *)
(* it: its mempool, its active chain, its ChainLock, and whether it        *)
(* answers.  External code: modelled from the replies that                 *)
(* src/src/chain/cdci.js reads and test/support/cdci-stub.js imitates.     *)
(***************************************************************************)
EXTENDS Integers, Sequences, SequencesExt, FiniteSets

CONSTANTS
    Txids,            \* transaction ids clients may broadcast
    MaxBlocks,        \* bound: blocks mined in one behaviour, orphans included
    MaxReorgDepth,    \* deepest reorganisation the chain goes through
    MaxOutages        \* bound: times the node stops answering

VARIABLES
    pool,             \* transactions in the mempool
    chain,            \* active chain above genesis: [hash, txs], height = position
    mined,            \* blocks mined so far; a block's hash is its number
    lockedHeight,     \* height of the best ChainLock, 0 when there is none
    answering,        \* RPC calls get answers
    outages

nodeVars == <<pool, chain, mined, lockedHeight, answering, outages>>

TypeOK ==
    /\ pool \subseteq Txids
    /\ chain \in Seq([hash : 1..MaxBlocks, txs : SUBSET Txids])
    /\ mined \in 0..MaxBlocks
    /\ lockedHeight \in 0..Len(chain)
    /\ answering \in BOOLEAN
    /\ outages \in 0..MaxOutages

Init ==
    /\ pool = {}
    /\ chain = <<>>
    /\ mined = 0
    /\ lockedHeight = 0
    /\ answering = TRUE
    /\ outages = 0

InBlock(txid) == \E h \in 1..Len(chain) : txid \in chain[h].txs
HeightOf(txid) == CHOOSE h \in 1..Len(chain) : txid \in chain[h].txs
Known(txid) == txid \in pool \/ InBlock(txid)

Broadcast(txid) ==
    /\ ~Known(txid)
    /\ pool' = pool \cup {txid}
    /\ UNCHANGED <<chain, mined, lockedHeight, answering, outages>>

\* Expired, replaced or conflicted out of the mempool.
Evict(txid) ==
    /\ txid \in pool
    /\ pool' = pool \ {txid}
    /\ UNCHANGED <<chain, mined, lockedHeight, answering, outages>>

Mine(txs) ==
    /\ mined < MaxBlocks
    /\ chain' = Append(chain, [hash |-> mined + 1, txs |-> txs])
    /\ mined' = mined + 1
    /\ pool' = pool \ txs
    /\ UNCHANGED <<lockedHeight, answering, outages>>

(***************************************************************************)
(* The last `depth` blocks give way to a branch one block longer, never    *)
(* below a ChainLock.  Of the transactions that lose their block some      *)
(* return to the mempool, the others conflict with the branch.             *)
(***************************************************************************)
Reorg(depth) ==
    /\ depth =< Len(chain) - lockedHeight
    /\ mined + depth + 1 =< MaxBlocks
    /\ LET base    == Len(chain) - depth
           undone  == UNION {chain[h].txs : h \in base + 1 .. Len(chain)}
       IN  \E kept \in SUBSET undone :
           \E txs \in SUBSET (pool \cup kept), at \in 1..depth + 1 :
             /\ chain' = SubSeq(chain, 1, base)
                           \o [i \in 1..depth + 1 |->
                                 [hash |-> mined + i, txs |-> IF i = at THEN txs ELSE {}]]
             /\ pool' = (pool \cup kept) \ txs
    /\ mined' = mined + depth + 1
    /\ UNCHANGED <<lockedHeight, answering, outages>>

ChainLock ==
    /\ lockedHeight < Len(chain)
    /\ lockedHeight' = Len(chain)
    /\ UNCHANGED <<pool, chain, mined, answering, outages>>

Stop ==
    /\ answering
    /\ outages < MaxOutages
    /\ answering' = FALSE
    /\ outages' = outages + 1
    /\ UNCHANGED <<pool, chain, mined, lockedHeight>>

Resume ==
    /\ ~answering
    /\ answering' = TRUE
    /\ UNCHANGED <<pool, chain, mined, lockedHeight, outages>>

Next ==
    \/ \E txid \in Txids : Broadcast(txid) \/ Evict(txid)
    \/ \E txs \in SUBSET pool : Mine(txs)
    \/ \E depth \in 1..MaxReorgDepth : Reorg(depth)
    \/ ChainLock
    \/ Stop
    \/ Resume
=============================================================================
