------------------------------ MODULE CdciChain ------------------------------
(***************************************************************************)
(* The CDCI chain as ChatScan sees it, src/src/chain/cdci.js: what one     *)
(* verifyAnchor call reports of the node it asks.                          *)
(***************************************************************************)
EXTENDS Records, Sequences

CONSTANTS
    MaxBlocks,        \* see CdciNode for the three bounds
    MaxReorgDepth,
    MaxOutages,
    Carries           \* Carries[txid]: the commitment in its OP_RETURN, or Null

ASSUME NodeAssumption ==
    /\ MaxBlocks \in Nat
    /\ MaxReorgDepth \in Nat
    /\ MaxOutages \in Nat

ASSUME CarriesAssumption == Carries \in [Txids -> Commitments \cup {Null}]

VARIABLES pool, chain, mined, lockedHeight, answering, outages

nodeVars == <<pool, chain, mined, lockedHeight, answering, outages>>

Node == INSTANCE CdciNode

\* The rejected promise of a call the node never answered (or answered with
\* any error but "no such transaction").
NoAnswer == [answered |-> FALSE, found |-> FALSE, matched |-> FALSE, anchor |-> Null]

\* absentAnchor
Absent(txid) ==
    [answered |-> TRUE, found |-> FALSE, matched |-> FALSE,
     anchor |-> UnverifiedAnchor(txid)]

\* The anchor fields verifyAnchor reads off a transaction in block `height`.
MinedAnchor(txid, height) ==
    LET confirmations == Len(chain) - height + 1
        chainlock == height =< lockedHeight
    IN  [txid |-> txid,
         block |-> chain[height].hash,
         height |-> height,
         confirmations |-> confirmations,
         chainlock |-> chainlock,
         finality |-> FinalityOf(confirmations, chainlock)]

\* Wrong on purpose: the daemon's height -1 is taken for a height.
PooledAnchorRawHeight(txid) ==
    [UnverifiedAnchor(txid) EXCEPT !.finality = FinalityOf(0, FALSE), !.height = -1]

\* ... and off one in the mempool: no block, no height.
PooledAnchor(txid) ==
    [UnverifiedAnchor(txid) EXCEPT !.finality = FinalityOf(0, FALSE)]

\* verifyAnchor, at the moment the node evaluates getrawtransaction.
VerifyAnchor(commitment, txid) ==
    CASE ~answering -> NoAnswer
      [] answering /\ ~Node!Known(txid) -> Absent(txid)
      [] OTHER ->
           [answered |-> TRUE,
            found |-> TRUE,
            matched |-> Carries[txid] = commitment,
            anchor |-> IF Node!InBlock(txid) THEN MinedAnchor(txid, Node!HeightOf(txid))
                                             ELSE PooledAnchor(txid)]
=============================================================================
