------------------------------- MODULE Records -------------------------------
(***************************************************************************)
(* The message record of src/src/core/records.js: how one is created, how  *)
(* a verified anchor settles it, and when an anchor counts as final.       *)
(*                                                                         *)
(* A ciphertext hash with its nonce is one value, the record's "key"; the  *)
(* 32 bytes an anchor transaction must carry are its "commitment".         *)
(* receivedAt, which makes the hash and so the reference of two records    *)
(* with the same ID-number differ, is the number of the process run that   *)
(* received the record (within one run the ID-numbers differ).             *)
(***************************************************************************)
EXTENDS Integers

CONSTANTS
    Null,                       \* JavaScript null
    Keys,                       \* ciphertext hashes with their nonces
    Commitments,                \* what anchors commit to
    Txids,                      \* CDCI transaction ids
    ConfirmationsForFinality    \* CDCI_CONFIRMATIONS_FOR_FINALITY

\* config.js takes any integer.
ASSUME FinalityAssumption == ConfirmationsForFinality \in Int

RecordStatus == {"pending", "confirmed", "rejected"}

RejectionReasons ==
    {"replay-detected", "protocol-size-exceeded", "anchor-missing",
     "anchor-not-found", "anchor-mismatch"}

Finality == {"unknown", "mempool", "confirmed", "final", "chainlocked"}

\* The finalities unsettledAnchors() skips.
SettledFinality == {"final", "chainlocked"}

\* record.anchor, when there is one.  Blocks are named by the order they are
\* made in.
Anchor ==
    [txid : Txids, block : Nat \cup {Null}, height : Nat \cup {Null},
     confirmations : Nat, chainlock : BOOLEAN, finality : Finality]

\* null is no number, no string and no object.
ASSUME NullAssumption ==
    Null \notin Nat /\ Null \notin RejectionReasons /\ Null \notin Txids /\ Null \notin Anchor

Record ==
    [id : Nat, receivedAt : Nat, key : Keys, commitment : Commitments,
     status : RecordStatus, rejectionReason : RejectionReasons \cup {Null},
     blockHeight : Nat \cup {Null}, blockHash : Nat \cup {Null},
     anchor : Anchor \cup {Null}]

\* CdciChain.finalityOf
FinalityOf(confirmations, chainlock) ==
    CASE chainlock -> "chainlocked"
      [] ~chainlock /\ confirmations >= ConfirmationsForFinality -> "final"
      [] ~chainlock /\ confirmations < ConfirmationsForFinality /\ confirmations >= 1
           -> "confirmed"
      [] OTHER -> "mempool"

\* An anchor the node has not been asked about.
UnverifiedAnchor(txid) ==
    [txid |-> txid, block |-> Null, height |-> Null, confirmations |-> 0,
     chainlock |-> FALSE, finality |-> "unknown"]

\* What normalizeSubmission() lets through.  `oversize`: over its protocol's ceiling.
Submissions ==
    [key : Keys, commitment : Commitments, txid : Txids \cup {Null}, oversize : BOOLEAN]

\* createRecord
CreateRecord(id, receivedAt, submission, rejectionReason) ==
    [id |-> id,
     receivedAt |-> receivedAt,
     key |-> submission.key,
     commitment |-> submission.commitment,
     status |-> IF rejectionReason = Null THEN "pending" ELSE "rejected",
     rejectionReason |-> rejectionReason,
     blockHeight |-> Null,
     blockHash |-> Null,
     anchor |-> IF submission.txid = Null THEN Null ELSE UnverifiedAnchor(submission.txid)]

\* Wrong on purpose: the preimage leaves receivedAt out.
RefOfContent(record) == <<0, record.id>>

\* {HASH}/{ID-number}
Ref(record) == <<record.receivedAt, record.id>>

\* A rejected record keeps its status, whatever its anchor does.
Reject(record, reason) ==
    [record EXCEPT !.status = "rejected", !.rejectionReason = reason]

\* Wrong on purpose: a record confirmed once keeps its first block.
ApplyAnchorKeepingBlock(record, anchor) ==
    [record EXCEPT !.anchor = anchor,
                   !.status = IF anchor.confirmations >= 1 THEN "confirmed" ELSE @,
                   !.blockHeight = IF @ = Null THEN anchor.height ELSE @,
                   !.blockHash = IF @ = Null THEN anchor.block ELSE @]

(***************************************************************************)
(* applyAnchor.  A record whose anchor leaves its block goes back to       *)
(* pending, and keeps the block it was confirmed in.                       *)
(***************************************************************************)
ApplyAnchor(record, anchor) ==
    LET anchored == [record EXCEPT !.anchor = anchor]
    IN  CASE record.status = "rejected" -> anchored
          [] record.status # "rejected" /\ anchor.confirmations >= 1 /\ anchor.height # Null
               -> [anchored EXCEPT !.status = "confirmed",
                                   !.blockHeight = anchor.height,
                                   !.blockHash = anchor.block]
          [] OTHER -> [anchored EXCEPT !.status = "pending"]
=============================================================================
