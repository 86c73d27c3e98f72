----------------------------- MODULE MCExplorer -----------------------------
(* Small instances of Explorer for TLC. *)
EXTENDS Explorer, TLC

CONSTANTS r1, r2, r3, k1, k2, t1, t2

\* The commitment of a submission follows from its other fields: here, its key.
Sub(key, txid) == [key |-> key, commitment |-> key, txid |-> txid, oversize |-> FALSE]

\* Two requests with one ciphertext and one anchor - a retry, or a replay.
SameCiphertext == r1 :> Sub(k1, t1) @@ r2 :> Sub(k1, t1)

\* t1 carries k1.
CarriesOne == t1 :> k1

\* One request whose anchor is its own, one that points at the same transaction.
OwnAndForeign == r1 :> Sub(k1, t1) @@ r2 :> Sub(k2, t1)

\* One request whose anchor is its own.
Own == r1 :> Sub(k1, t1)

\* One request that points at a transaction which carries another commitment.
Foreign == r1 :> Sub(k2, t1)

\* Two requests, each with its own ciphertext and its own anchor.
TwoAnchors == r1 :> Sub(k1, t1) @@ r2 :> Sub(k2, t2)

\* t1 carries k1, t2 carries k2.
CarriesBoth == t1 :> k1 @@ t2 :> k2
=============================================================================
