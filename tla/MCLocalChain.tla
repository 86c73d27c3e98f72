---------------------------- MODULE MCLocalChain ----------------------------
(* Small instances of LocalChain for TLC. *)
EXTENDS LocalChain, TLC

CONSTANTS k1, k2, k3

Sub(key, oversize) == [key |-> key, commitment |-> key, txid |-> Null, oversize |-> oversize]

\* Three messages, one of which is first sent over its protocol's ceiling.
ThreeMessages == {Sub(k1, FALSE), Sub(k2, FALSE), Sub(k3, FALSE), Sub(k3, TRUE)}
=============================================================================
