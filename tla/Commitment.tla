----------------------------- MODULE Commitment -----------------------------
(***************************************************************************)
(* The anchor commitment, which is derived twice: by a client before it    *)
(* submits (src/sdk/src/commitment.js) and by the explorer from the        *)
(* submission as it normalised it (src/src/chain/commitment.js and         *)
(* src/src/core/records.js).                                               *)
(*                                                                         *)
(* A text is a pair: what it spells, and in which case.  The digest is     *)
(* taken to be injective: a commitment is its preimage.  The size and the  *)
(* chain id, which the session reads from the explorer, are no texts a     *)
(* caller can spell in two ways and are left out.                          *)
(***************************************************************************)
CONSTANT Null

Lower(text) == <<text[1], "lower">>
Upper(text) == <<text[1], "upper">>
Empty == <<"", "lower">>
DefaultProtocol == <<"C7", "upper">>

\* value ?? fallback
Or(value, fallback) == IF value = Null THEN fallback ELSE value

\* normalizeSubmission, for the texts the commitment is taken over.
Normalized(submission) ==
    [ciphertextHash |-> Lower(submission.ciphertextHash),
     protocol       |-> Upper(Or(submission.protocol, DefaultProtocol)),
     channelHash    |-> IF submission.channelHash = Null THEN Null
                        ELSE Lower(submission.channelHash),
     nonce          |-> Lower(Or(submission.nonce, Empty))]

\* anchorPreimage of the explorer, for a normalised submission.
AnchorPreimage(subject) ==
    <<subject.ciphertextHash, subject.protocol, Or(subject.channelHash, Empty),
      Or(subject.nonce, Empty)>>

\* anchorPreimage of the SDK, for the submission as it is about to be sent.
SdkPreimage(subject) ==
    <<subject.ciphertextHash, Or(subject.protocol, DefaultProtocol),
      Or(subject.channelHash, Empty), Or(subject.nonce, Empty)>>
=============================================================================
