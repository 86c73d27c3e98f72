------------------------------- MODULE Sending -------------------------------
(***************************************************************************)
(* A chat app that sends messages through ChatSession (src/sdk/src/        *)
(* session.js) to a ChatScan node: each attempt seals the message, has the *)
(* wallet publish an anchor on CDCI, and posts the submission, which       *)
(* passes the checks of Ingest and the RateLimiter before the Explorer     *)
(* admits it.  An app that is told "retryable" queues the message and      *)
(* sends it again, as sdk/README.md has it.                                *)
(***************************************************************************)
EXTENDS Explorer, Ingest, RateLimiter

INSTANCE Commitment

CONSTANTS
    Messages,
    Forms,            \* Forms[m]: the flaws the posted submission of m may have
    Options,          \* Options[m]: the [protocol, channelHash] send() is given
    MaxAttempts,      \* bound: times a message is sent
    App, Other        \* the app's address, and another client's

ASSUME SendingAssumption == App \in Clients /\ Other \in Clients /\ App # Other

VARIABLES
    form,             \* form[m]: the flaws its submission does have
    sends,            \* sends[m]: its attempts so far, and how far the last has come
    errors            \* errors[m]: the error response on its way to the last, or what
                      \* the app was told of it; Null if there is none

sendVars == <<vars, limiterVars, form, sends, errors>>

\* One call of send() for a message: its number is the request, the key, the
\* commitment and the transaction that come with it.
Attempts == Messages \X (1..MaxAttempts)

\* The submission an attempt posts: sealMessage draws an IV (and a key) and
\* generateNonce a nonce, in lower case, every time.
Posted(a) ==
    [ciphertextHash |-> <<a, "lower">>,
     protocol       |-> Or(Options[a[1]].protocol, DefaultProtocol),
     channelHash    |-> Options[a[1]].channelHash,
     nonce          |-> <<a, "lower">>]

\* What the explorer makes of it.
Received(submission, txid) ==
    LET normalized == Normalized(submission)
    IN  [key        |-> <<normalized.ciphertextHash, normalized.nonce>>,
         commitment |-> AnchorPreimage(normalized),
         txid       |-> txid,
         oversize   |-> FALSE]

\* Wrong on purpose: a message is sealed once, and each attempt reuses that.
SealedOnce == [a \in Attempts |-> Received(Posted(<<a[1], 1>>), a)]

Sealed == [a \in Attempts |-> Received(Posted(a), a)]

\* Wrong on purpose: a retry has the anchor of the first attempt published again.
AnchoredOnce == [a \in Attempts |-> SdkPreimage(Posted(<<a[1], 1>>))]

\* What the transaction of an attempt carries in its OP_RETURN: anchorInstructions.
Anchored == [a \in Attempts |-> SdkPreimage(Posted(a))]

\* The explorer's requests are the attempts, and their transactions the anchors.
ASSUME WiringAssumption ==
    /\ Requests = Attempts
    /\ Submission = Sealed
    /\ Txids = Attempts
    /\ Carries = Anchored
    /\ MaxAttempts \in Nat

Steps == {"queued", "sealed", "paying", "paid", "posted", "refused",
          "returned", "dropped", "failed"}
Busy(m) == sends[m].step \in {"sealed", "paying", "paid", "posted", "refused"}

SendInit ==
    /\ Init
    /\ LimiterInit
    /\ form \in {f \in [Messages -> SUBSET Flaws] : \A m \in Messages : f[m] \in Forms[m]}
    /\ sends = [m \in Messages |-> [n |-> 0, step |-> "queued"]]
    /\ errors = [m \in Messages |-> Null]

Attempt(m) == <<m, sends[m].n>>
GoesTo(m, step) == sends' = [sends EXCEPT ![m].step = step]
Elsewhere == UNCHANGED <<vars, limiterVars, form, errors>>

\* Retryable: the message is queued.  Otherwise the app reports a bug and drops it.
IsTold(m, error) ==
    /\ GoesTo(m, IF Retryable(error) THEN "queued" ELSE "dropped")
    /\ errors' = [errors EXCEPT ![m] = error]

\* send(): the message is sealed and the wallet called.
Begins(m) ==
    /\ sends[m].step = "queued"
    /\ sends[m].n < MaxAttempts
    /\ sends' = [sends EXCEPT ![m] = [n |-> @.n + 1, step |-> "sealed"]]
    /\ errors' = [errors EXCEPT ![m] = Null]
    /\ UNCHANGED <<vars, limiterVars, form>>

\* createrawtransaction, fundrawtransaction and signrawtransactionwithwallet
\* have been answered, and the node evaluates sendrawtransaction.
Pays(m) ==
    /\ sends[m].step = "sealed"
    /\ Node!Broadcast(Attempt(m))
    /\ GoesTo(m, "paying")
    /\ UNCHANGED <<storeVars, taskVars, watch, stopVars, limiterVars, form, errors>>

\* The wallet has the reply.
HasPaid(m) ==
    /\ sends[m].step = "paying"
    /\ GoesTo(m, "paid")
    /\ Elsewhere

\* One of the four calls fails or is not answered in time - for the last, after
\* the anchor was paid: send() throws what is no ChatScanError, and so does the app.
WalletFails(m) ==
    /\ sends[m].step \in {"sealed", "paying"}
    /\ GoesTo(m, "failed")
    /\ Elsewhere

\* The request passes the limiter, or is refused before it is asked.
IsCounted(m) == IF Counts(form[m]) THEN Consume(App) ELSE UNCHANGED limiterVars

\* What the checks before ChatScanNode.submit make of the request.
Outcome(m) == Verdict(form[m] \cup (IF Allowed(App) THEN {} ELSE {"rate"}))

\* The explorer refuses the request; its error is on the way.
IsRefused(m) ==
    /\ sends[m].step = "paid"
    /\ Outcome(m) # Passed
    /\ IsCounted(m)
    /\ GoesTo(m, "refused")
    /\ errors' = [errors EXCEPT ![m] = Outcome(m)]
    /\ UNCHANGED <<vars, form>>

\* The error arrives, with a body that can be read or with one that breaks off.
ReadsRefusal(m) ==
    /\ sends[m].step = "refused"
    /\ \E readable \in BOOLEAN : IsTold(m, ErrorFromResponse(errors[m], readable))
    /\ UNCHANGED <<vars, limiterVars, form>>

\* The request is good, and the node takes it.
IsTaken(m) ==
    /\ sends[m].step = "paid"
    /\ Outcome(m) = Passed
    /\ IsCounted(m)
    /\ GoesTo(m, "posted")
    /\ ReceiveRejected(Attempt(m)) \/ ReceiveAdmissible(Attempt(m))
    /\ UNCHANGED <<form, errors>>

\* The request is lost on its way.
IsLost(m) ==
    /\ sends[m].step = "paid"
    /\ GoesTo(m, "posted")
    /\ Elsewhere

\* send() returns - with a record that was admitted, or with one that was not.
Returns(m) ==
    /\ sends[m].step = "posted"
    /\ answers[Attempt(m)] # Null
    /\ GoesTo(m, "returned")
    /\ Elsewhere

\* The response arrives and its body breaks off, or does not end in time: what
\* response.json() throws is no ChatScanError, and send() throws it.
BodyIsCut(m) ==
    /\ sends[m].step = "posted"
    /\ answers[Attempt(m)] # Null
    /\ GoesTo(m, "failed")
    /\ Elsewhere

\* Wrong on purpose: the request has no timeout.
WaitsForEver(m) == FALSE

\* No response in time, or it is lost on its way: the handler, if it is not done,
\* goes on without its client.
TimesOut(m) ==
    /\ sends[m].step \in {"posted", "refused"}
    /\ IsTold(m, NetworkError)
    /\ IF InFlight(Attempt(m)) THEN Disconnect(Attempt(m)) ELSE UNCHANGED vars
    /\ UNCHANGED <<limiterVars, form>>

\* The process starts; until then every request is lost.
Starts ==
    /\ Replay
    /\ UNCHANGED <<limiterVars, form, sends, errors>>

\* The handler of a request, with or without its client.
Handles(a) ==
    /\ Proceeds(a)
    /\ UNCHANGED <<limiterVars, form, sends, errors>>

\* The CDCI node mines, or forgets a transaction nobody has mined.
ChainMoves ==
    /\ \/ \E txs \in SUBSET pool : Node!Mine(txs)
       \/ \E txid \in Txids : Node!Evict(txid)
    /\ UNCHANGED <<storeVars, taskVars, watch, stopVars, limiterVars, form, sends, errors>>

\* Another client posts something (a bound: once in a window).
OtherPosts ==
    /\ Opens(Other)
    /\ Consume(Other)
    /\ UNCHANGED <<vars, form, sends, errors>>

ClockTicks ==
    /\ TimePasses
    /\ UNCHANGED <<vars, form, sends, errors>>

\* What send() does next by itself, whatever becomes of its calls.
SessionStep(m) ==
    \/ HasPaid(m) \/ WalletFails(m)
    \/ IsRefused(m) \/ IsTaken(m) \/ IsLost(m)
    \/ ReadsRefusal(m) \/ Returns(m) \/ BodyIsCut(m) \/ TimesOut(m)

SendNext ==
    \/ \E m \in Messages : Begins(m) \/ Pays(m) \/ SessionStep(m)
    \/ \E a \in Attempts : Handles(a)
    \/ Starts
    \/ ChainMoves
    \/ OtherPosts
    \/ ClockTicks

\* Every call of the SDK has a timeout.
FairSending ==
    /\ SendInit /\ [][SendNext]_sendVars
    /\ WF_sendVars(\E m \in Messages : SessionStep(m))

-----------------------------------------------------------------------------
(* Properties *)

\* The type of every variable.
SendTypeOK ==
    /\ TypeOK
    /\ LimiterTypeOK
    /\ \A m \in Messages : form[m] \in Forms[m]
    /\ sends \in [Messages -> [n : 0..MaxAttempts, step : Steps]]
    /\ errors \in [Messages -> Errors \cup {Null}]

(***************************************************************************)
(* A retry is no replay: an attempt whose response was lost may have been  *)
(* recorded, so sending the message again must not be taken for a replay   *)
(* of it - it would be dropped for good while the app thinks it is new.    *)
(***************************************************************************)
RetryIsNoReplay ==
    \A ref \in DOMAIN recs : recs[ref].rejectionReason # "replay-detected"

(***************************************************************************)
(* "The ChatScan anchor commitment, derived exactly as the explorer        *)
(* derives it" (sdk/src/commitment.js): the anchor a session paid for      *)
(* counts.  The explorer, which derives the commitment by itself, never    *)
(* rejects the submission as unanchored or anchored to something else,     *)
(* unless the node has forgotten the transaction since.                    *)
(***************************************************************************)
OwnAnchorCounts ==
    \A ref \in DOMAIN recs :
      /\ recs[ref].rejectionReason \notin {"anchor-missing", "anchor-mismatch"}
      /\ recs[ref].rejectionReason = "anchor-not-found" => ~Node!Known(recs[ref].anchor.txid)

(***************************************************************************)
(* "queue the message rather than drop it" (errors.js): a message the app  *)
(* drops would have been refused at any other time as well - unless it was *)
(* over the limit and the body of the 429 was lost: then retryable does    *)
(* not see that it was rate_limited.                                       *)
(***************************************************************************)
DroppedForCause ==
    \A m \in Messages :
      sends[m].step = "dropped" => Verdict(form[m]) # Passed \/ errors[m] = Unread(429)

\* send() settles: whatever is lost or fails, it returns, throws, or is told
\* to try again.
SendSettles == \A m \in Messages : Busy(m) ~> ~Busy(m)
=============================================================================
