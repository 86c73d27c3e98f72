-------------------------------- MODULE Ingest --------------------------------
(***************************************************************************)
(* What becomes of a request to POST /api/v1/records before the node sees  *)
(* it: the checks it passes through, in the order of src/src/http/         *)
(* server.js, api.js, respond.js and src/src/core/records.js, and what the *)
(* SDK's errors (src/sdk/src/errors.js) tell an app of the outcome.        *)
(*                                                                         *)
(* A request is the set of its flaws: the checks it does not pass.         *)
(***************************************************************************)
EXTENDS Integers, Sequences, SequencesExt

Check(flaw, status, code) == [flaw |-> flaw, status |-> status, code |-> code]

\* handle: no method the server knows, or not the one of the route.
WrongMethod == Check("method", 405, "method_not_allowed")

\* match and allowedMethods: no route has the path.
NoRoute == Check("path", 404, "not_found")

Routing == <<WrongMethod, NoRoute>>

\* requireIngestKey, then the limiter.
Gates ==
    << Check("key", 401, "unauthorized"),
       Check("rate", 429, "rate_limited") >>

\* readJsonBody
Reading ==
    << Check("type", 400, "unsupported_media_type"),
       Check("length", 413, "payload_too_large"),
       Check("transfer", 400, "body_read_failed"),
       Check("json", 400, "invalid_json") >>

\* normalizeSubmission
Validation ==
    << Check("object", 400, "invalid_body"),
       Check("content", 400, "content_rejected"),
       Check("field", 400, "unknown_field"),
       Check("noCiphertextHash", 400, "missing_field"),
       Check("ciphertextHash", 400, "invalid_hash"),
       Check("channelHash", 400, "invalid_hash"),
       Check("size", 400, "invalid_size"),
       Check("protocol", 400, "unknown_protocol"),
       Check("nonce", 400, "invalid_nonce"),
       Check("fee", 400, "invalid_fee"),
       Check("appVersion", 400, "invalid_app_version"),
       Check("anchorTxid", 400, "invalid_hash") >>

Checks == Routing \o Gates \o Reading \o Validation

Flaws == {check.flaw : check \in ToSet(Checks)}

\* Nothing was wrong with the request: the node takes it.
Passed == [status |-> 200, code |-> "submitted"]

\* The first check that fails answers.
Verdict(flaws) ==
    LET first == CHOOSE i \in DOMAIN Checks :
                   /\ Checks[i].flaw \in flaws
                   /\ \A j \in 1..i - 1 : Checks[j].flaw \notin flaws
    IN  IF flaws \cap Flaws = {} THEN Passed
        ELSE [status |-> Checks[first].status, code |-> Checks[first].code]

\* The limiter is asked only about requests that got past the checks before it.
Counts(flaws) == flaws \cap {check.flaw : check \in ToSet(Routing \o <<Gates[1]>>)} = {}

\* What fetch throws, or does not return in time, becomes for the app.
NetworkError == [status |-> 0, code |-> "network_error"]

\* "http_<status>": the code an error is given when its body has none.
Unread(status) == [status |-> status, code |-> "http_status"]

\* Wrong on purpose: without a body the error has no code.
NoCode(response, readable) ==
    IF readable THEN response ELSE [status |-> response.status, code |-> "undefined"]

\* What the SDK makes of an error response: a body that breaks off, or does not
\* end in time, is no JSON, and the explorer's own code is lost with it.
ErrorFromResponse(response, readable) ==
    IF readable THEN response ELSE Unread(response.status)

\* What the checks answer, and everything an app may be told of a submission.
Responses == {[status |-> check.status, code |-> check.code] : check \in ToSet(Checks)}
Errors ==
    {NetworkError} \cup Responses \cup {Unread(response.status) : response \in Responses}

\* Wrong on purpose: a rate limit is the client's fault, like any other 4xx.
RetryableByStatus(error) == error.status = 0 \/ error.status >= 500

\* "retrying later could succeed"
Retryable(error) ==
    \/ error.status = 0
    \/ error.status >= 500
    \/ error.code \in {"network_error", "rate_limited", "cdci_unavailable"}
=============================================================================
