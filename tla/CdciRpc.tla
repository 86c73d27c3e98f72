------------------------------- MODULE CdciRpc -------------------------------
(***************************************************************************)
(* The JSON-RPC client of src/src/chain/cdci-rpc.js: what a batch of calls *)
(* comes to, given the entries of the reply in the order they arrived, and *)
(* what a failure turns into further up.                                   *)
(***************************************************************************)
EXTENDS Integers, Sequences, SequencesExt, FiniteSetsExt

CONSTANT Null

\* One entry of a reply: a result, or an error with the daemon's code.
Result(id, value) == [id |-> id, value |-> value, code |-> Null]
Error(id, code) == [id |-> id, value |-> Null, code |-> code]

\* "block not found" and "block height out of range"
NotFound == -5
OutOfRange == -8

\* How a promise ends: with values, as a CdciRpcError, or as some other error.
Answered(values) == [end |-> "answered", values |-> values, code |-> Null]
RpcFailure(code) == [end |-> "CdciRpcError", values |-> <<>>, code |-> code]

\* The cookie could not be read, or the request was refused, timed out, was not
\* authorised or got no JSON.
NoReply == RpcFailure(Null)

\* The signal aborts, or the connection breaks, while response.text() still
\* reads the body: nothing there turns the error into a CdciRpcError.
BodyBroken == [end |-> "Error", values |-> <<>>, code |-> Null]

\* Wrong on purpose: entries are taken in the order they arrived.
AsArrived(entries) == entries

\* A daemon may reorder a batch: the entries are sorted by id ...
Sorted(entries) ==
    CHOOSE sorted \in [DOMAIN entries -> ToSet(entries)] :
      /\ ToSet(sorted) = ToSet(entries)
      /\ \A i, j \in DOMAIN sorted : i < j => sorted[i].id < sorted[j].id

\* ... and then belong to the calls by position; the first error fails the batch.
BatchOutcome(entries) ==
    LET sorted == Sorted(entries)
        failed == {i \in DOMAIN sorted : sorted[i].code # Null}
    IN  IF failed = {} THEN Answered([i \in DOMAIN sorted |-> sorted[i].value])
                       ELSE RpcFailure(sorted[Min(failed)].code)

\* Wrong on purpose: any failure of the node counts as "not found".
AbsentWhenFailed(outcome) ==
    IF outcome.end = "CdciRpcError" THEN Answered(<<Null>>) ELSE outcome

\* callAllowingAbsent
AllowingAbsent(outcome) ==
    IF outcome.code \in {NotFound, OutOfRange} THEN Answered(<<Null>>) ELSE outcome

\* CdciRpcError.toHttpError, and what sendError makes of any other error.
HttpStatus(outcome) ==
    CASE outcome.end = "answered" -> 200
      [] outcome.end = "CdciRpcError" -> 502
      [] OTHER -> 500
=============================================================================
