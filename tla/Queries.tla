------------------------------- MODULE Queries -------------------------------
(***************************************************************************)
(* The queries of src/src/store/store.js over its list of records, oldest  *)
(* first, and what src/src/http/api.js makes of a caller's parameters.     *)
(* A 64-digit hash is a pair: what it is the hash of, and a number.        *)
(***************************************************************************)
EXTENDS Integers, Sequences, SequencesExt, FiniteSetsExt

CONSTANTS
    Null,
    SearchLimit       \* how many records of a channel search() shows, 50

\* A filter names the fields it selects by; an absent one is Null.
Matches(record, filter) ==
    \A field \in DOMAIN filter : filter[field] \in {Null, record[field]}

\* Wrong on purpose: the page begins one item late.
PageFromNext(items, limit, offset) ==
    SubSeq(Reverse(items), offset + 2, Min({offset + 1 + limit, Len(items)}))

\* items.slice().reverse().slice(offset, offset + limit)
Page(items, limit, offset) ==
    SubSeq(Reverse(items), offset + 1, Min({offset + limit, Len(items)}))

\* The filters of listRecords, which keep the order.
Filtered(records, filter) ==
    FoldLeft(LAMBDA items, record :
               IF Matches(record, filter) THEN Append(items, record) ELSE items,
             <<>>, records)

\* listRecords
ListRecords(records, filter, limit, offset) ==
    LET items == Filtered(records, filter)
    IN  [items |-> Page(items, limit, offset), total |-> Len(items)]

\* clampInt: what does not parse as a number (Null) is replaced, the rest clamped.
ClampInt(raw, fallback, low, high) ==
    IF raw = Null THEN fallback ELSE Min({Max({raw, low}), high})

MaxPageSize == 100

\* pagination
PageLimit(raw, default) == ClampInt(raw, default, 1, MaxPageSize)

HashOf(kind, n) == [of |-> kind, n |-> n]

\* getRecord, getRecordById
ById(records, id) == {record \in ToSet(records) : record.id = id}

\* The records of a channel that search() shows: the newest SearchLimit ones.
OfChannel(records, channel) ==
    ToSet(ListRecords(records, [channel |-> channel], SearchLimit, 0).items)

\* What search() finds in the index for a hash that is no block's: the records
\* with that hash, or else that anchor, or else that channel.
ByHash(records, hash) ==
    LET byHash   == {record \in ToSet(records) : HashOf("record", record.id) = hash}
        byAnchor == {record \in ToSet(records) : HashOf("txid", record.txid) = hash}
    IN  CASE byHash # {} -> byHash
          [] byHash = {} /\ byAnchor # {} -> byAnchor
          [] byHash = {} /\ byAnchor = {} /\ hash.of = "channel" ->
               OfChannel(records, hash.n)
          [] OTHER -> {}
=============================================================================
