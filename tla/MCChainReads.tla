---------------------------- MODULE MCChainReads ----------------------------
EXTENDS ChainReads

CONSTANTS r1, r2

Ask(op, tolerant) ==
    [op |-> op, tolerant |-> tolerant, limit |-> Null, offset |-> 0, by |-> Null, term |-> Null]

Named(ask, by, term) == [ask EXCEPT !.by = by, !.term = term]
Window(ask, limit, offset) == [ask EXCEPT !.limit = limit, !.offset = offset]

Figures == Ask("info", FALSE)
Home == Window(Ask("home", TRUE), 2, 0)
Lists == {Window(Ask("list", FALSE), 3, offset) : offset \in 0..2}
Blocks ==
    {Named(Ask("block", tolerant), "number", n) : tolerant \in BOOLEAN, n \in 0..2}
      \cup {Named(Ask("block", FALSE), "hash", HashOf("block", n)) : n \in 1..2}
Searches ==
    {Named(Ask("search", tolerant), by, 1) : tolerant \in BOOLEAN, by \in {"number", "ref"}}
      \cup {Named(Ask("search", FALSE), "hash", HashOf(kind, 1)) :
              kind \in {"block", "record", "txid", "channel"}}
Walks == {Named(Window(Ask("walk", FALSE), 1, 0), Null, channel) : channel \in {Null, 1}}

Workload(first, second, ids, blocks) ==
    [asks |-> [r \in {r1, r2} |-> IF r = r1 THEN first ELSE second],
     ids |-> ids, blocks |-> blocks]

WorkloadsValue ==
    {Workload({Home}, {Figures}, {}, 1),
     Workload(Lists \cup Blocks, {}, {}, 3),
     Workload(Searches, {}, {1, 3}, 3),
     Workload(Walks, {}, 1..3, 0)}

ChannelValue == <<1, 2, 1>>
=============================================================================
