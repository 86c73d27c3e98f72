--------------------------- MODULE ChainReadsProofs ---------------------------
(***************************************************************************)
(* The reads of the explorer on the CDCI backend, for any number of        *)
(* concurrent requests and records, any chain and any reorganisations, and *)
(* every order in which the node answers a batch.                          *)
(***************************************************************************)
EXTENDS ChainReads, LogLemmas, FiniteSetTheorems, SequenceTheorems

-----------------------------------------------------------------------------
(* Numbers *)

\* The lesser and the greater of two numbers.
LEMMA OfTwo ==
    ASSUME NEW a \in Int, NEW b \in Int
    PROVE  /\ Min({a, b}) = IF a =< b THEN a ELSE b
           /\ Max({a, b}) = IF a =< b THEN b ELSE a
<1>1. CASE a =< b
  <2>1. a \in {a, b} /\ b \in {a, b} /\ \A y \in {a, b} : a =< y /\ b >= y
    BY <1>1
  <2>2. \A x \in {a, b} : (\A y \in {a, b} : x =< y) => x = a
    BY <1>1
  <2>3. \A x \in {a, b} : (\A y \in {a, b} : x >= y) => x = b
    BY <1>1
  <2> QED
    BY <1>1, <2>1, <2>2, <2>3 DEF Min, Max
<1>2. CASE ~(a =< b)
  <2>1. a \in {a, b} /\ b \in {a, b} /\ \A y \in {a, b} : b =< y /\ a >= y
    BY <1>2
  <2>2. \A x \in {a, b} : (\A y \in {a, b} : x =< y) => x = b
    BY <1>2
  <2>3. \A x \in {a, b} : (\A y \in {a, b} : x >= y) => x = a
    BY <1>2
  <2> QED
    BY <1>2, <2>1, <2>2, <2>3 DEF Min, Max
<1> QED
  BY <1>1, <1>2

\* A page is never empty, whatever the caller asks for.
LEMMA PageLimitPositive ==
    ASSUME NEW raw \in Int \cup {Null}, NEW fallback \in Nat \ {0}
    PROVE  PageLimit(raw, fallback) \in Nat \ {0}
<1>1. CASE raw = Null
  BY <1>1 DEF PageLimit, ClampInt
<1>2. CASE raw # Null
  <2>1. raw \in Int /\ 1 \in Int /\ 100 \in Int
    BY <1>2
  <2>2. Max({raw, 1}) \in Nat \ {0}
    BY <2>1, OfTwo
  <2>3. Min({Max({raw, 1}), 100}) \in Nat \ {0}
    BY <2>2, OfTwo
  <2> QED
    BY <1>2, <2>3 DEF PageLimit, ClampInt, MaxPageSize
<1> QED
  BY <1>1, <1>2

\* There are n heights from `offset` below the tip, at most `limit`.
AreHeights(n, tip, limit, offset) ==
    /\ n \in Nat
    /\ HeightsWanted(tip, limit, offset) = [i \in 1..n |-> tip - offset - i + 1]
    /\ n = 0 <=> offset > tip
    /\ \A i \in 1..n : tip - offset - i + 1 \in 0..tip

\* How many heights a list asks for.
LEMMA HeightsAre ==
    ASSUME NEW tip \in Nat, NEW limit \in Nat \ {0}, NEW offset \in Nat,
           NEW n, n = Min({limit, Max({(tip + 1) - offset, 0})})
    PROVE  AreHeights(n, tip, limit, offset)
<1>1. tip - offset + 1 \in Int /\ 0 \in Int /\ (tip + 1) - offset = tip - offset + 1
  OBVIOUS
<1>2. PICK m : m = Max({tip - offset + 1, 0})
  OBVIOUS
<1>3. m \in Nat /\ (m = 0 <=> offset > tip) /\ (m # 0 => m = tip - offset + 1)
  <2>1. m = IF tip - offset + 1 =< 0 THEN 0 ELSE tip - offset + 1
    BY ONLY <1>1, <1>2, OfTwo
  <2> QED
    BY <2>1
<1>4. n = Min({limit, m})
  BY <1>1, <1>2
<1>5. n \in Nat /\ (n = 0 <=> m = 0) /\ n =< m
  BY <1>3, <1>4, OfTwo
<1>6. \A i \in 1..n : tip - offset - i + 1 \in 0..tip
  BY <1>3, <1>5
<1> QED
  BY <1>1, <1>2, <1>3, <1>4, <1>5, <1>6 DEF HeightsWanted, AreHeights

-----------------------------------------------------------------------------
(* The filters of listRecords *)

\* One turn of the loop.
Kept(items, record, filter) ==
    IF Matches(record, filter) THEN Append(items, record) ELSE items

\* The function the fold takes its value from.
FilteredBy(list, filter) ==
    CHOOSE f : f = [S \in SUBSET (DOMAIN list) |->
      IF S = {} THEN <<>> ELSE Kept(f[S \ {Max(S)}], list[Max(S)], filter)]

\* Rebuilt goes through the list line by line.
LEMMA FilteredIsFold ==
    ASSUME NEW R, NEW filter, NEW list \in Seq(R)
    PROVE  /\ Filtered(list, filter) = FilteredBy(list, filter)[1..Len(list)]
           /\ FilteredBy(list, filter)[{}] = <<>>
           /\ \A S \in SUBSET (1..Len(list)) : S # {} =>
                FilteredBy(list, filter)[S] = Kept(FilteredBy(list, filter)[S \ {Max(S)}], list[Max(S)], filter)
<1> DEFINE n == Len(list)
           step == [p \in Seq(R) \X (1..n) |-> Kept(p[1], list[p[2]], filter)]
           Fold(f) == [S \in SUBSET (DOMAIN list) |->
                         IF S = {} THEN <<>> ELSE Kept(f[S \ {Max(S)}], list[Max(S)], filter)]
<1>1. n \in Nat /\ DOMAIN list = 1..n /\ \A i \in 1..n : list[i] \in R
  BY ElementOfSequence
<1>2. step \in [Seq(R) \X (1..n) -> Seq(R)]
  BY <1>1, AppendToSequence DEF Kept
<1>0. <<>> \in Seq(R)
  OBVIOUS
<1>3. PICK f : FoldedBy(f, Seq(R), <<>>, step, n)
  BY <1>1, <1>2, <1>0, SetRecursion
<1>4. f = Fold(f)
  <2>1. f \in [SUBSET (1..n) -> Seq(R)] /\ f[{}] = <<>>
    BY <1>3 DEF FoldedBy
  <2>2. ASSUME NEW S \in SUBSET (1..n), S # {}
        PROVE  f[S] = Kept(f[S \ {Max(S)}], list[Max(S)], filter)
    <3>1. f[S] = step[<<f[S \ {Max(S)}], Max(S)>>]
      BY <1>3, <2>2 DEF FoldedBy
    <3>2. Max(S) \in 1..n
      BY <1>1, <2>2, MaxOfIndices
    <3>3. f[S \ {Max(S)}] \in Seq(R)
      BY <2>1
    <3> HIDE DEF n
    <3>4. step[<<f[S \ {Max(S)}], Max(S)>>] = Kept(f[S \ {Max(S)}], list[Max(S)], filter)
      BY <3>2, <3>3
    <3> QED
      BY <3>1, <3>4
  <2> HIDE DEF step, n
  <2> QED
    BY <1>1, <2>1, <2>2
<1>5. FilteredBy(list, filter) = Fold(FilteredBy(list, filter))
  BY <1>4 DEF FilteredBy
<1>6. Filtered(list, filter) = FilteredBy(list, filter)[DOMAIN list]
  BY DEF Filtered, FilteredBy, FoldLeft, MapThenFoldSet, Kept
<1> HIDE DEF step, n
<1>7. FilteredBy(list, filter)[{}] = <<>>
  BY <1>5
<1>8. \A S \in SUBSET (DOMAIN list) : S # {} =>
        FilteredBy(list, filter)[S] = Kept(FilteredBy(list, filter)[S \ {Max(S)}], list[Max(S)], filter)
  BY <1>5
<1> QED
  BY <1>1, <1>6, <1>7, <1>8 DEF n

\* One record more is listed last, or not at all.
LEMMA FilteredAppend ==
    ASSUME NEW R, NEW filter, NEW list \in Seq(R), NEW item \in R
    PROVE  Filtered(Append(list, item), filter) = Kept(Filtered(list, filter), item, filter)
<1> DEFINE longer == Append(list, item)
           f == FilteredBy(list, filter)
           g == FilteredBy(longer, filter)
           T == {k \in Nat : k =< Len(list) => f[1..k] = g[1..k]}
<1>1. /\ longer \in Seq(R) /\ Len(list) \in Nat /\ Len(longer) = Len(list) + 1
      /\ \A i \in 1..Len(list) : longer[i] = list[i]
      /\ longer[Len(list) + 1] = item
  BY AppendToSequence
<1> HIDE DEF longer
<1>2. /\ Filtered(list, filter) = f[1..Len(list)]
      /\ f[{}] = <<>>
      /\ \A S \in SUBSET (1..Len(list)) : S # {} => f[S] = Kept(f[S \ {Max(S)}], list[Max(S)], filter)
  BY FilteredIsFold
<1>3. /\ Filtered(longer, filter) = g[1..Len(longer)]
      /\ g[{}] = <<>>
      /\ \A S \in SUBSET (1..Len(longer)) : S # {} => g[S] = Kept(g[S \ {Max(S)}], longer[Max(S)], filter)
  <2>1. longer \in Seq(R)
    BY <1>1
  <2> QED
    BY ONLY <2>1, FilteredIsFold
<1> HIDE DEF f, g
<1>4. ASSUME NEW k \in Nat
      PROVE  /\ k + 1 =< Len(list) => f[1..k + 1] = Kept(f[1..k], list[k + 1], filter)
             /\ k + 1 =< Len(longer) => g[1..k + 1] = Kept(g[1..k], longer[k + 1], filter)
  <2>1. /\ 1..k + 1 # {} /\ (1..k + 1) \ {k + 1} = 1..k
        /\ k + 1 =< Len(list) => 1..k + 1 \in SUBSET (1..Len(list))
        /\ k + 1 =< Len(longer) => 1..k + 1 \in SUBSET (1..Len(longer))
        /\ Max(1..k + 1) = k + 1
    <3>1. Len(list) \in Nat /\ Len(longer) \in Nat
      BY <1>1
    <3>2. \A n \in Nat : k + 1 =< n => 1..k + 1 \in SUBSET (1..n)
      OBVIOUS
    <3> QED
      BY <3>1, <3>2, MaxOfInterval
  <2> QED
    BY <1>2, <1>3, <2>1
<1>5. 0 \in T
  <2>1. 1..0 = {}
    OBVIOUS
  <2> QED
    BY <1>2, <1>3, <2>1
<1>6. \A k \in Nat : k \in T => k + 1 \in T
  <2> SUFFICES ASSUME NEW k \in Nat, k + 1 =< Len(list), f[1..k] = g[1..k]
               PROVE  f[1..k + 1] = g[1..k + 1]
    BY <1>1
  <2>1. k + 1 \in 1..Len(list) /\ k + 1 =< Len(longer)
    BY <1>1
  <2> QED
    BY <1>1, <1>4, <2>1
<1> HIDE DEF T
<1>7. Len(list) \in T
  BY <1>1, <1>5, <1>6, Induction
<1>8. f[1..Len(list)] = g[1..Len(list)]
  BY <1>1, <1>7 DEF T
<1>9. g[1..Len(list) + 1] = Kept(g[1..Len(list)], longer[Len(list) + 1], filter)
  BY <1>1, <1>4
<1> QED
  BY <1>1, <1>2, <1>3, <1>8, <1>9 DEF longer

\* One element more.
LEMMA WithLast ==
    ASSUME NEW R, NEW list \in Seq(R), NEW item \in R
    PROVE  ToSet(Append(list, item)) = ToSet(list) \cup {item}
<1>1. DOMAIN list = 1..Len(list) /\ DOMAIN Append(list, item) = 1..Len(list) + 1
  OBVIOUS
<1>2. /\ \A i \in 1..Len(list) : Append(list, item)[i] = list[i]
      /\ Append(list, item)[Len(list) + 1] = item
      /\ Len(list) \in Nat
  BY AppendToSequence
<1>3. 1..Len(list) + 1 = (1..Len(list)) \cup {Len(list) + 1}
  BY <1>2
<1> QED
  BY <1>1, <1>2, <1>3 DEF ToSet

\* `items` are those of the first k.
TakenFrom(items, list, filter, k) ==
    ToSet(items) = {list[i] : i \in {j \in 1..k : Matches(list[j], filter)}}

\* What the filter keeps, in the order the records have.
LEMMA FilteredIs ==
    ASSUME NEW R, NEW filter, NEW list \in Seq(R)
    PROVE  /\ Filtered(list, filter) \in Seq(R)
           /\ ToSet(Filtered(list, filter)) = {item \in ToSet(list) : Matches(item, filter)}
<1> DEFINE f == FilteredBy(list, filter)
           T == {k \in Nat : k =< Len(list) =>
                   f[1..k] \in Seq(R) /\ TakenFrom(f[1..k], list, filter, k)}
<1>1. Len(list) \in Nat /\ DOMAIN list = 1..Len(list) /\ \A i \in 1..Len(list) : list[i] \in R
  BY ElementOfSequence
<1>2. /\ Filtered(list, filter) = f[1..Len(list)]
      /\ f[{}] = <<>>
      /\ \A S \in SUBSET (1..Len(list)) : S # {} => f[S] = Kept(f[S \ {Max(S)}], list[Max(S)], filter)
  BY FilteredIsFold
<1> HIDE DEF f
<1>3. 0 \in T
  <2>1. 1..0 = {} /\ <<>> \in Seq(R) /\ ToSet(<<>>) = {}
    BY DEF ToSet
  <2> QED
    BY <1>2, <2>1 DEF TakenFrom
<1>4. \A k \in Nat : k \in T => k + 1 \in T
  <2> SUFFICES ASSUME NEW k \in Nat, k + 1 =< Len(list),
                      f[1..k] \in Seq(R), TakenFrom(f[1..k], list, filter, k)
               PROVE  f[1..k + 1] \in Seq(R) /\ TakenFrom(f[1..k + 1], list, filter, k + 1)
    BY <1>1
  <2>1. 1..k + 1 \in SUBSET (1..Len(list)) /\ 1..k + 1 # {} /\ (1..k + 1) \ {k + 1} = 1..k
    <3>1. Len(list) \in Nat
      BY <1>1
    <3> QED
      BY <3>1
  <2>2. Max(1..k + 1) = k + 1
    BY MaxOfInterval
  <2>3. f[1..k + 1] = Kept(f[1..k], list[k + 1], filter)
    BY <1>2, <2>1, <2>2
  <2>4. k + 1 \in 1..k + 1 /\ 1..k \subseteq 1..k + 1 /\ list[k + 1] \in R
    BY <1>1
  <2>5. PICK items \in Seq(R) : items = f[1..k]
    OBVIOUS
  <2>6. PICK item \in R : item = list[k + 1]
    BY <2>4
  <2>7. CASE Matches(list[k + 1], filter)
    <3>1. f[1..k + 1] = Append(items, item)
      BY <2>3, <2>5, <2>6, <2>7 DEF Kept
    <3>2. {j \in 1..k + 1 : Matches(list[j], filter)}
            = {j \in 1..k : Matches(list[j], filter)} \cup {k + 1}
      BY <2>1, <2>4, <2>7
    <3>3. Append(items, item) \in Seq(R)
      BY ONLY <2>5, <2>6, AppendToSequence
    <3>4. ToSet(Append(items, item)) = ToSet(items) \cup {item}
      BY ONLY <2>5, <2>6, WithLast
    <3> QED
      BY <2>5, <2>6, <3>1, <3>2, <3>3, <3>4 DEF TakenFrom
  <2>8. CASE ~Matches(list[k + 1], filter)
    <3>1. f[1..k + 1] = f[1..k]
      BY <2>3, <2>8 DEF Kept
    <3>2. {j \in 1..k + 1 : Matches(list[j], filter)} = {j \in 1..k : Matches(list[j], filter)}
      BY <2>1, <2>4, <2>8
    <3> QED
      BY <3>1, <3>2 DEF TakenFrom
  <2> QED
    BY <2>7, <2>8
<1> HIDE DEF T
<1>5. Len(list) \in T
  BY <1>1, <1>3, <1>4, Induction
<1>6. Filtered(list, filter) \in Seq(R) /\ TakenFrom(Filtered(list, filter), list, filter, Len(list))
  BY <1>1, <1>2, <1>5 DEF T
<1>7. {list[i] : i \in {j \in 1..Len(list) : Matches(list[j], filter)}}
        = {item \in ToSet(list) : Matches(item, filter)}
  BY <1>1 DEF ToSet
<1> QED
  BY <1>6, <1>7 DEF TakenFrom

\* `limit` items, from `offset` behind the newest.
IsPage(page, items, limit, offset) ==
    ToSet(page) = {items[p] : p \in {q \in 1..Len(items) : Len(items) - offset - limit < q
                                                            /\ q =< Len(items) - offset}}

\* A page holds those.
LEMMA PageIs ==
    ASSUME NEW R, NEW items \in Seq(R), NEW limit \in Nat \ {0}, NEW offset \in Nat
    PROVE  /\ IsPage(Page(items, limit, offset), items, limit, offset)
           /\ Page(items, limit, offset) \in Seq(R)
<1> DEFINE n == Len(items)
           last == Min({offset + limit, n})
           page == Page(items, limit, offset)
           S == {q \in 1..n : n - offset - limit < q /\ q =< n - offset}
<1>1. n \in Nat /\ DOMAIN items = 1..n /\ \A i \in 1..n : items[i] \in R
  BY ElementOfSequence
<1>2. last = IF offset + limit =< n THEN offset + limit ELSE n
  BY <1>1, OfTwo
<1>3. last \in Nat /\ last =< n /\ last =< offset + limit /\ (last = offset + limit \/ last = n)
  BY <1>1, <1>2
<1>4. Reverse(items) = [i \in 1..n |-> items[n - i + 1]] /\ \A i \in 1..n : n - i + 1 \in 1..n
  BY <1>1 DEF Reverse
<1>5. PICK back : back = Reverse(items)
  OBVIOUS
<1>6. back \in Seq(R) /\ Len(back) = n /\ \A i \in 1..n : back[i] = items[n - i + 1]
  BY <1>1, <1>4, <1>5
<1> HIDE DEF n, last
<1>7. page = SubSeq(back, offset + 1, last)
  BY <1>5 DEF Page, last, n
<1>8. page = [i \in 1..last - offset |-> back[offset + i]] /\ page \in Seq(R)
  <2>1. CASE offset + 1 =< last
    <3>1. page = [i \in 1..last - (offset + 1) + 1 |-> back[i + (offset + 1) - 1]]
      <4>1. offset + 1 \in 1..n + 1 /\ last \in offset..n
        BY <1>1, <1>3, <2>1
      <4>2. \A i \in offset + 1..last : back[i] \in R
        BY <1>1, <1>4, <1>6, <4>1
      <4>3. offset + 1 \in Int /\ last \in Int
        BY <1>3
      <4> HIDE DEF page
      <4>4. /\ page \in Seq(R)
            /\ Len(page) = IF offset + 1 =< last THEN last - (offset + 1) + 1 ELSE 0
            /\ \A i \in 1..last - (offset + 1) + 1 : page[i] = back[(offset + 1) + i - 1]
        BY ONLY <1>7, <4>2, <4>3, SubSeqProperties
      <4>5. \A i \in 1..last - (offset + 1) + 1 :
              (offset + 1) + i - 1 = i + (offset + 1) - 1
        BY <4>3
      <4>6. Len(page) = last - (offset + 1) + 1
        BY <2>1, <4>4
      <4>7. page = [i \in 1..Len(page) |-> page[i]]
        BY <4>4
      <4> QED
        BY <4>4, <4>5, <4>6, <4>7
    <3>2. last - (offset + 1) + 1 = last - offset
      BY <1>3
    <3>3. \A i \in 1..last - offset : i + (offset + 1) - 1 = offset + i /\ offset + i \in 1..n
      BY <1>1, <1>3
    <3>4. page = [i \in 1..last - offset |-> back[offset + i]]
      BY <3>1, <3>2, <3>3
    <3>5. last - offset \in Nat /\ \A i \in 1..last - offset : back[offset + i] \in R
      BY <1>1, <1>3, <1>4, <1>6, <2>1, <3>3
    <3> HIDE DEF page
    <3> QED
      BY <3>4, <3>5
  <2>2. CASE last < offset + 1
    <3>1. page = <<>>
      BY <1>3, <1>6, <1>7, <2>2
    <3>2. 1..last - offset = {}
      BY <1>3, <2>2
    <3> HIDE DEF page
    <3> QED
      BY <3>1, <3>2
  <2> QED
    BY <1>3, <2>1, <2>2
<1> HIDE DEF page
<1>9. ToSet(page) = {back[offset + i] : i \in 1..last - offset}
  BY <1>8 DEF ToSet
<1>10. ASSUME NEW i \in 1..last - offset
       PROVE  \E q \in S : back[offset + i] = items[q]
  <2>1. offset + i \in 1..n /\ n - (offset + i) + 1 \in S
    BY <1>1, <1>3
  <2> QED
    BY <1>6, <2>1
<1>11. ASSUME NEW q \in S
       PROVE  \E i \in 1..last - offset : back[offset + i] = items[q]
  <2>1. n - offset - q + 1 \in 1..last - offset /\ offset + (n - offset - q + 1) \in 1..n
        /\ n - (offset + (n - offset - q + 1)) + 1 = q
    BY <1>1, <1>3
  <2> QED
    BY <1>6, <2>1
<1> HIDE DEF S
<1>12. ToSet(page) = {items[q] : q \in S}
  BY <1>9, <1>10, <1>11
<1> QED
  BY <1>8, <1>12 DEF page, S, n, IsPage

-----------------------------------------------------------------------------
(* A batch *)

\* Numbers that increase from 1 to n are 1, ..., n.
LEMMA IncreasingIsIdentity ==
    ASSUME NEW n \in Nat, NEW g \in [1..n -> 1..n],
           \A i, j \in 1..n : i < j => g[i] < g[j]
    PROVE  \A k \in 1..n : g[k] = k
<1> DEFINE Low == {m \in Nat : m \in 1..n => g[m] >= m}
           High == {m \in Nat : n - m \in 1..n => g[n - m] =< n - m}
<1>1. \A k \in 1..n : g[k] \in 1..n
  OBVIOUS
<1>2. 0 \in Low
  OBVIOUS
<1>3. \A m \in Nat : m \in Low => m + 1 \in Low
  <2> SUFFICES ASSUME NEW m \in Nat, m \in 1..n => g[m] >= m, m + 1 \in 1..n
               PROVE  g[m + 1] >= m + 1
    OBVIOUS
  <2>1. CASE m = 0
    BY <1>1, <2>1
  <2>2. CASE m # 0
    <3>1. m \in 1..n /\ m < m + 1
      BY <2>2
    <3>2. g[m] < g[m + 1]
      BY <3>1
    <3>3. g[m] >= m /\ g[m] \in Int /\ g[m + 1] \in Int
      BY <1>1, <3>1
    <3> QED
      BY <3>2, <3>3
  <2> QED
    BY <2>1, <2>2
<1>4. 0 \in High
  BY <1>1
<1>5. \A m \in Nat : m \in High => m + 1 \in High
  <2> SUFFICES ASSUME NEW m \in Nat, n - m \in 1..n => g[n - m] =< n - m, n - (m + 1) \in 1..n
               PROVE  g[n - (m + 1)] =< n - (m + 1)
    OBVIOUS
  <2>1. n - m \in 1..n /\ n - (m + 1) < n - m
    OBVIOUS
  <2>2. g[n - (m + 1)] < g[n - m]
    BY <2>1
  <2>3. g[n - m] =< n - m /\ g[n - m] \in Int /\ g[n - (m + 1)] \in Int
    BY <1>1, <2>1
  <2> QED
    BY <2>2, <2>3
<1> HIDE DEF Low, High
<1>6. Nat \subseteq Low
  BY <1>2, <1>3, Induction
<1>7. Nat \subseteq High
  BY <1>4, <1>5, Induction
<1> QED
  <2> SUFFICES ASSUME NEW k \in 1..n
               PROVE  g[k] = k
    OBVIOUS
  <2>1. k \in Nat /\ n - k \in Nat /\ n - (n - k) = k
    OBVIOUS
  <2>2. g[k] >= k
    BY <1>6, <2>1 DEF Low
  <2>3. g[k] =< k
    BY <1>7, <2>1 DEF High
  <2> QED
    BY <1>1, <2>2, <2>3

\* The entries of a batch of n calls that all have been evaluated: one for each.
OneForEach(entries, n) ==
    /\ DOMAIN entries = 1..n
    /\ \A i \in 1..n : entries[i].id \in 1..n
    /\ \A i, j \in 1..n : entries[i].id = entries[j].id => i = j

\* Where the entry of each call is.
LEMMA EveryCallHasOne ==
    ASSUME NEW n \in Nat, NEW entries, OneForEach(entries, n)
    PROVE  \E at \in [1..n -> 1..n] : \A k \in 1..n : entries[at[k]].id = k
<1> DEFINE f == [i \in 1..n |-> entries[i].id]
<1>1. f \in [1..n -> 1..n] /\ \A i, j \in 1..n : f[i] = f[j] => i = j
  BY DEF OneForEach
<1>2. f \in Injection(1..n, 1..n)
  BY <1>1 DEF Injection, IsInjective
<1>3. IsFiniteSet(1..n) /\ Cardinality(1..n) = Cardinality(1..n)
  BY FS_Interval
<1>4. f \in Surjection(1..n, 1..n)
  BY ONLY <1>2, <1>3, FS_Injection
<1>5. \A k \in 1..n : \E i \in 1..n : f[i] = k
  BY <1>4 DEF Surjection
<1>6. \A k \in 1..n : \E i \in 1..n : entries[i].id = k
  BY <1>5
<1> DEFINE at == [k \in 1..n |-> CHOOSE i \in 1..n : entries[i].id = k]
<1>7. \A k \in 1..n : at[k] \in 1..n /\ entries[at[k]].id = k
  BY <1>6
<1>8. at \in [1..n -> 1..n]
  BY <1>7
<1> HIDE DEF at
<1> QED
  BY <1>7, <1>8

\* Sorting a batch gives each call its reply, whatever the order they came in.
LEMMA SortedPairs ==
    ASSUME NEW n \in Nat, NEW entries, OneForEach(entries, n)
    PROVE  /\ DOMAIN Sorted(entries) = 1..n
           /\ \A k \in 1..n : /\ Sorted(entries)[k].id = k
                              /\ Sorted(entries)[k] \in ToSet(entries)
<1>1. PICK at \in [1..n -> 1..n] : \A k \in 1..n : entries[at[k]].id = k
  BY EveryCallHasOne
<1> DEFINE Right(sorted) == /\ ToSet(sorted) = ToSet(entries)
                            /\ \A i, j \in DOMAIN sorted : i < j => sorted[i].id < sorted[j].id
           Sortings == [DOMAIN entries -> ToSet(entries)]
           s0 == [k \in 1..n |-> entries[at[k]]]
<1>2. DOMAIN entries = 1..n /\ \A i \in 1..n : entries[i] \in ToSet(entries)
  BY DEF OneForEach, ToSet
<1>3. s0 \in Sortings
  BY <1>1, <1>2
<1>4. Right(s0)
  <2>1. \A i \in 1..n : at[entries[i].id] = i
    BY <1>1 DEF OneForEach
  <2>2. \A i \in 1..n : entries[i].id \in 1..n /\ entries[at[entries[i].id]] = entries[i]
    BY <2>1 DEF OneForEach
  <2>3. ToSet(s0) = ToSet(entries)
    <3>1. DOMAIN s0 = 1..n /\ \A k \in 1..n : s0[k] = entries[at[k]] /\ at[k] \in 1..n
      BY <1>1
    <3> HIDE DEF s0
    <3>2. \A k \in 1..n : s0[k] \in ToSet(entries)
      BY <1>2, <3>1
    <3>3. \A i \in 1..n : entries[i] = s0[entries[i].id]
      BY <2>2, <3>1
    <3>4. \A i \in 1..n : entries[i] \in ToSet(s0)
      BY <2>2, <3>1, <3>3 DEF ToSet
    <3> QED
      BY <1>2, <3>1, <3>2, <3>4 DEF ToSet
  <2>4. \A i, j \in 1..n : i < j => s0[i].id < s0[j].id
    BY <1>1
  <2> QED
    BY <2>3, <2>4
<1> HIDE DEF s0
<1>5. PICK s : s = Sorted(entries)
  OBVIOUS
<1>6. s \in Sortings /\ Right(s)
  BY <1>3, <1>4, <1>5 DEF Sorted
<1>7. DOMAIN s = 1..n /\ \A k \in 1..n : s[k] \in ToSet(entries)
  BY <1>2, <1>6
<1>8. \A k \in 1..n : s[k].id \in 1..n
  <2>1. \A e \in ToSet(entries) : e.id \in 1..n
    BY <1>2 DEF ToSet, OneForEach
  <2> QED
    BY <1>7, <2>1
<1> DEFINE g == [k \in 1..n |-> s[k].id]
<1>9. g \in [1..n -> 1..n] /\ \A i, j \in 1..n : i < j => g[i] < g[j]
  BY <1>6, <1>7, <1>8
<1> HIDE DEF g
<1>10. \A k \in 1..n : g[k] = k
  BY <1>9, IncreasingIsIdentity
<1>11. \A k \in 1..n : s[k].id = k
  BY <1>10 DEF g
<1> QED
  BY <1>5, <1>7, <1>11

\* The values of n calls are those their entries have.
ValuesOf(values, entries, n) ==
    /\ DOMAIN values = 1..n
    /\ Len(values) = n
    /\ \A k \in 1..n : \E i \in 1..n :
         entries[i].id = k /\ entries[i].code = Null /\ values[k] = entries[i].value

\* What a batch comes to: a value for each call, or the error of one of them.
LEMMA BatchPairs ==
    ASSUME NEW n \in Nat, NEW entries, OneForEach(entries, n)
    PROVE  \/ \E values : BatchOutcome(entries) = Answered(values) /\ ValuesOf(values, entries, n)
           \/ \E i \in 1..n : /\ BatchOutcome(entries) = RpcFailure(entries[i].code)
                              /\ entries[i].code # Null
<1> DEFINE s == Sorted(entries)
           failed == {i \in DOMAIN s : s[i].code # Null}
           values == [i \in DOMAIN s |-> s[i].value]
<1>1. DOMAIN s = 1..n /\ \A k \in 1..n : s[k].id = k /\ s[k] \in ToSet(entries)
  BY SortedPairs
<1>2. \A k \in 1..n : \E i \in 1..n : s[k] = entries[i]
  BY <1>1 DEF ToSet, OneForEach
<1>3. BatchOutcome(entries) = IF failed = {} THEN Answered(values)
                                             ELSE RpcFailure(s[Min(failed)].code)
  BY DEF BatchOutcome
<1> HIDE DEF s
<1>4. CASE failed = {}
  <2>1. DOMAIN values = 1..n
    BY <1>1
  <2>2. Len(values) = n
    BY <2>1
  <2>3. \A k \in 1..n : \E i \in 1..n :
           entries[i].id = k /\ entries[i].code = Null /\ values[k] = entries[i].value
    <3> SUFFICES ASSUME NEW k \in 1..n
                 PROVE  \E i \in 1..n : /\ entries[i].id = k /\ entries[i].code = Null
                                        /\ values[k] = entries[i].value
      OBVIOUS
    <3>1. PICK i \in 1..n : s[k] = entries[i]
      BY <1>2
    <3>2. s[k].id = k /\ s[k].code = Null /\ values[k] = s[k].value
      BY <1>1, <1>4
    <3> QED
      BY <3>1, <3>2
  <2>4. PICK v : v = values
    OBVIOUS
  <2>5. ValuesOf(v, entries, n)
    BY <2>1, <2>2, <2>3, <2>4 DEF ValuesOf
  <2>6. BatchOutcome(entries) = Answered(v)
    BY <1>3, <1>4, <2>4
  <2> QED
    BY <2>5, <2>6
<1>5. CASE failed # {}
  <2>1. failed \subseteq 1..n
    BY <1>1
  <2>2. Min(failed) \in failed
    <3>1. PICK m \in failed : \A k \in failed : m =< k
      <4>1. failed \subseteq Nat
        BY <2>1
      <4> HIDE DEF failed
      <4> QED
        BY <1>5, <4>1, LeastNatural
    <3> HIDE DEF failed
    <3> QED
      BY <3>1 DEF Min
  <2>3. s[Min(failed)].code # Null /\ Min(failed) \in 1..n
    BY <2>1, <2>2
  <2>4. PICK m \in 1..n : m = Min(failed)
    BY <2>3
  <2>5. PICK i \in 1..n : s[m] = entries[i]
    BY <1>2
  <2> HIDE DEF failed
  <2> QED
    BY <1>3, <1>5, <2>3, <2>4, <2>5
<1> QED
  BY <1>4, <1>5

-----------------------------------------------------------------------------
(* The CDCI chain *)

\* The block index knows the height of every block of the active chain, and of
\* genesis.
NodeOk ==
    /\ Node!TypeOK
    /\ heights \in [0..mined -> Nat]
    /\ heights[0] = 0
    /\ \A h \in 1..Len(chain) : chain[h].hash \in 1..mined /\ heights[chain[h].hash] = h

\* The chain gets longer, and no block is forgotten.
NodeGrows ==
    /\ mined =< mined'
    /\ Len(chain) =< Len(chain')
    /\ \A hash \in 0..mined : heights'[hash] = heights[hash]

\* The first `base` blocks stay and n new ones are on them, in the order they were
\* mined in.
Branches(base, n) ==
    /\ base \in 0..Len(chain)
    /\ n \in Nat
    /\ chain' \in Seq([hash : 1..MaxBlocks, txs : SUBSET {}])
    /\ Len(chain') = base + n
    /\ Len(chain) =< base + n
    /\ mined' = mined + n
    /\ mined' =< MaxBlocks
    /\ \A h \in 1..base : chain'[h] = chain[h]
    /\ \A h \in base + 1..base + n : chain'[h].hash = mined + (h - base)

\* Whatever the node does to its chain is that.
LEMMA NodeBranches ==
    ASSUME NodeOk, Node!Mine({}) \/ \E depth \in 1..MaxReorgDepth : Node!Reorg(depth)
    PROVE  \E base, n : Branches(base, n)
<1> DEFINE B == [hash : 1..MaxBlocks, txs : SUBSET {}]
<1>1. /\ chain \in Seq(B) /\ Len(chain) \in Nat
      /\ mined \in 0..MaxBlocks /\ mined \in Nat /\ MaxBlocks \in Nat /\ MaxReorgDepth \in Nat
      /\ \A h \in 1..Len(chain) : chain[h] \in B
  <2>1. chain \in Seq(B) /\ mined \in 0..MaxBlocks
    BY DEF NodeOk, Node!TypeOK
  <2>2. MaxBlocks \in Nat /\ MaxReorgDepth \in Nat
    BY ReadsAssumption DEF ReadsAssumption
  <2> HIDE DEF B
  <2> QED
    BY <2>1, <2>2, ElementOfSequence
<1>2. CASE Node!Mine({})
  <2>1. /\ chain' = Append(chain, [hash |-> mined + 1, txs |-> {}])
        /\ mined' = mined + 1 /\ mined < MaxBlocks
    BY <1>2 DEF Node!Mine
  <2>2. PICK block : block = [hash |-> mined + 1, txs |-> {}]
    OBVIOUS
  <2>3. block \in B /\ block.hash = mined + 1
    BY <1>1, <2>1, <2>2
  <2> HIDE DEF B
  <2>4. /\ chain' \in Seq(B) /\ Len(chain') = Len(chain) + 1
        /\ \A h \in 1..Len(chain) : chain'[h] = chain[h]
        /\ chain'[Len(chain) + 1] = block
    <3>1. chain' = Append(chain, block)
      BY <2>1, <2>2
    <3> QED
      BY <1>1, <2>3, <3>1, AppendToSequence
  <2>5. \A h \in Len(chain) + 1..Len(chain) + 1 : chain'[h].hash = mined + (h - Len(chain))
    BY <1>1, <2>3, <2>4
  <2>6. Branches(Len(chain), 1)
    BY <1>1, <2>1, <2>4, <2>5 DEF Branches, B
  <2> QED
    BY <2>6
<1>3. ASSUME NEW depth \in 1..MaxReorgDepth, Node!Reorg(depth)
      PROVE  \E base, n : Branches(base, n)
  <2>1. PICK base : base = Len(chain) - depth
    OBVIOUS
  <2>2. /\ base \in 0..Len(chain) /\ depth \in Nat /\ depth + 1 \in Nat
        /\ mined' = mined + (depth + 1) /\ mined + (depth + 1) =< MaxBlocks
    BY <1>1, <1>3, <2>1 DEF Node!Reorg
  <2> DEFINE stem == SubSeq(chain, 1, base)
             Branch(txs, at) == [i \in 1..depth + 1 |->
                                   [hash |-> mined + i, txs |-> IF i = at THEN txs ELSE {}]]
  <2>3. PICK branch :
          /\ chain' = stem \o branch
          /\ branch \in [1..depth + 1 -> B]
          /\ \A i \in 1..depth + 1 : branch[i].hash = mined + i
    <3>1. PICK kept, txs, at :
            /\ kept \in SUBSET UNION {chain[h].txs : h \in base + 1 .. Len(chain)}
            /\ txs \in SUBSET ({} \cup kept)
            /\ chain' = stem \o Branch(txs, at)
      <4>1. \E kept \in SUBSET UNION {chain[h].txs : h \in base + 1 .. Len(chain)} :
            \E txs \in SUBSET ({} \cup kept), at \in 1..depth + 1 :
              /\ chain' = stem \o Branch(txs, at)
              /\ {} = ({} \cup kept) \ txs
        <5>1. \E kept \in SUBSET UNION {chain[h].txs : h \in (Len(chain) - depth) + 1 .. Len(chain)} :
              \E txs \in SUBSET ({} \cup kept), at \in 1..depth + 1 :
                /\ chain' = SubSeq(chain, 1, Len(chain) - depth) \o Branch(txs, at)
                /\ {} = ({} \cup kept) \ txs
          BY <1>3, Zenon DEF Node!Reorg
        <5> HIDE DEF Branch
        <5> QED
          BY <2>1, <5>1
      <4> HIDE DEF Branch, stem
      <4> QED
        BY <4>1, Zenon
    <3>2. \A h \in base + 1 .. Len(chain) : chain[h].txs \subseteq {}
      <4>1. \A h \in base + 1 .. Len(chain) : h \in 1..Len(chain)
        BY <1>1, <2>2
      <4>2. \A h \in base + 1 .. Len(chain) : chain[h] \in B
        BY <1>1, <4>1
      <4> QED
        BY <4>2
    <3>3. \A x \in kept : FALSE
      <4> HIDE DEF B, stem, Branch
      <4>1. kept \subseteq UNION {chain[h].txs : h \in base + 1 .. Len(chain)}
        BY <3>1
      <4> QED
        BY <3>2, <4>1, Zenon
    <3>4. txs \in SUBSET {}
      <4> HIDE DEF B, stem, Branch
      <4> QED
        BY <3>1, <3>3
    <3>5. \A i \in 1..depth + 1 : Branch(txs, at)[i] \in B /\ Branch(txs, at)[i].hash = mined + i
      BY <1>1, <2>2, <3>4
    <3>6. Branch(txs, at) \in [1..depth + 1 -> B]
      <4> HIDE DEF B
      <4> QED
        BY <3>5
    <3> HIDE DEF Branch, stem, B
    <3> QED
      BY <3>1, <3>5, <3>6
  <2> HIDE DEF B, Branch
  <2>4. stem \in Seq(B) /\ Len(stem) = base /\ \A h \in 1..base : stem[h] = chain[h]
    <3>1. chain \in Seq(B)
      BY <1>1
    <3> QED
      BY ONLY <2>2, <3>1, BeginningOfSequence
  <2> HIDE DEF stem
  <2>6. branch \in Seq(B) /\ Len(branch) = depth + 1
    BY <2>2, <2>3
  <2>7. /\ stem \o branch \in Seq(B)
        /\ Len(stem \o branch) = base + (depth + 1)
        /\ \A h \in 1..base : (stem \o branch)[h] = stem[h]
        /\ \A i \in 1..depth + 1 : (stem \o branch)[base + i] = branch[i]
    <3>1. stem \in Seq(B) /\ branch \in Seq(B)
      BY <2>4, <2>6
    <3>2. /\ stem \o branch \in Seq(B)
          /\ Len(stem \o branch) = Len(stem) + Len(branch)
          /\ \A i \in 1..Len(stem) : (stem \o branch)[i] = stem[i]
          /\ \A i \in 1..Len(branch) : (stem \o branch)[Len(stem) + i] = branch[i]
      BY ONLY <3>1, ConcatOfSequences
    <3> QED
      BY <2>4, <2>6, <3>2
  <2>5. \A h \in 1..base : chain'[h] = chain[h]
    BY <2>3, <2>4, <2>7
  <2>8. \A h \in base + 1..base + (depth + 1) : h - base \in 1..depth + 1
    BY <2>2
  <2>9. \A h \in base + 1..base + (depth + 1) : chain'[h].hash = mined + (h - base)
    <3> SUFFICES ASSUME NEW h \in base + 1..base + (depth + 1)
                 PROVE  chain'[h].hash = mined + (h - base)
      OBVIOUS
    <3>1. PICK i \in 1..depth + 1 : i = h - base /\ h = base + i
      BY <2>2, <2>8
    <3> QED
      BY <2>3, <2>7, <3>1
  <2>10. Len(chain) =< base + (depth + 1)
    BY <1>1, <2>1, <2>2
  <2>11. Branches(base, depth + 1)
    <3>1. chain' \in Seq(B) /\ Len(chain') = base + (depth + 1)
      BY <2>3, <2>7
    <3> QED
      BY <2>2, <2>5, <2>9, <2>10, <3>1 DEF Branches, B
  <2> QED
    BY <2>11
<1> QED
  BY <1>2, <1>3

\* The block index follows.
LEMMA NodeMoves ==
    ASSUME NodeOk, Outside
    PROVE  NodeOk' /\ NodeGrows
<1>1. PICK base, n : Branches(base, n)
  BY NodeBranches DEF Outside
<1>2. /\ base \in Nat /\ n \in Nat /\ mined \in Nat /\ Len(chain) \in Nat /\ base =< Len(chain)
      /\ mined' = mined + n /\ Len(chain') = base + n /\ Len(chain) =< base + n
      /\ DOMAIN heights = 0..mined
      /\ DOMAIN chain' = 1..base + n
  BY <1>1 DEF Branches, NodeOk, Node!TypeOK
<1>3. ASSUME NEW hash \in 0..mined'
      PROVE  heights'[hash] = IF hash \in 0..mined THEN heights[hash]
                              ELSE CHOOSE h \in DOMAIN chain' : chain'[h].hash = hash
  BY <1>2 DEF Outside
<1>4. ASSUME NEW h \in 1..base
      PROVE  chain'[h].hash \in 1..mined /\ heights[chain'[h].hash] = h
  <2>1. h \in 1..Len(chain) /\ chain'[h] = chain[h]
    BY <1>1, <1>2 DEF Branches
  <2> QED
    BY <2>1 DEF NodeOk
<1>5. ASSUME NEW h \in base + 1..base + n
      PROVE  /\ chain'[h].hash = mined + (h - base)
             /\ chain'[h].hash \in 1..mined'
             /\ heights'[chain'[h].hash] = h
  <2>1. chain'[h].hash = mined + (h - base)
    BY <1>1 DEF Branches
  <2>2. mined + (h - base) \in 1..mined' /\ mined + (h - base) \notin 0..mined
        /\ mined + (h - base) \in 0..mined' /\ h \in DOMAIN chain'
    BY <1>2
  <2>3. ASSUME NEW k \in DOMAIN chain', chain'[k].hash = mined + (h - base)
        PROVE  k = h
    <3>1. CASE k \in 1..base
      BY <1>2, <1>4, <2>3, <3>1
    <3>2. CASE k \in base + 1..base + n
      <4>1. chain'[k].hash = mined + (k - base)
        BY <1>1, <3>2 DEF Branches
      <4> QED
        BY <1>2, <2>3, <3>2, <4>1
    <3> QED
      BY <1>2, <3>1, <3>2
  <2>4. (CHOOSE k \in DOMAIN chain' : chain'[k].hash = mined + (h - base)) = h
    BY <2>1, <2>2, <2>3
  <2> QED
    BY <1>3, <2>1, <2>2, <2>4
<1>6. \A hash \in 0..mined : heights'[hash] = heights[hash]
  <2>1. \A hash \in 0..mined : hash \in 0..mined'
    BY <1>2
  <2> QED
    BY <1>3, <2>1
<1>7. ASSUME NEW h \in 1..Len(chain')
      PROVE  chain'[h].hash \in 1..mined' /\ heights'[chain'[h].hash] = h
  <2>1. CASE h \in 1..base
    BY <1>2, <1>4, <1>6, <2>1
  <2>2. CASE h \in base + 1..base + n
    BY <1>5, <2>2
  <2> QED
    BY <1>2, <2>1, <2>2
<1>8. heights' \in [0..mined' -> Nat]
  <2>1. DOMAIN heights' = 0..mined' /\ heights' = [hash \in 0..mined' |-> heights'[hash]]
    BY DEF Outside
  <2>2. ASSUME NEW hash \in 0..mined'
        PROVE  heights'[hash] \in Nat
    <3>1. CASE hash \in 0..mined
      BY <1>6, <3>1 DEF NodeOk
    <3>2. CASE hash \notin 0..mined
      <4>1. PICK h \in base + 1..base + n : mined + (h - base) = hash
        <5>1. base + (hash - mined) \in base + 1..base + n
              /\ mined + ((base + (hash - mined)) - base) = hash
          BY <1>2, <3>2
        <5> QED
          BY <5>1
      <4>2. heights'[hash] = h
        BY <1>5, <4>1
      <4> QED
        BY <4>1, <4>2, <1>2
    <3> QED
      BY <3>1, <3>2
  <2> QED
    BY <2>1, <2>2
<1>9. heights'[0] = 0
  BY <1>2, <1>6 DEF NodeOk
<1>10. Node!TypeOK'
  <2>1. /\ chain' \in Seq([hash : 1..MaxBlocks, txs : SUBSET {}])
        /\ mined' \in 0..MaxBlocks /\ 0 \in 0..Len(chain')
    BY <1>1, <1>2, ReadsAssumption DEF Branches, ReadsAssumption
  <2> QED
    BY <2>1 DEF Node!TypeOK, NodeOk
<1>11. NodeOk'
  BY <1>7, <1>8, <1>9, <1>10 DEF NodeOk
<1>12. NodeGrows
  BY <1>2, <1>6 DEF NodeGrows
<1> QED
  BY <1>11, <1>12

-----------------------------------------------------------------------------
(* What holds of a request *)

Fields == {"ask", "calls", "entries", "card", "tip", "offset", "response", "seen",
           "tipThen", "minedThen", "idsThen", "shownAt"}
Parts == {"status", "blocks", "ids", "total", "offline"}

EntrySet == [id : Nat, value : Nat \cup Block \cup {Null}, code : {Null, NotFound, OutOfRange}]
RecordSet == [id : Ids, channel : Nat, txid : Ids]

IdsThere == IdsOf(ToSet(records))

\* No two records have one number.
RecordsOk ==
    /\ records \in Seq(RecordSet)
    /\ \A i \in 1..Len(records) :
         records[i].channel = Channel[records[i].id] /\ records[i].txid = records[i].id
    /\ \A i, j \in 1..Len(records) : records[i].id = records[j].id => i = j

IsResponse(response) ==
    /\ DOMAIN response = Parts
    /\ response.status \in {200, 404, 500, 502}
    /\ DOMAIN response.blocks = 1..Len(response.blocks)
    /\ Len(response.blocks) \in Nat
    /\ ToSet(response.blocks) \subseteq Block
    /\ response.ids \subseteq Ids
    /\ response.total \in Nat
    /\ response.offline \in BOOLEAN

Typed(R) ==
    /\ DOMAIN R = Fields
    /\ R.ask = Null \/ IsAsk(R.ask)
    /\ R.calls \in Seq(CallSet)
    /\ R.entries \in Seq(EntrySet)
    /\ R.tip \in Nat
    /\ R.offset \in Nat \cup {Null}
    /\ IsResponse(R.response)

\* What it remembers of the time it began was so, and while it calls it has seen every
\* block of the chain.
Remembers(R) ==
    /\ R.tipThen \in 0..Len(chain)
    /\ R.minedThen \in 0..mined
    /\ R.idsThen \subseteq IdsThere
    /\ R.calls # <<>> => ActiveHashes \subseteq R.seen

\* An entry says what was so at some time since the request began.
Tells(R, entry, call) ==
    \/ /\ call.method = "getblockcount"
       /\ entry.code = Null
       /\ entry.value \in Nat
       /\ R.tipThen =< entry.value
    \/ /\ call.method = "getblockhash"
       /\ entry.code = Null
       /\ entry.value \in R.seen
       /\ entry.value \in 0..mined
       /\ heights[entry.value] = call.arg
    \/ /\ call.method = "getblockhash"
       /\ entry.code = OutOfRange
       /\ R.tipThen < call.arg
    \/ /\ call.method = "getblock"
       /\ entry.code = Null
       /\ call.arg \in 0..mined
       /\ entry.value = [hash |-> call.arg, height |-> heights[call.arg]]
    \/ /\ call.method = "getblock"
       /\ entry.code = NotFound
       /\ call.arg \notin 0..R.minedThen

\* One at most for each call, in any order.
EntriesOk(R) ==
    /\ \A i \in 1..Len(R.entries) :
         /\ R.entries[i].id \in 1..Len(R.calls)
         /\ Tells(R, R.entries[i], R.calls[R.entries[i].id])
    /\ \A i, j \in 1..Len(R.entries) : R.entries[i].id = R.entries[j].id => i = j

\* How many blocks a list shows when the tip is this one.
Wide(ask, tip) == Min({PageLimit(ask.limit, 10), Max({(tip + 1) - ask.offset, 0})})

\* The calls of a list of blocks, one after the other ...
AsksForTip(R) ==
    /\ R.ask.op \in {"home", "list"}
    /\ Len(R.calls) = 1
    /\ R.calls[1] = Call("getblockcount", Null)
AsksForHashes(R) ==
    /\ R.ask.op \in {"home", "list"}
    /\ R.tipThen =< R.tip
    /\ Len(R.calls) = Wide(R.ask, R.tip)
    /\ \A i \in 1..Len(R.calls) :
         R.calls[i] = Call("getblockhash", R.tip - R.ask.offset - i + 1)
AsksForBlocks(R) ==
    /\ R.ask.op \in {"home", "list"}
    /\ R.tipThen =< R.tip
    /\ Len(R.calls) = Wide(R.ask, R.tip)
    /\ \A i \in 1..Len(R.calls) :
         /\ R.calls[i].method = "getblock"
         /\ R.calls[i].arg \in R.seen
         /\ R.calls[i].arg \in 0..mined
         /\ heights[R.calls[i].arg] = R.tip - R.ask.offset - i + 1

\* ... and those of one block.
AsksForItsHash(R) ==
    /\ R.ask.op \in {"block", "search"}
    /\ R.ask.by = "number"
    /\ Len(R.calls) = 1
    /\ R.calls[1] = Call("getblockhash", R.ask.term)
AsksForThat(R) ==
    /\ R.ask.op \in {"block", "search"}
    /\ R.ask.by = "number"
    /\ Len(R.calls) = 1
    /\ R.calls[1].method = "getblock"
    /\ R.calls[1].arg \in 0..mined
    /\ \A i \in 1..Len(R.entries) : R.entries[i].code = Null
AsksForBlock(R) ==
    /\ R.ask.op \in {"block", "search"}
    /\ R.ask.by = "hash"
    /\ Len(R.calls) = 1
    /\ R.calls[1] = Call("getblock", IF R.ask.term.of = "block" THEN R.ask.term.n ELSE Null)

CallsOk(R) ==
    R.calls # <<>> =>
      /\ R.ask # Null
      /\ R.response.status = 200
      /\ R.response.blocks = <<>>
      /\ ~R.response.offline
      /\ \/ AsksForTip(R)
         \/ AsksForHashes(R)
         \/ AsksForBlocks(R)
         \/ AsksForItsHash(R)
         \/ AsksForThat(R)
         \/ AsksForBlock(R)

\* A list that has ended.
Listed(ask, R) ==
    ask.op \in {"home", "list"} =>
      /\ ~ask.tolerant /\ R.response.status = 200 => ~R.response.offline
      /\ R.response.status = 200 /\ ~R.response.offline =>
           /\ R.tipThen + 1 =< R.response.total
           /\ Len(R.response.blocks) = Wide(ask, R.response.total - 1)
           /\ \A i \in 1..Len(R.response.blocks) :
                /\ R.response.blocks[i].height = R.response.total - ask.offset - i
                /\ R.response.blocks[i].hash \in R.seen

\* A block that has been looked up, or a search that has ended.
LookedUp(ask, R) ==
    ask.op \in {"block", "search"} /\ ~ask.tolerant =>
      /\ ask.op = "block" /\ R.response.status = 404 =>
           IF ask.by = "number" THEN ask.term > R.tipThen
           ELSE ask.term.of # "block" \/ ask.term.n > R.minedThen
      /\ ask.op = "search" /\ ask.by = "number" /\ R.response.status = 200
           /\ ask.term =< R.tipThen => R.response.blocks # <<>>

EndsOk(R) ==
    R.ask # Null /\ R.calls = <<>> => Listed(R.ask, R) /\ LookedUp(R.ask, R)

\* What a search has found in the index.
SearchOk(R) ==
    R.ask # Null /\ R.ask.op = "search" =>
      /\ R.ask.by # "hash" /\ R.ask.term \in R.idsThen => R.ask.term \in R.response.ids
      /\ R.ask.by = "hash" /\ R.calls = <<>> /\ R.response.status = 200 =>
           \A id \in R.idsThen :
             Names(R.ask, id) /\ ~Outnumbered(R.ask, id) => id \in R.response.ids

\* The pages a walk has read hold all that is behind the place it has come to.
ToWalk(ask) == Filtered(records, [channel |-> ask.term])
WalkOk(R) ==
    R.ask # Null /\ R.ask.op = "walk" =>
      /\ R.calls = <<>>
      /\ \A p \in 1..Len(ToWalk(R.ask)) :
           /\ R.offset # Null => Len(ToWalk(R.ask)) - R.offset < p
           /\ ToWalk(R.ask)[p].id \in R.idsThen
           => ToWalk(R.ask)[p].id \in R.response.ids

ReadOk(R) ==
    /\ Typed(R)
    /\ Remembers(R)
    /\ EntriesOk(R)
    /\ CallsOk(R)
    /\ EndsOk(R)
    /\ SearchOk(R)
    /\ WalkOk(R)

\* The inductive invariant: the node, the index, and every request.
ReadsInv ==
    /\ workload \in Workloads
    /\ NodeOk
    /\ RecordsOk
    /\ DOMAIN reads = Readers
    /\ \A r \in Readers : \A R : R = reads[r] => ReadOk(R)

-----------------------------------------------------------------------------
(* Steps *)

\* Of all requests only r moves, and only in these fields.
Moves(r, changed) ==
    /\ DOMAIN reads' = Readers
    /\ \A q \in Readers : q # r => reads'[q] = reads[q]
    /\ DOMAIN reads'[r] = Fields
    /\ \A field \in Fields \ changed : reads'[r][field] = reads[r][field]

\* The node and the index stay as they are.
Still == UNCHANGED <<workload, nodeVars, records>>

\* A request is what it was as long as the node and the index are.
LEMMA StillReadOk ==
    ASSUME NEW R, ReadOk(R), Still
    PROVE  ReadOk(R)'
<1>1. chain' = chain /\ mined' = mined /\ heights' = heights /\ records' = records
  BY DEF Still, nodeVars
<1>2. Typed(R) => Typed(R)'
  OBVIOUS
<1>3. Remembers(R) => Remembers(R)'
  BY <1>1 DEF Remembers, IdsThere, ActiveHashes
<1>4. EntriesOk(R) => EntriesOk(R)'
  BY <1>1 DEF EntriesOk, Tells
<1>5. CallsOk(R) => CallsOk(R)'
  BY <1>1 DEF CallsOk, AsksForTip, AsksForHashes, AsksForBlocks, AsksForItsHash, AsksForThat, AsksForBlock
<1>6. EndsOk(R) => EndsOk(R)'
  OBVIOUS
<1>7. SearchOk(R) => SearchOk(R)'
  BY <1>1 DEF SearchOk, Outnumbered, Names
<1>8. WalkOk(R) => WalkOk(R)'
  BY <1>1 DEF WalkOk, ToWalk
<1> QED
  BY <1>2, <1>3, <1>4, <1>5, <1>6, <1>7, <1>8 DEF ReadOk

\* It is enough to look at the request that moves.
LEMMA OneMoves ==
    ASSUME ReadsInv, Still, NEW r \in Readers, NEW S, S = reads'[r], ReadOk(S),
           NEW changed, Moves(r, changed)
    PROVE  ReadsInv'
<1>1. /\ workload' = workload /\ chain' = chain /\ mined' = mined /\ heights' = heights
      /\ records' = records
  BY DEF Still, nodeVars
<1>2. workload' \in Workloads
  BY <1>1 DEF ReadsInv
<1>3. NodeOk'
  BY <1>1 DEF ReadsInv, NodeOk, Node!TypeOK
<1>4. RecordsOk'
  BY <1>1 DEF ReadsInv, RecordsOk
<1>5. ASSUME NEW q \in Readers, NEW R, R = reads'[q]
      PROVE  ReadOk(R)'
  <2>1. CASE q = r
    BY <1>5, <2>1, StillReadOk
  <2>2. CASE q # r
    <3>1. R = reads[q]
      BY <1>5, <2>2 DEF Moves
    <3>2. ReadOk(R)
      BY <3>1 DEF ReadsInv
    <3> QED
      BY <3>2, StillReadOk
  <2> QED
    BY <2>1, <2>2
<1> QED
  BY <1>2, <1>3, <1>4, <1>5 DEF ReadsInv, Moves

\* A request that calls no more.
LEMMA EndsMoves ==
    ASSUME DOMAIN reads = Readers, NEW r \in Readers, DOMAIN reads[r] = Fields,
           NEW response, Ends(r, response)
    PROVE  /\ Moves(r, {"calls", "entries", "response"})
           /\ reads'[r].calls = <<>>
           /\ reads'[r].entries = <<>>
           /\ reads'[r].response = response
<1>1. PICK S : S = [reads[r] EXCEPT !.calls = <<>>, !.entries = <<>>, !.response = response]
  OBVIOUS
<1>2. DOMAIN S = Fields /\ S.calls = <<>> /\ S.entries = <<>> /\ S.response = response
      /\ \A field \in Fields \ {"calls", "entries", "response"} : S[field] = reads[r][field]
  BY <1>1 DEF Fields
<1>3. reads' = [reads EXCEPT ![r] = S]
  BY <1>1 DEF Ends
<1>4. DOMAIN reads' = Readers /\ reads'[r] = S /\ \A q \in Readers : q # r => reads'[q] = reads[q]
  BY <1>3
<1> QED
  BY <1>2, <1>4 DEF Moves

\* A request that ends with an error.
LEMMA EndsWithErrorMoves ==
    ASSUME DOMAIN reads = Readers, NEW r \in Readers, DOMAIN reads[r] = Fields,
           DOMAIN reads[r].response = Parts, NEW status, EndsWithError(r, status)
    PROVE  /\ Moves(r, {"calls", "entries", "response", "card"})
           /\ reads'[r].calls = <<>>
           /\ reads'[r].entries = <<>>
           /\ reads'[r].card = Null
           /\ reads'[r].response = [reads[r].response EXCEPT !.status = status]
<1>1. PICK response : response = [reads[r].response EXCEPT !.status = status]
  OBVIOUS
<1>2. PICK S : S = [reads[r] EXCEPT !.calls = <<>>, !.entries = <<>>, !.response = response,
                                   !.card = Null]
  OBVIOUS
<1>3. DOMAIN S = Fields /\ S.calls = <<>> /\ S.entries = <<>> /\ S.response = response
      /\ S.card = Null
      /\ \A field \in Fields \ {"calls", "entries", "response", "card"} :
           S[field] = reads[r][field]
  BY <1>2 DEF Fields
<1>4. reads' = [reads EXCEPT ![r] = S]
  BY <1>1, <1>2 DEF EndsWithError
<1>5. DOMAIN reads' = Readers /\ reads'[r] = S /\ \A q \in Readers : q # r => reads'[q] = reads[q]
  BY <1>4
<1> QED
  BY <1>1, <1>3, <1>5 DEF Moves

\* A request that goes on with the next calls.
LEMMA CallsMoves ==
    ASSUME DOMAIN reads = Readers, NEW r \in Readers, DOMAIN reads[r] = Fields,
           NEW calls, NEW tip, Calls(r, calls, tip)
    PROVE  /\ Moves(r, {"calls", "entries", "tip"})
           /\ reads'[r].calls = calls
           /\ reads'[r].entries = <<>>
           /\ reads'[r].tip = tip
<1>1. PICK S : S = [reads[r] EXCEPT !.calls = calls, !.entries = <<>>, !.tip = tip]
  OBVIOUS
<1>2. DOMAIN S = Fields /\ S.calls = calls /\ S.entries = <<>> /\ S.tip = tip
      /\ \A field \in Fields \ {"calls", "entries", "tip"} : S[field] = reads[r][field]
  BY <1>1 DEF Fields
<1>3. reads' = [reads EXCEPT ![r] = S]
  BY <1>1 DEF Calls
<1>4. DOMAIN reads' = Readers /\ reads'[r] = S /\ \A q \in Readers : q # r => reads'[q] = reads[q]
  BY <1>3
<1> QED
  BY <1>2, <1>4 DEF Moves

\* A request that has one reply more.
LEMMA EvaluatesMoves ==
    ASSUME DOMAIN reads = Readers, NEW r \in Readers, DOMAIN reads[r] = Fields,
           NEW id, Evaluates(r, id)
    PROVE  /\ Moves(r, {"entries"})
           /\ reads'[r].entries = Append(reads[r].entries, Evaluated(id, reads[r].calls[id]))
           /\ Still
<1> DEFINE more == Append(reads[r].entries, Evaluated(id, reads[r].calls[id]))
<1>1. PICK S : S = [reads[r] EXCEPT !.entries = more]
  OBVIOUS
<1>2. reads' = [reads EXCEPT ![r] = S]
  BY <1>1 DEF Evaluates
<1> HIDE DEF more
<1>3. DOMAIN S = Fields /\ S.entries = more
      /\ \A field \in Fields \ {"entries"} : S[field] = reads[r][field]
  BY <1>1 DEF Fields
<1>4. DOMAIN reads' = Readers /\ reads'[r] = S /\ \A q \in Readers : q # r => reads'[q] = reads[q]
  BY <1>2
<1>5. Still
  BY DEF Evaluates, Still
<1> QED
  BY <1>3, <1>4, <1>5 DEF Moves, more

\* A page that asks for the chain figures last.
LEMMA AsksForCardMoves ==
    ASSUME DOMAIN reads = Readers, NEW r \in Readers, DOMAIN reads[r] = Fields, AsksForCard(r)
    PROVE  /\ Moves(r, {"card", "shownAt"})
           /\ reads'[r].card = CardNow
           /\ reads'[r].shownAt = clock
           /\ Still
<1>1. PICK S : S = [reads[r] EXCEPT !.card = CardNow, !.shownAt = clock]
  OBVIOUS
<1>2. reads' = [reads EXCEPT ![r] = S]
  BY <1>1 DEF AsksForCard
<1>3. DOMAIN S = Fields /\ S.card = CardNow /\ S.shownAt = clock
      /\ \A field \in Fields \ {"card", "shownAt"} : S[field] = reads[r][field]
  BY <1>1 DEF Fields
<1>4. DOMAIN reads' = Readers /\ reads'[r] = S /\ \A q \in Readers : q # r => reads'[q] = reads[q]
  BY <1>2
<1>5. Still
  BY DEF AsksForCard, Still
<1> QED
  BY <1>3, <1>4, <1>5 DEF Moves

\* A request that is given the chain figures it waits for, or has none to wait for.
LEMMA GivenIs ==
    ASSUME NEW r, DOMAIN reads[r] = Fields, NEW info
    PROVE  /\ DOMAIN Given(r, info) = Fields
           /\ \A field \in Fields \ {"card", "shownAt"} : Given(r, info)[field] = reads[r][field]
           /\ reads[r].card = Waiting => Given(r, info).card = info /\ Given(r, info).shownAt = clock
           /\ reads[r].card # Waiting => Given(r, info) = reads[r]
<1>1. CASE reads[r].card = Waiting
  <2>1. Given(r, info) = [reads[r] EXCEPT !.card = info, !.shownAt = clock]
    BY <1>1 DEF Given
  <2> QED
    BY <1>1, <2>1 DEF Fields
<1>2. CASE reads[r].card # Waiting
  BY <1>2 DEF Given
<1> QED
  BY <1>1, <1>2

\* A page of a walk.
LEMMA WalkMoves ==
    ASSUME DOMAIN reads = Readers, NEW r \in Readers, DOMAIN reads[r] = Fields,
           DOMAIN reads[r].response = Parts, WalkOn(r)
    PROVE  LET limit == PageLimit(reads[r].ask.limit, 25)
               items == ToWalk(reads[r].ask)
               page == Page(items, limit, reads[r].offset)
           IN  /\ Moves(r, {"response", "offset"})
               /\ reads'[r].offset = IF reads[r].offset + limit < Len(items)
                                     THEN reads[r].offset + limit ELSE Null
               /\ DOMAIN reads'[r].response = Parts
               /\ reads'[r].response.ids = reads[r].response.ids \cup IdsOf(ToSet(page))
               /\ \A part \in Parts \ {"ids"} : reads'[r].response[part] = reads[r].response[part]
               /\ Still
<1> DEFINE limit == PageLimit(reads[r].ask.limit, 25)
           items == ToWalk(reads[r].ask)
           page == Page(items, limit, reads[r].offset)
           ids == reads[r].response.ids \cup IdsOf(ToSet(page))
           next == reads[r].offset + limit
           there == IF next < Len(items) THEN next ELSE Null
<1>1. PICK response : response = [reads[r].response EXCEPT !.ids = ids]
  OBVIOUS
<1>2. PICK S : S = [reads[r] EXCEPT !.response = response, !.offset = there]
  OBVIOUS
<1>3. reads' = [reads EXCEPT ![r] = S]
  <2>1. reads' = [reads EXCEPT ![r].response.ids = ids, ![r].offset = there]
    BY DEF WalkOn, ListRecords, ToWalk
  <2> HIDE DEF ids, there
  <2> QED
    BY <1>1, <1>2, <2>1
<1> HIDE DEF limit, items, page, ids, next, there
<1>4. DOMAIN response = Parts /\ response.ids = ids
      /\ \A part \in Parts \ {"ids"} : response[part] = reads[r].response[part]
  BY <1>1 DEF Parts
<1>5. DOMAIN S = Fields /\ S.response = response /\ S.offset = there
      /\ \A field \in Fields \ {"response", "offset"} : S[field] = reads[r][field]
  BY <1>2 DEF Fields
<1>6. DOMAIN reads' = Readers /\ reads'[r] = S /\ \A q \in Readers : q # r => reads'[q] = reads[q]
  BY <1>3
<1>7. Still
  BY DEF WalkOn, Still
<1>8. Moves(r, {"response", "offset"})
  BY <1>5, <1>6 DEF Moves
<1> QED
  BY <1>4, <1>5, <1>6, <1>7, <1>8 DEF limit, items, page, ids, next, there

\* A request as it begins.
LEMMA AskedMoves ==
    ASSUME DOMAIN reads = Readers, NEW r \in Readers, NEW ask, Asked(r, ask)
    PROVE  /\ Moves(r, Fields)
           /\ reads[r].ask = Null
           /\ reads'[r].ask = ask
           /\ reads'[r].calls = FirstCalls(ask)
           /\ reads'[r].entries = <<>>
           /\ reads'[r].card = IF WantsCard(ask) THEN CardNow ELSE Null
           /\ reads'[r].tip = 0
           /\ reads'[r].offset = 0
           /\ DOMAIN reads'[r].response = Parts
           /\ reads'[r].response.ids = IdsOf(FoundFirst(ask))
           /\ \A part \in Parts \ {"ids"} : reads'[r].response[part] = NoResponse[part]
           /\ reads'[r].seen = ActiveHashes
           /\ reads'[r].tipThen = Len(chain)
           /\ reads'[r].minedThen = mined
           /\ reads'[r].idsThen = IdsThere
           /\ reads'[r].shownAt = clock
           /\ Still
<1> DEFINE card == IF WantsCard(ask) THEN CardNow ELSE Null
           ids == IdsOf(FoundFirst(ask))
           calls == FirstCalls(ask)
           seen == ActiveHashes
           tipThen == Len(chain)
           idsThen == IdsOf(ToSet(records))
<1>1. PICK response : response = [NoResponse EXCEPT !.ids = ids]
  OBVIOUS
<1>2. PICK S : S = [Unasked EXCEPT !.ask = ask, !.calls = calls, !.card = card,
                                   !.response = response, !.seen = seen, !.tipThen = tipThen,
                                   !.minedThen = mined, !.idsThen = idsThen, !.shownAt = clock]
  OBVIOUS
<1>3. reads' = [reads EXCEPT ![r] = S]
  <2>1. reads' = [reads EXCEPT ![r] =
                    [Unasked EXCEPT !.ask = ask, !.calls = calls, !.card = card,
                                    !.response.ids = ids, !.seen = seen, !.tipThen = tipThen,
                                    !.minedThen = mined, !.idsThen = idsThen, !.shownAt = clock]]
    BY DEF Asked
  <2>2. \A T : [[T EXCEPT !.ask = ask, !.calls = calls, !.card = card] EXCEPT !.response.ids = ids]
                 = [[T EXCEPT !.ask = ask, !.calls = calls, !.card = card] EXCEPT
                      !.response = [@ EXCEPT !.ids = ids]]
    OBVIOUS
  <2>3. [Unasked EXCEPT !.ask = ask, !.calls = calls, !.card = card].response = NoResponse
    BY DEF Unasked
  <2> HIDE DEF ids, card, calls, seen, tipThen, idsThen
  <2> QED
    BY <1>1, <1>2, <2>1, <2>2, <2>3
<1> HIDE DEF ids, card, calls, seen, tipThen, idsThen
<1>4. DOMAIN response = Parts /\ response.ids = ids
      /\ \A part \in Parts \ {"ids"} : response[part] = NoResponse[part]
  BY <1>1 DEF Parts, NoResponse
<1>5. /\ DOMAIN S = Fields /\ S.ask = ask /\ S.calls = calls /\ S.entries = <<>> /\ S.card = card
      /\ S.tip = 0 /\ S.offset = 0 /\ S.response = response /\ S.seen = seen /\ S.tipThen = tipThen
      /\ S.minedThen = mined /\ S.idsThen = idsThen /\ S.shownAt = clock
  BY <1>2 DEF Fields, Unasked
<1>6. DOMAIN reads' = Readers /\ reads'[r] = S /\ \A q \in Readers : q # r => reads'[q] = reads[q]
  BY <1>3
<1>7. Still /\ reads[r].ask = Null
  BY DEF Asked, Still
<1>8. Moves(r, Fields)
  BY <1>5, <1>6 DEF Moves
<1> QED
  BY <1>4, <1>5, <1>6, <1>7, <1>8 DEF ids, card, calls, seen, tipThen, idsThen, IdsThere

LEMMA ReadIs ==
    ASSUME ReadsInv, NEW r \in Readers
    PROVE  /\ ReadOk(reads[r])
           /\ DOMAIN reads = Readers
           /\ DOMAIN reads[r] = Fields
           /\ DOMAIN reads[r].response = Parts
<1>1. ReadOk(reads[r]) /\ DOMAIN reads = Readers
  BY DEF ReadsInv
<1> QED
  BY <1>1 DEF ReadOk, Typed, IsResponse

\* What a request has found in the index when it ends.
FoundOk(R) ==
    R.ask.op = "search" /\ R.ask.by = "hash" /\ R.response.status = 200 =>
      \A id \in R.idsThen :
        Names(R.ask, id) /\ ~Outnumbered(R.ask, id) => id \in R.response.ids

\* A request that ends, if its response is right; with an error, it shows no figures.
LEMMA EndIsOk ==
    ASSUME ReadsInv, NEW r \in Readers, NEW R, R = reads[r], R.calls # <<>>,
           Moves(r, {"calls", "entries", "response", "card"}),
           NEW S, S = reads'[r], S.calls = <<>>, S.entries = <<>>, IsResponse(S.response),
           R.response.ids \subseteq S.response.ids,
           Listed(S.ask, S), LookedUp(S.ask, S), FoundOk(S)
    PROVE  ReadOk(S)
<1>1. ReadOk(R)
  BY ReadIs
<1>2. /\ DOMAIN S = Fields
      /\ S.ask = R.ask /\ S.tip = R.tip /\ S.offset = R.offset /\ S.seen = R.seen
      /\ S.tipThen = R.tipThen /\ S.minedThen = R.minedThen /\ S.idsThen = R.idsThen
  BY DEF Moves, Fields
<1>3. Typed(S)
  <2>1. <<>> \in Seq(CallSet) /\ <<>> \in Seq(EntrySet)
    OBVIOUS
  <2> QED
    BY <1>1, <1>2, <2>1 DEF Typed, ReadOk
<1>4. Remembers(S)
  BY <1>1, <1>2 DEF Remembers, ReadOk
<1>5. EntriesOk(S)
  BY DEF EntriesOk
<1>6. CallsOk(S)
  BY DEF CallsOk
<1>7. EndsOk(S)
  BY DEF EndsOk
<1>8. R.ask # Null /\ R.ask.op # "walk"
  BY <1>1 DEF ReadOk, CallsOk, AsksForTip, AsksForHashes, AsksForBlocks, AsksForItsHash,
              AsksForThat, AsksForBlock
<1>9. SearchOk(S)
  <2>1. SearchOk(R)
    BY <1>1 DEF ReadOk
  <2>2. R.ask.op = "search" /\ R.ask.by # "hash" /\ R.ask.term \in R.idsThen =>
          R.ask.term \in S.response.ids
    BY <1>8, <2>1 DEF SearchOk
  <2> QED
    BY <1>2, <2>2 DEF SearchOk, FoundOk
<1>10. WalkOk(S)
  BY <1>2, <1>8 DEF WalkOk
<1> QED
  BY <1>3, <1>4, <1>5, <1>6, <1>7, <1>9, <1>10 DEF ReadOk

LEMMA EndsIsOk ==
    ASSUME ReadsInv, NEW r \in Readers, NEW R, R = reads[r], R.calls # <<>>,
           NEW response, Ends(r, response), IsResponse(response),
           R.response.ids \subseteq response.ids,
           NEW S, S = reads'[r], Listed(S.ask, S), LookedUp(S.ask, S), FoundOk(S)
    PROVE  ReadOk(S) /\ Moves(r, {"calls", "entries", "response", "tip"})
<1>1. DOMAIN reads = Readers /\ DOMAIN reads[r] = Fields
  BY ReadIs
<1>2. /\ Moves(r, {"calls", "entries", "response"})
      /\ S.calls = <<>> /\ S.entries = <<>> /\ S.response = response
  BY <1>1, EndsMoves
<1>3. /\ Moves(r, {"calls", "entries", "response", "tip"})
      /\ Moves(r, {"calls", "entries", "response", "card"})
  BY <1>2 DEF Moves
<1> QED
  BY <1>2, <1>3, EndIsOk

\* The calls of S are one of the kinds a request makes.
AsksRightly(S) ==
    \/ AsksForHashes(S)
    \/ AsksForBlocks(S)
    \/ AsksForThat(S)

\* A request that goes on, if it asks the right calls.
LEMMA CallsIsOk ==
    ASSUME ReadsInv, NEW r \in Readers, NEW R, R = reads[r], R.calls # <<>>,
           NEW calls, NEW tip, Calls(r, calls, tip), calls \in Seq(CallSet), calls # <<>>, tip \in Nat,
           NEW S, S = reads'[r], AsksRightly(S)
    PROVE  ReadOk(S) /\ Moves(r, {"calls", "entries", "response", "tip"})
<1>1. ReadOk(R) /\ DOMAIN reads = Readers /\ DOMAIN reads[r] = Fields
  BY ReadIs
<1>2. /\ Moves(r, {"calls", "entries", "tip"})
      /\ S.calls = calls /\ S.entries = <<>> /\ S.tip = tip
  BY <1>1, CallsMoves
<1>3. /\ DOMAIN S = Fields
      /\ S.ask = R.ask /\ S.response = R.response /\ S.offset = R.offset /\ S.seen = R.seen
      /\ S.tipThen = R.tipThen /\ S.minedThen = R.minedThen /\ S.idsThen = R.idsThen
  BY <1>2 DEF Moves, Fields
<1>4. Moves(r, {"calls", "entries", "response", "tip"})
  BY <1>2 DEF Moves
<1>5. Typed(S)
  <2>1. <<>> \in Seq(EntrySet)
    OBVIOUS
  <2> QED
    BY <1>1, <1>2, <1>3, <2>1 DEF Typed, ReadOk
<1>6. Remembers(S)
  BY <1>1, <1>2, <1>3 DEF Remembers, ReadOk
<1>7. EntriesOk(S)
  BY <1>2 DEF EntriesOk
<1>8. CallsOk(S)
  BY <1>1, <1>3 DEF CallsOk, ReadOk, AsksRightly
<1>9. EndsOk(S)
  BY <1>2 DEF EndsOk
<1>10. R.ask # Null /\ R.ask.op # "walk"
  BY <1>1 DEF ReadOk, CallsOk, AsksForTip, AsksForHashes, AsksForBlocks, AsksForItsHash,
              AsksForThat, AsksForBlock
<1>11. SearchOk(S)
  BY <1>1, <1>2, <1>3, <1>10 DEF SearchOk, ReadOk
<1>12. WalkOk(S)
  BY <1>3, <1>10 DEF WalkOk
<1> QED
  BY <1>4, <1>5, <1>6, <1>7, <1>8, <1>9, <1>11, <1>12 DEF ReadOk

\* A page shows records of the index only.
LEMMA PageFromRecords ==
    ASSUME RecordsOk, NEW filter, NEW limit \in Nat \ {0}, NEW offset \in Nat
    PROVE  ToSet(Page(Filtered(records, filter), limit, offset)) \subseteq ToSet(records)
<1>1. records \in Seq(RecordSet)
  BY DEF RecordsOk
<1>2. PICK items \in Seq(RecordSet) : items = Filtered(records, filter)
  BY <1>1, FilteredIs
<1>3. ToSet(items) \subseteq ToSet(records)
  BY <1>1, <1>2, FilteredIs
<1>4. \A p \in 1..Len(items) : items[p] \in ToSet(items)
  BY <1>2 DEF ToSet
<1>5. \A item \in ToSet(Page(items, limit, offset)) : \E p \in 1..Len(items) : item = items[p]
  <2>1. items \in Seq(RecordSet) /\ limit \in Nat \ {0} /\ offset \in Nat
    OBVIOUS
  <2>2. IsPage(Page(items, limit, offset), items, limit, offset)
    BY ONLY <2>1, PageIs
  <2> QED
    BY <2>2 DEF IsPage
<1> QED
  BY <1>2, <1>3, <1>4, <1>5

\* A record of the index, by its number.
LEMMA RecordOf ==
    ASSUME RecordsOk, NEW id \in IdsThere
    PROVE  \E record \in ToSet(records) :
             record.id = id /\ record.txid = id /\ record.channel = Channel[id] /\ id \in Ids
<1>1. PICK record \in ToSet(records) : record.id = id
  BY DEF IdsThere, IdsOf
<1>2. PICK i \in 1..Len(records) : record = records[i]
  BY DEF ToSet, RecordsOk
<1>3. records[i] \in RecordSet
  BY ElementOfSequence DEF RecordsOk
<1> QED
  BY <1>1, <1>2, <1>3 DEF RecordsOk, RecordSet

\* A search for a hash finds the records that it names.
LEMMA ByHashFinds ==
    ASSUME RecordsOk, NEW ask, ask.by = "hash"
    PROVE  /\ \A id \in IdsThere : Names(ask, id) /\ ~Outnumbered(ask, id) =>
                id \in IdsOf(ByHash(records, ask.term))
           /\ ByHash(records, ask.term) \subseteq ToSet(records)
<1> DEFINE byHash == {record \in ToSet(records) : HashOf("record", record.id) = ask.term}
           byAnchor == {record \in ToSet(records) : HashOf("txid", record.txid) = ask.term}
<1>1. /\ byHash # {} => ByHash(records, ask.term) = byHash
      /\ byHash = {} /\ byAnchor # {} => ByHash(records, ask.term) = byAnchor
      /\ byHash = {} /\ byAnchor = {} /\ ask.term.of = "channel" =>
           ByHash(records, ask.term) = OfChannel(records, ask.term.n)
      /\ byHash = {} /\ byAnchor = {} /\ ask.term.of # "channel" =>
           ByHash(records, ask.term) = {}
  BY DEF ByHash
<1>2. ASSUME NEW id \in IdsThere, Names(ask, id), ~Outnumbered(ask, id)
      PROVE  id \in IdsOf(ByHash(records, ask.term))
  <2>1. PICK record \in ToSet(records) :
          record.id = id /\ record.txid = id /\ record.channel = Channel[id]
    BY RecordOf
  <2>2. CASE ask.term = HashOf("record", id)
    <3>1. record \in byHash
      BY <2>1, <2>2
    <3> HIDE DEF byHash, byAnchor
    <3> QED
      BY <1>1, <2>1, <3>1 DEF IdsOf
  <2>3. CASE ask.term = HashOf("txid", id)
    <3>1. record \in byAnchor
      BY <2>1, <2>3
    <3>2. byHash = {}
      BY <2>3 DEF HashOf
    <3> HIDE DEF byHash, byAnchor
    <3> QED
      BY <1>1, <2>1, <3>1, <3>2 DEF IdsOf
  <2>4. CASE ask.term = HashOf("channel", Channel[id])
    <3>1. byHash = {} /\ byAnchor = {} /\ ask.term.of = "channel" /\ ask.term.n = Channel[id]
      BY <2>4 DEF HashOf
    <3> HIDE DEF byHash, byAnchor
    <3>2. ByHash(records, ask.term) = OfChannel(records, Channel[id])
      BY <1>1, <3>1
    <3> QED
      BY <1>2, <3>1, <3>2 DEF Outnumbered
  <2> QED
    BY <1>2, <2>2, <2>3, <2>4 DEF Names
<1>3. OfChannel(records, ask.term.n) \subseteq ToSet(records)
  <2>1. SearchLimit \in Nat \ {0}
    BY ReadsAssumption DEF ReadsAssumption
  <2> QED
    BY <2>1, PageFromRecords DEF OfChannel, ListRecords
<1>4. byHash \subseteq ToSet(records) /\ byAnchor \subseteq ToSet(records)
  OBVIOUS
<1>5. ByHash(records, ask.term) \subseteq ToSet(records)
  <2> HIDE DEF byHash, byAnchor
  <2> QED
    BY <1>1, <1>3, <1>4
<1> QED
  BY <1>2, <1>5

\* Why a block is not there.
NotThere(R) ==
    IF R.ask.by = "number" THEN R.ask.term > R.tipThen
    ELSE R.ask.term.of # "block" \/ R.ask.term.n > R.minedThen

\* A block or a search that ends with this block, or with none.
LEMMA EndsWithBlockIsOk ==
    ASSUME ReadsInv, NEW r \in Readers, NEW R, R = reads[r], R.calls # <<>>,
           R.ask.op \in {"block", "search"},
           NEW block \in Block \cup {Null}, EndsWithBlock(r, block),
           ~R.ask.tolerant /\ block = Null => NotThere(R),
           R.ask.by = "hash" /\ block # Null => R.ask.term.of = "block",
           NEW S, S = reads'[r]
    PROVE  ReadOk(S) /\ Moves(r, {"calls", "entries", "response", "tip"})
<1>1. ReadOk(R) /\ DOMAIN reads = Readers /\ DOMAIN reads[r] = Fields
  BY ReadIs
<1>2. IsResponse(R.response) /\ R.ask # Null /\ IsAsk(R.ask)
  BY <1>1 DEF ReadOk, Typed, CallsOk
<1>3. R.ask \in {R.ask} /\ RecordsOk
  BY DEF ReadsInv
<1> DEFINE found == IdsOf(FoundAfter(R.ask, block))
           status == IF block = Null /\ R.ask.op = "block" THEN 404 ELSE 200
           blocks == IF block = Null THEN <<>> ELSE <<block>>
<1>4. FoundAfter(R.ask, block) \subseteq ToSet(records)
  BY <1>3, ByHashFinds DEF FoundAfter
<1>5. found \subseteq Ids
  <2>1. found \subseteq IdsThere
    BY <1>4 DEF IdsThere, IdsOf
  <2> HIDE DEF found
  <2> QED
    BY <1>3, <2>1, RecordOf
<1>6. PICK response :
        response = [R.response EXCEPT !.status = status, !.blocks = blocks, !.ids = @ \cup found]
  OBVIOUS
<1>7. Ends(r, response)
  BY <1>6 DEF EndsWithBlock
<1> HIDE DEF found
<1>8. /\ DOMAIN response = Parts /\ response.status = status /\ response.blocks = blocks
      /\ response.ids = R.response.ids \cup found
      /\ response.total = R.response.total /\ response.offline = R.response.offline
  <2> HIDE DEF status, blocks
  <2>1. DOMAIN R.response = Parts
    BY <1>2 DEF IsResponse
  <2> QED
    BY <1>6, <2>1 DEF Parts
<1>9. IsResponse(response)
  <2>1. /\ DOMAIN blocks = 1..Len(blocks) /\ Len(blocks) \in Nat /\ ToSet(blocks) \subseteq Block
    <3>1. CASE block = Null
      BY <3>1 DEF ToSet
    <3>2. CASE block # Null
      <4>1. block \in Block /\ blocks = <<block>>
        BY <3>2
      <4>2. DOMAIN <<block>> = 1..1 /\ Len(<<block>>) = 1 /\ \A i \in 1..1 : <<block>>[i] = block
        OBVIOUS
      <4> HIDE DEF blocks
      <4> QED
        BY <4>1, <4>2 DEF ToSet
    <3> QED
      BY <3>1, <3>2
  <2> HIDE DEF blocks
  <2> QED
    BY <1>2, <1>5, <1>8, <2>1 DEF IsResponse
<1>10. /\ Moves(r, {"calls", "entries", "response"})
       /\ S.response = response /\ S.calls = <<>>
  BY <1>1, <1>7, EndsMoves
<1>11. S.ask = R.ask /\ S.tipThen = R.tipThen /\ S.minedThen = R.minedThen /\ S.idsThen = R.idsThen
  BY <1>10 DEF Moves, Fields
<1>12. Listed(S.ask, S)
  BY <1>11 DEF Listed
<1>13. LookedUp(S.ask, S)
  <2>1. ~S.ask.tolerant /\ S.ask.op = "block" /\ S.response.status = 404 =>
          IF S.ask.by = "number" THEN S.ask.term > S.tipThen
          ELSE S.ask.term.of # "block" \/ S.ask.term.n > S.minedThen
    BY <1>8, <1>10, <1>11 DEF NotThere
  <2>2. ASSUME ~S.ask.tolerant, S.ask.op = "search", S.ask.by = "number", S.ask.term =< S.tipThen
        PROVE  S.response.blocks # <<>>
    <3>1. R.ask.term \in Nat /\ R.tipThen \in Nat
      BY <1>1, <1>2, <1>11, <2>2 DEF IsAsk, ReadOk, Remembers, NodeOk
    <3>2. block # Null
      BY <1>11, <2>2, <3>1 DEF NotThere
    <3>3. S.response.blocks = <<block>>
      BY <1>8, <1>10, <3>2
    <3>4. <<block>> # <<>>
      OBVIOUS
    <3> QED
      BY <3>3, <3>4
  <2> QED
    BY <2>1, <2>2 DEF LookedUp
<1>14. FoundOk(S)
  <2> SUFFICES ASSUME S.ask.op = "search", S.ask.by = "hash", NEW id \in S.idsThen,
                      Names(S.ask, id), ~Outnumbered(S.ask, id)
               PROVE  id \in S.response.ids
    BY DEF FoundOk
  <2>1. R.ask.op = "search" /\ R.ask.by = "hash" /\ Names(R.ask, id) /\ ~Outnumbered(R.ask, id)
    BY <1>11
  <2>2. CASE block = Null
    <3>1. id \in IdsThere
      BY <1>1, <1>11 DEF ReadOk, Remembers
    <3>2. id \in found
      BY <1>3, <2>1, <2>2, <3>1, ByHashFinds DEF found, FoundAfter
    <3> QED
      BY <1>8, <1>10, <3>2
  <2>3. CASE block # Null
    BY <2>1, <2>3 DEF Names, HashOf
  <2> QED
    BY <2>2, <2>3
<1> HIDE DEF status, blocks
<1>15. R.response.ids \subseteq response.ids
  BY <1>8
<1> QED
  BY <1>7, <1>9, <1>12, <1>13, <1>14, <1>15, EndsIsOk

-----------------------------------------------------------------------------
(* What a call comes to *)

\* Every call was answered, and the answers say what was so.
Heard(R, values) ==
    /\ DOMAIN values = 1..Len(R.calls)
    /\ Len(values) = Len(R.calls)
    /\ \A k \in 1..Len(R.calls) : Tells(R, Result(k, values[k]), R.calls[k])
    /\ \A k \in 1..Len(R.calls) : values[k] \in Nat \cup Block \cup {Null}

\* One of them was answered with this error.
HeardError(R, code) ==
    \E i \in 1..Len(R.entries) :
      /\ R.entries[i].code = code
      /\ code \in {NotFound, OutOfRange}
      /\ code # Null
      /\ Tells(R, R.entries[i], R.calls[R.entries[i].id])

\* What the promise of a batch is settled with.
Comes(R, outcome) ==
    \/ \E values : outcome = Answered(values) /\ Heard(R, values)
    \/ \E code : outcome = RpcFailure(code) /\ HeardError(R, code)
    \/ outcome = NoReply
    \/ outcome = BodyBroken

\* A whole reply, in whatever order it came.
LEMMA ReplyComes ==
    ASSUME NEW R, ReadOk(R), Len(R.entries) = Len(R.calls)
    PROVE  Comes(R, BatchOutcome(R.entries))
<1>1. PICK n : n = Len(R.calls)
  OBVIOUS
<1>2. PICK entries : entries = R.entries
  OBVIOUS
<1>3. /\ n \in Nat /\ Len(entries) = n /\ entries \in Seq(EntrySet)
      /\ \A i \in 1..n : entries[i].id \in 1..n /\ Tells(R, entries[i], R.calls[entries[i].id])
      /\ \A i, j \in 1..n : entries[i].id = entries[j].id => i = j
  BY <1>1, <1>2 DEF ReadOk, Typed, EntriesOk
<1>4. \A i \in 1..n : entries[i] \in EntrySet
  BY <1>3, ElementOfSequence
<1>5. OneForEach(entries, n)
  BY <1>3 DEF OneForEach
<1>6. CASE \E values : BatchOutcome(entries) = Answered(values) /\ ValuesOf(values, entries, n)
  <2>1. PICK values : BatchOutcome(entries) = Answered(values) /\ ValuesOf(values, entries, n)
    BY <1>6
  <2>2. ASSUME NEW k \in 1..n
        PROVE  /\ Tells(R, Result(k, values[k]), R.calls[k])
               /\ values[k] \in Nat \cup Block \cup {Null}
    <3>1. PICK i \in 1..n :
            entries[i].id = k /\ entries[i].code = Null /\ values[k] = entries[i].value
      BY <2>1 DEF ValuesOf
    <3>2. Tells(R, entries[i], R.calls[k]) /\ entries[i] \in EntrySet
      BY <1>3, <1>4, <3>1
    <3>3. Result(k, values[k]).code = entries[i].code /\ Result(k, values[k]).value = entries[i].value
      BY <3>1 DEF Result
    <3>4. Tells(R, Result(k, values[k]), R.calls[k])
      BY <3>2, <3>3 DEF Tells
    <3> QED
      BY <3>1, <3>2, <3>4 DEF EntrySet
  <2>3. Heard(R, values)
    BY <1>1, <2>1, <2>2 DEF Heard, ValuesOf
  <2> QED
    BY <1>2, <2>1, <2>3 DEF Comes
<1>7. CASE \E i \in 1..n : BatchOutcome(entries) = RpcFailure(entries[i].code) /\ entries[i].code # Null
  <2>1. PICK i \in 1..n : BatchOutcome(entries) = RpcFailure(entries[i].code) /\ entries[i].code # Null
    BY <1>7
  <2>2. entries[i] \in EntrySet
    BY <1>4
  <2>3. entries[i].code \in {NotFound, OutOfRange}
    BY <2>1, <2>2 DEF EntrySet
  <2>4. HeardError(R, entries[i].code)
    BY <1>2, <1>3, <2>1, <2>3 DEF HeardError
  <2> QED
    BY <1>2, <2>1, <2>4 DEF Comes
<1>8. \/ \E values : BatchOutcome(entries) = Answered(values) /\ ValuesOf(values, entries, n)
      \/ \E i \in 1..n : BatchOutcome(entries) = RpcFailure(entries[i].code) /\ entries[i].code # Null
  BY ONLY <1>3, <1>5, BatchPairs
<1> QED
  BY <1>6, <1>7, <1>8

\* The fields a handler changes when its call has ended; with an error, also the figures.
Resumed(r) ==
    \/ Moves(r, {"calls", "entries", "response", "tip"})
    \/ Moves(r, {"calls", "entries", "response", "card"}) /\ reads'[r].card = Null

\* A request that fails, or a page that goes on without its blocks.
LEMMA FailsIsOk ==
    ASSUME ReadsInv, NEW r \in Readers, NEW R, R = reads[r], R.calls # <<>>,
           NEW outcome, Fails(r, outcome),
           outcome = BodyBroken \/ \E code : outcome = RpcFailure(code),
           NEW S, S = reads'[r]
    PROVE  ReadOk(S) /\ Resumed(r)
<1>1. ReadOk(R) /\ DOMAIN reads = Readers /\ DOMAIN reads[r] = Fields
  BY ReadIs
<1>2. IsResponse(R.response) /\ R.ask # Null /\ IsAsk(R.ask)
  BY <1>1 DEF ReadOk, Typed, CallsOk
<1>3. R.ask.op \in {"home", "list", "block", "search"}
  BY <1>1 DEF ReadOk, CallsOk, AsksForTip, AsksForHashes, AsksForBlocks, AsksForItsHash,
              AsksForThat, AsksForBlock
<1>4. CASE ~(R.ask.tolerant /\ outcome.end = "CdciRpcError")
  <2>1. PICK status : status = HttpStatus(outcome)
    OBVIOUS
  <2>2. status \in {500, 502}
    BY <2>1 DEF HttpStatus, BodyBroken, RpcFailure
  <2>3. PICK response : response = [R.response EXCEPT !.status = status]
    OBVIOUS
  <2>4. EndsWithError(r, status)
    BY <1>4, <2>1 DEF Fails
  <2>5. /\ DOMAIN response = Parts /\ response.status = status /\ response.blocks = R.response.blocks
        /\ response.ids = R.response.ids /\ response.total = R.response.total
        /\ response.offline = R.response.offline
    BY <1>2, <2>3 DEF IsResponse, Parts
  <2>6. IsResponse(response)
    BY <1>2, <2>2, <2>5 DEF IsResponse
  <2>7. /\ S.response = response /\ S.calls = <<>> /\ S.entries = <<>> /\ S.card = Null
        /\ Moves(r, {"calls", "entries", "response", "card"})
    BY <1>1, <1>2, <2>3, <2>4, EndsWithErrorMoves DEF IsResponse
  <2>8. Listed(S.ask, S) /\ LookedUp(S.ask, S) /\ FoundOk(S)
    BY <2>2, <2>5, <2>7 DEF Listed, LookedUp, FoundOk
  <2> QED
    BY <2>5, <2>6, <2>7, <2>8, EndIsOk DEF Resumed
<1>5. CASE R.ask.tolerant /\ outcome.end = "CdciRpcError" /\ R.ask.op \in {"block", "search"}
  <2>1. EndsWithBlock(r, Null)
    BY <1>5 DEF Fails
  <2> QED
    BY <1>5, <2>1, EndsWithBlockIsOk DEF Resumed
<1>6. CASE /\ R.ask.tolerant /\ outcome.end = "CdciRpcError" /\ R.ask.op \notin {"block", "search"}
  <2>1. PICK response : response = [R.response EXCEPT !.offline = TRUE]
    OBVIOUS
  <2>2. Ends(r, response)
    BY <1>6, <2>1 DEF Fails
  <2>3. /\ DOMAIN response = Parts /\ response.status = R.response.status
        /\ response.blocks = R.response.blocks
        /\ response.ids = R.response.ids /\ response.total = R.response.total
        /\ response.offline = TRUE
    BY <1>2, <2>1 DEF IsResponse, Parts
  <2>4. IsResponse(response)
    <3>1. response.offline \in BOOLEAN
      BY <2>3, Zenon
    <3>2. /\ DOMAIN response = Parts /\ response.status = R.response.status
          /\ response.blocks = R.response.blocks
          /\ response.ids = R.response.ids /\ response.total = R.response.total
      BY <2>3
    <3> QED
      BY ONLY <1>2, <3>1, <3>2 DEF IsResponse
  <2>5. S.response = response /\ S.ask = R.ask
    <3>1. S.response = response /\ Moves(r, {"calls", "entries", "response"})
      BY <1>1, <2>2, EndsMoves
    <3> QED
      BY <3>1 DEF Moves, Fields
  <2>6. Listed(S.ask, S) /\ LookedUp(S.ask, S) /\ FoundOk(S)
    BY <1>3, <1>6, <2>3, <2>5 DEF Listed, LookedUp, FoundOk
  <2> QED
    BY <2>2, <2>3, <2>4, <2>6, EndsIsOk DEF Resumed
<1> QED
  BY <1>4, <1>5, <1>6

\* The tip of a list has been asked for.
LEMMA TipGoesOn ==
    ASSUME ReadsInv, NEW r \in Readers, NEW R, R = reads[r], R.calls # <<>>, AsksForTip(R),
           NEW values, Heard(R, values), Goes(r, "getblockcount", values),
           NEW S, S = reads'[r]
    PROVE  ReadOk(S) /\ Moves(r, {"calls", "entries", "response", "tip"})
<1>1. ReadOk(R) /\ DOMAIN reads = Readers /\ DOMAIN reads[r] = Fields
  BY ReadIs
<1>2. IsResponse(R.response) /\ R.ask # Null /\ IsAsk(R.ask) /\ R.tipThen \in Nat
  BY <1>1 DEF ReadOk, Typed, CallsOk, Remembers, ReadsInv, NodeOk, Node!TypeOK
<1>3. PICK tip : tip = values[1]
  OBVIOUS
<1>4. tip \in Nat /\ R.tipThen =< tip
  BY <1>3 DEF Heard, AsksForTip, Tells, Call, Result
<1>5. PICK limit : limit = PageLimit(R.ask.limit, 10)
  OBVIOUS
<1>6. limit \in Nat \ {0} /\ R.ask.offset \in Nat
  <2>1. R.ask.limit \in Int \cup {Null} /\ R.ask.offset \in Nat /\ 10 \in Nat \ {0}
    BY <1>2 DEF IsAsk
  <2>2. PageLimit(R.ask.limit, 10) \in Nat \ {0}
    BY ONLY <2>1, PageLimitPositive
  <2> QED
    BY <1>5, <2>1, <2>2
<1>7. PICK n : n = Wide(R.ask, tip)
  OBVIOUS
<1>8. /\ n \in Nat
      /\ HeightsWanted(tip, limit, R.ask.offset) = [i \in 1..n |-> tip - R.ask.offset - i + 1]
      /\ n = 0 <=> R.ask.offset > tip
      /\ \A i \in 1..n : tip - R.ask.offset - i + 1 \in 0..tip
  <2>1. n = Min({limit, Max({(tip + 1) - R.ask.offset, 0})})
    BY <1>5, <1>7 DEF Wide
  <2>2. PICK offset : offset = R.ask.offset
    OBVIOUS
  <2>3. tip \in Nat /\ limit \in Nat \ {0} /\ offset \in Nat
        /\ n = Min({limit, Max({(tip + 1) - offset, 0})})
    BY <1>4, <1>6, <2>1, <2>2
  <2>4. AreHeights(n, tip, limit, offset)
    BY ONLY <2>3, HeightsAre
  <2> QED
    BY <2>2, <2>4 DEF AreHeights
<1>9. PICK wanted : wanted = HeightsWanted(tip, limit, R.ask.offset)
  OBVIOUS
<1>10. DOMAIN wanted = 1..n /\ \A i \in 1..n : wanted[i] = tip - R.ask.offset - i + 1
  BY <1>8, <1>9
<1>11. /\ wanted # <<>> =>
            Calls(r, [i \in DOMAIN wanted |-> Call("getblockhash", wanted[i])], tip)
       /\ wanted = <<>> => Ends(r, [R.response EXCEPT !.total = tip + 1])
  BY <1>3, <1>5, <1>9 DEF Goes
<1>12. CASE n = 0
  <2>1. wanted = <<>>
    BY <1>8, <1>9, <1>12
  <2>2. PICK response : response = [R.response EXCEPT !.total = tip + 1]
    OBVIOUS
  <2>3. Ends(r, response)
    BY <1>11, <2>1, <2>2
  <2>4. /\ DOMAIN response = Parts /\ response.status = R.response.status
        /\ response.blocks = R.response.blocks
        /\ response.ids = R.response.ids /\ response.total = tip + 1
        /\ response.offline = R.response.offline
    BY <1>2, <2>2 DEF IsResponse, Parts
  <2>5. IsResponse(response)
    <3>1. response.total \in Nat
      BY <1>4, <2>4
    <3> QED
      BY <1>2, <2>4, <3>1 DEF IsResponse
  <2>6. S.response = response /\ S.ask = R.ask /\ S.tipThen = R.tipThen
    <3>1. S.response = response /\ Moves(r, {"calls", "entries", "response"})
      BY <1>1, <2>3, EndsMoves
    <3> QED
      BY <3>1 DEF Moves, Fields
  <2>7. R.response.blocks = <<>> /\ ~R.response.offline /\ Len(<<>>) = 0
    BY <1>1 DEF ReadOk, CallsOk
  <2>8. Listed(S.ask, S)
    <3>1. response.total - 1 = tip /\ R.tipThen + 1 =< response.total
      BY <1>2, <1>4, <2>4
    <3>2. Len(S.response.blocks) = Wide(S.ask, S.response.total - 1)
      BY <1>7, <1>12, <2>4, <2>6, <2>7, <3>1
    <3>3. Len(S.response.blocks) = 0 /\ ~S.response.offline
      BY <2>4, <2>6, <2>7
    <3> QED
      BY <2>6, <3>1, <3>2, <3>3 DEF Listed
  <2>9. LookedUp(S.ask, S) /\ FoundOk(S)
    BY <2>6 DEF LookedUp, FoundOk, AsksForTip
  <2> QED
    BY <2>3, <2>4, <2>5, <2>8, <2>9, EndsIsOk
<1>13. CASE n # 0
  <2>1. 1 \in 1..n /\ wanted # <<>>
    <3>1. 1 \in 1..n
      BY <1>8, <1>13
    <3>2. wanted = <<>> => DOMAIN wanted = {}
      OBVIOUS
    <3> QED
      BY <1>10, <3>1, <3>2
  <2>2. PICK calls : calls = [i \in DOMAIN wanted |-> Call("getblockhash", wanted[i])]
    OBVIOUS
  <2>3. Calls(r, calls, tip)
    BY <1>11, <2>1, <2>2
  <2>4. calls = [i \in 1..n |-> calls[i]]
        /\ \A i \in 1..n : calls[i] = Call("getblockhash", tip - R.ask.offset - i + 1)
    BY <1>10, <2>2
  <2>5. calls \in Seq(CallSet) /\ Len(calls) = n /\ calls # <<>>
    <3>1. \A i \in 1..n : calls[i] \in CallSet
      BY <1>4, <1>8, <2>4 DEF Call, CallSet
    <3>2. calls \in [1..n -> CallSet]
      BY <2>4, <3>1
    <3> QED
      BY <1>8, <2>1, <3>2
  <2>6. S.calls = calls /\ S.tip = tip /\ S.ask = R.ask /\ S.tipThen = R.tipThen
    <3>1. /\ S.calls = calls /\ S.tip = tip /\ Moves(r, {"calls", "entries", "tip"})
      BY <1>1, <2>3, CallsMoves
    <3> QED
      BY <3>1 DEF Moves, Fields
  <2>7. AsksForHashes(S)
    BY <1>4, <1>7, <2>4, <2>5, <2>6 DEF AsksForHashes, AsksForTip
  <2> QED
    BY <1>4, <2>3, <2>5, <2>7, CallsIsOk DEF AsksRightly
<1> QED
  BY <1>12, <1>13

\* The hashes of a list have been asked for.
LEMMA HashesGoOn ==
    ASSUME ReadsInv, NEW r \in Readers, NEW R, R = reads[r], R.calls # <<>>, AsksForHashes(R),
           NEW values, Heard(R, values), Goes(r, "getblockhash", values),
           NEW S, S = reads'[r]
    PROVE  ReadOk(S) /\ Moves(r, {"calls", "entries", "response", "tip"})
<1>1. ReadOk(R) /\ DOMAIN reads = Readers /\ DOMAIN reads[r] = Fields
  BY ReadIs
<1>2. PICK n : n = Len(R.calls)
  OBVIOUS
<1>3. /\ n \in Nat \ {0} /\ R.calls \in Seq(CallSet) /\ R.tip \in Nat
      /\ mined \in Nat /\ DOMAIN values = 1..n /\ Len(values) = n
  BY <1>1, <1>2 DEF ReadOk, Typed, ReadsInv, NodeOk, Node!TypeOK, Heard
<1>4. ASSUME NEW i \in 1..n
      PROVE  /\ values[i] \in R.seen
             /\ values[i] \in 0..mined
             /\ heights[values[i]] = R.tip - R.ask.offset - i + 1
  <2>1. Tells(R, Result(i, values[i]), R.calls[i])
        /\ R.calls[i] = Call("getblockhash", R.tip - R.ask.offset - i + 1)
    BY <1>2 DEF Heard, AsksForHashes
  <2>2. /\ R.calls[i].method = "getblockhash" /\ R.calls[i].arg = R.tip - R.ask.offset - i + 1
        /\ Result(i, values[i]).code = Null /\ Result(i, values[i]).value = values[i]
    BY <2>1 DEF Call, Result
  <2>3. Null # OutOfRange
    BY NullAssumption DEF NullAssumption, OutOfRange
  <2> QED
    BY <2>1, <2>2, <2>3 DEF Tells
<1>5. values # <<Null>>
  <2>1. 1 \in 1..n /\ values[1] \in Nat
    <3>1. 1 \in 1..n
      BY <1>3
    <3> QED
      BY <1>3, <1>4, <3>1
  <2>2. <<Null>>[1] = Null /\ Null \notin Nat
    BY NullAssumption DEF NullAssumption
  <2> QED
    BY <2>1, <2>2
<1>6. PICK calls : calls = [i \in DOMAIN values |-> Call("getblock", values[i])]
  OBVIOUS
<1>7. Calls(r, calls, R.tip)
  BY <1>5, <1>6 DEF Goes
<1>8. /\ calls = [i \in 1..n |-> calls[i]]
      /\ \A i \in 1..n : calls[i].method = "getblock" /\ calls[i].arg = values[i]
      /\ \A i \in 1..n : calls[i] = Call("getblock", values[i])
  BY <1>3, <1>6 DEF Call
<1>9. calls \in Seq(CallSet) /\ Len(calls) = n /\ calls # <<>>
  <2>1. \A i \in 1..n : values[i] \in Nat
    BY <1>3, <1>4
  <2>2. \A i \in 1..n : calls[i] \in CallSet
    BY <1>8, <2>1 DEF Call, CallSet
  <2>3. calls \in [1..n -> CallSet]
    BY <1>8, <2>2
  <2> QED
    BY <1>3, <2>3
<1>10. /\ S.calls = calls /\ S.tip = R.tip /\ S.ask = R.ask /\ S.tipThen = R.tipThen
       /\ S.seen = R.seen
  <2>1. /\ S.calls = calls /\ S.tip = R.tip /\ Moves(r, {"calls", "entries", "tip"})
    BY <1>1, <1>7, CallsMoves
  <2> QED
    BY <2>1 DEF Moves, Fields
<1>11. AsksForBlocks(S)
  BY <1>2, <1>4, <1>8, <1>9, <1>10 DEF AsksForBlocks, AsksForHashes
<1> QED
  BY <1>3, <1>7, <1>9, <1>11, CallsIsOk DEF AsksRightly

\* The blocks of a list have been asked for.
LEMMA BlocksEnd ==
    ASSUME ReadsInv, NEW r \in Readers, NEW R, R = reads[r], R.calls # <<>>, AsksForBlocks(R),
           NEW values, Heard(R, values), Goes(r, "getblock", values),
           NEW S, S = reads'[r]
    PROVE  ReadOk(S) /\ Moves(r, {"calls", "entries", "response", "tip"})
<1>1. ReadOk(R) /\ DOMAIN reads = Readers /\ DOMAIN reads[r] = Fields
  BY ReadIs
<1>2. PICK n : n = Len(R.calls)
  OBVIOUS
<1>3. /\ n \in Nat \ {0} /\ R.calls \in Seq(CallSet) /\ R.tip \in Nat /\ R.tipThen \in Nat
      /\ mined \in Nat /\ DOMAIN values = 1..n /\ Len(values) = n
      /\ IsResponse(R.response) /\ R.ask # Null /\ IsAsk(R.ask)
      /\ heights \in [0..mined -> Nat]
  BY <1>1, <1>2 DEF ReadOk, Typed, ReadsInv, NodeOk, Node!TypeOK, Heard, CallsOk, Remembers
<1>4. ASSUME NEW i \in 1..n
      PROVE  /\ values[i] \in Block
             /\ values[i].hash \in R.seen
             /\ values[i].height = R.tip - R.ask.offset - i + 1
  <2>1. /\ Tells(R, Result(i, values[i]), R.calls[i])
        /\ R.calls[i].method = "getblock"
        /\ R.calls[i].arg \in R.seen
        /\ R.calls[i].arg \in 0..mined
        /\ heights[R.calls[i].arg] = R.tip - R.ask.offset - i + 1
    BY <1>2 DEF Heard, AsksForBlocks
  <2>2. Result(i, values[i]).code = Null /\ Result(i, values[i]).value = values[i]
    BY DEF Result
  <2>3. Null # NotFound
    BY NullAssumption DEF NullAssumption, NotFound
  <2>4. values[i] = [hash |-> R.calls[i].arg, height |-> heights[R.calls[i].arg]]
    BY <2>1, <2>2, <2>3 DEF Tells
  <2>5. heights[R.calls[i].arg] \in Nat /\ R.calls[i].arg \in Nat
    BY <1>3, <2>1
  <2> QED
    BY <2>1, <2>4, <2>5 DEF Block
<1>5. PICK response :
        response = [R.response EXCEPT !.blocks = values, !.total = R.tip + 1]
  OBVIOUS
<1>6. Ends(r, response)
  BY <1>5 DEF Goes, AsksForBlocks
<1>7. /\ DOMAIN response = Parts /\ response.status = R.response.status
      /\ response.blocks = values
      /\ response.ids = R.response.ids /\ response.total = R.tip + 1
      /\ response.offline = R.response.offline
  BY <1>3, <1>5 DEF IsResponse, Parts
<1>8. IsResponse(response)
  <2>1. response.total \in Nat
    BY <1>3, <1>7
  <2>2. ToSet(values) \subseteq Block
    BY <1>3, <1>4 DEF ToSet
  <2> QED
    BY <1>3, <1>7, <2>1, <2>2 DEF IsResponse
<1>9. /\ S.response = response /\ S.ask = R.ask /\ S.tipThen = R.tipThen /\ S.seen = R.seen
  <2>1. S.response = response /\ Moves(r, {"calls", "entries", "response"})
    BY <1>1, <1>6, EndsMoves
  <2> QED
    BY <2>1 DEF Moves, Fields
<1>10. Listed(S.ask, S)
  <2>1. response.total - 1 = R.tip /\ R.tipThen + 1 =< response.total
    <3>1. R.tipThen =< R.tip
      BY DEF AsksForBlocks
    <3>2. R.tip \in Nat /\ R.tipThen \in Nat /\ response.total = R.tip + 1
      BY <1>3, <1>7
    <3> QED
      BY ONLY <3>1, <3>2
  <2>2. Len(S.response.blocks) = Wide(S.ask, S.response.total - 1)
    BY <1>2, <1>3, <1>7, <1>9, <2>1 DEF AsksForBlocks
  <2>3. ASSUME NEW i \in 1..n
        PROVE  /\ S.response.blocks[i].height = S.response.total - S.ask.offset - i
               /\ S.response.blocks[i].hash \in S.seen
    <3>1. S.ask.offset \in Nat /\ S.response.total = R.tip + 1 /\ S.response.blocks[i] = values[i]
      BY <1>3, <1>7, <1>9 DEF IsAsk
    <3> QED
      BY <1>3, <1>4, <1>9, <3>1
  <2>4. ~S.response.offline
    BY <1>1, <1>7, <1>9 DEF ReadOk, CallsOk
  <2>5. Len(S.response.blocks) = n /\ S.tipThen + 1 =< S.response.total
    BY <1>3, <1>7, <1>9, <2>1
  <2> QED
    BY <2>2, <2>3, <2>4, <2>5 DEF Listed
<1>11. LookedUp(S.ask, S) /\ FoundOk(S)
  BY <1>9 DEF LookedUp, FoundOk, AsksForBlocks
<1> QED
  BY <1>6, <1>7, <1>8, <1>10, <1>11, EndsIsOk

\* What getBlock takes a reply or a failure for.
TakenFor(R, outcome) ==
    IF R.ask.op \in {"block", "search"} THEN AllowingAbsent(outcome) ELSE outcome

\* The hash of one block has been asked for.
LEMMA ItsHashGoesOn ==
    ASSUME ReadsInv, NEW r \in Readers, NEW R, R = reads[r], R.calls # <<>>, AsksForItsHash(R),
           NEW values, Goes(r, "getblockhash", values),
           \/ Heard(R, values)
           \/ values = <<Null>> /\ R.tipThen < R.ask.term,
           NEW S, S = reads'[r]
    PROVE  ReadOk(S) /\ Moves(r, {"calls", "entries", "response", "tip"})
<1>1. ReadOk(R) /\ DOMAIN reads = Readers /\ DOMAIN reads[r] = Fields
  BY ReadIs
<1>2. /\ mined \in Nat /\ R.tip \in Nat /\ IsAsk(R.ask) /\ R.tipThen \in Nat
      /\ R.ask.term \in Nat /\ R.ask.by = "number" /\ R.ask.op \in {"block", "search"}
  BY <1>1 DEF ReadOk, Typed, ReadsInv, NodeOk, Node!TypeOK, CallsOk, Remembers, AsksForItsHash, IsAsk
<1>3. Null \notin Nat /\ Null # OutOfRange
  BY NullAssumption DEF NullAssumption, OutOfRange
<1>4. CASE Heard(R, values)
  <2>1. DOMAIN values = 1..1 /\ Len(values) = 1 /\ Tells(R, Result(1, values[1]), R.calls[1])
        /\ R.calls[1].method = "getblockhash"
    BY <1>4 DEF Heard, AsksForItsHash, Call
  <2>2. Result(1, values[1]).code = Null /\ Result(1, values[1]).value = values[1]
    BY DEF Result
  <2>3. values[1] \in 0..mined /\ values[1] \in Nat
    BY <1>2, <1>3, <2>1, <2>2 DEF Tells
  <2>4. values # <<Null>>
    BY <1>3, <2>3
  <2>5. PICK calls : calls = [i \in DOMAIN values |-> Call("getblock", values[i])]
    OBVIOUS
  <2>6. Calls(r, calls, R.tip)
    BY <2>4, <2>5 DEF Goes
  <2>7. calls = [i \in 1..1 |-> calls[i]] /\ calls[1] = Call("getblock", values[1])
    BY <2>1, <2>5
  <2>8. calls \in Seq(CallSet) /\ Len(calls) = 1 /\ calls # <<>>
    <3>1. \A i \in 1..1 : calls[i] \in CallSet
      BY <2>3, <2>7 DEF Call, CallSet
    <3>2. calls \in [1..1 -> CallSet] /\ 1 \in Nat
      BY <2>7, <3>1
    <3>3. \A n \in Nat : \A s \in [1..n -> CallSet] : s \in Seq(CallSet) /\ Len(s) = n
      OBVIOUS
    <3>4. calls \in Seq(CallSet) /\ Len(calls) = 1
      BY <3>2, <3>3
    <3> QED
      BY <3>4
  <2>9. S.calls = calls /\ S.entries = <<>> /\ S.ask = R.ask
    <3>1. /\ S.calls = calls /\ S.entries = <<>> /\ Moves(r, {"calls", "entries", "tip"})
      BY <1>1, <2>6, CallsMoves
    <3> QED
      BY <3>1 DEF Moves, Fields
  <2>10. AsksForThat(S)
    BY <1>2, <2>3, <2>7, <2>8, <2>9 DEF AsksForThat, Call
  <2> QED
    BY <1>2, <2>6, <2>8, <2>10, CallsIsOk DEF AsksRightly
<1>5. CASE values = <<Null>> /\ R.tipThen < R.ask.term
  <2>1. EndsWithBlock(r, Null)
    BY <1>5 DEF Goes
  <2>2. NotThere(R)
    BY <1>2, <1>5 DEF NotThere
  <2> QED
    BY <1>2, <2>1, <2>2, EndsWithBlockIsOk
<1> QED
  BY <1>4, <1>5

\* One block has been asked for.
LEMMA BlockEnds ==
    ASSUME ReadsInv, NEW r \in Readers, NEW R, R = reads[r], R.calls # <<>>,
           AsksForThat(R) \/ AsksForBlock(R),
           NEW values, Goes(r, "getblock", values),
           \/ Heard(R, values)
           \/ values = <<Null>> /\ AsksForBlock(R) /\ NotThere(R),
           NEW S, S = reads'[r]
    PROVE  ReadOk(S) /\ Moves(r, {"calls", "entries", "response", "tip"})
<1>1. ReadOk(R) /\ DOMAIN reads = Readers /\ DOMAIN reads[r] = Fields
  BY ReadIs
<1>2. /\ R.ask.op \in {"block", "search"} /\ mined \in Nat /\ heights \in [0..mined -> Nat]
      /\ Len(R.calls) = 1 /\ R.calls[1].method = "getblock"
      /\ R.ask.by = "hash" =>
           R.calls[1].arg = IF R.ask.term.of = "block" THEN R.ask.term.n ELSE Null
  BY DEF ReadsInv, NodeOk, Node!TypeOK, AsksForThat, AsksForBlock, Call
<1>3. Null \notin Nat /\ Null # NotFound /\ Null \notin Block
  BY NullAssumption DEF NullAssumption, NotFound
<1>4. EndsWithBlock(r, values[1])
  BY <1>2 DEF Goes
<1>5. CASE Heard(R, values)
  <2>1. Tells(R, Result(1, values[1]), R.calls[1])
    BY <1>2, <1>5 DEF Heard
  <2>2. Result(1, values[1]).code = Null /\ Result(1, values[1]).value = values[1]
    BY DEF Result
  <2>3. /\ R.calls[1].arg \in 0..mined
        /\ values[1] = [hash |-> R.calls[1].arg, height |-> heights[R.calls[1].arg]]
    BY <1>2, <1>3, <2>1, <2>2 DEF Tells
  <2>4. values[1] \in Block /\ R.calls[1].arg \in Nat
    BY <1>2, <2>3 DEF Block
  <2>5. R.ask.by = "hash" => R.ask.term.of = "block"
    BY <1>2, <1>3, <2>4
  <2> QED
    BY <1>2, <1>3, <1>4, <2>4, <2>5, EndsWithBlockIsOk
<1>6. CASE values = <<Null>> /\ AsksForBlock(R) /\ NotThere(R)
  <2>1. EndsWithBlock(r, Null)
    BY <1>4, <1>6
  <2> QED
    BY <1>2, <1>6, <2>1, EndsWithBlockIsOk
<1> QED
  BY <1>5, <1>6

\* An error the node answers a request for one block with says why it is not there.
LEMMA ErrorTells ==
    ASSUME NEW R, ReadOk(R), R.calls # <<>>, R.ask.op \in {"block", "search"},
           NEW code, HeardError(R, code)
    PROVE  \/ AsksForItsHash(R) /\ R.tipThen < R.ask.term
           \/ AsksForBlock(R) /\ NotThere(R)
<1>1. PICK i \in 1..Len(R.entries) :
        /\ R.entries[i].code = code
        /\ code \in {NotFound, OutOfRange}
        /\ code # Null
        /\ Tells(R, R.entries[i], R.calls[R.entries[i].id])
  BY DEF HeardError
<1>2. AsksForItsHash(R) \/ AsksForThat(R) \/ AsksForBlock(R)
  BY DEF ReadOk, CallsOk, AsksForTip, AsksForHashes, AsksForBlocks
<1>3. R.entries[i].id \in 1..Len(R.calls)
  BY DEF ReadOk, EntriesOk
<1>4. ~AsksForThat(R)
  BY <1>1 DEF AsksForThat
<1>5. Len(R.calls) = 1 /\ R.entries[i].id = 1
  <2>1. Len(R.calls) = 1
    BY <1>2, <1>4 DEF AsksForItsHash, AsksForBlock
  <2> QED
    BY <1>3, <2>1
<1>6. CASE AsksForItsHash(R)
  <2>1. R.calls[1].method = "getblockhash" /\ R.calls[1].arg = R.ask.term
    BY <1>6 DEF AsksForItsHash, Call
  <2> QED
    BY <1>1, <1>5, <1>6, <2>1 DEF Tells
<1>7. CASE AsksForBlock(R)
  <2>1. /\ R.calls[1].method = "getblock"
        /\ R.calls[1].arg = IF R.ask.term.of = "block" THEN R.ask.term.n ELSE Null
        /\ R.ask.by = "hash"
    BY <1>7 DEF AsksForBlock, Call
  <2>2. R.calls[1].arg \notin 0..R.minedThen
    BY <1>1, <1>5, <2>1 DEF Tells
  <2>3. R.ask.term.n \in Nat /\ R.minedThen \in Int
    <3>1. R.ask # Null /\ IsAsk(R.ask) /\ R.minedThen \in 0..mined
      BY DEF ReadOk, CallsOk, Typed, Remembers
    <3>2. R.ask.term \in Hash
      BY <2>1, <3>1 DEF IsAsk
    <3> QED
      BY <3>1, <3>2 DEF Hash
  <2>4. NotThere(R)
    BY <2>1, <2>2, <2>3 DEF NotThere
  <2> QED
    BY <1>7, <2>4
<1> QED
  BY <1>2, <1>4, <1>6, <1>7

\* A promise settles, and the request goes on as it should.
LEMMA ResumesIsOk ==
    ASSUME ReadsInv, NEW r \in Readers, NEW R, R = reads[r], R.calls # <<>>,
           NEW outcome, Comes(R, outcome), Resumes(r, outcome),
           NEW S, S = reads'[r]
    PROVE  ReadOk(S) /\ Resumed(r)
<1>1. ReadOk(R) /\ DOMAIN reads = Readers /\ DOMAIN reads[r] = Fields
  BY ReadIs
<1>2. PICK taken : taken = TakenFor(R, outcome)
  OBVIOUS
<1>3. /\ taken.end = "answered" => Goes(r, R.calls[1].method, taken.values)
      /\ taken.end # "answered" => Fails(r, taken)
  BY <1>2 DEF Resumes, Taken, TakenFor
<1>4. Null \notin {NotFound, OutOfRange}
  BY NullAssumption DEF NullAssumption, NotFound, OutOfRange
<1>5. \/ /\ taken.end = "answered"
         /\ \/ Heard(R, taken.values)
            \/ /\ taken.values = <<Null>> /\ R.ask.op \in {"block", "search"}
               /\ \E code : HeardError(R, code)
      \/ /\ taken.end # "answered"
         /\ taken = BodyBroken \/ \E code : taken = RpcFailure(code)
  <2>1. CASE \E values : outcome = Answered(values) /\ Heard(R, values)
    <3>1. PICK values : outcome = Answered(values) /\ Heard(R, values)
      BY <2>1
    <3>2. taken = outcome
      BY <1>2, <1>4, <3>1 DEF TakenFor, AllowingAbsent, Answered
    <3> QED
      BY <3>1, <3>2 DEF Answered
  <2>2. CASE \E code : outcome = RpcFailure(code) /\ HeardError(R, code)
    <3>1. PICK code : outcome = RpcFailure(code) /\ HeardError(R, code)
      BY <2>2
    <3>2. code \in {NotFound, OutOfRange}
      BY <3>1 DEF HeardError
    <3>3. CASE R.ask.op \in {"block", "search"}
      <4>1. taken = Answered(<<Null>>)
        BY <1>2, <3>1, <3>2, <3>3 DEF TakenFor, AllowingAbsent, RpcFailure
      <4> QED
        BY <3>1, <3>3, <4>1 DEF Answered
    <3>4. CASE R.ask.op \notin {"block", "search"}
      <4>1. taken = RpcFailure(code)
        BY <1>2, <3>1, <3>4 DEF TakenFor
      <4> QED
        BY <4>1 DEF RpcFailure
    <3> QED
      BY <3>3, <3>4
  <2>3. CASE outcome = NoReply
    <3>1. taken = RpcFailure(Null)
      BY <1>2, <1>4, <2>3 DEF TakenFor, AllowingAbsent, RpcFailure, NoReply
    <3> QED
      BY <3>1 DEF RpcFailure
  <2>4. CASE outcome = BodyBroken
    <3>1. taken = BodyBroken
      BY <1>2, <1>4, <2>4 DEF TakenFor, AllowingAbsent, BodyBroken
    <3> QED
      BY <3>1 DEF BodyBroken
  <2> QED
    BY <2>1, <2>2, <2>3, <2>4 DEF Comes
<1>6. CASE taken.end # "answered"
  <2>1. Fails(r, taken) /\ (taken = BodyBroken \/ \E code : taken = RpcFailure(code))
    BY <1>3, <1>5, <1>6
  <2> QED
    BY <2>1, FailsIsOk
<1>7. ASSUME taken.end = "answered", Heard(R, taken.values)
      PROVE  ReadOk(S) /\ Moves(r, {"calls", "entries", "response", "tip"})
  <2>1. PICK values : values = taken.values
    OBVIOUS
  <2>2. Goes(r, R.calls[1].method, values) /\ Heard(R, values)
    BY <1>3, <1>7, <2>1
  <2>3. CASE AsksForTip(R)
    <3>1. R.calls[1].method = "getblockcount"
      BY <2>3 DEF AsksForTip, Call
    <3>2. Goes(r, "getblockcount", values)
      BY <2>2, <3>1
    <3> QED
      BY <2>2, <2>3, <3>2, TipGoesOn
  <2>4. 1 \in 1..Len(R.calls)
    <3>1. Len(R.calls) \in Nat \ {0}
      BY <1>1 DEF ReadOk, Typed
    <3> QED
      BY <3>1
  <2>5. CASE AsksForHashes(R)
    <3>1. R.calls[1].method = "getblockhash"
      <4>1. R.calls[1] = Call("getblockhash", R.tip - R.ask.offset - 1 + 1)
        BY <2>4, <2>5 DEF AsksForHashes
      <4> QED
        BY <4>1 DEF Call
    <3>2. Goes(r, "getblockhash", values)
      BY <2>2, <3>1
    <3> QED
      BY <2>2, <2>5, <3>2, HashesGoOn
  <2>6. CASE AsksForBlocks(R)
    <3>1. R.calls[1].method = "getblock"
      BY <2>4, <2>6 DEF AsksForBlocks
    <3>2. Goes(r, "getblock", values)
      BY <2>2, <3>1
    <3> QED
      BY <2>2, <2>6, <3>2, BlocksEnd
  <2>7. CASE AsksForItsHash(R)
    <3>1. R.calls[1].method = "getblockhash"
      BY <2>7 DEF AsksForItsHash, Call
    <3>2. Goes(r, "getblockhash", values)
      BY <2>2, <3>1
    <3> QED
      BY <2>2, <2>7, <3>2, ItsHashGoesOn
  <2>8. CASE AsksForThat(R) \/ AsksForBlock(R)
    <3>1. R.calls[1].method = "getblock"
      BY <2>8 DEF AsksForThat, AsksForBlock, Call
    <3>2. Goes(r, "getblock", values)
      BY <2>2, <3>1
    <3> QED
      BY <2>2, <2>8, <3>2, BlockEnds
  <2> QED
    BY <1>1, <2>3, <2>5, <2>6, <2>7, <2>8 DEF ReadOk, CallsOk
<1>8. ASSUME taken.end = "answered", taken.values = <<Null>>, R.ask.op \in {"block", "search"},
             NEW code, HeardError(R, code)
      PROVE  ReadOk(S) /\ Moves(r, {"calls", "entries", "response", "tip"})
  <2>1. PICK values : values = taken.values
    OBVIOUS
  <2>2. Goes(r, R.calls[1].method, values) /\ values = <<Null>>
    BY <1>3, <1>8, <2>1
  <2>3. CASE AsksForItsHash(R) /\ R.tipThen < R.ask.term
    <3>1. R.calls[1].method = "getblockhash"
      BY <2>3 DEF AsksForItsHash, Call
    <3>2. Goes(r, "getblockhash", values)
      BY <2>2, <3>1
    <3> QED
      BY <2>2, <2>3, <3>2, ItsHashGoesOn
  <2>4. CASE AsksForBlock(R) /\ NotThere(R)
    <3>1. R.calls[1].method = "getblock"
      BY <2>4 DEF AsksForBlock, Call
    <3>2. Goes(r, "getblock", values)
      BY <2>2, <3>1
    <3> QED
      BY <2>2, <2>4, <3>2, BlockEnds
  <2> QED
    BY <1>1, <1>8, <2>3, <2>4, ErrorTells
<1> QED
  BY <1>5, <1>6, <1>7, <1>8 DEF Resumed

-----------------------------------------------------------------------------
(* The other steps of a request *)

\* Its chain figures make no difference to the rest of it.
LEMMA FiguresApart ==
    ASSUME NEW R, ReadOk(R), NEW S, DOMAIN S = Fields,
           \A field \in Fields \ {"card", "shownAt"} : S[field] = R[field]
    PROVE  ReadOk(S)
<1>1. /\ S.ask = R.ask /\ S.calls = R.calls /\ S.entries = R.entries /\ S.tip = R.tip
      /\ S.offset = R.offset /\ S.response = R.response /\ S.seen = R.seen
      /\ S.tipThen = R.tipThen /\ S.minedThen = R.minedThen /\ S.idsThen = R.idsThen
  BY DEF Fields
<1>2. Typed(S)
  BY <1>1 DEF ReadOk, Typed
<1>3. Remembers(S)
  BY <1>1 DEF ReadOk, Remembers
<1>4. EntriesOk(S)
  <2>1. \A entry, call : Tells(R, entry, call) => Tells(S, entry, call)
    BY <1>1 DEF Tells
  <2>2. EntriesOk(R)
    BY DEF ReadOk
  <2> QED
    BY <1>1, <2>1, <2>2 DEF EntriesOk
<1>5. CallsOk(S)
  BY <1>1 DEF ReadOk, CallsOk, AsksForTip, AsksForHashes, AsksForBlocks, AsksForItsHash,
              AsksForThat, AsksForBlock
<1>6. EndsOk(S)
  BY <1>1 DEF ReadOk, EndsOk, Listed, LookedUp
<1>7. SearchOk(S)
  BY <1>1 DEF ReadOk, SearchOk
<1>8. WalkOk(S)
  BY <1>1 DEF ReadOk, WalkOk
<1> QED
  BY <1>2, <1>3, <1>4, <1>5, <1>6, <1>7, <1>8 DEF ReadOk

\* A call has the argument that its method takes.
LEMMA CallIs ==
    ASSUME NEW R, ReadOk(R), NEW id \in 1..Len(R.calls)
    PROVE  /\ R.calls[id] \in CallSet
           /\ R.calls[id].method = "getblockhash" => R.calls[id].arg \in Nat
<1>1. R.calls \in Seq(CallSet) /\ R.calls # <<>>
  BY DEF ReadOk, Typed
<1>2. R.calls[id] \in CallSet
  BY <1>1, ElementOfSequence
<1>3. R.calls[id].method = "getblockhash" => R.calls[id].arg # Null
  <2>1. Null \notin Int
    BY NullAssumption DEF NullAssumption
  <2>2. R.ask # Null /\ IsAsk(R.ask) /\ R.tip \in Nat /\ R.ask.offset \in Nat
    BY <1>1 DEF ReadOk, CallsOk, Typed, IsAsk
  <2>3. CASE AsksForHashes(R)
    <3>1. R.calls[id] = Call("getblockhash", R.tip - R.ask.offset - id + 1)
      BY <2>3 DEF AsksForHashes
    <3>2. R.tip - R.ask.offset - id + 1 \in Int
      BY <2>2
    <3> QED
      BY <2>1, <3>1, <3>2 DEF Call
  <2>4. CASE AsksForItsHash(R)
    <3>1. R.calls[id] = Call("getblockhash", R.ask.term) /\ R.ask.term \in Nat
      BY <2>2, <2>4 DEF AsksForItsHash, IsAsk
    <3> QED
      BY <2>1, <3>1 DEF Call
  <2>5. CASE AsksForTip(R)
    BY <2>5 DEF AsksForTip, Call
  <2>6. CASE AsksForBlocks(R)
    BY <2>6 DEF AsksForBlocks
  <2>7. CASE AsksForThat(R) \/ AsksForBlock(R)
    BY <2>7 DEF AsksForThat, AsksForBlock, Call
  <2> QED
    BY <1>1, <2>3, <2>4, <2>5, <2>6, <2>7 DEF ReadOk, CallsOk
<1> QED
  BY <1>2, <1>3 DEF CallSet

\* What the node evaluates a call to is so.
LEMMA EvaluatedTells ==
    ASSUME NodeOk, NEW R, ReadOk(R), NEW id \in 1..Len(R.calls)
    PROVE  /\ Evaluated(id, R.calls[id]) \in EntrySet
           /\ Evaluated(id, R.calls[id]).id = id
           /\ Tells(R, Evaluated(id, R.calls[id]), R.calls[id])
           /\ R.calls[id].method = "getblock" /\ R.calls[id].arg \in 0..mined =>
                Evaluated(id, R.calls[id]).code = Null
<1>1. PICK call : call = R.calls[id]
  OBVIOUS
<1>2. call \in CallSet /\ (call.method = "getblockhash" => call.arg \in Nat) /\ id \in Nat
  BY <1>1, CallIs
<1>3. PICK e : e = Evaluated(id, call)
  OBVIOUS
<1>4. /\ Len(chain) \in Nat /\ mined \in Nat /\ heights \in [0..mined -> Nat] /\ heights[0] = 0
      /\ \A h \in 1..Len(chain) : chain[h].hash \in 1..mined /\ heights[chain[h].hash] = h
      /\ DOMAIN chain = 1..Len(chain)
  BY DEF NodeOk, Node!TypeOK
<1>5. R.tipThen \in 0..Len(chain) /\ R.minedThen \in 0..mined /\ ActiveHashes \subseteq R.seen
  BY DEF ReadOk, Typed, Remembers
<1>6. CASE call.method = "getblockcount"
  <2>1. e = Result(id, Len(chain))
    BY <1>3, <1>6 DEF Evaluated
  <2>2. e.id = id /\ e.value = Len(chain) /\ e.code = Null /\ e \in EntrySet
    BY <1>2, <1>4, <2>1 DEF Result, EntrySet
  <2> QED
    BY <1>1, <1>3, <1>4, <1>5, <1>6, <2>2 DEF Tells
<1>7. CASE call.method = "getblockhash" /\ call.arg =< Len(chain)
  <2>1. e = Result(id, HashAt(call.arg))
    BY <1>3, <1>7 DEF Evaluated
  <2>2. HashAt(call.arg) \in 0..mined /\ HashAt(call.arg) \in ActiveHashes
        /\ heights[HashAt(call.arg)] = call.arg
    <3>1. CASE call.arg = 0
      BY <1>4, <3>1 DEF HashAt, ActiveHashes
    <3>2. CASE call.arg # 0
      <4>1. call.arg \in 1..Len(chain) /\ HashAt(call.arg) = chain[call.arg].hash
        BY <1>2, <1>4, <1>7, <3>2 DEF HashAt
      <4> QED
        BY <1>4, <4>1 DEF ActiveHashes
    <3> QED
      BY <3>1, <3>2
  <2>3. e.id = id /\ e.value = HashAt(call.arg) /\ e.code = Null
    BY <2>1 DEF Result
  <2>4. e \in EntrySet
    <3>1. HashAt(call.arg) \in Nat
      BY <1>4, <2>2
    <3> QED
      BY <1>2, <2>1, <3>1 DEF Result, EntrySet
  <2> QED
    BY <1>1, <1>3, <1>5, <1>7, <2>2, <2>3, <2>4 DEF Tells
<1>8. CASE call.method = "getblockhash" /\ ~(call.arg =< Len(chain))
  <2>1. e = Error(id, OutOfRange)
    BY <1>3, <1>8 DEF Evaluated
  <2>2. e.id = id /\ e.code = OutOfRange /\ e \in EntrySet
    BY <1>2, <2>1 DEF Error, EntrySet
  <2>3. R.tipThen < call.arg
    BY <1>2, <1>4, <1>5, <1>8
  <2> QED
    BY <1>1, <1>3, <1>8, <2>2, <2>3 DEF Tells
<1>9. CASE call.method = "getblock" /\ call.arg \in 0..mined
  <2>1. e = Result(id, [hash |-> call.arg, height |-> heights[call.arg]])
    BY <1>3, <1>4, <1>9 DEF Evaluated
  <2>2. e.id = id /\ e.code = Null /\ e.value = [hash |-> call.arg, height |-> heights[call.arg]]
    BY <2>1 DEF Result
  <2>3. [hash |-> call.arg, height |-> heights[call.arg]] \in Block
    <3>1. call.arg \in Nat /\ heights[call.arg] \in Nat
      BY <1>4, <1>9
    <3> QED
      BY <3>1 DEF Block
  <2>4. e \in EntrySet
    <3> HIDE DEF Block
    <3> QED
      BY <1>2, <2>1, <2>3 DEF Result, EntrySet
  <2> QED
    BY <1>1, <1>3, <1>9, <2>2, <2>4 DEF Tells
<1>10. CASE call.method = "getblock" /\ call.arg \notin 0..mined
  <2>1. e = Error(id, NotFound)
    BY <1>3, <1>4, <1>10 DEF Evaluated
  <2>2. e.id = id /\ e.code = NotFound /\ e \in EntrySet
    BY <1>2, <2>1 DEF Error, EntrySet
  <2>3. call.arg \notin 0..R.minedThen
    BY <1>4, <1>5, <1>10
  <2> QED
    BY <1>1, <1>3, <1>10, <2>2, <2>3 DEF Tells
<1> QED
  BY <1>2, <1>6, <1>7, <1>8, <1>9, <1>10 DEF CallSet

\* A reply of the node to one more of its calls.
LEMMA EvaluatesIsOk ==
    ASSUME ReadsInv, NEW r \in Readers, NEW id, Evaluates(r, id), NEW S, S = reads'[r]
    PROVE  ReadOk(S) /\ Moves(r, {"entries"}) /\ Still
<1>1. PICK R : R = reads[r]
  OBVIOUS
<1>2. ReadOk(R) /\ DOMAIN reads = Readers /\ DOMAIN reads[r] = Fields
  BY <1>1, ReadIs
<1>3. R.calls \in Seq(CallSet) /\ R.entries \in Seq(EntrySet)
  BY <1>2 DEF ReadOk, Typed
<1>4. id \in 1..Len(R.calls) /\ \A i \in 1..Len(R.entries) : R.entries[i].id # id
  BY <1>1, <1>3 DEF Evaluates
<1>5. PICK e : e = Evaluated(id, R.calls[id])
  OBVIOUS
<1>6. NodeOk
  BY DEF ReadsInv
<1>7. /\ e \in EntrySet /\ e.id = id /\ Tells(R, e, R.calls[id])
      /\ R.calls[id].method = "getblock" /\ R.calls[id].arg \in 0..mined => e.code = Null
  BY <1>2, <1>4, <1>5, <1>6, EvaluatedTells
<1>8. Moves(r, {"entries"}) /\ S.entries = Append(R.entries, e) /\ Still
  BY <1>1, <1>2, <1>5, EvaluatesMoves
<1>9. /\ DOMAIN S = Fields
      /\ S.ask = R.ask /\ S.calls = R.calls /\ S.tip = R.tip
      /\ S.offset = R.offset /\ S.response = R.response /\ S.seen = R.seen
      /\ S.tipThen = R.tipThen /\ S.minedThen = R.minedThen /\ S.idsThen = R.idsThen
  BY <1>1, <1>8 DEF Moves, Fields
<1>10. /\ S.entries \in Seq(EntrySet)
       /\ Len(R.entries) \in Nat
       /\ \A i \in 1..Len(R.entries) : S.entries[i] = R.entries[i]
       /\ S.entries[Len(R.entries) + 1] = e
       /\ \A i \in 1..Len(S.entries) : i \in 1..Len(R.entries) \/ i = Len(R.entries) + 1
  <2>1. PICK entries \in Seq(EntrySet) : entries = R.entries
    BY <1>3
  <2>2. /\ Append(entries, e) \in Seq(EntrySet)
        /\ Len(entries) \in Nat
        /\ \A i \in 1..Len(entries) : Append(entries, e)[i] = entries[i]
        /\ Append(entries, e)[Len(entries) + 1] = e
        /\ \A i \in 1..Len(Append(entries, e)) : i \in 1..Len(entries) \/ i = Len(entries) + 1
    BY ONLY <1>7, <2>1, AppendToSequence
  <2> QED
    BY <1>8, <2>1, <2>2
<1>11. Typed(S)
  BY <1>2, <1>9, <1>10 DEF ReadOk, Typed
<1>12. Remembers(S)
  BY <1>2, <1>9 DEF ReadOk, Remembers
<1>13. EntriesOk(S)
  <2>1. \A entry, call : Tells(R, entry, call) => Tells(S, entry, call)
    BY <1>9 DEF Tells
  <2>2. EntriesOk(R)
    BY <1>2 DEF ReadOk
  <2>3. \A i \in 1..Len(S.entries) :
          /\ S.entries[i].id \in 1..Len(S.calls)
          /\ Tells(S, S.entries[i], S.calls[S.entries[i].id])
    BY <1>4, <1>7, <1>9, <1>10, <2>1, <2>2 DEF EntriesOk
  <2>4. \A i, j \in 1..Len(S.entries) : S.entries[i].id = S.entries[j].id => i = j
    <3> SUFFICES ASSUME NEW i \in 1..Len(S.entries), NEW j \in 1..Len(S.entries),
                        S.entries[i].id = S.entries[j].id
                 PROVE  i = j
      OBVIOUS
    <3>1. \A k, l \in 1..Len(R.entries) : R.entries[k].id = R.entries[l].id => k = l
      BY <2>2 DEF EntriesOk
    <3>2. CASE i \in 1..Len(R.entries) /\ j \in 1..Len(R.entries)
      BY <1>10, <3>1, <3>2
    <3>3. CASE i \in 1..Len(R.entries) /\ j = Len(R.entries) + 1
      BY <1>4, <1>7, <1>10, <3>3
    <3>4. CASE i = Len(R.entries) + 1 /\ j \in 1..Len(R.entries)
      BY <1>4, <1>7, <1>10, <3>4
    <3> QED
      BY <1>10, <3>2, <3>3, <3>4
  <2> QED
    BY <2>3, <2>4 DEF EntriesOk
<1>14. CallsOk(S)
  <2>1. AsksForThat(R) => AsksForThat(S)
    <3> SUFFICES ASSUME AsksForThat(R) PROVE AsksForThat(S)
      OBVIOUS
    <3>1. id = 1
      BY <1>4 DEF AsksForThat
    <3>2. e.code = Null
      BY <1>7, <3>1 DEF AsksForThat
    <3> QED
      BY <1>9, <1>10, <3>2 DEF AsksForThat
  <2> QED
    BY <1>2, <1>9, <2>1 DEF ReadOk, CallsOk, AsksForTip, AsksForHashes, AsksForBlocks,
                            AsksForItsHash, AsksForBlock
<1>15. EndsOk(S)
  BY <1>2, <1>9 DEF ReadOk, EndsOk, Listed, LookedUp
<1>16. SearchOk(S)
  BY <1>2, <1>9 DEF ReadOk, SearchOk
<1>17. WalkOk(S)
  BY <1>2, <1>9 DEF ReadOk, WalkOk
<1> QED
  BY <1>8, <1>11, <1>12, <1>13, <1>14, <1>15, <1>16, <1>17 DEF ReadOk

\* What the index has under a number.
LEMMA FoundFirstIs ==
    ASSUME RecordsOk, NEW ask
    PROVE  /\ IdsOf(FoundFirst(ask)) \subseteq Ids
           /\ ask.op = "search" /\ ask.by \in {"number", "ref"} /\ ask.term \in IdsThere =>
                ask.term \in IdsOf(FoundFirst(ask))
<1>1. IdsOf(FoundFirst(ask)) \subseteq IdsThere
  BY DEF IdsThere, IdsOf, FoundFirst, ById
<1>2. IdsThere \subseteq Ids
  BY RecordOf
<1>3. ask.op = "search" /\ ask.by \in {"number", "ref"} /\ ask.term \in IdsThere =>
        ask.term \in IdsOf(FoundFirst(ask))
  BY DEF IdsThere, IdsOf, FoundFirst, ById
<1> QED
  BY <1>1, <1>2, <1>3

\* A request is asked.
LEMMA AskedIsOk ==
    ASSUME ReadsInv, NEW r \in Readers, NEW ask \in workload.asks[r], Asked(r, ask),
           NEW S, S = reads'[r]
    PROVE  ReadOk(S) /\ Moves(r, Fields) /\ Still
<1>1. IsAsk(ask)
  BY WorkloadsAssumption DEF WorkloadsAssumption, ReadsInv
<1>2. NodeOk /\ RecordsOk /\ DOMAIN reads = Readers
  BY DEF ReadsInv
<1>3. Null \notin Nat /\ 0 # Null
  BY NullAssumption DEF NullAssumption
<1>4. /\ Moves(r, Fields) /\ Still
      /\ S.ask = ask /\ S.calls = FirstCalls(ask) /\ S.entries = <<>>
      /\ S.tip = 0 /\ S.offset = 0
      /\ DOMAIN S.response = Parts /\ S.response.ids = IdsOf(FoundFirst(ask))
      /\ \A part \in Parts \ {"ids"} : S.response[part] = NoResponse[part]
      /\ S.seen = ActiveHashes /\ S.tipThen = Len(chain) /\ S.minedThen = mined
      /\ S.idsThen = IdsThere
  BY <1>2, AskedMoves
<1>5. DOMAIN S = Fields
  BY <1>4 DEF Moves
<1>6. /\ S.response.status = 200 /\ S.response.blocks = <<>> /\ S.response.total = 0
      /\ S.response.offline = FALSE
  BY <1>4 DEF Parts, NoResponse
<1>7. IsResponse(S.response)
  <2>1. S.response.offline \in BOOLEAN
    BY <1>6, Zenon
  <2>2. S.response.blocks = <<>> /\ S.response.status = 200 /\ S.response.total = 0
    BY <1>6
  <2>3. DOMAIN <<>> = 1..Len(<<>>) /\ Len(<<>>) \in Nat /\ ToSet(<<>>) \subseteq Block
    BY DEF ToSet
  <2>4. S.response.ids \subseteq Ids
    BY <1>2, <1>4, FoundFirstIs
  <2>5. DOMAIN S.response = Parts
    BY <1>4
  <2> QED
    BY ONLY <2>1, <2>2, <2>3, <2>4, <2>5 DEF IsResponse
<1>8. \A call \in CallSet : /\ <<call>> \in Seq(CallSet) /\ Len(<<call>>) = 1
                            /\ <<call>>[1] = call /\ <<call>> # <<>>
  OBVIOUS
<1>9. \/ /\ ask.op \in {"home", "list"}
         /\ S.calls = <<Call("getblockcount", Null)>>
      \/ /\ ask.op \in {"block", "search"} /\ ask.by = "number" /\ ask.term \in Nat
         /\ S.calls = <<Call("getblockhash", ask.term)>>
      \/ /\ ask.op \in {"block", "search"} /\ ask.by = "hash" /\ ask.term.n \in Nat
         /\ S.calls = <<Call("getblock", IF ask.term.of = "block" THEN ask.term.n ELSE Null)>>
      \/ /\ ask.op \notin {"home", "list", "block"} /\ (ask.op = "search" => ask.by = "ref")
         /\ S.calls = <<>>
  <2>1. CASE ask.op \in {"home", "list"}
    BY <1>4, <2>1 DEF FirstCalls
  <2>2. CASE ask.op \in {"block", "search"} /\ ask.by = "number"
    BY <1>1, <1>4, <2>2 DEF FirstCalls, IsAsk
  <2>3. CASE ask.op \in {"block", "search"} /\ ask.by = "hash"
    <3>1. ask.term \in Hash
      BY <1>1, <2>3 DEF IsAsk
    <3>2. ask.term.n \in Nat
      BY <3>1 DEF Hash
    <3> QED
      BY <1>4, <2>3, <3>2 DEF FirstCalls
  <2>4. CASE ask.op \notin {"home", "list", "block"} /\ (ask.op = "search" => ask.by = "ref")
    BY <1>4, <2>4 DEF FirstCalls
  <2> QED
    BY <1>1, <2>1, <2>2, <2>3, <2>4 DEF IsAsk
<1>10. /\ S.calls \in Seq(CallSet)
       /\ S.calls # <<>> => AsksForTip(S) \/ AsksForItsHash(S) \/ AsksForBlock(S)
  <2>1. CASE ask.op \in {"home", "list"} /\ S.calls = <<Call("getblockcount", Null)>>
    <3>1. Call("getblockcount", Null) \in CallSet
      BY DEF Call, CallSet
    <3> QED
      BY <1>4, <1>8, <2>1, <3>1 DEF AsksForTip
  <2>2. CASE /\ ask.op \in {"block", "search"} /\ ask.by = "number" /\ ask.term \in Nat
             /\ S.calls = <<Call("getblockhash", ask.term)>>
    <3>1. Call("getblockhash", ask.term) \in CallSet
      BY <2>2 DEF Call, CallSet
    <3> QED
      BY <1>4, <1>8, <2>2, <3>1 DEF AsksForItsHash
  <2>3. CASE /\ ask.op \in {"block", "search"} /\ ask.by = "hash" /\ ask.term.n \in Nat
             /\ S.calls = <<Call("getblock", IF ask.term.of = "block" THEN ask.term.n ELSE Null)>>
    <3>1. Call("getblock", IF ask.term.of = "block" THEN ask.term.n ELSE Null) \in CallSet
      BY <2>3 DEF Call, CallSet
    <3> QED
      BY <1>4, <1>8, <2>3, <3>1 DEF AsksForBlock
  <2>4. CASE S.calls = <<>>
    BY <2>4
  <2> QED
    BY <1>9, <2>1, <2>2, <2>3, <2>4
<1>11. ask # Null
  BY <1>1 DEF IsAsk
<1>12. Typed(S)
  <2>1. <<>> \in Seq(EntrySet)
    OBVIOUS
  <2>2. S.ask = Null \/ IsAsk(S.ask)
    BY <1>1, <1>4
  <2> QED
    BY <1>4, <1>5, <1>7, <1>10, <2>1, <2>2 DEF Typed
<1>13. Remembers(S)
  <2>1. Len(chain) \in 0..Len(chain) /\ mined \in 0..mined
    BY <1>2 DEF NodeOk, Node!TypeOK
  <2> QED
    BY <1>4, <2>1 DEF Remembers
<1>14. EntriesOk(S)
  BY <1>4 DEF EntriesOk
<1>15. CallsOk(S)
  BY <1>4, <1>6, <1>10, <1>11 DEF CallsOk
<1>16. EndsOk(S)
  <2>1. S.calls = <<>> => ask.op \notin {"home", "list", "block"} /\ (ask.op = "search" => ask.by = "ref")
    BY <1>9
  <2> QED
    BY <1>4, <2>1 DEF EndsOk, Listed, LookedUp
<1>17. SearchOk(S)
  <2>1. ask.op = "search" /\ ask.by = "hash" => S.calls # <<>>
    <3>1. \A call : <<call>> # <<>>
      OBVIOUS
    <3> QED
      BY <1>9, <3>1
  <2>2. ask.op = "search" => ask.by \in {"number", "hash", "ref"}
    BY <1>1 DEF IsAsk
  <2> QED
    BY <1>2, <1>4, <2>1, <2>2, FoundFirstIs DEF SearchOk
<1>18. WalkOk(S)
  <2> SUFFICES ASSUME ask.op = "walk"
               PROVE  WalkOk(S)
    BY <1>4 DEF WalkOk
  <2>1. S.calls = <<>>
    BY <1>9
  <2>2. records \in Seq(RecordSet)
    BY <1>2 DEF RecordsOk
  <2>3. Filtered(records, [channel |-> ask.term]) \in Seq(RecordSet)
    BY <2>2, FilteredIs
  <2>4. Len(ToWalk(S.ask)) \in Nat
    BY <1>4, <2>3 DEF ToWalk
  <2>5. \A p \in 1..Len(ToWalk(S.ask)) : ~(S.offset # Null => Len(ToWalk(S.ask)) - S.offset < p)
    BY <1>3, <1>4, <2>4
  <2> QED
    BY <2>1, <2>5 DEF WalkOk
<1> QED
  BY <1>4, <1>12, <1>13, <1>14, <1>15, <1>16, <1>17, <1>18 DEF ReadOk

\* One more page of a walk.
LEMMA WalkIsOk ==
    ASSUME ReadsInv, NEW r \in Readers, WalkOn(r), NEW S, S = reads'[r]
    PROVE  ReadOk(S) /\ Moves(r, {"response", "offset"}) /\ Still
<1>1. PICK R : R = reads[r]
  OBVIOUS
<1>2. ReadOk(R) /\ DOMAIN reads = Readers /\ DOMAIN reads[r] = Fields /\ DOMAIN reads[r].response = Parts
  BY <1>1, ReadIs
<1>3. /\ R.ask # Null /\ R.ask.op = "walk" /\ R.offset # Null
      /\ RecordsOk /\ records \in Seq(RecordSet)
  BY <1>1 DEF WalkOn, Walking, ReadsInv, RecordsOk
<1>4. IsAsk(R.ask) /\ IsResponse(R.response) /\ R.offset \in Nat
  BY <1>2, <1>3 DEF ReadOk, Typed
<1>5. PICK limit : limit = PageLimit(R.ask.limit, 25)
  OBVIOUS
<1>6. limit \in Nat \ {0}
  <2>1. R.ask.limit \in Int \cup {Null} /\ 25 \in Nat \ {0}
    BY <1>4 DEF IsAsk
  <2>2. PageLimit(R.ask.limit, 25) \in Nat \ {0}
    BY ONLY <2>1, PageLimitPositive
  <2> QED
    BY <1>5, <2>2
<1>7. PICK items : items = ToWalk(R.ask)
  OBVIOUS
<1>8. items \in Seq(RecordSet) /\ Len(items) \in Nat
  BY <1>3, <1>7, FilteredIs DEF ToWalk
<1>9. PICK offset \in Nat : offset = R.offset
  BY <1>4
<1>10. PICK page : page = Page(items, limit, offset)
  OBVIOUS
<1>11. IsPage(page, items, limit, offset)
  <2>1. items \in Seq(RecordSet) /\ limit \in Nat \ {0} /\ offset \in Nat
    BY <1>6, <1>8
  <2>2. IsPage(Page(items, limit, offset), items, limit, offset)
    BY ONLY <2>1, PageIs
  <2> QED
    BY <1>10, <2>2
<1>12. /\ Moves(r, {"response", "offset"}) /\ Still
       /\ S.offset = IF offset + limit < Len(items) THEN offset + limit ELSE Null
       /\ DOMAIN S.response = Parts
       /\ S.response.ids = R.response.ids \cup IdsOf(ToSet(page))
       /\ \A part \in Parts \ {"ids"} : S.response[part] = R.response[part]
  BY <1>1, <1>2, <1>5, <1>7, <1>9, <1>10, WalkMoves
<1>13. /\ DOMAIN S = Fields
       /\ S.ask = R.ask /\ S.calls = R.calls /\ S.entries = R.entries /\ S.tip = R.tip
       /\ S.seen = R.seen
       /\ S.tipThen = R.tipThen /\ S.minedThen = R.minedThen /\ S.idsThen = R.idsThen
  BY <1>1, <1>12 DEF Moves, Fields
<1>14. IdsOf(ToSet(page)) \subseteq Ids
  <2>1. ToSet(page) \subseteq ToSet(records)
    BY <1>3, <1>6, <1>7, <1>10, PageFromRecords DEF ToWalk
  <2>2. IdsOf(ToSet(page)) \subseteq IdsThere
    BY <2>1 DEF IdsOf, IdsThere
  <2> QED
    BY <1>3, <2>2, RecordOf
<1>15. Typed(S)
  <2>1. IsResponse(S.response)
    <3>1. /\ S.response.status = R.response.status /\ S.response.blocks = R.response.blocks
          /\ S.response.total = R.response.total /\ S.response.offline = R.response.offline
      BY <1>12 DEF Parts
    <3> QED
      BY <1>4, <1>12, <1>14, <3>1 DEF IsResponse
  <2>2. S.offset \in Nat \cup {Null}
    BY <1>6, <1>12
  <2> QED
    BY <1>2, <1>13, <2>1, <2>2 DEF ReadOk, Typed
<1>16. R.calls = <<>>
  BY <1>2, <1>3 DEF ReadOk, WalkOk
<1>17. Remembers(S)
  BY <1>2, <1>13 DEF ReadOk, Remembers
<1>18. EntriesOk(S)
  <2>1. \A entry, call : Tells(R, entry, call) => Tells(S, entry, call)
    BY <1>13 DEF Tells
  <2>2. EntriesOk(R)
    BY <1>2 DEF ReadOk
  <2> QED
    BY <1>13, <2>1, <2>2 DEF EntriesOk
<1>19. CallsOk(S)
  BY <1>13, <1>16 DEF CallsOk
<1>20. EndsOk(S)
  BY <1>3, <1>13 DEF EndsOk, Listed, LookedUp
<1>21. SearchOk(S)
  BY <1>3, <1>13 DEF SearchOk
<1>22. WalkOk(S)
  <2> SUFFICES ASSUME NEW p \in 1..Len(items),
                      S.offset # Null => Len(items) - S.offset < p,
                      items[p].id \in R.idsThen
               PROVE  items[p].id \in S.response.ids
    BY <1>7, <1>13, <1>16 DEF WalkOk
  <2>1. CASE Len(items) - offset < p
    <3>1. R.offset # Null => Len(ToWalk(R.ask)) - R.offset < p
      BY <1>7, <1>9, <2>1
    <3>2. items[p].id \in R.response.ids
      BY <1>2, <1>3, <1>7, <3>1 DEF ReadOk, WalkOk
    <3> QED
      BY <1>12, <3>2
  <2>2. CASE ~(Len(items) - offset < p)
    <3>1. Len(items) - offset - limit < p
      <4>1. CASE offset + limit < Len(items)
        <5>1. S.offset = offset + limit /\ S.offset # Null
          <6>1. Null \notin Nat
            BY NullAssumption DEF NullAssumption
          <6> QED
            BY <1>6, <1>12, <4>1, <6>1
        <5> QED
          BY <1>6, <1>8, <5>1
      <4>2. CASE ~(offset + limit < Len(items))
        BY <1>6, <1>8, <4>2
      <4> QED
        BY <4>1, <4>2
    <3>2. p =< Len(items) - offset
      BY <1>8, <2>2
    <3>3. items[p] \in ToSet(page)
      BY <1>11, <3>1, <3>2 DEF IsPage
    <3> QED
      BY <1>12, <3>3 DEF IdsOf
  <2> QED
    BY <2>1, <2>2
<1> QED
  BY <1>12, <1>15, <1>17, <1>18, <1>19, <1>20, <1>21, <1>22 DEF ReadOk

-----------------------------------------------------------------------------
(* The node and the index go on *)

\* The requests do not move.
LEMMA NoneMoves ==
    ASSUME ReadsInv, Still, UNCHANGED reads
    PROVE  ReadsInv'
<1>1. /\ workload' = workload /\ chain' = chain /\ mined' = mined /\ heights' = heights
      /\ records' = records
  BY DEF Still, nodeVars
<1>2. workload' \in Workloads /\ DOMAIN reads' = Readers
  BY <1>1 DEF ReadsInv
<1>3. NodeOk'
  BY <1>1 DEF ReadsInv, NodeOk, Node!TypeOK
<1>4. RecordsOk'
  BY <1>1 DEF ReadsInv, RecordsOk
<1>5. ASSUME NEW q \in Readers, NEW R, R = reads'[q]
      PROVE  ReadOk(R)'
  <2>1. ReadOk(R)
    BY <1>5 DEF ReadsInv
  <2> QED
    BY <2>1, StillReadOk
<1> QED
  BY <1>2, <1>3, <1>4, <1>5 DEF ReadsInv

\* The chain figures are in, and whoever waits is given them.
LEMMA SettlesIsOk ==
    ASSUME ReadsInv, Still, NEW info, Settles(info)
    PROVE  ReadsInv'
<1>1. /\ workload' = workload /\ chain' = chain /\ mined' = mined /\ heights' = heights
      /\ records' = records
  BY DEF Still, nodeVars
<1>2. workload' \in Workloads /\ DOMAIN reads' = Readers
  BY <1>1 DEF ReadsInv, Settles
<1>3. NodeOk'
  BY <1>1 DEF ReadsInv, NodeOk, Node!TypeOK
<1>4. RecordsOk'
  BY <1>1 DEF ReadsInv, RecordsOk
<1>5. ASSUME NEW q \in Readers, NEW S, S = reads'[q]
      PROVE  ReadOk(S)'
  <2>1. S = Given(q, info)
    BY <1>5 DEF Settles
  <2>2. PICK R : R = reads[q]
    OBVIOUS
  <2>3. ReadOk(R) /\ DOMAIN reads[q] = Fields
    BY <2>2, ReadIs
  <2>4. DOMAIN S = Fields /\ \A field \in Fields \ {"card", "shownAt"} : S[field] = R[field]
    BY <2>1, <2>2, <2>3, GivenIs
  <2>5. ReadOk(S)
    BY <2>3, <2>4, FiguresApart
  <2> QED
    BY <2>5, StillReadOk
<1> QED
  BY <1>2, <1>3, <1>4, <1>5 DEF ReadsInv

\* There are records more.
Grown(record) ==
    /\ record \in RecordSet
    /\ record.id \notin IdsThere
    /\ records' = Append(records, record)

\* A list of records has the new one behind the others, or not at all.
LEMMA ListsGrow ==
    ASSUME RecordsOk, NEW record, Grown(record), NEW filter
    PROVE  \/ Filtered(records', filter) = Filtered(records, filter)
           \/ Filtered(records', filter) = Append(Filtered(records, filter), record)
<1>1. records \in Seq(RecordSet) /\ record \in RecordSet
  BY DEF RecordsOk, Grown
<1>2. Filtered(Append(records, record), filter) = Kept(Filtered(records, filter), record, filter)
  BY ONLY <1>1, FilteredAppend
<1> QED
  BY <1>2 DEF Kept, Grown

\* Newer records never bring an older one back on the list of its channel.
LEMMA OutnumberedStays ==
    ASSUME RecordsOk, NEW record, Grown(record), NEW channel, NEW id \in IdsThere,
           id \in IdsOf(OfChannel(records', channel))
    PROVE  id \in IdsOf(OfChannel(records, channel))
<1>1. PICK items : items = Filtered(records, [channel |-> channel])
  OBVIOUS
<1>2. PICK more : more = Filtered(records', [channel |-> channel])
  OBVIOUS
<1>3. /\ records \in Seq(RecordSet) /\ record \in RecordSet /\ SearchLimit \in Nat \ {0} /\ 0 \in Nat
  BY ReadsAssumption DEF RecordsOk, Grown, ReadsAssumption
<1>4. items \in Seq(RecordSet) /\ Len(items) \in Nat
  BY <1>1, <1>3, FilteredIs
<1>5. more = items \/ more = Append(items, record)
  BY <1>1, <1>2, ListsGrow
<1>6. more \in Seq(RecordSet)
  BY <1>3, <1>4, <1>5
<1>7. PICK page : page = Page(items, SearchLimit, 0)
  OBVIOUS
<1>8. IsPage(page, items, SearchLimit, 0)
  <2>1. IsPage(Page(items, SearchLimit, 0), items, SearchLimit, 0)
    BY ONLY <1>3, <1>4, PageIs
  <2> QED
    BY <1>7, <2>1
<1>9. IsPage(Page(more, SearchLimit, 0), more, SearchLimit, 0)
  BY ONLY <1>3, <1>6, PageIs
<1>10. PICK p \in 1..Len(more) : Len(more) - 0 - SearchLimit < p /\ more[p].id = id
  <2>1. id \in IdsOf(ToSet(Page(more, SearchLimit, 0)))
    BY <1>2 DEF OfChannel, ListRecords
  <2> QED
    BY <1>9, <2>1 DEF IsPage, IdsOf
<1>11. CASE more = items
  BY <1>1, <1>2, <1>11 DEF OfChannel, ListRecords
<1>12. CASE more = Append(items, record)
  <2>1. /\ Len(more) = Len(items) + 1
        /\ \A i \in 1..Len(items) : more[i] = items[i]
        /\ more[Len(items) + 1] = record
        /\ \A i \in 1..Len(more) : i \in 1..Len(items) \/ i = Len(items) + 1
    <3>1. /\ Len(Append(items, record)) = Len(items) + 1
          /\ \A i \in 1..Len(items) : Append(items, record)[i] = items[i]
          /\ Append(items, record)[Len(items) + 1] = record
          /\ \A i \in 1..Len(Append(items, record)) : i \in 1..Len(items) \/ i = Len(items) + 1
      BY ONLY <1>3, <1>4, AppendToSequence
    <3> QED
      BY <1>12, <3>1
  <2>2. p # Len(items) + 1
    BY <1>10, <2>1 DEF Grown
  <2>3. p \in 1..Len(items) /\ items[p].id = id
    BY <1>10, <2>1, <2>2
  <2>4. Len(items) - 0 - SearchLimit < p /\ p =< Len(items) - 0
    BY <1>3, <1>4, <1>10, <2>1, <2>3
  <2>5. items[p] \in ToSet(page)
    BY <1>8, <2>3, <2>4 DEF IsPage
  <2> QED
    BY <1>1, <1>7, <2>3, <2>5 DEF OfChannel, ListRecords, IdsOf
<1> QED
  BY <1>5, <1>11, <1>12

\* A record is added at the end of the index.
LEMMA IndexesIsOk ==
    ASSUME ReadsInv, NEW id \in workload.ids, Indexes(id)
    PROVE  ReadsInv'
<1>1. PICK record : record = [id |-> id, channel |-> Channel[id], txid |-> id]
  OBVIOUS
<1>2. id \in Ids /\ Channel[id] \in Nat
  BY WorkloadsAssumption, ReadsAssumption DEF ReadsInv, WorkloadsAssumption, ReadsAssumption
<1>3. record \in RecordSet /\ record.id = id /\ record.txid = id /\ record.channel = Channel[id]
  BY <1>1, <1>2 DEF RecordSet
<1>4. /\ workload' = workload /\ chain' = chain /\ mined' = mined /\ heights' = heights
      /\ reads' = reads /\ records' = Append(records, record)
  BY <1>1 DEF Indexes, nodeVars
<1>5. id \notin IdsThere
  BY DEF Indexes, ById, IdsThere, IdsOf
<1>6. Grown(record) /\ RecordsOk /\ records \in Seq(RecordSet)
  BY <1>3, <1>4, <1>5 DEF Grown, ReadsInv, RecordsOk
<1>7. /\ records' \in Seq(RecordSet) /\ Len(records) \in Nat /\ Len(records') = Len(records) + 1
      /\ \A i \in 1..Len(records) : records'[i] = records[i]
      /\ records'[Len(records) + 1] = record
      /\ \A i \in 1..Len(records') : i \in 1..Len(records) \/ i = Len(records) + 1
  BY <1>3, <1>4, <1>6, AppendToSequence
<1>8. ToSet(records') = ToSet(records) \cup {record}
  BY <1>3, <1>4, <1>6, WithLast
<1>9. IdsThere' = IdsThere \cup {id}
  BY <1>3, <1>8 DEF IdsThere, IdsOf
<1>10. RecordsOk'
  <2>1. \A i \in 1..Len(records) : records[i].id \in IdsThere
    BY <1>6 DEF IdsThere, IdsOf, ToSet
  <2>2. \A i \in 1..Len(records') :
          records'[i].channel = Channel[records'[i].id] /\ records'[i].txid = records'[i].id
    BY <1>3, <1>6, <1>7 DEF RecordsOk
  <2>3. ASSUME NEW i \in 1..Len(records'), NEW j \in 1..Len(records'), records'[i].id = records'[j].id
        PROVE  i = j
    <3>1. CASE i \in 1..Len(records) /\ j \in 1..Len(records)
      BY <1>6, <1>7, <2>3, <3>1 DEF RecordsOk
    <3>2. CASE i \in 1..Len(records) /\ j = Len(records) + 1
      BY <1>3, <1>5, <1>7, <2>1, <2>3, <3>2
    <3>3. CASE i = Len(records) + 1 /\ j \in 1..Len(records)
      BY <1>3, <1>5, <1>7, <2>1, <2>3, <3>3
    <3> QED
      BY <1>7, <3>1, <3>2, <3>3
  <2> QED
    BY <1>7, <2>2, <2>3 DEF RecordsOk
<1>11. NodeOk' /\ workload' \in Workloads /\ DOMAIN reads' = Readers
  BY <1>4 DEF ReadsInv, NodeOk, Node!TypeOK
<1>12. ASSUME NEW q \in Readers, NEW R, R = reads'[q]
       PROVE  ReadOk(R)'
  <2>1. ReadOk(R)
    BY <1>4, <1>12 DEF ReadsInv
  <2>2. Typed(R)' /\ EndsOk(R)'
    BY <2>1 DEF ReadOk
  <2>3. Remembers(R)'
    BY <1>4, <1>9, <2>1 DEF ReadOk, Remembers, ActiveHashes
  <2>4. EntriesOk(R)'
    BY <1>4, <2>1 DEF ReadOk, EntriesOk, Tells
  <2>5. CallsOk(R)'
    BY <1>4, <2>1 DEF ReadOk, CallsOk, AsksForTip, AsksForHashes, AsksForBlocks, AsksForItsHash,
                      AsksForThat, AsksForBlock
  <2>6. SearchOk(R)'
    <3>1. ASSUME NEW k \in R.idsThen, Outnumbered(R.ask, k)
          PROVE  Outnumbered(R.ask, k)'
      <4>1. k \in IdsThere
        BY <2>1 DEF ReadOk, Remembers
      <4> QED
        BY <1>6, <3>1, <4>1, OutnumberedStays DEF Outnumbered
    <3> QED
      BY <2>1, <3>1 DEF ReadOk, SearchOk, Names
  <2>7. WalkOk(R)'
    <3> SUFFICES ASSUME R.ask # Null, R.ask.op = "walk"
                 PROVE  WalkOk(R)'
      BY DEF WalkOk
    <3>1. R.calls = <<>>
      BY <2>1 DEF ReadOk, WalkOk
    <3>2. PICK items : items = ToWalk(R.ask)
      OBVIOUS
    <3>3. PICK more : more = ToWalk(R.ask)'
      OBVIOUS
    <3>4. more = items \/ more = Append(items, record)
      BY <1>6, <3>2, <3>3, ListsGrow DEF ToWalk
    <3>5. items \in Seq(RecordSet) /\ Len(items) \in Nat
      BY <1>6, <3>2, FilteredIs DEF ToWalk
    <3>6. \A p \in 1..Len(items) :
            /\ R.offset # Null => Len(items) - R.offset < p
            /\ items[p].id \in R.idsThen
            => items[p].id \in R.response.ids
      BY <2>1, <3>2 DEF ReadOk, WalkOk
    <3>7. R.offset # Null => R.offset \in Nat
      BY <2>1 DEF ReadOk, Typed
    <3>8. \A p \in 1..Len(more) :
            /\ R.offset # Null => Len(more) - R.offset < p
            /\ more[p].id \in R.idsThen
            => more[p].id \in R.response.ids
      <4>1. CASE more = items
        BY <3>6, <4>1
      <4>2. CASE more = Append(items, record)
        <5>1. /\ Len(more) = Len(items) + 1
              /\ \A i \in 1..Len(items) : more[i] = items[i]
              /\ more[Len(items) + 1] = record
              /\ \A i \in 1..Len(more) : i \in 1..Len(items) \/ i = Len(items) + 1
          BY <1>3, <3>5, <4>2, AppendToSequence
        <5>2. record.id \notin R.idsThen
          BY <1>3, <1>5, <2>1 DEF ReadOk, Remembers
        <5> SUFFICES ASSUME NEW p \in 1..Len(more),
                            R.offset # Null => Len(more) - R.offset < p,
                            more[p].id \in R.idsThen
                     PROVE  more[p].id \in R.response.ids
          OBVIOUS
        <5>3. p \in 1..Len(items) /\ more[p] = items[p]
          BY <5>1, <5>2
        <5>4. R.offset # Null => Len(items) - R.offset < p
          BY <3>5, <3>7, <5>1, <5>3
        <5> QED
          BY <3>6, <5>3, <5>4
      <4> QED
        BY <3>4, <4>1, <4>2
    <3> QED
      BY <3>1, <3>3, <3>8 DEF WalkOk
  <2> QED
    BY <2>1, <2>2, <2>3, <2>4, <2>5, <2>6, <2>7 DEF ReadOk
<1> QED
  BY <1>10, <1>11, <1>12 DEF ReadsInv

\* The node's chain moves, and who calls has seen that.
LEMMA OutsideIsOk ==
    ASSUME ReadsInv, Outside
    PROVE  ReadsInv'
<1>1. NodeOk /\ RecordsOk /\ workload \in Workloads /\ DOMAIN reads = Readers
  BY DEF ReadsInv
<1>2. NodeOk' /\ NodeGrows
  BY <1>1, NodeMoves
<1>3. workload' = workload /\ records' = records
  BY DEF Outside
<1>4. workload' \in Workloads /\ RecordsOk' /\ DOMAIN reads' = Readers
  BY <1>1, <1>3 DEF RecordsOk, Outside
<1>5. /\ mined \in Nat /\ mined' \in Nat /\ mined =< mined'
      /\ Len(chain) \in Nat /\ Len(chain') \in Nat /\ Len(chain) =< Len(chain')
      /\ \A hash \in 0..mined : heights'[hash] = heights[hash] /\ hash \in 0..mined'
  <2>1. /\ mined \in Nat /\ mined' \in Nat /\ Len(chain) \in Nat /\ Len(chain') \in Nat
    BY <1>1, <1>2 DEF NodeOk, Node!TypeOK
  <2>2. mined =< mined' /\ Len(chain) =< Len(chain') /\ \A hash \in 0..mined : heights'[hash] = heights[hash]
    BY <1>2 DEF NodeGrows
  <2> QED
    BY <2>1, <2>2
<1>6. ASSUME NEW q \in Readers, NEW S, S = reads'[q]
      PROVE  ReadOk(S)'
  <2>1. PICK R : R = reads[q]
    OBVIOUS
  <2>2. ReadOk(R) /\ DOMAIN R = Fields
    BY <2>1, ReadIs
  <2>3. PICK new : new = {chain'[h].hash : h \in DOMAIN chain'}
    OBVIOUS
  <2>4. S = IF R.calls # <<>> THEN [R EXCEPT !.seen = @ \cup new] ELSE R
    BY <1>6, <2>1, <2>3 DEF Outside, Calling
  <2>5. /\ DOMAIN S = Fields
        /\ S.ask = R.ask /\ S.calls = R.calls /\ S.entries = R.entries /\ S.tip = R.tip
        /\ S.offset = R.offset /\ S.response = R.response
        /\ S.tipThen = R.tipThen /\ S.minedThen = R.minedThen /\ S.idsThen = R.idsThen
        /\ R.seen \subseteq S.seen
        /\ R.calls # <<>> => new \subseteq S.seen
    BY <2>2, <2>4 DEF Fields
  <2>6. Typed(S)'
    BY <2>2, <2>5 DEF ReadOk, Typed
  <2>7. Remembers(S)'
    <3>1. R.tipThen \in 0..Len(chain) /\ R.minedThen \in 0..mined /\ R.idsThen \subseteq IdsThere
          /\ (R.calls # <<>> => ActiveHashes \subseteq R.seen)
      BY <2>2 DEF ReadOk, Remembers
    <3>2. R.tipThen \in 0..Len(chain') /\ R.minedThen \in 0..mined'
      BY <1>5, <3>1
    <3>3. R.calls # <<>> => 0 \in S.seen
      BY <2>5, <3>1 DEF ActiveHashes
    <3>4. ActiveHashes' = {0} \cup new
      BY <2>3 DEF ActiveHashes
    <3>5. IdsThere' = IdsThere
      BY <1>3 DEF IdsThere
    <3> QED
      BY <2>5, <3>1, <3>2, <3>3, <3>4, <3>5 DEF Remembers
  <2>8. EntriesOk(S)'
    <3>1. ASSUME NEW entry, NEW call, Tells(R, entry, call)
          PROVE  Tells(S, entry, call)'
      BY <1>5, <2>5, <3>1 DEF Tells
    <3>2. EntriesOk(R)
      BY <2>2 DEF ReadOk
    <3>3. \A i \in 1..Len(S.entries) : Tells(R, S.entries[i], S.calls[S.entries[i].id])
      BY <2>5, <3>2 DEF EntriesOk
    <3>4. ASSUME NEW i \in 1..Len(S.entries)
          PROVE  Tells(S, S.entries[i], S.calls[S.entries[i].id])'
      <4>1. PICK entry : entry = S.entries[i]
        OBVIOUS
      <4>2. PICK call : call = S.calls[S.entries[i].id]
        OBVIOUS
      <4>3. Tells(S, entry, call)'
        BY <3>1, <3>3, <4>1, <4>2
      <4> QED
        BY <4>1, <4>2, <4>3
    <3> QED
      BY <2>5, <3>2, <3>4 DEF EntriesOk
  <2>9. CallsOk(S)'
    <3>1. AsksForTip(R) => AsksForTip(S)'
      BY <2>5 DEF AsksForTip
    <3>2. AsksForHashes(R) => AsksForHashes(S)'
      BY <2>5 DEF AsksForHashes
    <3>3. AsksForBlocks(R) => AsksForBlocks(S)'
      BY <1>5, <2>5 DEF AsksForBlocks
    <3>4. AsksForItsHash(R) => AsksForItsHash(S)'
      BY <2>5 DEF AsksForItsHash
    <3>5. AsksForThat(R) => AsksForThat(S)'
      BY <1>5, <2>5 DEF AsksForThat
    <3>6. AsksForBlock(R) => AsksForBlock(S)'
      BY <2>5 DEF AsksForBlock
    <3> QED
      BY <2>2, <2>5, <3>1, <3>2, <3>3, <3>4, <3>5, <3>6 DEF ReadOk, CallsOk
  <2>10. EndsOk(S)'
    <3>1. \A ask : Listed(ask, R) => Listed(ask, S)
      BY <2>5 DEF Listed
    <3>2. \A ask : LookedUp(ask, R) => LookedUp(ask, S)
      BY <2>5 DEF LookedUp
    <3>3. EndsOk(S)
      BY <2>2, <2>5, <3>1, <3>2 DEF ReadOk, EndsOk
    <3> QED
      BY <3>3
  <2>11. SearchOk(S)'
    <3>1. SearchOk(S)
      BY <2>2, <2>5 DEF ReadOk, SearchOk
    <3> QED
      BY <1>3, <3>1 DEF SearchOk, Names, Outnumbered
  <2>12. WalkOk(S)'
    <3>1. WalkOk(S)
      BY <2>2, <2>5 DEF ReadOk, WalkOk
    <3> QED
      BY <1>3, <3>1 DEF WalkOk, ToWalk
  <2> QED
    BY <2>6, <2>7, <2>8, <2>9, <2>10, <2>11, <2>12 DEF ReadOk
<1> QED
  BY <1>2, <1>4, <1>6 DEF ReadsInv

-----------------------------------------------------------------------------
(* The invariant *)

\* What a handler does next: a page that asks for figures, a page of a walk, or the end
\* of a call.
LEMMA ReaderStepIsOk ==
    ASSUME ReadsInv, NEW r \in Readers, ReaderStep(r), NEW S, S = reads'[r]
    PROVE  /\ ReadOk(S) /\ Still
           /\ \/ Resumed(r) /\ UNCHANGED <<infoVars, clock>>
              \/ Moves(r, {"response", "offset"}) /\ UNCHANGED <<infoVars, clock>>
              \/ Moves(r, {"card", "shownAt"}) /\ AsksForCard(r)
<1>1. PICK R : R = reads[r]
  OBVIOUS
<1>2. ReadOk(R) /\ DOMAIN reads = Readers /\ DOMAIN reads[r] = Fields
  BY <1>1, ReadIs
<1>3. ASSUME NEW outcome, Comes(R, outcome), Resumes(r, outcome), R.calls # <<>>
      PROVE  /\ ReadOk(S) /\ Still /\ UNCHANGED <<infoVars, clock>>
             /\ Resumed(r)
  <2>1. ReadOk(S) /\ Resumed(r)
    BY <1>1, <1>3, ResumesIsOk
  <2> QED
    BY <1>3, <2>1 DEF Resumes, Still
<1>4. CASE Arrives(r)
  <2>1. /\ R.calls # <<>> /\ Len(R.entries) = Len(R.calls)
        /\ Resumes(r, BatchOutcome(R.entries))
    BY <1>1, <1>4 DEF Arrives, Replied, Calling
  <2>2. Comes(R, BatchOutcome(R.entries))
    BY <1>2, <2>1, ReplyComes
  <2> QED
    BY <1>3, <2>1, <2>2
<1>5. CASE CallFails(r)
  <2>1. R.calls # <<>> /\ Resumes(r, NoReply)
    BY <1>1, <1>5 DEF CallFails, Calling
  <2>2. Comes(R, NoReply)
    BY DEF Comes
  <2> QED
    BY <1>3, <2>1, <2>2
<1>6. CASE BodyBreaksOff(r)
  <2>1. R.calls # <<>> /\ Resumes(r, BodyBroken)
    BY <1>1, <1>6 DEF BodyBreaksOff, Replied, Calling
  <2>2. Comes(R, BodyBroken)
    BY DEF Comes
  <2> QED
    BY <1>3, <2>1, <2>2
<1>7. CASE AsksForCard(r)
  <2>1. Moves(r, {"card", "shownAt"}) /\ Still
    BY <1>2, <1>7, AsksForCardMoves
  <2>2. DOMAIN S = Fields /\ \A field \in Fields \ {"card", "shownAt"} : S[field] = R[field]
    BY <1>1, <2>1 DEF Moves
  <2>3. ReadOk(S)
    BY <1>2, <2>2, FiguresApart
  <2> QED
    BY <1>7, <2>1, <2>3
<1>8. CASE WalkOn(r)
  <2>1. ReadOk(S) /\ Moves(r, {"response", "offset"}) /\ Still
    BY <1>8, WalkIsOk
  <2> QED
    BY <1>8, <2>1 DEF WalkOn
<1> QED
  BY <1>4, <1>5, <1>6, <1>7, <1>8 DEF ReaderStep

\* A step on the chain figures leaves the node and the index alone, and the requests
\* too unless it settles them.
LEMMA InfoStepIsOk ==
    ASSUME ReadsInv, InfoStep
    PROVE  ReadsInv'
<1>1. CASE UNCHANGED <<workload, nodeVars, records, reads>>
  <2>1. Still /\ UNCHANGED reads
    BY <1>1 DEF Still
  <2> QED
    BY <2>1, NoneMoves
<1>2. CASE UNCHANGED <<workload, nodeVars, records>> /\ \E info : Settles(info)
  <2>1. Still
    BY <1>2 DEF Still
  <2> QED
    BY <1>2, <2>1, SettlesIsOk
<1>3. CASE InfoEvaluated
  BY <1>1, <1>3 DEF InfoEvaluated
<1>4. CASE InfoArrives
  BY <1>1, <1>4 DEF InfoArrives
<1>5. CASE \E method \in {"getbestchainlock", "getblockheader"} : ExtraEnds(method)
  BY <1>1, <1>5 DEF ExtraEnds
<1>6. CASE InfoDone
  BY <1>2, <1>6 DEF InfoDone
<1>7. CASE InfoFails
  BY <1>2, <1>7 DEF InfoFails
<1> QED
  BY <1>3, <1>4, <1>5, <1>6, <1>7 DEF InfoStep

LEMMA ReadsStart ==
    ASSUME Init
    PROVE  ReadsInv
<1>1. NodeOk
  <2>1. /\ chain = <<>> /\ mined = 0 /\ heights = [hash \in {0} |-> 0]
    BY DEF Init, Node!Init
  <2>2. Node!TypeOK
    <3>1. /\ <<>> \in Seq([hash : 1..MaxBlocks, txs : SUBSET {}]) /\ Len(<<>>) = 0
          /\ 0 \in 0..MaxBlocks
      BY ReadsAssumption DEF ReadsAssumption
    <3>2. (~FALSE) \in BOOLEAN /\ {} \subseteq {}
      OBVIOUS
    <3> QED
      BY <2>1, <3>1, <3>2 DEF Node!TypeOK
  <2>3. heights \in [0..mined -> Nat] /\ heights[0] = 0
    BY <2>1
  <2> QED
    BY <2>1, <2>2, <2>3 DEF NodeOk
<1>2. RecordsOk
  <2>1. <<>> \in Seq(RecordSet) /\ Len(<<>>) = 0
    OBVIOUS
  <2> QED
    BY <2>1 DEF Init, RecordsOk
<1>3. ASSUME NEW r \in Readers, NEW R, R = reads[r]
      PROVE  ReadOk(R)
  <2>1. R = Unasked
    BY <1>3 DEF Init
  <2>2. /\ DOMAIN R = Fields /\ R.ask = Null /\ R.calls = <<>> /\ R.entries = <<>> /\ R.tip = 0
        /\ R.offset = 0 /\ R.response = NoResponse /\ R.tipThen = 0 /\ R.minedThen = 0
        /\ R.idsThen = {}
    BY <2>1 DEF Unasked, Fields
  <2>3. IsResponse(NoResponse)
    <3>1. DOMAIN <<>> = 1..Len(<<>>) /\ Len(<<>>) \in Nat /\ ToSet(<<>>) \subseteq Block
      BY DEF ToSet
    <3>2. NoResponse.offline \in BOOLEAN
      BY DEF NoResponse
    <3>3. /\ DOMAIN NoResponse = Parts /\ NoResponse.status = 200 /\ NoResponse.blocks = <<>>
          /\ NoResponse.ids = {} /\ NoResponse.total = 0
      BY DEF NoResponse, Parts
    <3> QED
      BY <3>1, <3>2, <3>3 DEF IsResponse
  <2>4. Typed(R)
    <3>1. <<>> \in Seq(CallSet) /\ <<>> \in Seq(EntrySet)
      OBVIOUS
    <3> QED
      BY <2>2, <2>3, <3>1 DEF Typed
  <2>5. Remembers(R)
    <3>1. mined \in Nat /\ Len(chain) \in Nat
      BY <1>1 DEF NodeOk, Node!TypeOK
    <3> QED
      BY <2>2, <3>1 DEF Remembers
  <2>6. EntriesOk(R) /\ CallsOk(R) /\ EndsOk(R) /\ SearchOk(R) /\ WalkOk(R)
    BY <2>2 DEF EntriesOk, CallsOk, EndsOk, SearchOk, WalkOk
  <2> QED
    BY <2>4, <2>5, <2>6 DEF ReadOk
<1> QED
  BY <1>1, <1>2, <1>3 DEF Init, ReadsInv

LEMMA ReadsStep ==
    ASSUME ReadsInv, [Next]_vars
    PROVE  ReadsInv'
<1>1. ASSUME NEW r \in Readers, NEW ask \in workload.asks[r], Asked(r, ask)
      PROVE  ReadsInv'
  <2>1. PICK S : S = reads'[r]
    OBVIOUS
  <2> QED
    BY <1>1, <2>1, AskedIsOk, OneMoves
<1>2. ASSUME NEW r \in Readers, NEW id \in DOMAIN reads[r].calls, Evaluates(r, id)
      PROVE  ReadsInv'
  <2>1. PICK S : S = reads'[r]
    OBVIOUS
  <2> QED
    BY <1>2, <2>1, EvaluatesIsOk, OneMoves
<1>3. ASSUME NEW r \in Readers, ReaderStep(r)
      PROVE  ReadsInv'
  <2>1. PICK S : S = reads'[r]
    OBVIOUS
  <2> QED
    BY <1>3, <2>1, ReaderStepIsOk, OneMoves DEF Resumed
<1>4. CASE InfoStep
  BY <1>4, InfoStepIsOk
<1>5. ASSUME NEW id \in workload.ids, Indexes(id)
      PROVE  ReadsInv'
  BY <1>5, IndexesIsOk
<1>6. CASE ClockMoves
  <2>1. Still /\ UNCHANGED reads
    BY <1>6 DEF ClockMoves, Still
  <2> QED
    BY <2>1, NoneMoves
<1>7. CASE Outside
  BY <1>7, OutsideIsOk
<1>8. CASE UNCHANGED vars
  <2>1. Still /\ UNCHANGED reads
    BY <1>8 DEF vars, Still
  <2> QED
    BY <2>1, NoneMoves
<1> QED
  BY <1>1, <1>2, <1>3, <1>4, <1>5, <1>6, <1>7, <1>8 DEF Next

\* The node, the index and every request are as the invariant says, whatever the
\* node answers and in which order.
THEOREM ReadsInvariant == FairSpec => []ReadsInv
<1>1. Init => ReadsInv
  BY ReadsStart
<1>2. ReadsInv /\ [Next]_vars => ReadsInv'
  BY ReadsStep
<1> QED
  BY <1>1, <1>2, PTL DEF FairSpec

-----------------------------------------------------------------------------
(* What a client is told *)

\* A request that has ended, as the invariant has it.
LEMMA EndedIs ==
    ASSUME ReadsInv, NEW r \in Readers, Ended(r)
    PROVE  \E R : /\ R = reads[r]
                  /\ ReadOk(R)
                  /\ R.ask # Null
                  /\ IsAsk(R.ask)
                  /\ R.calls = <<>>
                  /\ IsResponse(R.response)
                  /\ Listed(R.ask, R)
                  /\ LookedUp(R.ask, R)
                  /\ R.tipThen \in Nat
                  /\ R.ask.op = "walk" => R.offset = Null
<1>1. PICK R : R = reads[r]
  OBVIOUS
<1>2. ReadOk(R) /\ R.ask # Null /\ R.calls = <<>> /\ (R.ask.op = "walk" => R.offset = Null)
  BY <1>1, ReadIs DEF Ended, Calling, Walking
<1>3. IsAsk(R.ask) /\ IsResponse(R.response) /\ Listed(R.ask, R) /\ LookedUp(R.ask, R)
  BY <1>2 DEF ReadOk, Typed, EndsOk
<1>4. R.tipThen \in Nat
  BY <1>2 DEF ReadOk, Remembers, ReadsInv, NodeOk, Node!TypeOK
<1> QED
  BY <1>1, <1>2, <1>3, <1>4

LEMMA ListFromInv == ReadsInv => ListIsAWindow
<1> SUFFICES ASSUME ReadsInv, NEW r \in Readers, Ended(r), reads[r].ask.op \in {"home", "list"},
                    reads[r].response.status = 200, ~reads[r].response.offline
             PROVE  LET ask == reads[r].ask
                        response == reads[r].response
                    IN  /\ Len(response.blocks)
                             = Min({PageLimit(ask.limit, 10), Max({response.total - ask.offset, 0})})
                        /\ \A i \in DOMAIN response.blocks :
                             /\ response.blocks[i].height = response.total - ask.offset - i
                             /\ response.blocks[i].hash \in reads[r].seen
  BY DEF ListIsAWindow
<1>1. PICK R : /\ R = reads[r] /\ IsAsk(R.ask) /\ IsResponse(R.response) /\ Listed(R.ask, R)
  BY EndedIs
<1>2. /\ R.tipThen + 1 =< R.response.total
      /\ Len(R.response.blocks) = Wide(R.ask, R.response.total - 1)
      /\ \A i \in 1..Len(R.response.blocks) :
           /\ R.response.blocks[i].height = R.response.total - R.ask.offset - i
           /\ R.response.blocks[i].hash \in R.seen
  BY <1>1 DEF Listed
<1>3. (R.response.total - 1) + 1 = R.response.total
  <2>1. PICK total \in Nat : total = R.response.total
    BY <1>1 DEF IsResponse
  <2> QED
    BY <2>1
<1>4. DOMAIN R.response.blocks = 1..Len(R.response.blocks)
  BY <1>1 DEF IsResponse
<1> QED
  BY <1>1, <1>2, <1>3, <1>4 DEF Wide

LEMMA MistakenFromInv == ReadsInv => NeverMistaken
<1> SUFFICES ASSUME ReadsInv, NEW r \in Readers, Ended(r), ~reads[r].ask.tolerant
             PROVE  LET ask == reads[r].ask
                        response == reads[r].response
                    IN  /\ ask.op = "list" /\ response.status = 200 /\ response.blocks = <<>> =>
                             ask.offset > reads[r].tipThen
                        /\ ask.op = "block" /\ response.status = 404 =>
                             IF ask.by = "number" THEN ask.term > reads[r].tipThen
                             ELSE ask.term.of # "block" \/ ask.term.n > reads[r].minedThen
  BY DEF NeverMistaken
<1>1. PICK R : /\ R = reads[r] /\ IsAsk(R.ask) /\ IsResponse(R.response)
               /\ Listed(R.ask, R) /\ LookedUp(R.ask, R) /\ R.tipThen \in Nat
  BY EndedIs
<1>2. ASSUME R.ask.op = "list", R.response.status = 200, R.response.blocks = <<>>
      PROVE  R.ask.offset > R.tipThen
  <2>1. R.tipThen + 1 =< R.response.total /\ Len(R.response.blocks) = Wide(R.ask, R.response.total - 1)
    BY <1>1, <1>2 DEF Listed
  <2>2. PICK total \in Nat : total = R.response.total
    BY <1>1 DEF IsResponse
  <2>3. PICK tip : tip = total - 1
    OBVIOUS
  <2>4. tip \in Nat /\ R.tipThen =< tip
    BY <1>1, <2>1, <2>2, <2>3
  <2>5. Wide(R.ask, tip) = 0
    BY <1>2, <2>1, <2>2, <2>3
  <2>6. PICK limit : limit = PageLimit(R.ask.limit, 10)
    OBVIOUS
  <2>7. R.ask.limit \in Int \cup {Null} /\ R.ask.offset \in Nat /\ 10 \in Nat \ {0}
    BY <1>1 DEF IsAsk
  <2>8. limit \in Nat \ {0}
    <3>1. PageLimit(R.ask.limit, 10) \in Nat \ {0}
      BY ONLY <2>7, PageLimitPositive
    <3> QED
      BY <2>6, <3>1
  <2>9. PICK offset \in Nat : offset = R.ask.offset
    BY <2>7
  <2>10. tip \in Nat /\ limit \in Nat \ {0} /\ offset \in Nat
         /\ 0 = Min({limit, Max({(tip + 1) - offset, 0})})
    BY <2>4, <2>5, <2>6, <2>8, <2>9 DEF Wide
  <2>11. AreHeights(0, tip, limit, offset)
    BY ONLY <2>10, HeightsAre
  <2> QED
    BY <1>1, <2>4, <2>9, <2>11 DEF AreHeights
<1>3. R.ask.op = "block" /\ R.response.status = 404 =>
        IF R.ask.by = "number" THEN R.ask.term > R.tipThen
        ELSE R.ask.term.of # "block" \/ R.ask.term.n > R.minedThen
  BY <1>1 DEF LookedUp
<1> QED
  BY <1>1, <1>2, <1>3

LEMMA WalkFromInv == ReadsInv => WalkMissesNothing
<1> SUFFICES ASSUME ReadsInv, NEW r \in Readers, Ended(r), reads[r].ask.op = "walk",
                    NEW id \in reads[r].idsThen, reads[r].ask.term \in {Null, Channel[id]}
             PROVE  id \in reads[r].response.ids
  BY DEF WalkMissesNothing
<1>1. PICK R : /\ R = reads[r] /\ ReadOk(R) /\ R.ask # Null
               /\ (R.ask.op = "walk" => R.offset = Null)
  BY EndedIs
<1>2. RecordsOk /\ records \in Seq(RecordSet) /\ id \in IdsThere
  BY <1>1 DEF ReadsInv, RecordsOk, ReadOk, Remembers
<1>3. PICK record \in ToSet(records) : record.id = id /\ record.channel = Channel[id]
  BY <1>2, RecordOf
<1>4. PICK filter : filter = [channel |-> R.ask.term]
  OBVIOUS
<1>5. Matches(record, filter)
  <2>1. DOMAIN filter = {"channel"} /\ filter["channel"] = R.ask.term
    BY <1>4
  <2> QED
    BY <1>1, <1>3, <2>1 DEF Matches
<1>6. PICK items : items = ToWalk(R.ask)
  OBVIOUS
<1>7. items \in Seq(RecordSet) /\ record \in ToSet(items)
  <2>1. /\ Filtered(records, filter) \in Seq(RecordSet)
        /\ ToSet(Filtered(records, filter)) = {item \in ToSet(records) : Matches(item, filter)}
    BY <1>2, FilteredIs
  <2> QED
    BY <1>4, <1>5, <1>6, <2>1 DEF ToWalk
<1>8. PICK p \in 1..Len(items) : items[p] = record
  BY <1>7 DEF ToSet
<1> QED
  BY <1>1, <1>3, <1>6, <1>8 DEF ReadOk, WalkOk

LEMMA SearchFromInv == ReadsInv => SearchFinds
<1> SUFFICES ASSUME ReadsInv, NEW r \in Readers, Ended(r), reads[r].ask.op = "search",
                    reads[r].response.status = 200
             PROVE  LET ask == reads[r].ask
                        response == reads[r].response
                    IN  /\ \A id \in reads[r].idsThen : Names(ask, id) /\ ~Outnumbered(ask, id) =>
                             id \in response.ids
                        /\ ask.by = "number" /\ ask.term =< reads[r].tipThen /\ ~ask.tolerant =>
                             response.blocks # <<>>
  BY DEF SearchFinds
<1>1. PICK R : /\ R = reads[r] /\ ReadOk(R) /\ R.ask # Null /\ R.calls = <<>> /\ LookedUp(R.ask, R)
  BY EndedIs
<1>2. SearchOk(R)
  BY <1>1 DEF ReadOk
<1>3. ASSUME NEW id \in R.idsThen, Names(R.ask, id), ~Outnumbered(R.ask, id)
      PROVE  id \in R.response.ids
  <2>1. CASE R.ask.by = "hash"
    BY <1>1, <1>2, <1>3, <2>1 DEF SearchOk
  <2>2. CASE R.ask.by # "hash"
    BY <1>1, <1>2, <1>3, <2>2 DEF SearchOk, Names
  <2> QED
    BY <2>1, <2>2
<1>4. R.ask.by = "number" /\ R.ask.term =< R.tipThen /\ ~R.ask.tolerant => R.response.blocks # <<>>
  BY <1>1 DEF LookedUp
<1> QED
  BY <1>1, <1>3, <1>4

\* A list of blocks is newest first without a gap below the total it reports, and lists
\* none that was not on the active chain during the request: for any number of requests,
\* whatever the chain does between their calls and however the node orders its replies.
THEOREM ListsAreWindows == FairSpec => []ListIsAWindow
  BY ReadsInvariant, ListFromInv, PTL

\* The API never takes a node that fails for one that has no such block.
THEOREM NothingIsMistaken == FairSpec => []NeverMistaken
  BY ReadsInvariant, MistakenFromInv, PTL

\* A client that pages through a list of records misses none that was there when it
\* began, for any index, any filter by channel and any page size.
THEOREM WalksMissNothing == FairSpec => []WalkMissesNothing
  BY ReadsInvariant, WalkFromInv, PTL

\* A search that succeeds has found what it was asked for, in the index and on the chain.
THEOREM SearchesFind == FairSpec => []SearchFinds
  BY ReadsInvariant, SearchFromInv, PTL

-----------------------------------------------------------------------------
(* The chain figures *)

\* The figures in the cache were true at most two calls before they were stored.
StoredOk(C) ==
    \/ C = Null
    \/ /\ C \in Cached
       /\ C.at =< clock
       /\ C.at - C.info.asOf =< 2 * RpcTimeout

\* The shared request has not outlasted the call it waits for, and what it has been
\* told was true when the first of its calls was under way.
AskingOk(I) ==
    \/ I = Null
    \/ /\ DOMAIN I = {"step", "since", "info", "pending"}
       /\ I.step \in {"chain", "replied", "extras"}
       /\ I.since \in Nat
       /\ I.since =< clock
       /\ clock =< I.since + RpcTimeout
       /\ I.step # "chain" => I.info \in Info /\ I.info.asOf =< clock
       /\ I.step = "replied" => I.since =< I.info.asOf
       /\ I.step = "extras" => I.since - I.info.asOf =< RpcTimeout

\* The figures a request was given were recent then.
FigureOk(R) ==
    /\ R.card \in Info \cup {Null, Waiting}
    /\ R.shownAt \in Nat
    /\ R.card \in Info => R.shownAt - R.card.asOf =< TTL - 1 + 2 * RpcTimeout

\* The inductive invariant of the figures.
FiguresInv ==
    /\ clock \in 0..MaxClock
    /\ \A C : C = cache => StoredOk(C)
    /\ \A I : I = inFlight => AskingOk(I)
    /\ \A r \in Readers : \A R : R = reads[r] => FigureOk(R)

\* Figures are not Null, nor what stands for those to come.
LEMMA FiguresDiffer == Null \notin Info \cup {Waiting} \cup Cached /\ Waiting \notin Info
<1>1. Null \notin Info \cup {Waiting} \cup Cached
  BY NullAssumption DEF NullAssumption
<1>2. Waiting \notin Info
  <2>1. DOMAIN Waiting = {"reachable"} /\ \A info \in Info : DOMAIN info = {"reachable", "asOf"}
    BY DEF Waiting, Info
  <2> QED
    BY <2>1
<1> QED
  BY <1>1, <1>2

\* What chainInfo() gives at once was recent enough.
LEMMA CardNowOk ==
    ASSUME FiguresInv
    PROVE  /\ CardNow \in Info \cup {Waiting}
           /\ CardNow \in Info => clock - CardNow.asOf =< TTL - 1 + 2 * RpcTimeout
<1>1. CASE Fresh
  <2>1. PICK C : C = cache
    OBVIOUS
  <2>2. C # Null /\ clock - C.at < TTL /\ CardNow = C.info
    BY <1>1, <2>1 DEF Fresh, CardNow
  <2>3. C \in Cached /\ C.at =< clock /\ C.at - C.info.asOf =< 2 * RpcTimeout
    BY <2>1, <2>2 DEF FiguresInv, StoredOk
  <2>4. PICK at \in Nat : at = C.at
    BY <2>3 DEF Cached
  <2>5. C.info \in Info
    BY <2>3 DEF Cached
  <2>6. PICK asOf \in Nat : asOf = C.info.asOf
    BY <2>5 DEF Info
  <2>7. clock \in Nat /\ TTL \in Nat /\ RpcTimeout \in Nat
    BY ReadsAssumption DEF FiguresInv, ReadsAssumption
  <2>8. clock - at < TTL /\ at - asOf =< 2 * RpcTimeout
    BY <2>2, <2>3, <2>4, <2>6
  <2>9. clock - asOf =< TTL - 1 + 2 * RpcTimeout
    BY <2>7, <2>8
  <2> QED
    BY <2>2, <2>5, <2>6, <2>9
<1>2. CASE ~Fresh
  BY <1>2, FiguresDiffer DEF CardNow
<1> QED
  BY <1>1, <1>2

\* The shared request for figures when it starts.
LEMMA InFlightNowOk ==
    ASSUME FiguresInv, NEW I, I = InFlightNow
    PROVE  AskingOk(I)
<1>1. CASE I = FirstInfoCall
  <2>1. clock \in Nat /\ RpcTimeout \in Nat
    BY ReadsAssumption DEF FiguresInv, ReadsAssumption
  <2>2. clock =< clock + RpcTimeout
    BY <2>1
  <2>3. DOMAIN I = {"step", "since", "info", "pending"} /\ I.step = "chain" /\ I.since = clock
    BY <1>1 DEF FirstInfoCall
  <2> QED
    BY <2>1, <2>2, <2>3 DEF AskingOk
<1>2. CASE I = inFlight
  BY <1>2 DEF FiguresInv
<1> QED
  BY <1>1, <1>2 DEF InFlightNow

\* One request moves, and its figures are in order.
LEMMA FigureMoves ==
    ASSUME FiguresInv, UNCHANGED <<cache, clock>>, NEW r \in Readers,
           NEW changed, Moves(r, changed), NEW S, S = reads'[r], FigureOk(S),
           NEW I, I = inFlight', AskingOk(I)
    PROVE  FiguresInv'
<1>1. clock' = clock /\ cache' = cache
  OBVIOUS
<1>2. \A C : C = cache' => StoredOk(C)'
  BY <1>1 DEF FiguresInv, StoredOk
<1>3. AskingOk(I)'
  BY <1>1 DEF AskingOk
<1>4. ASSUME NEW q \in Readers, NEW R, R = reads'[q]
      PROVE  FigureOk(R)'
  <2>1. CASE q = r
    BY <1>4, <2>1 DEF FigureOk
  <2>2. CASE q # r
    <3>1. reads'[q] = reads[q]
      BY <2>2 DEF Moves
    <3> QED
      BY <1>4, <3>1 DEF FiguresInv, FigureOk
  <2> QED
    BY <2>1, <2>2
<1> QED
  BY <1>1, <1>2, <1>3, <1>4 DEF FiguresInv

\* A request moves in other fields.
LEMMA FigureStays ==
    ASSUME FiguresInv, UNCHANGED <<infoVars, clock>>, NEW r \in Readers,
           NEW changed, Moves(r, changed), "card" \notin changed, "shownAt" \notin changed
    PROVE  FiguresInv'
<1>1. PICK S : S = reads'[r]
  OBVIOUS
<1>2. S.card = reads[r].card /\ S.shownAt = reads[r].shownAt
  BY <1>1 DEF Moves, Fields
<1>3. FigureOk(S)
  BY <1>2 DEF FiguresInv, FigureOk
<1>4. PICK I : I = inFlight'
  OBVIOUS
<1>5. AskingOk(I) /\ UNCHANGED <<cache, clock>>
  BY <1>4 DEF FiguresInv, infoVars
<1> QED
  BY <1>1, <1>3, <1>4, <1>5, FigureMoves

\* The requests keep their figures.
LEMMA FiguresStay ==
    ASSUME FiguresInv, UNCHANGED <<cache, clock>>,
           \A r \in Readers : reads'[r].card = reads[r].card /\ reads'[r].shownAt = reads[r].shownAt,
           NEW I, I = inFlight', AskingOk(I)
    PROVE  FiguresInv'
<1>1. clock' = clock /\ cache' = cache
  OBVIOUS
<1>2. \A C : C = cache' => StoredOk(C)'
  BY <1>1 DEF FiguresInv, StoredOk
<1>3. AskingOk(I)'
  BY <1>1 DEF AskingOk
<1>4. ASSUME NEW q \in Readers, NEW R, R = reads'[q]
      PROVE  FigureOk(R)'
  <2>1. R.card = reads[q].card /\ R.shownAt = reads[q].shownAt
    BY <1>4
  <2> QED
    BY <2>1 DEF FiguresInv, FigureOk
<1> QED
  BY <1>1, <1>2, <1>3, <1>4 DEF FiguresInv

\* The figures are in: they are as old as two calls at most.
LEMMA FiguresSettle ==
    ASSUME ReadsInv, FiguresInv, NEW info \in Info, info.asOf =< clock,
           clock - info.asOf =< 2 * RpcTimeout, Settles(info), UNCHANGED clock
    PROVE  FiguresInv'
<1>1. PICK now \in Nat : now = clock
  BY ReadsAssumption DEF FiguresInv, ReadsAssumption
<1>2. PICK asOf \in Nat : asOf = info.asOf
  BY DEF Info
<1>3. TTL \in Nat /\ TTL >= 1 /\ RpcTimeout \in Nat /\ now - asOf =< 2 * RpcTimeout
  BY <1>1, <1>2, ReadsAssumption DEF ReadsAssumption
<1>4. now - asOf =< TTL - 1 + 2 * RpcTimeout
  BY <1>1, <1>2, <1>3
<1>5. ASSUME NEW C, C = cache'
      PROVE  StoredOk(C)'
  <2>1. C = [at |-> now, info |-> info]
    BY <1>1, <1>5 DEF Settles
  <2>2. C \in Cached /\ C.at = now /\ C.info.asOf = asOf
    BY <1>2, <2>1 DEF Cached
  <2>3. C.at =< clock'
    BY <1>1, <2>2
  <2> QED
    BY <1>3, <2>2, <2>3 DEF StoredOk
<1>6. \A I : I = inFlight' => AskingOk(I)'
  BY DEF Settles, AskingOk
<1>7. ASSUME NEW r \in Readers, NEW S, S = reads'[r]
      PROVE  FigureOk(S)'
  <2>1. S = Given(r, info)
    BY <1>7 DEF Settles
  <2>2. DOMAIN reads[r] = Fields
    BY ReadIs
  <2>3. CASE reads[r].card = Waiting
    <3>1. S.card = info /\ S.shownAt = now
      BY <1>1, <2>1, <2>2, <2>3, GivenIs
    <3> QED
      BY <1>2, <1>4, <3>1 DEF FigureOk
  <2>4. CASE reads[r].card # Waiting
    <3>1. S = reads[r]
      BY <2>1, <2>2, <2>4, GivenIs
    <3> QED
      BY <3>1 DEF FiguresInv, FigureOk
  <2> QED
    BY <2>3, <2>4
<1>8. clock' \in 0..MaxClock
  BY DEF FiguresInv
<1> QED
  BY <1>5, <1>6, <1>7, <1>8 DEF FiguresInv

\* The shared request, as the invariant has it.
LEMMA AskingIs ==
    ASSUME FiguresInv, NEW I, I = inFlight, I # Null
    PROVE  /\ DOMAIN I = {"step", "since", "info", "pending"}
           /\ \E now, since \in Nat :
                /\ now = clock
                /\ since = I.since
                /\ since =< now
                /\ now =< since + RpcTimeout
                /\ I.step # "chain" =>
                     /\ I.info \in Info
                     /\ \E asOf \in Nat :
                          /\ asOf = I.info.asOf
                          /\ asOf =< now
                          /\ I.step = "replied" => since =< asOf
                          /\ I.step = "extras" => since - asOf =< RpcTimeout
<1>1. AskingOk(I)
  BY DEF FiguresInv
<1>2. PICK now \in Nat : now = clock
  BY ReadsAssumption DEF FiguresInv, ReadsAssumption
<1>3. PICK since \in Nat : since = I.since
  BY <1>1 DEF AskingOk
<1>4. since =< now /\ now =< since + RpcTimeout
  BY <1>1, <1>2, <1>3 DEF AskingOk
<1>5. ASSUME I.step # "chain"
      PROVE  /\ I.info \in Info
             /\ \E asOf \in Nat :
                  /\ asOf = I.info.asOf
                  /\ asOf =< now
                  /\ I.step = "replied" => since =< asOf
                  /\ I.step = "extras" => since - asOf =< RpcTimeout
  <2>1. I.info \in Info
    BY <1>1, <1>5 DEF AskingOk
  <2>2. PICK asOf \in Nat : asOf = I.info.asOf
    BY <2>1 DEF Info
  <2> QED
    BY <1>1, <1>2, <1>3, <1>5, <2>1, <2>2 DEF AskingOk
<1> QED
  BY <1>1, <1>2, <1>3, <1>4, <1>5 DEF AskingOk

\* Every step of the shared request keeps the figures recent.
LEMMA FiguresOfInfoStep ==
    ASSUME ReadsInv, FiguresInv, InfoStep
    PROVE  FiguresInv'
<1>1. PICK I : I = inFlight
  OBVIOUS
<1>2. I # Null
  BY <1>1 DEF InfoStep, InfoEvaluated, InfoArrives, ExtraEnds, InfoDone, InfoFails
<1>3. DOMAIN I = {"step", "since", "info", "pending"}
  BY <1>1, <1>2, AskingIs
<1>4. PICK now, since \in Nat :
        /\ now = clock
        /\ since = I.since
        /\ since =< now
        /\ now =< since + RpcTimeout
        /\ I.step # "chain" =>
             /\ I.info \in Info
             /\ \E asOf \in Nat :
                  /\ asOf = I.info.asOf
                  /\ asOf =< now
                  /\ I.step = "replied" => since =< asOf
                  /\ I.step = "extras" => since - asOf =< RpcTimeout
  BY <1>1, <1>2, AskingIs
<1>5. RpcTimeout \in Nat /\ now =< now + RpcTimeout
  BY ReadsAssumption DEF ReadsAssumption
<1>6. PICK J : J = inFlight'
  OBVIOUS
<1>7. CASE InfoEvaluated
  <2>1. J = [I EXCEPT !.step = "replied", !.info = [reachable |-> TRUE, asOf |-> now]]
    BY <1>1, <1>4, <1>6, <1>7 DEF InfoEvaluated
  <2>2. /\ DOMAIN J = {"step", "since", "info", "pending"} /\ J.step = "replied" /\ J.since = since
        /\ J.info = [reachable |-> TRUE, asOf |-> now]
    BY <1>3, <1>4, <2>1
  <2>3. J.info \in Info /\ J.info.asOf = now
    BY <2>2 DEF Info
  <2>4. AskingOk(J)
    BY <1>4, <2>2, <2>3 DEF AskingOk
  <2>5. UNCHANGED <<cache, clock>> /\ reads' = reads
    BY <1>7 DEF InfoEvaluated
  <2> QED
    BY <1>6, <2>4, <2>5, FiguresStay
<1>8. CASE InfoArrives
  <2>1. I.step = "replied" /\ J = [I EXCEPT !.step = "extras", !.since = now,
                                            !.pending = {"getbestchainlock", "getblockheader"}]
    BY <1>1, <1>4, <1>6, <1>8 DEF InfoArrives
  <2>2. /\ DOMAIN J = {"step", "since", "info", "pending"} /\ J.step = "extras" /\ J.since = now
        /\ J.info = I.info
    BY <1>3, <2>1
  <2>3. I.info \in Info
    BY <1>4, <2>1
  <2>4. PICK asOf \in Nat : asOf = I.info.asOf /\ asOf =< now /\ since =< asOf
    BY <1>4, <2>1
  <2>5. now - asOf =< RpcTimeout
    BY <1>4, <1>5, <2>4
  <2>6. AskingOk(J)
    BY <1>4, <1>5, <2>2, <2>3, <2>4, <2>5 DEF AskingOk
  <2>7. UNCHANGED <<cache, clock>> /\ reads' = reads
    BY <1>8 DEF InfoArrives
  <2> QED
    BY <1>6, <2>6, <2>7, FiguresStay
<1>9. ASSUME NEW method, ExtraEnds(method)
      PROVE  FiguresInv'
  <2>1. I.step = "extras" /\ J = [I EXCEPT !.pending = @ \ {method}]
    BY <1>1, <1>6, <1>9 DEF ExtraEnds
  <2>2. /\ DOMAIN J = {"step", "since", "info", "pending"} /\ J.step = "extras" /\ J.since = since
        /\ J.info = I.info
    BY <1>3, <1>4, <2>1
  <2>3. AskingOk(I)
    BY <1>1 DEF FiguresInv
  <2>4. AskingOk(J)
    BY <1>2, <1>4, <2>1, <2>2, <2>3 DEF AskingOk
  <2>5. UNCHANGED <<cache, clock>> /\ reads' = reads
    BY <1>9 DEF ExtraEnds
  <2> QED
    BY <1>6, <2>4, <2>5, FiguresStay
<1>10. CASE InfoDone
  <2>1. I.step = "extras" /\ Settles(I.info) /\ UNCHANGED clock
    BY <1>1, <1>10 DEF InfoDone
  <2>2. I.info \in Info
    BY <1>4, <2>1
  <2>3. PICK asOf \in Nat : asOf = I.info.asOf /\ asOf =< now /\ since - asOf =< RpcTimeout
    BY <1>4, <2>1
  <2>4. now - asOf =< 2 * RpcTimeout
    BY <1>4, <1>5, <2>3
  <2>5. I.info.asOf =< clock /\ clock - I.info.asOf =< 2 * RpcTimeout
    BY <1>4, <2>3, <2>4
  <2> QED
    BY <2>1, <2>2, <2>5, FiguresSettle
<1>11. CASE InfoFails
  <2>1. PICK info : info = [reachable |-> FALSE, asOf |-> now]
    OBVIOUS
  <2>2. Settles(info) /\ UNCHANGED clock
    BY <1>4, <1>11, <2>1 DEF InfoFails, Unreachable
  <2>3. info \in Info /\ info.asOf = now
    BY <2>1 DEF Info
  <2>4. now =< now /\ now - now =< 2 * RpcTimeout
    BY <1>5
  <2>5. info.asOf =< clock /\ clock - info.asOf =< 2 * RpcTimeout
    BY <1>4, <2>3, <2>4
  <2> QED
    BY <2>2, <2>3, <2>5, FiguresSettle
<1> QED
  BY <1>7, <1>8, <1>9, <1>10, <1>11 DEF InfoStep

\* Time passes, but no call outlasts its timeout.
LEMMA FiguresOfClock ==
    ASSUME FiguresInv, ClockMoves
    PROVE  FiguresInv'
<1>1. PICK now \in Nat : now = clock
  BY ReadsAssumption DEF FiguresInv, ReadsAssumption
<1>2. MaxClock \in Nat /\ RpcTimeout \in Nat
  BY ReadsAssumption DEF ReadsAssumption
<1>3. now < MaxClock /\ clock' = now + 1 /\ cache' = cache /\ inFlight' = inFlight /\ reads' = reads
  BY <1>1 DEF ClockMoves, infoVars
<1>4. clock' \in 0..MaxClock
  BY <1>2, <1>3
<1>5. ASSUME NEW C, C = cache'
      PROVE  StoredOk(C)'
  <2>1. StoredOk(C)
    BY <1>3, <1>5 DEF FiguresInv
  <2>2. CASE C = Null
    BY <2>2 DEF StoredOk
  <2>3. CASE C \in Cached
    <3>1. PICK at \in Nat : at = C.at
      BY <2>3 DEF Cached
    <3>2. at =< now /\ C.at - C.info.asOf =< 2 * RpcTimeout
      BY <1>1, <2>1, <2>3, <3>1, FiguresDiffer DEF StoredOk
    <3>3. at =< now + 1
      BY <3>2
    <3> QED
      BY <1>3, <2>3, <3>1, <3>2, <3>3 DEF StoredOk
  <2> QED
    BY <2>1, <2>2, <2>3 DEF StoredOk
<1>6. ASSUME NEW I, I = inFlight'
      PROVE  AskingOk(I)'
  <2>1. I = inFlight /\ AskingOk(I)
    BY <1>3, <1>6 DEF FiguresInv
  <2>2. CASE I = Null
    BY <2>2 DEF AskingOk
  <2>3. CASE I # Null
    <3>1. PICK since \in Nat : since = I.since
      BY <2>1, <2>3 DEF AskingOk
    <3>2. since =< now /\ now < since + RpcTimeout
      BY <1>1, <2>1, <2>3, <3>1 DEF AskingOk, ClockMoves
    <3>3. since =< now + 1 /\ now + 1 =< since + RpcTimeout
      BY <1>2, <3>2
    <3>4. I.step # "chain" => I.info \in Info /\ I.info.asOf =< now + 1
      <4>1. ASSUME I.step # "chain"
            PROVE  I.info \in Info /\ I.info.asOf =< now + 1
        <5>1. I.info \in Info /\ I.info.asOf =< now
          BY <1>1, <2>1, <2>3, <4>1 DEF AskingOk
        <5>2. PICK asOf \in Nat : asOf = I.info.asOf
          BY <5>1 DEF Info
        <5> QED
          BY <5>1, <5>2
      <4> QED
        BY <4>1
    <3> QED
      BY <1>3, <2>1, <2>3, <3>1, <3>3, <3>4 DEF AskingOk
  <2> QED
    BY <2>2, <2>3
<1>7. \A r \in Readers : \A R : R = reads'[r] => FigureOk(R)'
  BY <1>3 DEF FiguresInv, FigureOk
<1> QED
  BY <1>4, <1>5, <1>6, <1>7 DEF FiguresInv

LEMMA FiguresStart == Init => FiguresInv
<1> SUFFICES ASSUME Init
             PROVE  FiguresInv
  OBVIOUS
<1>1. clock \in 0..MaxClock /\ cache = Null /\ inFlight = Null
  BY ReadsAssumption DEF Init, ReadsAssumption
<1>2. ASSUME NEW r \in Readers, NEW R, R = reads[r]
      PROVE  FigureOk(R)
  <2>1. R.card = Null /\ R.shownAt = 0
    BY <1>2 DEF Init, Unasked
  <2> QED
    BY <2>1, FiguresDiffer DEF FigureOk
<1> QED
  BY <1>1, <1>2 DEF FiguresInv, StoredOk, AskingOk

LEMMA FiguresStep ==
    ASSUME ReadsInv, FiguresInv, [Next]_vars
    PROVE  FiguresInv'
<1>1. clock \in Nat
  BY ReadsAssumption DEF FiguresInv, ReadsAssumption
<1>2. PICK I : I = inFlight'
  OBVIOUS
<1>3. ASSUME NEW r \in Readers, NEW ask \in workload.asks[r], Asked(r, ask)
      PROVE  FiguresInv'
  <2>1. PICK S : S = reads'[r]
    OBVIOUS
  <2>2. DOMAIN reads = Readers
    BY DEF ReadsInv
  <2>3. Moves(r, Fields) /\ S.shownAt = clock
        /\ S.card = IF WantsCard(ask) THEN CardNow ELSE Null
    BY <1>3, <2>1, <2>2, AskedMoves
  <2>4. FigureOk(S)
    <3>1. CASE WantsCard(ask)
      BY <1>1, <2>3, <3>1, CardNowOk DEF FigureOk
    <3>2. CASE ~WantsCard(ask)
      BY <1>1, <2>3, <3>2, FiguresDiffer DEF FigureOk
    <3> QED
      BY <3>1, <3>2
  <2>5. I = inFlight \/ I = InFlightNow
    BY <1>2, <1>3 DEF Asked
  <2>6. AskingOk(I)
    BY <2>5, InFlightNowOk DEF FiguresInv
  <2>7. UNCHANGED <<cache, clock>>
    BY <1>3 DEF Asked
  <2> QED
    BY <1>2, <2>1, <2>3, <2>4, <2>6, <2>7, FigureMoves
<1>4. ASSUME NEW r \in Readers, NEW id \in DOMAIN reads[r].calls, Evaluates(r, id)
      PROVE  FiguresInv'
  <2>1. PICK S : S = reads'[r]
    OBVIOUS
  <2>2. Moves(r, {"entries"})
    BY <1>4, <2>1, EvaluatesIsOk
  <2>3. UNCHANGED <<infoVars, clock>> /\ "card" \notin {"entries"} /\ "shownAt" \notin {"entries"}
    BY <1>4 DEF Evaluates
  <2> QED
    BY <2>2, <2>3, FigureStays
<1>5. ASSUME NEW r \in Readers, ReaderStep(r)
      PROVE  FiguresInv'
  <2>1. PICK S : S = reads'[r]
    OBVIOUS
  <2>2. \/ Resumed(r) /\ UNCHANGED <<infoVars, clock>>
        \/ Moves(r, {"response", "offset"}) /\ UNCHANGED <<infoVars, clock>>
        \/ Moves(r, {"card", "shownAt"}) /\ AsksForCard(r)
    BY <1>5, <2>1, ReaderStepIsOk
  <2>3. CASE Moves(r, {"calls", "entries", "response", "tip"}) /\ UNCHANGED <<infoVars, clock>>
    <3>1. "card" \notin {"calls", "entries", "response", "tip"}
          /\ "shownAt" \notin {"calls", "entries", "response", "tip"}
      OBVIOUS
    <3> QED
      BY <2>3, <3>1, FigureStays
  <2>4. CASE Moves(r, {"response", "offset"}) /\ UNCHANGED <<infoVars, clock>>
    <3>1. "card" \notin {"response", "offset"} /\ "shownAt" \notin {"response", "offset"}
      OBVIOUS
    <3> QED
      BY <2>4, <3>1, FigureStays
  <2>5. CASE Moves(r, {"card", "shownAt"}) /\ AsksForCard(r)
    <3>1. DOMAIN reads = Readers /\ DOMAIN reads[r] = Fields
      BY ReadIs
    <3>2. S.card = CardNow /\ S.shownAt = clock
      BY <2>1, <2>5, <3>1, AsksForCardMoves
    <3>3. FigureOk(S)
      BY <1>1, <3>2, CardNowOk DEF FigureOk
    <3>4. I = InFlightNow /\ UNCHANGED <<cache, clock>>
      BY <1>2, <2>5 DEF AsksForCard
    <3>5. AskingOk(I)
      BY <3>4, InFlightNowOk
    <3> QED
      BY <1>2, <2>1, <2>5, <3>3, <3>4, <3>5, FigureMoves
  <2>6. CASE /\ Moves(r, {"calls", "entries", "response", "card"}) /\ S.card = Null
             /\ UNCHANGED <<infoVars, clock>>
    <3>1. FigureOk(reads[r]) /\ AskingOk(inFlight)
      BY DEF FiguresInv
    <3>2. S.shownAt = reads[r].shownAt
      BY <2>1, <2>6 DEF Moves, Fields
    <3>3. FigureOk(S)
      BY <2>6, <3>1, <3>2, FiguresDiffer DEF FigureOk
    <3>4. I = inFlight /\ UNCHANGED <<cache, clock>>
      BY <1>2, <2>6 DEF infoVars
    <3> QED
      BY <1>2, <2>1, <2>6, <3>1, <3>3, <3>4, FigureMoves
  <2> QED
    BY <2>1, <2>2, <2>3, <2>4, <2>5, <2>6 DEF Resumed
<1>6. CASE InfoStep
  BY <1>6, FiguresOfInfoStep
<1>7. ASSUME UNCHANGED <<infoVars, clock>>,
             \A r \in Readers : reads'[r].card = reads[r].card /\ reads'[r].shownAt = reads[r].shownAt
      PROVE  FiguresInv'
  <2>1. AskingOk(I) /\ UNCHANGED <<cache, clock>>
    BY <1>2, <1>7 DEF infoVars, FiguresInv
  <2> QED
    BY <1>2, <1>7, <2>1, FiguresStay
<1>8. ASSUME NEW id \in workload.ids, Indexes(id)
      PROVE  FiguresInv'
  BY <1>7, <1>8 DEF Indexes
<1>9. CASE ClockMoves
  BY <1>9, FiguresOfClock
<1>10. CASE Outside
  <2>1. ASSUME NEW r \in Readers
        PROVE  reads'[r].card = reads[r].card /\ reads'[r].shownAt = reads[r].shownAt
    <3>1. PICK R : R = reads[r]
      OBVIOUS
    <3>2. DOMAIN R = Fields
      BY <3>1, ReadIs
    <3>3. PICK new : new = {chain'[h].hash : h \in DOMAIN chain'}
      OBVIOUS
    <3>4. reads'[r] = IF Calling(r) THEN [R EXCEPT !.seen = @ \cup new] ELSE R
      BY <1>10, <3>1, <3>3 DEF Outside
    <3> QED
      BY <3>1, <3>2, <3>4 DEF Fields
  <2>2. UNCHANGED <<infoVars, clock>>
    BY <1>10 DEF Outside
  <2> QED
    BY <1>7, <2>1, <2>2
<1>11. CASE UNCHANGED vars
  BY <1>7, <1>11 DEF vars
<1> QED
  BY <1>3, <1>4, <1>5, <1>6, <1>8, <1>9, <1>10, <1>11 DEF Next

\* The figures, in the cache, under way and shown, are as recent as the invariant says.
THEOREM FiguresInvariant == FairSpec => [](ReadsInv /\ FiguresInv)
<1>1. Init => ReadsInv /\ FiguresInv
  BY ReadsStart, FiguresStart
<1>2. ReadsInv /\ FiguresInv /\ [Next]_vars => ReadsInv' /\ FiguresInv'
  BY ReadsStep, FiguresStep
<1> QED
  BY <1>1, <1>2, PTL DEF FairSpec

LEMMA RecentFromInv == ReadsInv /\ FiguresInv => FiguresAreRecent
<1> SUFFICES ASSUME FiguresInv, NEW r \in Readers, Ended(r), reads[r].card # Null
             PROVE  reads[r].shownAt - reads[r].card.asOf =< TTL - 1 + 2 * RpcTimeout
  BY DEF FiguresAreRecent
<1>1. PICK R : R = reads[r]
  OBVIOUS
<1>2. R.card # Waiting
  BY <1>1 DEF Ended
<1>3. FigureOk(R)
  BY <1>1 DEF FiguresInv
<1> QED
  BY <1>1, <1>2, <1>3 DEF FigureOk

LEMMA TypesFromInv == ReadsInv /\ FiguresInv => TypeOK
<1> SUFFICES ASSUME ReadsInv, FiguresInv
             PROVE  TypeOK
  OBVIOUS
<1>1. Node!TypeOK /\ heights \in [0..mined -> Nat]
  BY DEF ReadsInv, NodeOk
<1>2. ToSet(records) \subseteq [id : Ids, channel : Nat, txid : Ids]
  <2>1. records \in Seq(RecordSet)
    BY DEF ReadsInv, RecordsOk
  <2>2. \A i \in DOMAIN records : records[i] \in RecordSet
    BY <2>1
  <2>3. ToSet(records) \subseteq RecordSet
    BY <2>2 DEF ToSet
  <2> QED
    BY <2>3 DEF RecordSet
<1>3. ASSUME NEW r \in Readers
      PROVE  /\ reads[r].ask = Null \/ IsAsk(reads[r].ask)
             /\ reads[r].card \in Info \cup {Null, Waiting}
             /\ reads[r].response.status \in {200, 404, 500, 502}
             /\ ToSet(reads[r].response.blocks) \subseteq Block
             /\ reads[r].response.ids \subseteq Ids
  <2>1. IsResponse(reads[r].response)
    BY ReadIs DEF ReadOk, Typed
  <2>2. FigureOk(reads[r])
    BY DEF FiguresInv
  <2> QED
    BY <2>1, <2>2, ReadIs DEF IsResponse, FigureOk, ReadOk, Typed
<1>4. StoredOk(cache) /\ AskingOk(inFlight) /\ clock \in 0..MaxClock
  BY DEF FiguresInv
<1>5. ASSUME NEW r \in Readers
      PROVE  /\ ToSet(reads[r].calls) \subseteq CallSet
             /\ \A i \in DOMAIN reads[r].entries :
                  /\ reads[r].entries[i].id \in DOMAIN reads[r].calls
                  /\ reads[r].entries[i].code \in {Null, NotFound, OutOfRange}
  <2>1. PICK R : R = reads[r]
    OBVIOUS
  <2>2. R.calls \in Seq(CallSet) /\ R.entries \in Seq(EntrySet) /\ EntriesOk(R)
    BY <2>1, ReadIs DEF ReadOk, Typed
  <2>3. \A i \in DOMAIN R.calls : R.calls[i] \in CallSet
    BY <2>2
  <2>4. ToSet(R.calls) \subseteq CallSet
    BY <2>3 DEF ToSet
  <2>5. ASSUME NEW i \in DOMAIN R.entries
        PROVE  R.entries[i].id \in DOMAIN R.calls /\ R.entries[i] \in EntrySet
    BY <2>2, <2>5 DEF EntriesOk
  <2> QED
    BY <2>1, <2>4, <2>5 DEF EntrySet
<1>6. workload \in Workloads
  BY DEF ReadsInv
<1> QED
  BY <1>1, <1>2, <1>3, <1>4, <1>5, <1>6 DEF TypeOK, StoredOk, AskingOk

\* The chain figures a page or an answer shows were true of the node at most the time to
\* live of the cache and two calls ago, however requests share them and for any timeouts.
THEOREM FiguresRecent == FairSpec => []FiguresAreRecent
  BY FiguresInvariant, RecentFromInv, PTL

\* Every variable has its type.
THEOREM ReadsTyped == FairSpec => []TypeOK
  BY FiguresInvariant, TypesFromInv, PTL
=============================================================================
