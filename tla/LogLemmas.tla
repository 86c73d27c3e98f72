------------------------------ MODULE LogLemmas ------------------------------
(***************************************************************************)
(* Lemmas about data.                                                      *)
(*                                                                         *)
(* What the steps of a log do to a relation between its earlier and its    *)
(* later lines.  The log is the lines of the file followed by the lines    *)
(* that wait; the steps of ChainLog take lines out of it or add one behind *)
(* all others, so the relation survives them.                              *)
(*                                                                         *)
(* Induction over the natural numbers, stated for a set instead of a       *)
(* predicate, and that recursive functions exist: what a fold computes is  *)
(* known only after that.                                                  *)
(***************************************************************************)
EXTENDS Integers, Sequences, SequencesExt, WellFoundedInduction, TLAPS

\* Of every two lines, the earlier one is related to the later one.
Related(lines, R) ==
    \A i, j \in 1..Len(lines) : i < j => <<lines[i], lines[j]>> \in R

\* The lines of the file, then the waiting ones: all in S, and related by R.
LogOf(S, R, lines, waiting) ==
    /\ lines \in Seq(S)
    /\ waiting \in Seq(S)
    /\ Related(lines, R)
    /\ Related(waiting, R)
    /\ \A i \in 1..Len(lines), j \in 1..Len(waiting) : <<lines[i], waiting[j]>> \in R

-----------------------------------------------------------------------------
(* Sequences *)

\* An element of a sequence.
LEMMA ElementOfSequence ==
    ASSUME NEW S, NEW s \in Seq(S), NEW i \in 1..Len(s)
    PROVE  s[i] \in S /\ Len(s) \in Nat
  OBVIOUS

\* All but the last element of a sequence.
LEMMA FrontOfSequence ==
    ASSUME NEW S, NEW s \in Seq(S), s # <<>>
    PROVE  /\ Front(s) \in Seq(S)
           /\ Len(Front(s)) = Len(s) - 1
           /\ \A i \in 1..Len(s) - 1 : Front(s)[i] = s[i]
<1>1. Front(s) = [i \in 1..Len(s) - 1 |-> s[i]]
  BY DEF Front
<1>2. Len([i \in 1..Len(s) - 1 |-> s[i]]) = Len(s) - 1
  OBVIOUS
<1> QED
  BY <1>1, <1>2

\* A sequence and one more element.
LEMMA AppendToSequence ==
    ASSUME NEW S, NEW s \in Seq(S), NEW e \in S
    PROVE  /\ Append(s, e) \in Seq(S)
           /\ Len(s) \in Nat
           /\ Len(Append(s, e)) = Len(s) + 1
           /\ \A i \in 1..Len(s) : Append(s, e)[i] = s[i]
           /\ Append(s, e)[Len(s) + 1] = e
           /\ \A i \in 1..Len(Append(s, e)) : i \in 1..Len(s) \/ i = Len(s) + 1
  OBVIOUS

\* A sequence without its first element.
LEMMA TailOfSequence ==
    ASSUME NEW S, NEW s \in Seq(S), s # <<>>
    PROVE  /\ Head(s) \in S
           /\ Head(s) = s[1]
           /\ Len(s) \in Nat \ {0}
           /\ Tail(s) \in Seq(S)
           /\ Len(Tail(s)) = Len(s) - 1
           /\ \A i \in 1..Len(s) - 1 : Tail(s)[i] = s[i + 1]
  OBVIOUS

\* Appending keeps the elements of a sequence.
LEMMA ToSetOfAppend ==
    ASSUME NEW S, NEW s \in Seq(S), NEW e \in S
    PROVE  ToSet(s) \cup {e} \subseteq ToSet(Append(s, e))
<1>1. DOMAIN s = 1..Len(s) /\ DOMAIN Append(s, e) = 1..Len(s) + 1
  OBVIOUS
<1> QED
  BY <1>1, AppendToSequence DEF ToSet

\* Sequences of one length with the same elements are equal.
LEMMA SameSequence ==
    ASSUME NEW S, NEW T, NEW s \in Seq(S), NEW t \in Seq(T), Len(s) = Len(t),
           \A i \in 1..Len(s) : s[i] = t[i]
    PROVE  s = t
  OBVIOUS

\* The first k elements of a sequence.
LEMMA BeginningOfSequence ==
    ASSUME NEW S, NEW s \in Seq(S), NEW k \in 0..Len(s)
    PROVE  /\ SubSeq(s, 1, k) \in Seq(S)
           /\ Len(SubSeq(s, 1, k)) = k
           /\ \A i \in 1..k : SubSeq(s, 1, k)[i] = s[i]
  OBVIOUS

\* Two sequences, one behind the other.
LEMMA ConcatOfSequences ==
    ASSUME NEW S, NEW s \in Seq(S), NEW t \in Seq(S)
    PROVE  /\ s \o t \in Seq(S)
           /\ Len(s) \in Nat /\ Len(t) \in Nat
           /\ Len(s \o t) = Len(s) + Len(t)
           /\ \A i \in 1..Len(s) : (s \o t)[i] = s[i]
           /\ \A i \in 1..Len(t) : (s \o t)[Len(s) + i] = t[i]
  OBVIOUS

\* None of a sequence, and all of it.
LEMMA BeginningsAtTheEnds ==
    ASSUME NEW S, NEW s \in Seq(S)
    PROVE  /\ SubSeq(s, 1, 0) = <<>>
           /\ SubSeq(s, 1, Len(s)) = s
           /\ s \o <<>> = s
<1>1. Len(s) \in Nat /\ 0 \in 0..Len(s) /\ Len(s) \in 0..Len(s) /\ <<>> \in Seq(S) /\ Len(<<>>) = 0
  OBVIOUS
<1>2. SubSeq(s, 1, 0) = <<>>
  BY <1>1, BeginningOfSequence
<1>3. SubSeq(s, 1, Len(s)) = s
  <2>1. /\ SubSeq(s, 1, Len(s)) \in Seq(S)
        /\ Len(SubSeq(s, 1, Len(s))) = Len(s)
        /\ \A i \in 1..Len(s) : SubSeq(s, 1, Len(s))[i] = s[i]
    BY <1>1, BeginningOfSequence
  <2> QED
    BY <2>1, SameSequence
<1>4. s \o <<>> = s
  BY <1>1
<1> QED
  BY <1>2, <1>3, <1>4

\* One element more of a sequence.
LEMMA BeginningGrows ==
    ASSUME NEW S, NEW s \in Seq(S), NEW k \in 0..Len(s), k # Len(s)
    PROVE  SubSeq(s, 1, k + 1) = Append(SubSeq(s, 1, k), s[k + 1])
<1> DEFINE short == SubSeq(s, 1, k)
           long == SubSeq(s, 1, k + 1)
<1>1. Len(s) \in Nat /\ k + 1 \in 0..Len(s) /\ k + 1 \in 1..Len(s) /\ s[k + 1] \in S
  BY ElementOfSequence
<1>2. /\ short \in Seq(S) /\ Len(short) = k /\ \A i \in 1..k : short[i] = s[i]
      /\ long \in Seq(S) /\ Len(long) = k + 1 /\ \A i \in 1..k + 1 : long[i] = s[i]
  BY <1>1, BeginningOfSequence
<1> HIDE DEF short, long
<1> DEFINE more == Append(short, s[k + 1])
<1>3. /\ more \in Seq(S) /\ Len(more) = k + 1
      /\ \A i \in 1..k : more[i] = short[i]
      /\ more[k + 1] = s[k + 1]
  BY <1>1, <1>2, AppendToSequence
<1> HIDE DEF more
<1>4. \A i \in 1..k + 1 : i \in 1..k \/ i = k + 1
  BY <1>1
<1>5. \A i \in 1..k + 1 : more[i] = long[i]
  BY <1>2, <1>3, <1>4
<1>6. more = long
  BY <1>2, <1>3, <1>5, SameSequence
<1> QED
  BY <1>6 DEF more, long, short

\* The beginnings of a sequence are those of the sequences it begins.
LEMMA BeginningOfConcat ==
    ASSUME NEW S, NEW s \in Seq(S), NEW t \in Seq(S), NEW k \in 0..Len(s)
    PROVE  SubSeq(s \o t, 1, k) = SubSeq(s, 1, k)
<1> DEFINE both == s \o t
<1>1. /\ both \in Seq(S)
      /\ Len(s) \in Nat /\ Len(t) \in Nat
      /\ Len(both) = Len(s) + Len(t)
      /\ \A i \in 1..Len(s) : both[i] = s[i]
  BY ConcatOfSequences
<1> HIDE DEF both
<1>2. k \in 0..Len(both)
  BY <1>1
<1>3. /\ SubSeq(s, 1, k) \in Seq(S) /\ Len(SubSeq(s, 1, k)) = k
      /\ \A i \in 1..k : SubSeq(s, 1, k)[i] = s[i]
      /\ SubSeq(both, 1, k) \in Seq(S) /\ Len(SubSeq(both, 1, k)) = k
      /\ \A i \in 1..k : SubSeq(both, 1, k)[i] = both[i]
  BY <1>1, <1>2, BeginningOfSequence
<1>4. \A i \in 1..k : i \in 1..Len(s)
  BY <1>1
<1>5. \A i \in 1..k : SubSeq(both, 1, k)[i] = SubSeq(s, 1, k)[i]
  BY <1>1, <1>3, <1>4
<1>6. SubSeq(both, 1, k) = SubSeq(s, 1, k)
  BY <1>3, <1>5, SameSequence
<1> QED
  BY <1>6 DEF both

\* A line that joins those that wait is the last of the log.
LEMMA AppendToConcat ==
    ASSUME NEW S, NEW s \in Seq(S), NEW t \in Seq(S), NEW e \in S
    PROVE  s \o Append(t, e) = Append(s \o t, e)
<1> DEFINE both == s \o t
           p == Append(t, e)
<1>1. /\ both \in Seq(S) /\ p \in Seq(S) 
      /\ Len(s) \in Nat /\ Len(t) \in Nat
      /\ Len(both) = Len(s) + Len(t) /\ Len(p) = Len(t) + 1
      /\ \A i \in 1..Len(s) : both[i] = s[i]
      /\ \A i \in 1..Len(t) : both[Len(s) + i] = t[i]
      /\ \A i \in 1..Len(t) : p[i] = t[i]
      /\ p[Len(t) + 1] = e
  BY ConcatOfSequences, AppendToSequence
<1> HIDE DEF both, p
<1> DEFINE one == s \o p
           two == Append(both, e)
<1>2. /\ one \in Seq(S) /\ Len(one) = Len(s) + Len(p)
      /\ \A i \in 1..Len(s) : one[i] = s[i]
      /\ \A i \in 1..Len(p) : one[Len(s) + i] = p[i]
  <2>1. p \in Seq(S)
    BY <1>1
  <2> QED
    BY <2>1, ConcatOfSequences
<1>3. /\ two \in Seq(S) /\ Len(two) = Len(both) + 1
      /\ \A i \in 1..Len(both) : two[i] = both[i]
      /\ two[Len(both) + 1] = e
  BY <1>1, AppendToSequence
<1> HIDE DEF one, two
<1>4. Len(one) = Len(two)
  BY <1>1, <1>2, <1>3
<1>5. ASSUME NEW i \in 1..Len(one)
      PROVE  one[i] = two[i]
  <2>1. CASE i \in 1..Len(s)
    <3>1. i \in 1..Len(both)
      BY <1>1, <2>1
    <3> QED
      BY <1>1, <1>2, <1>3, <2>1, <3>1
  <2>2. CASE i \notin 1..Len(s)
    <3>1. PICK j : j = i - Len(s)
      OBVIOUS
    <3>2. j \in 1..Len(p) /\ i = Len(s) + j /\ (j \in 1..Len(t) \/ j = Len(t) + 1)
      <4>1. Len(s) \in Nat /\ Len(t) \in Nat /\ Len(p) = Len(t) + 1 /\ Len(one) = Len(s) + Len(p)
        BY <1>1, <1>2
      <4> QED
        BY <2>2, <3>1, <4>1
    <3>3. one[i] = p[j]
      BY <1>2, <3>2
    <3>4. CASE j \in 1..Len(t)
      <4>1. i \in 1..Len(both)
        BY <1>1, <3>2, <3>4
      <4> QED
        BY <1>1, <1>3, <3>2, <3>3, <3>4, <4>1
    <3>5. CASE j = Len(t) + 1
      <4>1. i = Len(both) + 1
        BY <1>1, <3>2, <3>5
      <4> QED
        BY <1>1, <1>3, <3>3, <3>5, <4>1
    <3> QED
      BY <3>2, <3>4, <3>5
  <2> QED
    BY <2>1, <2>2
<1>6. one = two
  BY <1>2, <1>3, <1>4, <1>5, SameSequence
<1> QED
  BY <1>6 DEF one, two, both, p

\* A line that is written stays where it is in the log.
LEMMA HeadMovesOver ==
    ASSUME NEW S, NEW s \in Seq(S), NEW t \in Seq(S), t # <<>>
    PROVE  Append(s, Head(t)) \o Tail(t) = s \o t
<1> DEFINE f == Append(s, Head(t))
           p == Tail(t)
<1>1. /\ Len(s) \in Nat /\ Len(t) \in Nat \ {0}
      /\ Head(t) \in S /\ Head(t) = t[1]
      /\ p \in Seq(S) /\ Len(p) = Len(t) - 1
      /\ \A i \in 1..Len(t) - 1 : p[i] = t[i + 1]
  BY TailOfSequence
<1>2. /\ f \in Seq(S) /\ Len(f) = Len(s) + 1
      /\ \A i \in 1..Len(s) : f[i] = s[i]
      /\ f[Len(s) + 1] = t[1]
  BY <1>1, AppendToSequence
<1> HIDE DEF f, p
<1> DEFINE one == f \o p
           two == s \o t
<1>3. /\ one \in Seq(S) /\ Len(one) = Len(f) + Len(p)
      /\ \A i \in 1..Len(f) : one[i] = f[i]
      /\ \A i \in 1..Len(p) : one[Len(f) + i] = p[i]
  <2>1. f \in Seq(S) /\ p \in Seq(S)
    BY <1>1, <1>2
  <2> QED
    BY <2>1, ConcatOfSequences
<1>4. /\ two \in Seq(S) /\ Len(two) = Len(s) + Len(t)
      /\ \A i \in 1..Len(s) : two[i] = s[i]
      /\ \A i \in 1..Len(t) : two[Len(s) + i] = t[i]
  BY ConcatOfSequences
<1> HIDE DEF one, two
<1>5. Len(one) = Len(two)
  BY <1>1, <1>2, <1>3, <1>4
<1>6. ASSUME NEW i \in 1..Len(one)
      PROVE  one[i] = two[i]
  <2>1. CASE i \in 1..Len(s)
    <3>1. i \in 1..Len(f)
      BY <1>1, <1>2, <2>1
    <3> QED
      BY <1>2, <1>3, <1>4, <2>1, <3>1
  <2>2. CASE i = Len(s) + 1
    <3>1. i \in 1..Len(f) /\ 1 \in 1..Len(t) /\ i = Len(f)
      BY <1>1, <1>2, <2>2
    <3> QED
      BY <1>2, <1>3, <1>4, <2>2, <3>1
  <2>3. CASE i \notin 1..Len(s) + 1
    <3>1. PICK j : j = i - (Len(s) + 1)
      OBVIOUS
    <3>2. /\ j \in 1..Len(p) /\ i = Len(f) + j /\ j \in 1..Len(t) - 1
          /\ j + 1 \in 1..Len(t) /\ i = Len(s) + (j + 1)
      BY <1>1, <1>2, <1>3, <2>3, <3>1
    <3>3. one[i] = p[j]
      BY <1>3, <3>2
    <3>4. p[j] = t[j + 1]
      BY <1>1, <3>2
    <3>5. two[i] = t[j + 1]
      BY <1>4, <3>2
    <3> QED
      BY <3>3, <3>4, <3>5
  <2> QED
    BY <1>1, <2>1, <2>2, <2>3
<1>7. one = two
  BY <1>3, <1>4, <1>5, <1>6, SameSequence
<1> QED
  BY <1>7 DEF one, two, f, p

-----------------------------------------------------------------------------
(* Steps of the log *)

\* A line at the end of the file breaks off or is glued to the next.
LEMMA LogWithoutLast ==
    ASSUME NEW S, NEW R, NEW f, NEW q, LogOf(S, R, f, q), f # <<>>
    PROVE  LogOf(S, R, Front(f), q)
<1> DEFINE g == Front(f)
<1>1. /\ g \in Seq(S)
      /\ Len(f) \in Nat
      /\ Len(g) = Len(f) - 1
      /\ \A i \in 1..Len(f) - 1 : g[i] = f[i]
  BY FrontOfSequence DEF LogOf
<1> HIDE DEF g
<1>2. LogOf(S, R, g, q)
  BY <1>1 DEF LogOf, Related
<1> QED
  BY <1>2 DEF g

\* A write fails, and its line leaves the queue.
LEMMA LogWithoutHead ==
    ASSUME NEW S, NEW R, NEW f, NEW q, LogOf(S, R, f, q), q # <<>>
    PROVE  LogOf(S, R, f, Tail(q))
<1> DEFINE p == Tail(q)
<1>1. /\ p \in Seq(S)
      /\ Len(q) \in Nat
      /\ Len(p) = Len(q) - 1
      /\ \A i \in 1..Len(q) - 1 : p[i] = q[i + 1]
  BY TailOfSequence DEF LogOf
<1> HIDE DEF p
<1>2. LogOf(S, R, f, p)
  BY <1>1 DEF LogOf, Related
<1> QED
  BY <1>2 DEF p

\* The process dies, and the queue with it.
LEMMA LogWithoutQueue ==
    ASSUME NEW S, NEW R, NEW f, NEW q, LogOf(S, R, f, q)
    PROVE  LogOf(S, R, f, <<>>)
  BY DEF LogOf, Related

\* A line that every other line is related to joins a sequence.
LEMMA RelatedAppend ==
    ASSUME NEW S, NEW R, NEW s \in Seq(S), NEW e \in S, Related(s, R),
           \A i \in 1..Len(s) : <<s[i], e>> \in R
    PROVE  Related(Append(s, e), R)
<1> DEFINE t == Append(s, e)
<1>1. /\ Len(s) \in Nat
      /\ Len(t) = Len(s) + 1
      /\ \A i \in 1..Len(s) : t[i] = s[i]
      /\ t[Len(s) + 1] = e
      /\ \A i \in 1..Len(t) : i \in 1..Len(s) \/ i = Len(s) + 1
  BY AppendToSequence
<1> HIDE DEF t
<1>2. ASSUME NEW i \in 1..Len(t), NEW j \in 1..Len(t), i < j
      PROVE  <<t[i], t[j]>> \in R
  <2>1. i \in 1..Len(s)
    BY <1>1, <1>2
  <2>2. CASE j \in 1..Len(s)
    BY <1>1, <1>2, <2>1, <2>2 DEF Related
  <2>3. CASE j = Len(s) + 1
    BY <1>1, <2>1, <2>3
  <2> QED
    BY <1>1, <2>2, <2>3
<1> QED
  BY <1>2 DEF Related, t

\* A write takes the line at the head of the queue to the end of the file.
LEMMA LogAfterWrite ==
    ASSUME NEW S, NEW R, NEW f, NEW q, LogOf(S, R, f, q), q # <<>>
    PROVE  LogOf(S, R, Append(f, Head(q)), Tail(q))
<1> DEFINE g == Append(f, Head(q))
           p == Tail(q)
<1>1. /\ p \in Seq(S)
      /\ Head(q) \in S
      /\ Head(q) = q[1]
      /\ Len(q) \in Nat \ {0}
      /\ Len(p) = Len(q) - 1
      /\ \A i \in 1..Len(q) - 1 : p[i] = q[i + 1]
  BY TailOfSequence DEF LogOf
<1>2. /\ g \in Seq(S)
      /\ Len(f) \in Nat
      /\ \A i \in 1..Len(f) : g[i] = f[i]
      /\ g[Len(f) + 1] = q[1]
      /\ \A i \in 1..Len(g) : i \in 1..Len(f) \/ i = Len(f) + 1
  BY <1>1, AppendToSequence DEF LogOf
<1>3. Related(g, R)
  <2>1. \A i \in 1..Len(f) : <<f[i], Head(q)>> \in R
    BY <1>1 DEF LogOf
  <2> QED
    BY <1>1, <2>1, RelatedAppend DEF LogOf
<1>4. LogOf(S, R, f, p)
  BY LogWithoutHead
<1> HIDE DEF g, p
<1>5. ASSUME NEW i \in 1..Len(g), NEW j \in 1..Len(p)
      PROVE  <<g[i], p[j]>> \in R
  <2>1. CASE i \in 1..Len(f)
    BY <1>2, <1>4, <2>1 DEF LogOf
  <2>2. CASE i = Len(f) + 1
    <3>1. <<q[1], q[j + 1]>> \in R
      BY <1>1 DEF LogOf, Related
    <3> QED
      BY <1>1, <1>2, <2>2, <3>1
  <2> QED
    BY <1>2, <2>1, <2>2
<1>6. LogOf(S, R, g, p)
  BY <1>2, <1>3, <1>4, <1>5 DEF LogOf
<1> QED
  BY <1>6 DEF g, p

\* A log over a set is a log over a larger one.
LEMMA LogOverMore ==
    ASSUME NEW S, NEW T, S \subseteq T, NEW R, NEW f, NEW q, LogOf(S, R, f, q)
    PROVE  LogOf(T, R, f, q)
  BY DEF LogOf, Related

\* append() puts a new line behind all others.
LEMMA LogAfterAppend ==
    ASSUME NEW S, NEW T, S \subseteq T, NEW R, NEW f, NEW q, LogOf(S, R, f, q),
           NEW e \in T,
           \A d \in S : <<d, e>> \in R
    PROVE  LogOf(T, R, f, Append(q, e))
<1> DEFINE p == Append(q, e)
<1>1. LogOf(T, R, f, q)
  BY LogOverMore
<1>2. /\ p \in Seq(T)
      /\ Len(q) \in Nat
      /\ \A i \in 1..Len(q) : p[i] = q[i]
      /\ p[Len(q) + 1] = e
      /\ \A i \in 1..Len(p) : i \in 1..Len(q) \/ i = Len(q) + 1
  BY <1>1, AppendToSequence DEF LogOf
<1>3. Related(p, R)
  <2>1. \A i \in 1..Len(q) : <<q[i], e>> \in R
    BY DEF LogOf
  <2> QED
    BY <1>1, <2>1, RelatedAppend DEF LogOf
<1> HIDE DEF p
<1>4. ASSUME NEW i \in 1..Len(f), NEW j \in 1..Len(p)
      PROVE  <<f[i], p[j]>> \in R
  <2>1. f[i] \in S
    BY DEF LogOf
  <2> QED
    BY <1>2, <2>1 DEF LogOf
<1>5. LogOf(T, R, f, p)
  BY <1>1, <1>2, <1>3, <1>4 DEF LogOf
<1> QED
  BY <1>5 DEF p

-----------------------------------------------------------------------------
(* Induction *)

\* A set of natural numbers has a least element.
LEMMA LeastNatural ==
    ASSUME NEW T, T \subseteq Nat, T # {}
    PROVE  \E n \in T : \A m \in T : n =< m
<1> DEFINE Less == OpToRel(<, Nat)
<1>1. IsWellFoundedOn(Less, Nat)
  BY NatLessThanWellFounded
<1>2. \A m, n \in Nat : m < n => <<m, n>> \in Less
  BY DEF OpToRel
<1> HIDE DEF Less
<1>3. PICK n \in T : \A m \in T : ~ (<<m, n>> \in Less)
  BY <1>1, WFMin
<1>4. \A m \in T : m \in Nat /\ n \in Nat /\ ~(m < n)
  BY <1>2, <1>3
<1>5. \A m \in T : n =< m
  BY <1>4
<1> QED
  BY <1>5

\* Induction over the natural numbers, about a set.
LEMMA Induction ==
    ASSUME NEW T, 0 \in T, \A n \in Nat : n \in T => n + 1 \in T
    PROVE  Nat \subseteq T
<1> SUFFICES ASSUME Nat \ T # {} PROVE FALSE
  OBVIOUS
<1>1. PICK n \in Nat \ T : \A m \in Nat \ T : n =< m
  BY LeastNatural
<1>2. n # 0 /\ n - 1 \in Nat /\ n - 1 \notin Nat \ T
  BY <1>1
<1>3. n - 1 \in T /\ (n - 1) + 1 = n
  BY <1>2
<1> QED
  BY <1>1, <1>2, <1>3

\* The greatest element of a set of indices.
LEMMA MaxOfIndices ==
    ASSUME NEW n \in Nat, NEW S, S \subseteq 1..n, S # {}
    PROVE  /\ Max(S) \in S
           /\ \A i \in S : Max(S) >= i
<1> DEFINE T == {m \in Nat : \A i \in S : i =< m}
<1>1. n \in T
  OBVIOUS
<1>2. PICK m \in T : \A k \in T : m =< k
  BY <1>1, LeastNatural
<1>3. m \in S
  <2> SUFFICES ASSUME m \notin S PROVE FALSE
    OBVIOUS
  <2>1. \A i \in S : i =< m - 1 /\ m - 1 \in Nat
    BY <1>2
  <2>2. m - 1 \in T
    BY <2>1
  <2> QED
    BY <1>2, <2>2
<1>4. \E i \in S : \A j \in S : i >= j
  BY <1>2, <1>3
<1> QED
  BY <1>4 DEF Max

\* The greatest of the first k + 1 indices is the last, and the first k are the others.
LEMMA MaxOfInterval ==
    ASSUME NEW k \in Nat
    PROVE  /\ Max(1..k + 1) = k + 1
           /\ 1..k + 1 # {}
           /\ (1..k + 1) \ {k + 1} = 1..k
<1>1. k + 1 \in Nat /\ 1..k + 1 \subseteq 1..k + 1 /\ k + 1 \in 1..k + 1
  OBVIOUS
<1>2. Max(1..k + 1) \in 1..k + 1 /\ \A i \in 1..k + 1 : Max(1..k + 1) >= i
  BY <1>1, MaxOfIndices
<1>3. Max(1..k + 1) = k + 1
  BY <1>1, <1>2
<1>4. (1..k + 1) \ {k + 1} = 1..k
  OBVIOUS
<1> QED
  BY <1>1, <1>3, <1>4

\* f is what `step` makes of `base` on the indices 1..n, one after the other.
IteratedBy(f, A, base, step, n) ==
    /\ f \in [0..n -> A]
    /\ f[0] = base
    /\ \A i \in 1..n : f[i] = step[<<f[i - 1], i>>]

\* Such a function exists.
LEMMA Recursion ==
    ASSUME NEW A, NEW base \in A, NEW n \in Nat, NEW step \in [A \X (1..n) -> A]
    PROVE  \E f : IteratedBy(f, A, base, step, n)
<1> DEFINE T == {k \in Nat : k =< n => \E f : IteratedBy(f, A, base, step, k)}
<1>1. 0 \in T
  <2> DEFINE f == [i \in 0..0 |-> base]
  <2>1. IteratedBy(f, A, base, step, 0)
    BY DEF IteratedBy
  <2> QED
    BY <2>1
<1>2. ASSUME NEW k \in Nat, k + 1 =< n, NEW f, IteratedBy(f, A, base, step, k)
      PROVE  \E g : IteratedBy(g, A, base, step, k + 1)
  <2> HIDE DEF T
  <2> DEFINE g == [i \in 0..k + 1 |-> IF i = k + 1 THEN step[<<f[k], k + 1>>] ELSE f[i]]
  <2>1. /\ f \in [0..k -> A] /\ f[0] = base
        /\ \A i \in 1..k : f[i] = step[<<f[i - 1], i>>]
    BY <1>2 DEF IteratedBy
  <2>2. step[<<f[k], k + 1>>] \in A
    BY <1>2, <2>1
  <2>3. g \in [0..k + 1 -> A]
    BY <2>1, <2>2
  <2>4. g[0] = base
    BY <2>1
  <2>5. ASSUME NEW i \in 1..k + 1
        PROVE  g[i] = step[<<g[i - 1], i>>]
    <3>1. g[i - 1] = f[i - 1]
      OBVIOUS
    <3>2. CASE i = k + 1
      <4>1. g[i] = step[<<f[k], i>>] /\ i - 1 = k
        BY <3>2
      <4>2. g[i - 1] = f[k]
        BY <3>1, <4>1
      <4> HIDE DEF g
      <4> QED
        BY <4>1, <4>2
    <3>3. CASE i # k + 1
      <4>1. i \in 1..k /\ g[i] = f[i]
        BY <3>3
      <4> QED
        BY <2>1, <3>1, <4>1
    <3> QED
      BY <3>2, <3>3
  <2> HIDE DEF g
  <2> QED
    BY <2>3, <2>4, <2>5 DEF IteratedBy
<1>3. \A k \in Nat : k \in T => k + 1 \in T
  BY <1>2
<1> HIDE DEF T
<1>4. n \in T
  BY <1>1, <1>3, Induction
<1> QED
  BY <1>4 DEF T

\* f is what `step` makes of `base` on the sets of indices, the greatest index last:
\* how the folds of the community modules go through a sequence.
FoldedBy(f, A, base, step, n) ==
    /\ f \in [SUBSET (1..n) -> A]
    /\ f[{}] = base
    /\ \A S \in SUBSET (1..n) : S # {} => f[S] = step[<<f[S \ {Max(S)}], Max(S)>>]

\* Such a function exists.
LEMMA SetRecursion ==
    ASSUME NEW A, NEW base \in A, NEW n \in Nat, NEW step \in [A \X (1..n) -> A]
    PROVE  \E f : FoldedBy(f, A, base, step, n)
<1> DEFINE T == {k \in Nat : k =< n => \E f : FoldedBy(f, A, base, step, k)}
<1>1. 0 \in T
  <2> DEFINE f == [S \in SUBSET (1..0) |-> base]
  <2>1. f \in [SUBSET (1..0) -> A] /\ f[{}] = base
    OBVIOUS
  <2>2. \A S \in SUBSET (1..0) : S = {}
    OBVIOUS
  <2> HIDE DEF f
  <2>3. FoldedBy(f, A, base, step, 0)
    BY <2>1, <2>2 DEF FoldedBy
  <2> QED
    BY <2>3
<1>2. ASSUME NEW k \in Nat, k + 1 =< n, NEW f, FoldedBy(f, A, base, step, k)
      PROVE  \E g : FoldedBy(g, A, base, step, k + 1)
  <2> HIDE DEF T
  <2> DEFINE g == [S \in SUBSET (1..k + 1) |->
                     IF k + 1 \in S THEN step[<<f[S \ {k + 1}], k + 1>>] ELSE f[S]]
  <2>1. /\ f \in [SUBSET (1..k) -> A] /\ f[{}] = base
        /\ \A S \in SUBSET (1..k) : S # {} => f[S] = step[<<f[S \ {Max(S)}], Max(S)>>]
    BY <1>2 DEF FoldedBy
  <2>2. ASSUME NEW S \in SUBSET (1..k + 1)
        PROVE  /\ S \ {k + 1} \in SUBSET (1..k)
               /\ k + 1 \notin S => S \in SUBSET (1..k)
    OBVIOUS
  <2>3. g \in [SUBSET (1..k + 1) -> A]
    <3>1. ASSUME NEW S \in SUBSET (1..k + 1)
          PROVE  (IF k + 1 \in S THEN step[<<f[S \ {k + 1}], k + 1>>] ELSE f[S]) \in A
      BY <1>2, <2>1, <2>2
    <3> QED
      BY <3>1
  <2>4. g[{}] = base
    BY <2>1
  <2>5. ASSUME NEW S \in SUBSET (1..k + 1), S # {}
        PROVE  g[S] = step[<<g[S \ {Max(S)}], Max(S)>>]
    <3> DEFINE m == Max(S)
    <3>1. m \in S /\ \A i \in S : m >= i
      <4>1. k + 1 \in Nat /\ S \subseteq 1..k + 1
        OBVIOUS
      <4> HIDE DEF g
      <4> QED
        BY <2>5, <4>1, MaxOfIndices
    <3> HIDE DEF m
    <3>2. CASE k + 1 \in S
      <4>1. m = k + 1
        <5>1. m \in 1..k + 1 /\ m >= k + 1
          BY <3>1, <3>2
        <5> QED
          BY <5>1
      <4>2. S \ {k + 1} \in SUBSET (1..k + 1) /\ k + 1 \notin S \ {k + 1}
        OBVIOUS
      <4>3. g[S \ {k + 1}] = f[S \ {k + 1}]
        BY <4>2
      <4>4. g[S] = step[<<f[S \ {k + 1}], k + 1>>]
        BY <3>2
      <4>5. g[S] = step[<<g[S \ {m}], m>>]
        BY <4>1, <4>3, <4>4
      <4> QED
        BY <4>5 DEF m
    <3>3. CASE k + 1 \notin S
      <4>1. S \in SUBSET (1..k) /\ S \ {m} \in SUBSET (1..k + 1) /\ k + 1 \notin S \ {m}
        BY <2>2, <3>3
      <4>2. g[S] = f[S] /\ g[S \ {m}] = f[S \ {m}]
        BY <3>3, <4>1
      <4>3. f[S] = step[<<f[S \ {m}], m>>]
        BY <2>1, <2>5, <4>1 DEF m
      <4>4. g[S] = step[<<g[S \ {m}], m>>]
        BY <4>2, <4>3
      <4> QED
        BY <4>4 DEF m
    <3> QED
      BY <3>2, <3>3
  <2> HIDE DEF g
  <2>6. FoldedBy(g, A, base, step, k + 1)
    BY <2>3, <2>4, <2>5 DEF FoldedBy
  <2> QED
    BY <2>6
<1>3. \A k \in Nat : k \in T => k + 1 \in T
  BY <1>2
<1> HIDE DEF T
<1>4. n \in T
  BY <1>1, <1>3, Induction
<1> QED
  BY <1>4 DEF T
=============================================================================
