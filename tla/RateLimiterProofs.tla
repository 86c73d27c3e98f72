-------------------------- MODULE RateLimiterProofs --------------------------
(***************************************************************************)
(* The limiter, for every number of clients, every limit and window: its   *)
(* types, and that a client never gets more than twice the limit through   *)
(* in one window's time.                                                   *)
(***************************************************************************)
EXTENDS RateLimiter, TLAPS

(***************************************************************************)
(* What the history says of a client agrees with its bucket, and a client  *)
(* without one is past its latest window - evicted or not.                 *)
(***************************************************************************)
Synced ==
    Limit > 0 =>
      \A c \in Clients :
        /\ latest[c].granted =< Limit
        /\ c \in DOMAIN buckets =>
             /\ latest[c].from + WindowMs = buckets[c].resetAt
             /\ latest[c].granted =< buckets[c].count
        /\ c \notin DOMAIN buckets => latest[c].from + WindowMs =< now

LimiterInv == LimiterTypeOK /\ Synced

\* It holds at the start.
LEMMA LimiterInvHolds == LimiterInit => LimiterInv
BY LimiterAssumption DEF LimiterInit, LimiterInv, LimiterTypeOK, Synced

-----------------------------------------------------------------------------
(* One request *)

\* The bucket with the request counted is a bucket.
LEMMA CountedTyped ==
    ASSUME LimiterTypeOK, NEW c \in Clients
    PROVE  /\ Counted(c).count \in Nat
           /\ Counted(c).resetAt \in Nat
           /\ Counted(c) \in [count : Nat, resetAt : Nat]
<1>1. CASE Opens(c)
  BY <1>1, LimiterAssumption DEF LimiterTypeOK, Counted
<1>2. CASE ~Opens(c)
  <2>1. buckets[c] \in [count : Nat, resetAt : Nat]
    BY <1>2 DEF LimiterTypeOK, Opens
  <2> QED
    BY <1>2, <2>1 DEF Counted
<1> QED
  BY <1>1, <1>2

\* The clients that keep their buckets, as consume() leaves them.
LEMMA KeptBuckets ==
    ASSUME LimiterTypeOK, NEW c \in Clients
    PROVE  /\ c \in Kept(c)
           /\ Kept(c) \subseteq DOMAIN buckets \cup {c}
           /\ \A d \in DOMAIN buckets \ Kept(c) : buckets[d].resetAt =< now
<1>1. \A d \in DOMAIN buckets : buckets[d].resetAt \in Nat
  BY DEF LimiterTypeOK
<1> QED
  BY <1>1 DEF Kept, LimiterTypeOK

\* A request keeps the types.
LEMMA ConsumeTyped ==
    ASSUME LimiterTypeOK, NEW c \in Clients, Consume(c), Limit > 0
    PROVE  LimiterTypeOK'
<1>1. /\ buckets' = [d \in Kept(c) |-> IF d = c THEN Counted(c) ELSE buckets[d]]
      /\ now' = now
      /\ latest' = [latest EXCEPT ![c] =
                      [from    |-> IF Opens(c) THEN now ELSE @.from,
                       granted |-> (IF Opens(c) THEN 0 ELSE @.granted)
                                     + (IF Allowed(c) THEN 1 ELSE 0)]]
  BY LimiterAssumption DEF Consume
<1>2. \A d \in DOMAIN buckets' : buckets'[d] \in [count : Nat, resetAt : Nat]
  BY <1>1, CountedTyped, KeptBuckets DEF LimiterTypeOK
<1>3. DOMAIN buckets' \subseteq Clients
  BY <1>1, KeptBuckets DEF LimiterTypeOK
<1>4. latest' \in [Clients -> [from : Int, granted : Nat]]
  BY <1>1 DEF LimiterTypeOK
<1> QED
  BY <1>1, <1>2, <1>3, <1>4 DEF LimiterTypeOK

\* What a request does to the history of the client that made it.
LEMMA ConsumeCounts ==
    ASSUME LimiterInv, NEW c \in Clients, Consume(c), Limit > 0
    PROVE  /\ c \in DOMAIN buckets'
           /\ latest'[c].granted =< Limit
           /\ latest'[c].granted =< buckets'[c].count
           /\ latest'[c].from + WindowMs = buckets'[c].resetAt
           /\ latest'[c].from # latest[c].from =>
                latest'[c].from >= latest[c].from + WindowMs
<1> USE LimiterAssumption
<1>1. /\ c \in DOMAIN buckets'
      /\ buckets'[c] = Counted(c)
  BY KeptBuckets DEF Consume, LimiterInv
<1>2. latest'[c] = [from    |-> IF Opens(c) THEN now ELSE latest[c].from,
                    granted |-> (IF Opens(c) THEN 0 ELSE latest[c].granted)
                                  + (IF Allowed(c) THEN 1 ELSE 0)]
  BY DEF Consume, LimiterInv, LimiterTypeOK
<1>3. /\ latest[c].from \in Int
      /\ latest[c].granted \in Nat
      /\ now \in Nat
  BY DEF LimiterInv, LimiterTypeOK
<1>4. CASE Opens(c)
  <2>1. latest[c].from + WindowMs =< now
    BY <1>4 DEF LimiterInv, Synced, Opens
  <2>2. Counted(c) = [count |-> 1, resetAt |-> now + WindowMs]
    BY <1>4 DEF Counted
  <2> QED
    BY <1>1, <1>2, <1>3, <1>4, <2>1, <2>2 DEF Allowed
<1>5. CASE ~Opens(c)
  <2>1. /\ c \in DOMAIN buckets
        /\ buckets[c] \in [count : Nat, resetAt : Nat]
    BY <1>5 DEF Opens, LimiterInv, LimiterTypeOK
  <2>2. /\ Counted(c).count = buckets[c].count + 1
        /\ Counted(c).resetAt = buckets[c].resetAt
    BY <1>5, <2>1 DEF Counted
  <2>3. /\ latest[c].granted =< Limit
        /\ latest[c].granted =< buckets[c].count
        /\ latest[c].from + WindowMs = buckets[c].resetAt
    BY <2>1 DEF LimiterInv, Synced
  <2> QED
    BY <1>1, <1>2, <1>3, <1>5, <2>1, <2>2, <2>3 DEF Allowed
<1> QED
  BY <1>4, <1>5

\* Another client keeps its history, and its bucket unless that had expired.
LEMMA ConsumeSparesOthers ==
    ASSUME LimiterInv, NEW c \in Clients, Consume(c), Limit > 0, NEW d \in Clients, d # c
    PROVE  /\ latest'[d] = latest[d]
           /\ d \in DOMAIN buckets' => d \in DOMAIN buckets /\ buckets'[d] = buckets[d]
           /\ d \notin DOMAIN buckets' => latest[d].from + WindowMs =< now
<1> USE LimiterAssumption
<1>1. /\ latest'[d] = latest[d]
      /\ DOMAIN buckets' = Kept(c)
      /\ d \in Kept(c) => buckets'[d] = buckets[d]
  BY DEF Consume, LimiterInv, LimiterTypeOK
<1>2. Kept(c) \subseteq DOMAIN buckets \cup {c}
  BY KeptBuckets DEF LimiterInv
<1>3. ASSUME d \in DOMAIN buckets, d \notin Kept(c)
      PROVE  latest[d].from + WindowMs =< now
  <2>1. buckets[d].resetAt =< now
    BY <1>3, KeptBuckets DEF LimiterInv
  <2>2. latest[d].from + WindowMs = buckets[d].resetAt
    BY <1>3 DEF LimiterInv, Synced
  <2> QED
    BY <2>1, <2>2
<1>4. d \notin DOMAIN buckets => latest[d].from + WindowMs =< now
  BY DEF LimiterInv, Synced
<1> QED
  BY <1>1, <1>2, <1>3, <1>4

-----------------------------------------------------------------------------
(* Every step *)

\* A step of the limiter keeps the invariant and the promise.
LEMMA LimiterStep ==
    ASSUME LimiterInv, [LimiterNext]_limiterVars
    PROVE  /\ LimiterInv'
           /\ Limit > 0 =>
                \A c \in Clients :
                  /\ latest'[c].granted =< Limit
                  /\ latest'[c].from # latest[c].from =>
                       latest'[c].from >= latest[c].from + WindowMs
<1> USE LimiterAssumption
<1>1. CASE UNCHANGED limiterVars
  BY <1>1 DEF LimiterInv, LimiterTypeOK, Synced, limiterVars
<1>2. CASE TimePasses
  <2>1. /\ buckets' = buckets
        /\ latest' = latest
        /\ now' \in 0..MaxNow
        /\ now' >= now
        /\ now \in Nat
    BY <1>2 DEF TimePasses, LimiterInv, LimiterTypeOK
  <2>2. LimiterTypeOK'
    BY <2>1 DEF LimiterInv, LimiterTypeOK
  <2>3. \A c \in Clients : latest[c].from \in Int
    BY DEF LimiterInv, LimiterTypeOK
  <2>4. Synced'
    BY <2>1, <2>3 DEF LimiterInv, Synced
  <2> QED
    BY <2>1, <2>2, <2>4 DEF LimiterInv, Synced
<1>3. ASSUME NEW c \in Clients, Consume(c), Limit =< 0
      PROVE  UNCHANGED limiterVars
  BY <1>3 DEF Consume
<1>4. ASSUME NEW c \in Clients, Consume(c), Limit > 0
      PROVE  /\ LimiterInv'
             /\ \A d \in Clients :
                  /\ latest'[d].granted =< Limit
                  /\ latest'[d].from # latest[d].from =>
                       latest'[d].from >= latest[d].from + WindowMs
  <2>1. LimiterTypeOK'
    BY <1>4, ConsumeTyped DEF LimiterInv
  <2>2. now' = now
    BY <1>4 DEF Consume
  <2>3. ASSUME NEW d \in Clients
        PROVE  /\ latest'[d].granted =< Limit
               /\ d \in DOMAIN buckets' =>
                    /\ latest'[d].from + WindowMs = buckets'[d].resetAt
                    /\ latest'[d].granted =< buckets'[d].count
               /\ d \notin DOMAIN buckets' => latest'[d].from + WindowMs =< now
               /\ latest'[d].from # latest[d].from =>
                    latest'[d].from >= latest[d].from + WindowMs
    <3>1. CASE d = c
      BY <1>4, <3>1, ConsumeCounts
    <3>2. CASE d # c
      <4>1. /\ latest'[d] = latest[d]
            /\ d \in DOMAIN buckets' => d \in DOMAIN buckets /\ buckets'[d] = buckets[d]
            /\ d \notin DOMAIN buckets' => latest[d].from + WindowMs =< now
        BY <1>4, <3>2, ConsumeSparesOthers
      <4> QED
        BY <1>4, <4>1 DEF LimiterInv, Synced
    <3> QED
      BY <3>1, <3>2
  <2>4. Synced'
    BY <2>2, <2>3 DEF Synced
  <2> QED
    BY <2>1, <2>3, <2>4 DEF LimiterInv
<1> QED
  BY <1>1, <1>2, <1>3, <1>4 DEF LimiterNext

\* Every variable of the limiter keeps its type.
THEOREM LimiterTypes == LimiterSpec => []LimiterTypeOK
<1>1. LimiterInv => LimiterTypeOK
  BY DEF LimiterInv
<1> QED
  BY <1>1, LimiterInvHolds, LimiterStep, PTL DEF LimiterSpec

(***************************************************************************)
(* A client's windows never overlap, although buckets are evicted, and     *)
(* none lets more than Limit requests through.                             *)
(***************************************************************************)
THEOREM LimiterLimits == LimiterSpec => AtMostTwiceTheLimit
<1>1. LimiterInv /\ [LimiterNext]_limiterVars
        => [Limit > 0 =>
              \A c \in Clients :
                /\ latest[c]'.granted =< Limit
                /\ latest[c]'.from # latest[c].from =>
                     latest[c]'.from >= latest[c].from + WindowMs]_limiterVars
  BY LimiterStep
<1> QED
  BY <1>1, LimiterInvHolds, LimiterStep, PTL DEF LimiterSpec, AtMostTwiceTheLimit
=============================================================================
