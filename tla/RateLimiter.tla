----------------------------- MODULE RateLimiter -----------------------------
(***************************************************************************)
(* The fixed-window limiter of src/src/http/rate-limit.js: every client    *)
(* address has a bucket that counts its requests until it is due to be     *)
(* reset; buckets past their time are thrown away when there are too many. *)
(***************************************************************************)
EXTENDS Integers, FiniteSets

CONSTANTS
    Clients,          \* addresses
    Limit,            \* requests per window; zero or less turns the limiter off
    WindowMs,
    MaxBuckets,       \* buckets kept before expired ones are evicted (10 000)
    MaxNow            \* bound: Date.now() stays within 0..MaxNow

ASSUME LimiterAssumption ==
    /\ Limit \in Int
    /\ WindowMs \in Nat \ {0}
    /\ MaxBuckets \in Nat
    /\ MaxNow \in Nat

VARIABLES
    buckets,          \* client -> [count, resetAt], for the clients that have one
    now,              \* Date.now()
    latest            \* history: when each client's latest window began and how
                      \* many requests it let through

limiterVars == <<buckets, now, latest>>

LimiterInit ==
    /\ buckets = [c \in {} |-> [count |-> 0, resetAt |-> 0]]
    /\ now = 0
    /\ latest = [c \in Clients |-> [from |-> -WindowMs, granted |-> 0]]

\* The client has no bucket that still counts: its request opens a window.
Opens(c) == c \in DOMAIN buckets => buckets[c].resetAt =< now

\* Its bucket with this request counted - a refused request counts too.
Counted(c) ==
    IF Opens(c) THEN [count |-> 1, resetAt |-> now + WindowMs]
                ELSE [buckets[c] EXCEPT !.count = @ + 1]

Allowed(c) == Limit =< 0 \/ Counted(c).count =< Limit

\* Wrong on purpose: eviction drops buckets that still count.
KeptOnlyOne(c) == IF Cardinality(DOMAIN buckets \cup {c}) > MaxBuckets THEN {c}
                                                                     ELSE DOMAIN buckets \cup {c}

\* The clients that keep a bucket: with too many of them, the expired ones go.
Kept(c) ==
    IF Cardinality(DOMAIN buckets \cup {c}) > MaxBuckets
    THEN {c} \cup {d \in DOMAIN buckets : buckets[d].resetAt > now}
    ELSE {c} \cup DOMAIN buckets

\* consume(c), whatever it answers.
Consume(c) ==
    IF Limit =< 0 THEN UNCHANGED limiterVars
    ELSE /\ buckets' = [d \in Kept(c) |-> IF d = c THEN Counted(c) ELSE buckets[d]]
         /\ latest' = [latest EXCEPT ![c] =
                         [from    |-> IF Opens(c) THEN now ELSE @.from,
                          granted |-> (IF Opens(c) THEN 0 ELSE @.granted)
                                        + (IF Allowed(c) THEN 1 ELSE 0)]]
         /\ UNCHANGED now

TimePasses ==
    /\ now < MaxNow
    /\ now' = now + 1
    /\ UNCHANGED <<buckets, latest>>

LimiterNext == TimePasses \/ \E c \in Clients : Consume(c)

LimiterSpec == LimiterInit /\ [][LimiterNext]_limiterVars

LimiterTypeOK ==
    /\ DOMAIN buckets \subseteq Clients
    /\ \A c \in DOMAIN buckets : buckets[c] \in [count : Nat, resetAt : Nat]
    /\ now \in 0..MaxNow
    /\ latest \in [Clients -> [from : Int, granted : Nat]]

(***************************************************************************)
(* A client's windows do not overlap, and none lets more than Limit        *)
(* requests through, although buckets are evicted and come back: so any    *)
(* WindowMs of time meets at most two windows, and the worst a client can  *)
(* do is twice the limit, around the end of one.                           *)
(***************************************************************************)
AtMostTwiceTheLimit ==
    [][Limit > 0 =>
         \A c \in Clients :
           /\ latest[c]'.granted =< Limit
           /\ latest[c]'.from # latest[c].from =>
                latest[c]'.from >= latest[c].from + WindowMs]_limiterVars
=============================================================================
