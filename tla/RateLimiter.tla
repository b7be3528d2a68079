----------------------------- MODULE RateLimiter -----------------------------
(***************************************************************************)
(* The publish rate limiter: one token bucket per principal, kept for the  *)
(* principals seen most recently for the first time.  Time is counted in   *)
(* ticks, in each of which PerTick tokens flow; fractions of a token are   *)
(* left out.                                                               *)
(***************************************************************************)
EXTENDS Integers, Sequences

CONSTANTS Principals,   \* who may publish
          PerTick,      \* --publish-rate-limit-per-sec
          Burst,        \* --publish-rate-limit-burst
          PrincipalCap, \* DEFAULT_RATE_LIMIT_PRINCIPAL_CAPACITY
          MaxClock      \* bound: ticks

ASSUME RateLimiterAssumption ==
    /\ {PerTick, Burst, PrincipalCap} \subseteq Nat \ {0}
    /\ MaxClock \in Nat

VARIABLES buckets,  \* RateLimiterState.buckets: tokens and last_refill
          order,    \* RateLimiterState.order: principals, first seen first
          clock,    \* Instant::now
          granted   \* history: when each tracked principal was let through

rateVars == <<buckets, order, clock, granted>>

RateInit ==
    /\ buckets = <<>>
    /\ order = <<>>
    /\ clock = 0
    /\ granted = [p \in Principals |-> <<>>]

Tick ==
    /\ clock < MaxClock
    /\ clock' = clock + 1
    /\ UNCHANGED <<buckets, order, granted>>

IsNew(p) == p \notin DOMAIN buckets

\* A principal seen for the first time starts with a full bucket.
BucketOf(p) == IF IsNew(p) THEN [tokens |-> Burst, last |-> clock] ELSE buckets[p]

\* Mutation: an idle principal saves up more than a burst.
RefilledUncapped(p) == BucketOf(p).tokens + (clock - BucketOf(p).last) * PerTick

Refilled(p) ==
    LET tokens == BucketOf(p).tokens + (clock - BucketOf(p).last) * PerTick
    IN  IF tokens > Burst THEN Burst ELSE tokens

Allows(p) == Refilled(p) >= 1

\* RateLimiter::allow: refill, spend if there is something to spend, and
\* drop the oldest bucket when this one is new and one too many.
Allow(p) ==
    LET bucket == [tokens |-> IF Allows(p) THEN Refilled(p) - 1 ELSE Refilled(p),
                   last |-> clock]
        line == IF IsNew(p) THEN Append(order, p) ELSE order
        gone == IF Len(line) > PrincipalCap THEN {Head(line)} ELSE {}
    IN  /\ buckets' = [q \in (DOMAIN buckets \cup {p}) \ gone |->
                          IF q = p THEN bucket ELSE buckets[q]]
        /\ order' = IF gone = {} THEN line ELSE Tail(line)
        /\ granted' = [q \in Principals |->
               IF q \in gone THEN <<>>
               ELSE IF q = p /\ Allows(p) THEN Append(granted[q], clock) ELSE granted[q]]
        /\ UNCHANGED clock

\* A publish is let through exactly when it keeps every window of time
\* within the burst and what flowed in since: over any number of
\* connections of a principal neither more gets through nor less, as long
\* as its bucket is not dropped.
RateExact ==
    \A p \in Principals :
        Allows(p) <=> \A i \in DOMAIN granted[p] :
                         Len(granted[p]) - i + 2 <= Burst + (clock - granted[p][i]) * PerTick
=============================================================================
