----------------------------- MODULE RateLimiter -----------------------------
(***************************************************************************)
(* FixedWindowRateLimiter as operators on its map of buckets.  A map is a    *)
(* function whose domain is the set of tracked keys.                         *)
(***************************************************************************)
EXTENDS Integers, FiniteSets

CONSTANTS
  MaxWrites,     \* calls allowed per key and window
  RateWindow,    \* length of the fixed window, in ticks
  MaxBuckets,    \* hard cap on tracked buckets
  SweepInterval  \* calls between two sweeps

ASSUME RateLimiterAssumption ==
  /\ MaxWrites \in Nat \ {0} /\ RateWindow \in Nat \ {0}
  /\ MaxBuckets \in Nat \ {0} /\ SweepInterval \in Nat \ {0}

Without(map, keys) == [k \in DOMAIN map \ keys |-> map[k]]
With(map, key, value) == [k \in DOMAIN map \cup {key} |-> IF k = key THEN value ELSE map[k]]
Full(map, cap) == Cardinality(DOMAIN map) >= cap

Elapsed(buckets, now) == {k \in DOMAIN buckets : buckets[k].resetAt <= now}
SweepBuckets(buckets, now) == Without(buckets, Elapsed(buckets, now))

\* The buckets evictOldestWindow may pick: ties go by insertion order, which
\* the model leaves open.
EndsFirst(buckets) ==
  {k \in DOMAIN buckets : \A other \in DOMAIN buckets : buckets[k].resetAt <= buckets[other].resetAt}

\* Sweep when the map is full; evict when that has not helped.
BucketRoom(buckets, now) ==
  LET swept == IF Full(buckets, MaxBuckets) THEN SweepBuckets(buckets, now) ELSE buckets
  IN IF Full(swept, MaxBuckets) THEN {Without(swept, {k}) : k \in EndsFirst(swept)} ELSE {swept}

Current(buckets, key, now) == key \in DOMAIN buckets /\ buckets[key].resetAt > now
AllowedAnyway(buckets, key, now) == TRUE
Allowed(buckets, key, now) == Current(buckets, key, now) => buckets[key].count < MaxWrites

\* The buckets consume(key) may leave.
Counted(buckets, key, now) ==
  IF ~Current(buckets, key, now)
  THEN LET fresh == [count |-> 1, resetAt |-> now + RateWindow]
       IN IF key \in DOMAIN buckets THEN {With(buckets, key, fresh)}
          ELSE {With(room, key, fresh) : room \in BucketRoom(buckets, now)}
  ELSE IF Allowed(buckets, key, now) THEN {[buckets EXCEPT ![key].count = @ + 1]}
  ELSE {buckets}

\* A limiter is its buckets and the calls since the last sweep.
NewLimiter == [buckets |-> << >>, calls |-> 0]
Consume(limiter, key, now) ==
  LET sweeps == limiter.calls + 1 >= SweepInterval
  IN {[buckets |-> IF sweeps THEN SweepBuckets(b, now) ELSE b,
       calls |-> IF sweeps THEN 0 ELSE limiter.calls + 1] :
        b \in Counted(limiter.buckets, key, now)}
=============================================================================
