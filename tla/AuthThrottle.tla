----------------------------- MODULE AuthThrottle -----------------------------
(***************************************************************************)
(* AuthThrottleService as operators on its map from (email, client) pairs to *)
(* the times of recent failures and the end of a block; 0 stands for null.   *)
(***************************************************************************)
EXTENDS RateLimiter, Sequences

CONSTANTS
  FailureLimit,  \* AUTH_FAILURE_LIMIT
  FailureWindow, \* AUTH_FAILURE_WINDOW_MINUTES, in ticks
  FailureBlock,  \* AUTH_FAILURE_BLOCK_MINUTES, in ticks
  MaxKeys        \* MAX_KEYS

ASSUME ThrottleAssumption ==
  /\ FailureLimit \in Nat \ {0} /\ FailureWindow \in Nat \ {0}
  /\ FailureBlock \in Nat \ {0} /\ MaxKeys \in Nat \ {0}

NoEntry == [failures |-> << >>, blockedUntil |-> 0]
Entry(entries, pair) == IF pair \in DOMAIN entries THEN entries[pair] ELSE NoEntry

\* Times are in order, so the recent ones are at the end.
Recent(times, window, now) ==
  SubSeq(times, Cardinality({i \in DOMAIN times : times[i] <= now - window}) + 1, Len(times))
InWindow(times, now) == Recent(times, FailureWindow, now)

NeverBlocked(entries, pair, now) == FALSE
Blocked(entries, pair, now) == Entry(entries, pair).blockedUntil > now

\* checkAttempt of a pair that is not blocked: a block that is over is dropped.
LiftBlock(entries, pair) ==
  IF pair \in DOMAIN entries THEN [entries EXCEPT ![pair].blockedUntil = 0] ELSE entries

CountFailure(entry, now) ==
  LET failures == Append(InWindow(entry.failures, now), now)
      arms == Len(failures) >= FailureLimit /\ entry.blockedUntil <= now
  IN [failures |-> failures,
      blockedUntil |-> IF arms THEN now + FailureBlock ELSE entry.blockedUntil]

Dead(entry, now) == entry.blockedUntil <= now /\ InWindow(entry.failures, now) = << >>
SweepEntries(entries, now) == Without(entries, {p \in DOMAIN entries : Dead(entries[p], now)})

\* Failures are in order of time, so the last one is the latest.
LastActivity(entry) ==
  LET failed == IF entry.failures = << >> THEN 0 ELSE entry.failures[Len(entry.failures)]
  IN IF failed > entry.blockedUntil THEN failed ELSE entry.blockedUntil

Stalest(entries) ==
  {p \in DOMAIN entries :
     \A q \in DOMAIN entries : LastActivity(entries[p]) <= LastActivity(entries[q])}

EntryRoom(entries, now) ==
  LET swept == IF Full(entries, MaxKeys) THEN SweepEntries(entries, now) ELSE entries
  IN IF Full(swept, MaxKeys) THEN {Without(swept, {p}) : p \in Stalest(swept)} ELSE {swept}

\* The entries recordFailure(pair) may leave before its sweep.
Tracked(entries, pair, now) ==
  LET counted == CountFailure(Entry(entries, pair), now)
  IN IF pair \in DOMAIN entries THEN {With(entries, pair, counted)}
     ELSE {With(room, pair, counted) : room \in EntryRoom(entries, now)}

\* The throttle is its entries and the failures counted since the last sweep.
NewThrottle == [entries |-> << >>, calls |-> 0]
RecordFailure(throttle, pair, now) ==
  LET sweeps == throttle.calls + 1 >= SweepInterval
  IN {[entries |-> IF sweeps THEN SweepEntries(e, now) ELSE e,
       calls |-> IF sweeps THEN 0 ELSE throttle.calls + 1] :
        e \in Tracked(throttle.entries, pair, now)}

ClearFailures(throttle, pair) == [throttle EXCEPT !.entries = Without(@, {pair})]
=============================================================================
