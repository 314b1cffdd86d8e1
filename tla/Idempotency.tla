---------------------------- MODULE Idempotency ----------------------------
(***************************************************************************)
(* executeIdempotent: one tenant and one scope, requests that carry a key   *)
(* and a payload, each in a transaction of its own.  The command's work and *)
(* the record of its key are committed together; an advisory lock per key   *)
(* serializes the requests of that key, and every request first deletes the *)
(* records of all keys whose retention is over.                             *)
(*                                                                         *)
(* Callers are only assumed to stop sending a key some time after its first *)
(* use (RetryWindow); CommandIntents shows that the web client does.        *)
(***************************************************************************)
EXTENDS Integers, Sequences

CONSTANTS
  Keys,        \* values of the Idempotency-Key header
  Payloads,    \* what the fingerprint of a request body tells apart
  Requests,    \* requests that may be under way at once
  None,
  Retention,   \* lifetime of a record: 24 hours
  RetryWindow, \* callers send a key only this long after its first use
  MaxDelay,    \* a request ends, or is cut off, this long after it is sent
  MaxTime      \* bound on the clock

ASSUME WindowAssumption ==
  /\ None \notin Payloads \cup Requests
  /\ Retention \in Nat /\ RetryWindow \in Nat /\ MaxDelay \in Nat /\ MaxTime \in Nat
  /\ RetryWindow + MaxDelay <= Retention

VARIABLES
  now,        \* the clock of the API, in hours
  record,     \* committed idempotency_records; payload None: no row
  effects,    \* payloads the work of each key has committed, in order
  advisory,   \* holder of the advisory lock of each key
  firstSent,  \* when a key was first used, NotSent before
  req         \* the requests under way

idemVars == <<now, record, effects, advisory, firstSent, req>>

NotSent  == -1
NoRecord == [payload |-> None, expires |-> 0]
Slot     == [pc |-> "none",      \* "sent", "purge", "lookup", "work", "commit", "answered"
             key |-> None, payload |-> None, sentAt |-> 0,
             purged  |-> {},     \* keys whose record this transaction has deleted
             expires |-> 0,      \* expires_at of the record it will insert
             answer  |-> "none"] \* "ok", "refused", "conflict", "lost"

Live(r)   == req[r].pc \notin {"none", "answered"}
Exists(k) == record[k].payload # None

Init ==
  /\ now = 0
  /\ record = [k \in Keys |-> NoRecord]
  /\ effects = [k \in Keys |-> <<>>]
  /\ advisory = [k \in Keys |-> None]
  /\ firstSent = [k \in Keys |-> NotSent]
  /\ req = [r \in Requests |-> Slot]

\* Time passes; a request that has used up its delay ends first.
Tick ==
  /\ now < MaxTime
  /\ \A r \in Requests : Live(r) => now < req[r].sentAt + MaxDelay
  /\ now' = now + 1
  /\ UNCHANGED <<record, effects, advisory, firstSent, req>>

Arrive(r, k, p) ==
  /\ req[r].pc = "none"
  /\ firstSent' = [firstSent EXCEPT ![k] = IF @ = NotSent THEN now ELSE @]
  /\ req' = [req EXCEPT ![r] = [Slot EXCEPT !.pc = "sent", !.key = k, !.payload = p,
                                            !.sentAt = now]]
  /\ UNCHANGED <<now, record, effects, advisory>>

\* What callers are assumed to do.
Send(r, k, p) ==
  /\ firstSent[k] = NotSent \/ now < firstSent[k] + RetryWindow
  /\ Arrive(r, k, p)

LockUnguarded(k) == TRUE
LockFree(k) == advisory[k] = None

\* pg_advisory_xact_lock waits for the transaction that holds the key.
AcquireLock(r) ==
  LET k == req[r].key IN
  /\ req[r].pc = "sent" /\ LockFree(k)
  /\ advisory' = [advisory EXCEPT ![k] = r]
  /\ req' = [req EXCEPT ![r].pc = "purge"]
  /\ UNCHANGED <<now, record, effects, firstSent>>

Expired == {k \in Keys : Exists(k) /\ record[k].expires < now}

\* deleteMany waits for the row locks of a transaction that has deleted one of
\* the records and not committed yet.
Purge(r) ==
  /\ req[r].pc = "purge"
  /\ \A q \in Requests : req[q].purged \cap Expired = {}
  /\ req' = [req EXCEPT ![r].pc = "lookup", ![r].purged = Expired]
  /\ UNCHANGED <<now, record, effects, advisory, firstSent>>

Found(r) == Exists(req[r].key) /\ req[r].key \notin req[r].purged

SameFingerprintAlways(r) == TRUE
SameFingerprint(r) == record[req[r].key].payload = req[r].payload

-----------------------------------------------------------------------------
(* The end of a request's transaction, and its answer.                      *)

Answer(r, answer) ==
  /\ req' = [req EXCEPT ![r].pc = "answered", ![r].answer = answer, ![r].purged = {}]
  /\ advisory' = [k \in Keys |-> IF advisory[k] = r THEN None ELSE advisory[k]]
  /\ UNCHANGED <<now, firstSent>>

Rollback == UNCHANGED <<record, effects>>

\* A different payload under a used key is a 409; the purge is rolled back.
Conflict(r) ==
  /\ req[r].pc = "lookup" /\ Found(r) /\ ~SameFingerprint(r)
  /\ Answer(r, "conflict") /\ Rollback

\* The stored response is returned and the work is not done again.
Replay(r) ==
  /\ req[r].pc = "lookup" /\ Found(r) /\ SameFingerprint(r)
  /\ Answer(r, "ok")
  /\ record' = [k \in Keys |-> IF k \in req[r].purged THEN NoRecord ELSE record[k]]
  /\ UNCHANGED effects

Miss(r) ==
  /\ req[r].pc = "lookup" /\ ~Found(r)
  /\ req' = [req EXCEPT ![r].pc = "work"]
  /\ UNCHANGED <<now, record, effects, advisory, firstSent>>

\* The work has succeeded and the record is inserted, neither is committed.
Execute(r) ==
  /\ req[r].pc = "work"
  /\ req' = [req EXCEPT ![r].pc = "commit", ![r].expires = now + Retention]
  /\ UNCHANGED <<now, record, effects, advisory, firstSent>>

\* What a commit leaves of the record of a key.
Stored(r, k) ==
  CASE k = req[r].key -> [payload |-> req[r].payload, expires |-> req[r].expires]
    [] k \in req[r].purged \ {req[r].key} -> NoRecord
    [] OTHER -> record[k]

Commit(r) ==
  /\ req[r].pc = "commit"
  /\ record' = [k \in Keys |-> Stored(r, k)]
  /\ effects' = [effects EXCEPT ![req[r].key] = Append(@, req[r].payload)]
  /\ Answer(r, "ok")

\* A 4xx: from a guard before the transaction, or thrown by the work.
Refuse(r) == req[r].pc \in {"sent", "work"} /\ Answer(r, "refused") /\ Rollback

\* A crash, a lost connection or a transaction timeout: a 5xx or no answer.
Crash(r) == Live(r) /\ Answer(r, "lost") /\ Rollback

\* The answer has left the server.
Forget(r) ==
  /\ req[r].pc = "answered"
  /\ req' = [req EXCEPT ![r] = Slot]
  /\ UNCHANGED <<now, record, effects, advisory, firstSent>>

Handle(r) ==
  \/ AcquireLock(r) \/ Purge(r)
  \/ Conflict(r) \/ Replay(r) \/ Miss(r)
  \/ Execute(r) \/ Commit(r) \/ Refuse(r) \/ Crash(r)

Next ==
  \/ Tick
  \/ \E r \in Requests : Handle(r) \/ Forget(r)
  \/ \E r \in Requests, k \in Keys, p \in Payloads : Send(r, k, p)

Spec == Init /\ [][Next]_idemVars

-----------------------------------------------------------------------------
(* Properties.                                                              *)

Record  == [payload : Payloads \cup {None}, expires : Nat]
Request ==
  [pc : {"none", "sent", "purge", "lookup", "work", "commit", "answered"},
   key : Keys \cup {None}, payload : Payloads \cup {None}, sentAt : Nat,
   purged : SUBSET Keys, expires : Nat,
   answer : {"none", "ok", "refused", "conflict", "lost"}]

TypeOK ==
  /\ now \in 0 .. MaxTime
  /\ record \in [Keys -> Record]
  /\ effects \in [Keys -> Seq(Payloads)]
  /\ advisory \in [Keys -> Requests \cup {None}]
  /\ firstSent \in [Keys -> Nat \cup {NotSent}]
  /\ req \in [Requests -> Request]

\* A key takes effect at most once, however its requests overlap, crash, are
\* sent again after a lost answer, or meet the purge of old records.
AtMostOnce == \A k \in Keys : Len(effects[k]) <= 1

\* A request that is answered with success has had its own payload carried
\* out: a key used again with another payload is never answered by the first
\* one's result, and no success is reported for work that was rolled back.
OwnAnswer ==
  \A r \in Requests :
    req[r].pc = "answered" /\ req[r].answer = "ok" =>
      \E i \in 1 .. Len(effects[req[r].key]) : effects[req[r].key][i] = req[r].payload
=============================================================================
