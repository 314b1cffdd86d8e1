------------------------ MODULE CommandIntentsProofs ------------------------
(***************************************************************************)
(* Proofs about executeIdempotent, for any keys, payloads, requests and      *)
(* times that satisfy WindowAssumption, and about the browser against it,    *)
(* for any number of forms.                                                  *)
(*                                                                         *)
(* AtMostOnce is not inductive: that a key without a visible record has had  *)
(* no effect holds only because its record cannot be purged while a request  *)
(* of the key is under way.  RequestOK says what a request knows at each     *)
(* point, KeyOK what the record of a key says about its effects.             *)
(* The browser keeps the assumption of executeIdempotent, so the proof about *)
(* any caller applies to it, and a success it shows is real.                 *)
(***************************************************************************)
EXTENDS CommandIntents, TLAPS


Locked == {"purge", "lookup", "work", "commit"}

\* The retention of a key, counted from its first use, is over.
Over(k) == now > firstSent[k] + Retention

\* The request is answered before its key could be purged.
InTime(r) ==
  /\ firstSent[req[r].key] # NotSent
  /\ now <= req[r].sentAt + MaxDelay
  /\ req[r].sentAt <= firstSent[req[r].key] + RetryWindow

RequestOK(r) ==
  /\ req[r].pc # "none" => req[r].key \in Keys /\ req[r].payload \in Payloads
  /\ req[r].pc \in Locked => advisory[req[r].key] = r
  /\ Live(r) => InTime(r)
  /\ \A k \in req[r].purged : effects[k] # <<>> /\ Over(k)
  /\ req[r].pc \in {"work", "commit"} => effects[req[r].key] = <<>>
  /\ req[r].pc = "commit" => req[r].expires >= firstSent[req[r].key] + Retention
  /\ req[r].pc = "answered" /\ req[r].answer = "ok" =>
       effects[req[r].key] = <<req[r].payload>>

KeyOK(k) ==
  /\ firstSent[k] <= now
  /\ Exists(k) => effects[k] = <<record[k].payload>>
  /\ effects[k] # <<>> =>
       /\ Len(effects[k]) = 1
       /\ firstSent[k] # NotSent
       /\ Over(k) \/ (Exists(k) /\ record[k].expires >= firstSent[k] + Retention)

\* The inductive invariant.
IdemInv ==
  /\ TypeOK
  /\ \A r \in Requests : RequestOK(r)
  /\ \A k \in Keys : KeyOK(k)

-----------------------------------------------------------------------------
\* The initial state satisfies the invariant.
LEMMA InitInvariant == Init => IdemInv
<1> SUFFICES ASSUME Init PROVE IdemInv
  OBVIOUS
<1> USE WindowAssumption DEF Init, NotSent
<1>1. Slot \in Request /\ NoRecord \in Record
  BY DEF Slot, Request, NoRecord, Record
<1>2. TypeOK
  BY <1>1 DEF TypeOK
<1>3. \A r \in Requests : RequestOK(r)
  BY DEF RequestOK, Slot, Live, Locked
<1>4. ASSUME NEW k \in Keys PROVE KeyOK(k)
  <2>1. effects[k] = <<>> /\ firstSent[k] = -1 /\ now = 0 /\ ~Exists(k)
    BY DEF Exists, NoRecord
  <2> QED
    BY <2>1 DEF KeyOK
<1> QED
  BY <1>2, <1>3, <1>4 DEF IdemInv

LEMMA NotEmpty == \A x : <<x>> # <<>> /\ Len(<<x>>) = 1
<1> SUFFICES ASSUME NEW x PROVE <<x>> # <<>> /\ Len(<<x>>) = 1
  OBVIOUS
<1>1. Len(<<x>>) = 1 /\ Len(<<>>) = 0
  OBVIOUS
<1> QED
  BY <1>1

\* Most steps change one request, and locks that no other request holds.
LEMMA OneRequest ==
  ASSUME IdemInv, NEW r \in Requests, NEW t \in Request,
         req' = [req EXCEPT ![r] = t],
         advisory' \in [Keys -> Requests \cup {None}],
         \A k \in Keys : advisory[k] \in Requests \ {r} => advisory'[k] = advisory[k],
         UNCHANGED <<now, record, effects, firstSent>>,
         RequestOK(r)'
  PROVE  IdemInv'
<1>1. TypeOK'
  BY DEF IdemInv, TypeOK
<1>2. ASSUME NEW q \in Requests PROVE RequestOK(q)'
  <2>1. CASE q = r
    BY <2>1
  <2>2. CASE q # r
    <3>1. req'[q] = req[q] /\ RequestOK(q)
      BY <2>2 DEF IdemInv, TypeOK
    <3>2. req[q].pc \in Locked => advisory'[req[q].key] = q
      BY <2>2, <3>1 DEF RequestOK, Locked
    <3> QED
      BY <3>1, <3>2 DEF RequestOK, Live, InTime, Over
  <2> QED
    BY <2>1, <2>2
<1>3. ASSUME NEW k \in Keys PROVE KeyOK(k)'
  BY DEF IdemInv, KeyOK, Exists, Over
<1> QED
  BY <1>1, <1>2, <1>3 DEF IdemInv

\* A request in the transaction can always be answered without success.
LEMMA AnswerKeeps ==
  ASSUME IdemInv, NEW r \in Requests, req[r].pc # "none",
         NEW answer \in {"refused", "conflict", "lost"}, Answer(r, answer), Rollback
  PROVE  IdemInv'
<1> DEFINE t == [req[r] EXCEPT !.pc = "answered", !.answer = answer, !.purged = {}]
<1>0. req[r] \in Request
  BY DEF IdemInv, TypeOK
<1>1. t \in Request /\ req' = [req EXCEPT ![r] = t]
  BY <1>0 DEF Answer, Request
<1>2. t.pc = "answered" /\ t.answer = answer /\ t.purged = {}
      /\ t.key = req[r].key /\ t.payload = req[r].payload
  BY <1>0 DEF Request
<1>3. req'[r] = t
  BY <1>1 DEF IdemInv, TypeOK
<1> HIDE DEF t
<1>4. RequestOK(r)'
  BY <1>2, <1>3 DEF IdemInv, RequestOK, Live, Locked
<1>5. /\ advisory' \in [Keys -> Requests \cup {None}]
      /\ \A k \in Keys : advisory[k] \in Requests \ {r} => advisory'[k] = advisory[k]
  BY WindowAssumption DEF Answer, IdemInv, TypeOK
<1> QED
  BY <1>1, <1>4, <1>5, OneRequest DEF Answer, Rollback

\* Time passes only while every live request still has some of its delay.
LEMMA TickKeeps == IdemInv /\ Tick => IdemInv'
<1> SUFFICES ASSUME IdemInv, Tick PROVE IdemInv'
  OBVIOUS
<1>0. now \in Nat /\ now' = now + 1 /\ UNCHANGED <<record, effects, advisory, firstSent, req>>
  BY DEF Tick, IdemInv, TypeOK
<1>1. TypeOK'
  BY <1>0, WindowAssumption DEF Tick, IdemInv, TypeOK
<1>2. ASSUME NEW k \in Keys PROVE firstSent[k] \in Int /\ (Over(k) => Over(k)')
  BY <1>0, WindowAssumption DEF Over, IdemInv, TypeOK, NotSent
<1>3. ASSUME NEW r \in Requests PROVE RequestOK(r)'
  <2>1. RequestOK(r) /\ req[r] \in Request
    BY DEF IdemInv, TypeOK
  <2>2. Live(r) => InTime(r)'
    <3>1. Live(r) => now < req[r].sentAt + MaxDelay
      BY DEF Tick
    <3> QED
      BY <1>0, <2>1, <3>1, WindowAssumption DEF RequestOK, InTime, Request
  <2>3. \A k \in req[r].purged : effects[k] # <<>> /\ Over(k)'
    BY <1>2, <2>1 DEF RequestOK, Request
  <2> QED
    BY <1>0, <2>1, <2>2, <2>3 DEF RequestOK, Live
<1>4. ASSUME NEW k \in Keys PROVE KeyOK(k)'
  <2>1. KeyOK(k)
    BY DEF IdemInv
  <2> QED
    BY <1>0, <1>2, <2>1 DEF KeyOK, Exists
<1> QED
  BY <1>1, <1>3, <1>4 DEF IdemInv

\* A key that is sent while its retry window lasts.
LEMMA SendKeeps ==
  ASSUME IdemInv, NEW r \in Requests, NEW k \in Keys, NEW p \in Payloads, Send(r, k, p)
  PROVE  IdemInv'
<1> DEFINE t == [Slot EXCEPT !.pc = "sent", !.key = k, !.payload = p, !.sentAt = now]
<1>0. now \in Nat /\ firstSent \in [Keys -> Nat \cup {NotSent}] /\ NotSent \in Int
  BY WindowAssumption DEF IdemInv, TypeOK, NotSent
<1>1. t \in Request /\ req' = [req EXCEPT ![r] = t] /\ req[r].pc = "none"
      /\ UNCHANGED <<now, record, effects, advisory>>
  BY <1>0 DEF Send, Arrive, Slot, Request
<1>2. t.pc = "sent" /\ t.key = k /\ t.payload = p /\ t.sentAt = now /\ t.purged = {}
  BY DEF Slot
<1>3. req'[r] = t /\ \A q \in Requests \ {r} : req'[q] = req[q]
  BY <1>1 DEF IdemInv, TypeOK
<1> HIDE DEF t
<1>4. /\ firstSent' \in [Keys -> Nat \cup {NotSent}]
      /\ firstSent'[k] \in Nat /\ firstSent'[k] <= now /\ now <= firstSent'[k] + RetryWindow
      /\ \A l \in Keys : firstSent[l] # NotSent => firstSent'[l] = firstSent[l]
      /\ \A l \in Keys \ {k} : firstSent'[l] = firstSent[l]
  BY <1>0, WindowAssumption DEF Send, Arrive, IdemInv, KeyOK
<1>5. TypeOK'
  BY <1>1, <1>4 DEF IdemInv, TypeOK
<1>6. RequestOK(r)'
  BY <1>0, <1>1, <1>2, <1>3, <1>4, WindowAssumption
  DEF RequestOK, Live, InTime, Locked, NotSent
<1>7. ASSUME NEW q \in Requests \ {r} PROVE RequestOK(q)'
  <2>1. RequestOK(q) /\ req'[q] = req[q] /\ req[q] \in Request
    BY <1>3 DEF IdemInv, TypeOK
  <2>2. Live(q) => firstSent[req[q].key] # NotSent /\ firstSent'[req[q].key] = firstSent[req[q].key]
    BY <1>4, <2>1 DEF RequestOK, Live, InTime
  <2>3. \A l \in req[q].purged : effects[l] # <<>> /\ Over(l)'
    <3> SUFFICES ASSUME NEW l \in req[q].purged PROVE effects[l] # <<>> /\ Over(l)'
      OBVIOUS
    <3>1. l \in Keys /\ effects[l] # <<>> /\ Over(l)
      BY <2>1 DEF RequestOK, Request
    <3>2. firstSent[l] # NotSent
      BY <3>1 DEF IdemInv, KeyOK
    <3> QED
      BY <1>1, <1>4, <3>1, <3>2 DEF Over
  <2> QED
    BY <1>1, <2>1, <2>2, <2>3 DEF RequestOK, Live, InTime, Locked
<1>8. ASSUME NEW l \in Keys PROVE KeyOK(l)'
  <2>1. KeyOK(l)
    BY DEF IdemInv
  <2>2. firstSent'[l] <= now
    <3>1. firstSent[l] <= now
      BY <2>1 DEF KeyOK
    <3>2. CASE l = k
      BY <1>4, <3>2
    <3>3. CASE l # k
      BY <1>4, <3>1, <3>3
    <3> QED
      BY <3>2, <3>3
  <2>3. effects[l] # <<>> => firstSent'[l] = firstSent[l]
    BY <1>4, <2>1 DEF KeyOK
  <2> QED
    BY <1>1, <2>1, <2>2, <2>3 DEF KeyOK, Exists, Over
<1> QED
  BY <1>5, <1>6, <1>7, <1>8 DEF IdemInv

\* The advisory lock is free: no other request of the key is in Locked.
LEMMA AcquireLockKeeps ==
  ASSUME IdemInv, NEW r \in Requests, AcquireLock(r)
  PROVE  IdemInv'
<1> DEFINE t == [req[r] EXCEPT !.pc = "purge"]
<1>0. req[r] \in Request /\ RequestOK(r) /\ req[r].pc = "sent" /\ req[r].key \in Keys
  BY DEF AcquireLock, IdemInv, TypeOK, RequestOK
<1>1. t \in Request /\ req' = [req EXCEPT ![r] = t]
  BY <1>0 DEF AcquireLock, Request
<1>2. t.pc = "purge" /\ t.key = req[r].key /\ t.payload = req[r].payload
      /\ t.sentAt = req[r].sentAt /\ t.purged = req[r].purged
  BY <1>0 DEF Request
<1>3. req'[r] = t
  BY <1>1 DEF IdemInv, TypeOK
<1> HIDE DEF t
<1>4. /\ advisory' \in [Keys -> Requests \cup {None}]
      /\ \A k \in Keys : advisory[k] \in Requests \ {r} => advisory'[k] = advisory[k]
      /\ advisory'[req[r].key] = r
      /\ UNCHANGED <<now, record, effects, firstSent>>
  BY <1>0, WindowAssumption DEF AcquireLock, LockFree, IdemInv, TypeOK
<1>5. RequestOK(r)'
  BY <1>0, <1>2, <1>3, <1>4 DEF RequestOK, Live, InTime, Over, Locked
<1> QED
  BY <1>1, <1>4, <1>5, OneRequest

\* The records that are purged have outlived the window of their keys.
LEMMA PurgeKeeps ==
  ASSUME IdemInv, NEW r \in Requests, Purge(r)
  PROVE  IdemInv'
<1> DEFINE t == [req[r] EXCEPT !.pc = "lookup", !.purged = Expired]
<1>0. req[r] \in Request /\ RequestOK(r) /\ req[r].pc = "purge" /\ Expired \subseteq Keys
  BY DEF Purge, IdemInv, TypeOK, Expired
<1>1. t \in Request /\ req' = [req EXCEPT ![r] = t]
  BY <1>0 DEF Purge, Request
<1>2. t.pc = "lookup" /\ t.key = req[r].key /\ t.payload = req[r].payload
      /\ t.sentAt = req[r].sentAt /\ t.purged = Expired
  BY <1>0 DEF Request
<1>3. req'[r] = t
  BY <1>1 DEF IdemInv, TypeOK
<1> HIDE DEF t
<1>4. UNCHANGED <<now, record, effects, advisory, firstSent>>
  BY DEF Purge
<1>5. ASSUME NEW k \in Expired PROVE effects[k] # <<>> /\ Over(k)
  <2>1. KeyOK(k) /\ Exists(k) /\ record[k].expires < now
    BY <1>0 DEF Expired, IdemInv
  <2>2. now \in Nat /\ firstSent[k] \in Int /\ record[k].expires \in Nat
    BY <1>0, WindowAssumption DEF IdemInv, TypeOK, NotSent, Record
  <2>3. effects[k] # <<>>
    BY <2>1, NotEmpty DEF KeyOK
  <2> QED
    BY <2>1, <2>2, <2>3, WindowAssumption DEF KeyOK, Over
<1>6. RequestOK(r)'
  BY <1>0, <1>2, <1>3, <1>4, <1>5 DEF RequestOK, Live, InTime, Over, Locked
<1>7. advisory \in [Keys -> Requests \cup {None}]
  BY DEF IdemInv, TypeOK
<1> QED
  BY <1>1, <1>4, <1>6, <1>7, OneRequest

\* No visible record means no effect: a request in time finds its record.
LEMMA MissKeeps ==
  ASSUME IdemInv, NEW r \in Requests, Miss(r)
  PROVE  IdemInv'
<1> DEFINE t == [req[r] EXCEPT !.pc = "work"]
<1>0. req[r] \in Request /\ RequestOK(r) /\ req[r].pc = "lookup" /\ req[r].key \in Keys
  BY DEF Miss, IdemInv, TypeOK, RequestOK
<1>1. t \in Request /\ req' = [req EXCEPT ![r] = t]
  BY <1>0 DEF Miss, Request
<1>2. t.pc = "work" /\ t.key = req[r].key /\ t.payload = req[r].payload
      /\ t.sentAt = req[r].sentAt /\ t.purged = req[r].purged
  BY <1>0 DEF Request
<1>3. req'[r] = t
  BY <1>1 DEF IdemInv, TypeOK
<1> HIDE DEF t
<1>4. UNCHANGED <<now, record, effects, advisory, firstSent>>
      /\ advisory \in [Keys -> Requests \cup {None}]
  BY DEF Miss, IdemInv, TypeOK
<1>5. ~Over(req[r].key)
  <2>1. InTime(r)
    BY <1>0 DEF RequestOK, Live
  <2>2. now \in Nat /\ firstSent[req[r].key] \in Int /\ req[r].sentAt \in Nat
    BY <1>0, WindowAssumption DEF IdemInv, TypeOK, NotSent, Request
  <2> QED
    BY <2>1, <2>2, WindowAssumption DEF InTime, Over
<1>6. effects[req[r].key] = <<>>
  <2>1. CASE ~Exists(req[r].key)
    BY <1>0, <1>5, <2>1 DEF IdemInv, KeyOK
  <2>2. CASE req[r].key \in req[r].purged
    BY <1>0, <1>5, <2>2 DEF RequestOK
  <2> QED
    BY <2>1, <2>2 DEF Miss, Found
<1>7. RequestOK(r)'
  BY <1>0, <1>2, <1>3, <1>4, <1>6 DEF RequestOK, Live, InTime, Over, Locked
<1> QED
  BY <1>1, <1>4, <1>7, OneRequest

\* The record that will be inserted expires after the window of its key.
LEMMA ExecuteKeeps ==
  ASSUME IdemInv, NEW r \in Requests, Execute(r)
  PROVE  IdemInv'
<1> DEFINE t == [req[r] EXCEPT !.pc = "commit", !.expires = now + Retention]
<1>0. req[r] \in Request /\ RequestOK(r) /\ req[r].pc = "work" /\ req[r].key \in Keys
      /\ now \in Nat /\ now + Retention \in Nat
  BY WindowAssumption DEF Execute, IdemInv, TypeOK, RequestOK
<1>1. t \in Request /\ req' = [req EXCEPT ![r] = t]
  BY <1>0 DEF Execute, Request
<1>2. t.pc = "commit" /\ t.key = req[r].key /\ t.payload = req[r].payload
      /\ t.sentAt = req[r].sentAt /\ t.purged = req[r].purged /\ t.expires = now + Retention
  BY <1>0 DEF Request
<1>3. req'[r] = t
  BY <1>1 DEF IdemInv, TypeOK
<1> HIDE DEF t
<1>4. UNCHANGED <<now, record, effects, advisory, firstSent>>
      /\ advisory \in [Keys -> Requests \cup {None}]
  BY DEF Execute, IdemInv, TypeOK
<1>5. now + Retention >= firstSent[req[r].key] + Retention
  <2>1. firstSent[req[r].key] <= now
    BY <1>0 DEF IdemInv, KeyOK
  <2>2. firstSent[req[r].key] \in Int
    BY <1>0 DEF IdemInv, TypeOK, NotSent
  <2> QED
    BY <1>0, <2>1, <2>2, WindowAssumption
<1>6. RequestOK(r)'
  BY <1>0, <1>2, <1>3, <1>4, <1>5 DEF RequestOK, Live, InTime, Over, Locked
<1> QED
  BY <1>1, <1>4, <1>6, OneRequest

\* A replay answers what was done, and its commit drops only records that are over.
LEMMA ReplayKeeps ==
  ASSUME IdemInv, NEW r \in Requests, Replay(r)
  PROVE  IdemInv'
<1> DEFINE t == [req[r] EXCEPT !.pc = "answered", !.answer = "ok", !.purged = {}]
<1>0. req[r] \in Request /\ RequestOK(r) /\ req[r].pc = "lookup" /\ req[r].key \in Keys
  BY DEF Replay, IdemInv, TypeOK, RequestOK
<1>1. t \in Request /\ req' = [req EXCEPT ![r] = t]
  BY <1>0 DEF Replay, Answer, Request
<1>2. t.pc = "answered" /\ t.key = req[r].key /\ t.payload = req[r].payload /\ t.purged = {}
  BY <1>0 DEF Request
<1>3. req'[r] = t /\ \A q \in Requests \ {r} : req'[q] = req[q]
  BY <1>1 DEF IdemInv, TypeOK
<1> HIDE DEF t
<1>4. /\ advisory' \in [Keys -> Requests \cup {None}]
      /\ \A k \in Keys : advisory[k] \in Requests \ {r} => advisory'[k] = advisory[k]
      /\ UNCHANGED <<now, effects, firstSent>>
      /\ record' = [k \in Keys |-> IF k \in req[r].purged THEN NoRecord ELSE record[k]]
  BY WindowAssumption DEF Replay, Answer, IdemInv, TypeOK
<1>5. TypeOK'
  <2>1. NoRecord \in Record
    BY DEF NoRecord, Record
  <2> QED
    BY <1>1, <1>4, <2>1 DEF IdemInv, TypeOK
<1>6. effects[req[r].key] = <<req[r].payload>>
  BY <1>0 DEF Replay, Found, SameFingerprint, IdemInv, KeyOK
<1>7. RequestOK(r)'
  BY <1>0, <1>2, <1>3, <1>4, <1>6 DEF RequestOK, Live, Locked
<1>8. ASSUME NEW q \in Requests \ {r} PROVE RequestOK(q)'
  <2>1. RequestOK(q) /\ req'[q] = req[q]
    BY <1>3 DEF IdemInv
  <2>2. req[q].pc \in Locked => advisory'[req[q].key] = q
    BY <1>4, <2>1 DEF RequestOK, Locked
  <2> QED
    BY <1>4, <2>1, <2>2 DEF RequestOK, Live, InTime, Over
<1>9. ASSUME NEW k \in Keys PROVE KeyOK(k)'
  <2>1. KeyOK(k)
    BY DEF IdemInv
  <2>2. CASE k \in req[r].purged
    <3>1. effects[k] # <<>> /\ Over(k) /\ record'[k] = NoRecord
      BY <1>0, <1>4, <2>2 DEF RequestOK
    <3> QED
      BY <1>4, <2>1, <3>1 DEF KeyOK, Exists, NoRecord, Over
  <2>3. CASE k \notin req[r].purged
    <3>1. record'[k] = record[k]
      BY <1>4, <2>3
    <3> QED
      BY <1>4, <2>1, <3>1 DEF KeyOK, Exists, Over
  <2> QED
    BY <2>2, <2>3
<1> QED
  BY <1>5, <1>7, <1>8, <1>9 DEF IdemInv

\* The one effect of a key, with a record that outlives the window of the key.
LEMMA CommitKeeps ==
  ASSUME IdemInv, NEW r \in Requests, Commit(r)
  PROVE  IdemInv'
<1> DEFINE t == [req[r] EXCEPT !.pc = "answered", !.answer = "ok", !.purged = {}]
           c == req[r].key
<1>0. /\ req[r] \in Request /\ RequestOK(r) /\ req[r].pc = "commit"
      /\ c \in Keys /\ req[r].payload \in Payloads
  BY DEF Commit, IdemInv, TypeOK, RequestOK
<1>1. t \in Request /\ req' = [req EXCEPT ![r] = t]
  BY <1>0 DEF Commit, Answer, Request
<1>2. t.pc = "answered" /\ t.key = c /\ t.payload = req[r].payload /\ t.purged = {}
  BY <1>0 DEF Request
<1>3. req'[r] = t /\ \A q \in Requests \ {r} : req'[q] = req[q]
  BY <1>1 DEF IdemInv, TypeOK
<1> HIDE DEF t
<1>4. /\ advisory' \in [Keys -> Requests \cup {None}]
      /\ \A k \in Keys : advisory[k] \in Requests \ {r} => advisory'[k] = advisory[k]
      /\ UNCHANGED <<now, firstSent>>
  BY WindowAssumption DEF Commit, Answer, IdemInv, TypeOK
<1>5. effects[c] = <<>> /\ req[r].expires >= firstSent[c] + Retention
      /\ advisory[c] = r /\ firstSent[c] # NotSent /\ c \notin req[r].purged
  BY <1>0 DEF RequestOK, Live, InTime, Locked
<1>6. effects' = [effects EXCEPT ![c] = <<req[r].payload>>]
  <2>1. Append(<<>>, req[r].payload) = <<req[r].payload>>
    BY <1>0
  <2> QED
    BY <1>5, <2>1 DEF Commit
<1>7. effects'[c] = <<req[r].payload>> /\ \A k \in Keys \ {c} : effects'[k] = effects[k]
  BY <1>0, <1>6 DEF IdemInv, TypeOK
<1>8. /\ record'[c] = [payload |-> req[r].payload, expires |-> req[r].expires]
      /\ \A k \in Keys \ {c} :
           record'[k] = IF k \in req[r].purged THEN NoRecord ELSE record[k]
      /\ record' \in [Keys -> Record]
  <2>1. NoRecord \in Record /\ [payload |-> req[r].payload, expires |-> req[r].expires] \in Record
    BY <1>0 DEF NoRecord, Record, Request
  <2>2. record \in [Keys -> Record] /\ record' = [k \in Keys |-> Stored(r, k)]
    BY DEF Commit, IdemInv, TypeOK
  <2> QED
    BY <1>0, <2>1, <2>2 DEF Stored
<1>9. TypeOK'
  <2>1. <<req[r].payload>> \in Seq(Payloads)
    BY <1>0
  <2> QED
    BY <1>1, <1>4, <1>6, <1>8, <2>1 DEF IdemInv, TypeOK
<1>10. RequestOK(r)'
  BY <1>0, <1>2, <1>3, <1>7 DEF RequestOK, Live, Locked
<1>11. ASSUME NEW q \in Requests \ {r} PROVE RequestOK(q)'
  <2>1. RequestOK(q) /\ req'[q] = req[q] /\ req[q] \in Request
    BY <1>3 DEF IdemInv, TypeOK
  <2>2. req[q].pc \in Locked => advisory'[req[q].key] = q
    BY <1>4, <2>1 DEF RequestOK, Locked
  <2>3. req[q].pc \in {"work", "commit"} => effects'[req[q].key] = <<>>
    BY <1>5, <1>7, <2>1 DEF RequestOK, Locked
  <2>4. req[q].pc = "answered" /\ req[q].answer = "ok" =>
          effects'[req[q].key] = <<req[q].payload>>
    <3> SUFFICES ASSUME req[q].pc = "answered", req[q].answer = "ok"
                 PROVE  effects'[req[q].key] = <<req[q].payload>>
      OBVIOUS
    <3>1. req[q].key \in Keys /\ effects[req[q].key] = <<req[q].payload>>
      BY <2>1 DEF RequestOK
    <3>2. req[q].key # c
      BY <1>5, <3>1, NotEmpty
    <3> QED
      BY <1>7, <3>1, <3>2
  <2>5. \A k \in req[q].purged : effects'[k] # <<>> /\ Over(k)'
    BY <1>4, <1>5, <1>7, <2>1 DEF RequestOK, Over, Request
  <2> QED
    BY <1>4, <2>1, <2>2, <2>3, <2>4, <2>5 DEF RequestOK, Live, InTime
<1>12. ASSUME NEW k \in Keys PROVE KeyOK(k)'
  <2>1. KeyOK(k)
    BY DEF IdemInv
  <2>2. CASE k = c
    <3>1. effects'[k] = <<req[r].payload>> /\ firstSent'[k] = firstSent[k] /\ now' = now
          /\ record'[k].payload = req[r].payload /\ record'[k].expires = req[r].expires
      BY <1>0, <1>4, <1>7, <1>8, <2>2
    <3>2. req[r].payload # None
      BY <1>0, WindowAssumption
    <3> QED
      BY <1>5, <2>1, <2>2, <3>1, <3>2, NotEmpty DEF KeyOK, Exists
  <2>3. CASE k # c /\ k \in req[r].purged
    <3>1. effects'[k] = effects[k] /\ effects[k] # <<>> /\ Over(k) /\ record'[k] = NoRecord
      BY <1>0, <1>7, <1>8, <2>3 DEF RequestOK
    <3> QED
      BY <1>4, <2>1, <3>1 DEF KeyOK, Exists, NoRecord, Over
  <2>4. CASE k # c /\ k \notin req[r].purged
    <3>1. effects'[k] = effects[k] /\ record'[k] = record[k]
      BY <1>7, <1>8, <2>4
    <3> QED
      BY <1>4, <2>1, <3>1 DEF KeyOK, Exists, Over
  <2> QED
    BY <2>2, <2>3, <2>4
<1> QED
  BY <1>9, <1>10, <1>11, <1>12 DEF IdemInv

LEMMA ForgetKeeps ==
  ASSUME IdemInv, NEW r \in Requests, Forget(r)
  PROVE  IdemInv'
<1>1. Slot \in Request /\ Slot.pc = "none" /\ Slot.purged = {}
  BY DEF Slot, Request
<1>2. req' = [req EXCEPT ![r] = Slot] /\ UNCHANGED <<now, record, effects, advisory, firstSent>>
      /\ req'[r] = Slot /\ advisory \in [Keys -> Requests \cup {None}]
  BY DEF Forget, IdemInv, TypeOK
<1>3. RequestOK(r)'
  BY <1>1, <1>2 DEF RequestOK, Live, Locked
<1> QED
  BY <1>1, <1>2, <1>3, OneRequest

-----------------------------------------------------------------------------
\* Every step preserves the invariant.
LEMMA StepKeeps == IdemInv /\ [Next]_idemVars => IdemInv'
<1> SUFFICES ASSUME IdemInv, [Next]_idemVars PROVE IdemInv'
  OBVIOUS
<1>1. ASSUME NEW r \in Requests, Handle(r) PROVE IdemInv'
  <2>1. CASE Conflict(r) \/ Refuse(r) \/ Crash(r)
    BY <2>1, AnswerKeeps DEF Conflict, Refuse, Crash, Live
  <2> QED
    BY <1>1, <2>1, AcquireLockKeeps, PurgeKeeps, ReplayKeeps, MissKeeps, ExecuteKeeps,
       CommitKeeps DEF Handle
<1>2. CASE UNCHANGED idemVars
  BY <1>2 DEF idemVars, IdemInv, TypeOK, RequestOK, KeyOK, InTime, Over, Live, Exists
<1> QED
  BY <1>1, <1>2, TickKeeps, SendKeeps, ForgetKeeps DEF Next

\* The inductive invariant holds in every reachable state.
THEOREM IdempotencyInvariance == Spec => []IdemInv
  BY InitInvariant, StepKeeps, PTL DEF Spec

\* What a key has done is never undone or added to.
LEMMA EffectsStay ==
  ASSUME IdemInv, [Next]_idemVars, NEW k \in Keys, effects[k] # <<>>
  PROVE  effects'[k] = effects[k]
<1>1. ASSUME NEW r \in Requests, Commit(r) PROVE effects'[k] = effects[k]
  <2>1. effects[req[r].key] = <<>>
    BY <1>1 DEF Commit, IdemInv, RequestOK
  <2> QED
    BY <1>1, <2>1 DEF Commit, IdemInv, TypeOK
<1>2. CASE UNCHANGED effects
  BY <1>2
<1> QED
  BY <1>1, <1>2
  DEF Next, Handle, Tick, Send, Arrive, AcquireLock, Purge, Conflict, Replay, Miss, Execute,
      Refuse, Crash, Forget, Rollback, idemVars

\* However its requests overlap, crash, are repeated or meet the purge, a key
\* takes effect at most once.
THEOREM EffectAtMostOnce == Spec => []AtMostOnce
<1>1. IdemInv => AtMostOnce
  <2> SUFFICES ASSUME IdemInv, NEW k \in Keys PROVE Len(effects[k]) <= 1
    BY DEF AtMostOnce
  <2>1. KeyOK(k)
    BY DEF IdemInv
  <2>2. CASE effects[k] = <<>>
    BY <2>2
  <2>3. CASE effects[k] # <<>>
    <3>1. Len(effects[k]) = 1
      BY <2>1, <2>3, Zenon DEF KeyOK
    <3> QED
      BY <3>1
  <2> QED
    BY <2>2, <2>3
<1> QED
  BY <1>1, IdempotencyInvariance, PTL

\* A request that is answered with success has had its own payload carried out.
THEOREM AnsweredWithOwnEffect == Spec => []OwnAnswer
<1>1. IdemInv => OwnAnswer
  <2> SUFFICES ASSUME IdemInv, NEW r \in Requests,
                      req[r].pc = "answered", req[r].answer = "ok"
               PROVE  \E i \in 1 .. Len(effects[req[r].key]) :
                        effects[req[r].key][i] = req[r].payload
    BY DEF OwnAnswer
  <2>1. effects[req[r].key] = <<req[r].payload>>
    BY DEF IdemInv, RequestOK
  <2>2. Len(<<req[r].payload>>) = 1 /\ <<req[r].payload>>[1] = req[r].payload
    OBVIOUS
  <2> QED
    BY <2>1, <2>2
<1> QED
  BY <1>1, IdempotencyInvariance, PTL

-----------------------------------------------------------------------------
(* The browser.                                                             *)


Hook == [mounted : BOOLEAN, key : Keys \cup {None}, unknown : BOOLEAN, expired : BOOLEAN,
         inFlight : BOOLEAN]

IntentTypeOK ==
  /\ offset \in 0 .. Skew
  /\ intent \in [Keys -> [payload : Payloads \cup {None}, createdAt : Nat]]
  /\ stored \in Keys \cup {None}
  /\ hook \in [Hooks -> Hook]
  /\ succeeded \subseteq Keys

Begun(k) == intent[k].payload # None

\* A key is first sent when its intent is created, by a clock at most Skew fast.
SentWhenCreated ==
  \A k \in Keys :
    IF Begun(k) THEN firstSent[k] # NotSent /\ intent[k].createdAt <= firstSent[k] + Skew
                ELSE firstSent[k] = NotSent

HeldAreBegun ==
  /\ stored # None => Begun(stored)
  /\ \A h \in Hooks : hook[h].key # None => Begun(hook[h].key)

RequestsCarryIntents ==
  \A r \in Requests : req[r].pc # "none" => req[r].payload = intent[req[r].key].payload

\* With IdemInv, the inductive invariant of the browser and the server.
IntentInv ==
  IntentTypeOK /\ SentWhenCreated /\ HeldAreBegun /\ RequestsCarryIntents /\ SuccessIsReal

\* Both invariants hold at first.
LEMMA IntentInitInvariant == IntentInit => IdemInv /\ IntentInv
<1> SUFFICES ASSUME IntentInit PROVE IdemInv /\ IntentInv
  OBVIOUS
<1>1. IdemInv
  BY InitInvariant DEF IntentInit
<1>2. NotMounted \in Hook /\ NotMounted.key = None
  BY DEF NotMounted, Hook
<1>3. IntentTypeOK
  BY <1>2, SkewAssumption DEF IntentInit, IntentTypeOK
<1>4. SentWhenCreated /\ RequestsCarryIntents /\ SuccessIsReal
  <2>1. /\ \A k \in Keys : intent[k].payload = None /\ firstSent[k] = NotSent
        /\ \A r \in Requests : req[r].pc = "none"
        /\ succeeded = {}
    BY DEF IntentInit, Init, Slot
  <2> QED
    BY <2>1 DEF SentWhenCreated, RequestsCarryIntents, Begun, SuccessIsReal
<1>5. HeldAreBegun
  BY <1>2 DEF IntentInit, HeldAreBegun
<1> QED
  BY <1>1, <1>3, <1>4, <1>5 DEF IntentInv

\* A key that is not yet expired for the browser is in its retry window.
LEMMA RetryInTime ==
  ASSUME IdemInv, IntentInv, NEW k \in Keys, Begun(k), ~RecoveryExpired(k)
  PROVE  now < firstSent[k] + RetryWindow
<1>1. now \in Nat /\ firstSent[k] \in Nat /\ offset \in Nat /\ intent[k].createdAt \in Nat
  BY SkewAssumption DEF IdemInv, TypeOK, IntentInv, IntentTypeOK, SentWhenCreated
<1>2. intent[k].createdAt <= firstSent[k] + Skew
  BY DEF IntentInv, SentWhenCreated
<1>3. now + offset - intent[k].createdAt < Recovery
  BY <1>1, SkewAssumption DEF RecoveryExpired, Clock
<1> QED
  BY <1>1, <1>2, <1>3, SkewAssumption, WindowAssumption

\* Every step of the browser and the server is a step of Idempotency.
LEMMA StepSimulates == IdemInv /\ IntentInv /\ [IntentNext]_intentVars => [Next]_idemVars
<1> SUFFICES ASSUME IdemInv, IntentInv, [IntentNext]_intentVars PROVE [Next]_idemVars
  OBVIOUS
<1>1. CASE Serve
  BY <1>1 DEF Serve, Next
<1>2. ASSUME NEW h \in Hooks, NEW r \in Requests, Retry(h, r) PROVE [Next]_idemVars
  <2> DEFINE k == hook[h].key
  <2>1. k \in Keys /\ Begun(k) /\ intent[k].payload \in Payloads
    BY <1>2 DEF Retry, IntentInv, IntentTypeOK, HeldAreBegun, Hook, Begun
  <2>2. Send(r, k, intent[k].payload)
    BY <1>2, <2>1, RetryInTime DEF Retry, Send
  <2> QED
    BY <2>1, <2>2 DEF Next
<1>3. ASSUME NEW h \in Hooks, NEW r \in Requests, NEW k \in Keys, NEW p \in Payloads,
             SubmitNew(h, r, k, p)
      PROVE  [Next]_idemVars
  <2>1. Send(r, k, p)
    BY <1>3 DEF SubmitNew, Send, IntentInv, SentWhenCreated, Begun
  <2> QED
    BY <2>1 DEF Next
<1>4. ASSUME NEW h \in Hooks, NEW r \in Requests,
             OnSuccess(h, r) \/ OnError(h, r) \/ OnNetworkError(h, r)
      PROVE  [Next]_idemVars
  BY <1>4 DEF OnSuccess, OnError, OnNetworkError, Next
<1>5. ASSUME NEW h \in Hooks,
             Mount(h) \/ Unmount(h) \/ RetryTooLate(h) \/ ResolveExpired(h)
      PROVE  [Next]_idemVars
  BY <1>5 DEF Mount, Unmount, RetryTooLate, ResolveExpired
<1>6. ASSUME NEW o \in 0 .. Skew, MoveClock(o) PROVE [Next]_idemVars
  BY <1>6 DEF MoveClock
<1>7. CASE Reload
  BY <1>7 DEF Reload
<1>8. CASE UNCHANGED intentVars
  BY <1>8 DEF intentVars
<1> QED
  BY <1>1, <1>2, <1>3, <1>4, <1>5, <1>6, <1>7, <1>8 DEF IntentNext

-----------------------------------------------------------------------------
\* A success stays real: what a key has done is never undone or added to.
LEMMA SuccessStays ==
  ASSUME IdemInv, IntentInv, [Next]_idemVars, UNCHANGED succeeded,
         \A k \in Keys : Begun(k) => intent'[k] = intent[k]
  PROVE  SuccessIsReal'
<1> SUFFICES ASSUME NEW k \in succeeded PROVE effects'[k] = <<intent'[k].payload>>
  BY DEF SuccessIsReal
<1>1. k \in Keys /\ effects[k] = <<intent[k].payload>>
  BY DEF IntentInv, IntentTypeOK, SuccessIsReal
<1>2. effects[k] # <<>>
  BY <1>1, NotEmpty
<1>3. Begun(k)
  BY <1>1, <1>2 DEF IdemInv, KeyOK, IntentInv, SentWhenCreated
<1> QED
  BY <1>1, <1>2, <1>3, EffectsStay

\* The steps of the browser alone.
LEMMA BrowserKeeps ==
  ASSUME IdemInv, IntentInv, UNCHANGED <<idemVars, intent, succeeded>>,
         offset' \in 0 .. Skew, stored' \in {None, stored}, hook' \in [Hooks -> Hook],
         \A h \in Hooks : hook'[h].key \in {None, stored, hook[h].key}
  PROVE  IntentInv'
<1>1. IntentTypeOK' /\ SentWhenCreated' /\ RequestsCarryIntents' /\ SuccessIsReal'
  BY DEF IntentInv, IntentTypeOK, SentWhenCreated, RequestsCarryIntents, SuccessIsReal,
         Begun, idemVars
<1>2. HeldAreBegun'
  BY DEF IntentInv, HeldAreBegun, Begun
<1> QED
  BY <1>1, <1>2 DEF IntentInv

\* The server's steps: no new key or payload.
LEMMA ServeKeeps == IdemInv /\ IntentInv /\ Serve => IntentInv'
<1> SUFFICES ASSUME IdemInv, IntentInv, Serve PROVE IntentInv'
  OBVIOUS
<1>1. UNCHANGED browser /\ [Next]_idemVars
  BY DEF Serve, Next
<1>2. ASSUME NEW r \in Requests, Handle(r) \/ Forget(r)
      PROVE  /\ firstSent' = firstSent
             /\ \A q \in Requests : req'[q].pc # "none" =>
                  req[q].pc # "none" /\ req'[q].key = req[q].key /\ req'[q].payload = req[q].payload
  <2>1. req \in [Requests -> Request]
    BY DEF IdemInv, TypeOK
  <2>2. CASE Forget(r)
    <3>1. req' = [req EXCEPT ![r] = Slot] /\ Slot.pc = "none" /\ firstSent' = firstSent
      BY <2>2 DEF Forget, Slot
    <3> QED
      BY <2>1, <3>1
  <2>3. CASE AcquireLock(r) \/ Purge(r) \/ Miss(r) \/ Execute(r)
    BY <2>1, <2>3 DEF AcquireLock, Purge, Miss, Execute, Request
  <2>4. CASE Conflict(r) \/ Replay(r) \/ Commit(r) \/ Refuse(r) \/ Crash(r)
    <3>1. PICK answer : Answer(r, answer)
      BY <2>4 DEF Conflict, Replay, Commit, Refuse, Crash
    <3>2. req[r].pc # "none"
      BY <2>4 DEF Conflict, Replay, Commit, Refuse, Crash, Live
    <3> QED
      BY <2>1, <3>1, <3>2 DEF Answer, Request
  <2> QED
    BY <1>2, <2>2, <2>3, <2>4 DEF Handle
<1>3. /\ firstSent' = firstSent
      /\ \A q \in Requests : req'[q].pc # "none" =>
           req[q].pc # "none" /\ req'[q].key = req[q].key /\ req'[q].payload = req[q].payload
  BY <1>2 DEF Serve, Tick
<1>4. SuccessIsReal'
  BY <1>1, SuccessStays DEF browser, userVars
<1> QED
  BY <1>1, <1>3, <1>4
  DEF browser, userVars, IntentInv, IntentTypeOK, SentWhenCreated, HeldAreBegun,
      RequestsCarryIntents, Begun

\* What Post leaves, whether the intent is new or sent again.
LEMMA PostKeeps ==
  ASSUME IdemInv, IntentInv, NEW h \in Hooks, NEW r \in Requests, NEW k \in Keys,
         Post(h, r, k), Begun(k)', \A l \in Keys : Begun(l) => Begun(l)'
  PROVE  /\ HeldAreBegun'
         /\ offset' \in 0 .. Skew /\ stored' \in Keys \cup {None} /\ hook' \in [Hooks -> Hook]
         /\ succeeded' \subseteq Keys
<1> DEFINE t == [hook[h] EXCEPT !.key = k, !.inFlight = TRUE]
<1>1. hook \in [Hooks -> Hook] /\ hook[h] \in Hook
  BY DEF IntentInv, IntentTypeOK
<1>2. t \in Hook /\ t.key = k /\ hook' = [hook EXCEPT ![h] = t]
  BY <1>1 DEF Post, Hook
<1> HIDE DEF t
<1>3. hook' \in [Hooks -> Hook] /\ hook'[h].key = k
      /\ \A g \in Hooks \ {h} : hook'[g] = hook[g]
  BY <1>1, <1>2
<1>4. \A g \in Hooks : hook[g].key \in Keys \cup {None}
  BY DEF IntentInv, IntentTypeOK, Hook
<1>5. HeldAreBegun'
  BY <1>3, <1>4 DEF Post, HeldAreBegun, IntentInv
<1> QED
  BY <1>3, <1>5 DEF Post, userVars, IntentInv, IntentTypeOK

\* The request that arrives; every other one is as it was.
LEMMA ArriveLeaves ==
  ASSUME IdemInv, NEW r \in Requests, NEW k \in Keys, NEW p \in Payloads, Arrive(r, k, p)
  PROVE  /\ req'[r].key = k /\ req'[r].payload = p
         /\ \A q \in Requests \ {r} : req'[q] = req[q]
         /\ \A l \in Keys \ {k} : firstSent'[l] = firstSent[l]
         /\ firstSent[k] # NotSent => firstSent'[k] = firstSent[k]
         /\ firstSent[k] = NotSent => firstSent'[k] = now
<1> DEFINE t == [Slot EXCEPT !.pc = "sent", !.key = k, !.payload = p, !.sentAt = now]
<1>1. req' = [req EXCEPT ![r] = t] /\ t.key = k /\ t.payload = p
  BY DEF Arrive, Slot
<1> HIDE DEF t
<1> QED
  BY <1>1 DEF Arrive, IdemInv, TypeOK

\* A new intent is created and sent by the same clock.
LEMMA SubmitNewKeeps ==
  ASSUME IdemInv, IntentInv, [Next]_idemVars,
         NEW h \in Hooks, NEW r \in Requests, NEW k \in Keys, NEW p \in Payloads,
         SubmitNew(h, r, k, p)
  PROVE  IntentInv'
<1>1. /\ now \in Nat /\ offset \in 0 .. Skew /\ Clock \in Nat /\ Clock <= now + Skew
      /\ p # None /\ ~Begun(k)
  BY SkewAssumption, WindowAssumption
  DEF IdemInv, TypeOK, IntentInv, IntentTypeOK, Clock, SubmitNew, Begun
<1>2. /\ intent' \in [Keys -> [payload : Payloads \cup {None}, createdAt : Nat]]
      /\ intent'[k] = [payload |-> p, createdAt |-> Clock]
      /\ \A l \in Keys \ {k} : intent'[l] = intent[l]
  BY <1>1 DEF SubmitNew, IntentInv, IntentTypeOK
<1>3. Begun(k)' /\ \A l \in Keys : Begun(l) => Begun(l)' /\ intent'[l] = intent[l]
  BY <1>1, <1>2 DEF Begun
<1>4. /\ HeldAreBegun'
      /\ offset' \in 0 .. Skew /\ stored' \in Keys \cup {None} /\ hook' \in [Hooks -> Hook]
      /\ succeeded' \subseteq Keys
  BY <1>3, PostKeeps DEF SubmitNew
<1>5. firstSent[k] = NotSent
  BY <1>1 DEF IntentInv, SentWhenCreated
<1>6. Arrive(r, k, p)
  BY DEF SubmitNew
<1>7. SentWhenCreated'
  <2>1. firstSent'[k] = now /\ now # NotSent
    BY <1>1, <1>5, <1>6, ArriveLeaves DEF NotSent
  <2>2. \A l \in Keys \ {k} : firstSent'[l] = firstSent[l]
    BY <1>6, ArriveLeaves
  <2> QED
    BY <1>1, <1>2, <1>3, <2>1, <2>2 DEF SentWhenCreated, IntentInv, Begun
<1>8. RequestsCarryIntents'
  <2> SUFFICES ASSUME NEW q \in Requests, req'[q].pc # "none"
               PROVE  req'[q].payload = intent'[req'[q].key].payload
    BY DEF RequestsCarryIntents
  <2>1. CASE q = r
    BY <1>2, <1>6, <2>1, ArriveLeaves
  <2>2. CASE q # r
    <3>1. req'[q] = req[q] /\ req[q].payload = intent[req[q].key].payload
          /\ req[q].key \in Keys /\ req[q].payload \in Payloads
      BY <1>6, <2>2, ArriveLeaves DEF IdemInv, RequestOK, IntentInv, RequestsCarryIntents
    <3>2. Begun(req[q].key)
      BY <3>1, WindowAssumption DEF Begun
    <3> QED
      BY <1>3, <3>1, <3>2
  <2> QED
    BY <2>1, <2>2
<1>9. SuccessIsReal'
  BY <1>3, SuccessStays DEF SubmitNew, Post, userVars
<1> QED
  BY <1>2, <1>4, <1>7, <1>8, <1>9 DEF IntentInv, IntentTypeOK

\* The first value and key are sent again.
LEMMA RetryKeeps ==
  ASSUME IdemInv, IntentInv, [Next]_idemVars, NEW h \in Hooks, NEW r \in Requests, Retry(h, r)
  PROVE  IntentInv'
<1> DEFINE k == hook[h].key
<1>1. k \in Keys /\ Begun(k) /\ intent[k].payload \in Payloads /\ UNCHANGED intent
  BY DEF Retry, IntentInv, IntentTypeOK, HeldAreBegun, Hook, Begun
<1>2. Arrive(r, k, intent[k].payload) /\ Post(h, r, k)
  BY DEF Retry
<1> HIDE DEF k
<1>3. /\ HeldAreBegun'
      /\ offset' \in 0 .. Skew /\ stored' \in Keys \cup {None} /\ hook' \in [Hooks -> Hook]
      /\ succeeded' \subseteq Keys
  BY <1>1, <1>2, PostKeeps DEF Begun
<1>4. \A l \in Keys : firstSent'[l] = firstSent[l]
  BY <1>1, <1>2, ArriveLeaves DEF IntentInv, SentWhenCreated
<1>5. SentWhenCreated'
  BY <1>1, <1>4 DEF SentWhenCreated, IntentInv, Begun
<1>6. RequestsCarryIntents'
  BY <1>1, <1>2, ArriveLeaves DEF RequestsCarryIntents, IntentInv
<1>7. SuccessIsReal'
  BY <1>1, <1>2, SuccessStays DEF Post, userVars
<1> QED
  BY <1>1, <1>3, <1>5, <1>6, <1>7 DEF IntentInv, IntentTypeOK

-----------------------------------------------------------------------------
\* A request is answered: its slot is free, and a hook may let its key go.
LEMMA AnswerLeaves ==
  ASSUME IdemInv, IntentInv, NEW h \in Hooks, NEW r \in Requests, Forget(r),
         NEW t \in Hook, t.key \in {None, hook[h].key}, hook' = [hook EXCEPT ![h] = t],
         stored' \in {None, stored}, UNCHANGED <<offset, intent>>,
         succeeded' \subseteq Keys, SuccessIsReal'
  PROVE  IntentInv'
<1>1. hook' \in [Hooks -> Hook]
      /\ \A g \in Hooks : hook'[g].key \in {None, hook[g].key}
  BY DEF IntentInv, IntentTypeOK
<1>2. UNCHANGED firstSent /\ \A q \in Requests : req'[q].pc # "none" => req'[q] = req[q]
  <2>1. req' = [req EXCEPT ![r] = Slot] /\ Slot.pc = "none" /\ UNCHANGED firstSent
    BY DEF Forget, Slot
  <2> QED
    BY <2>1 DEF IdemInv, TypeOK
<1>3. IntentTypeOK' /\ SentWhenCreated' /\ RequestsCarryIntents'
  BY <1>1, <1>2 DEF IntentInv, IntentTypeOK, SentWhenCreated, RequestsCarryIntents, Begun
<1>4. HeldAreBegun'
  BY <1>1 DEF IntentInv, HeldAreBegun, Begun
<1> QED
  BY <1>3, <1>4 DEF IntentInv

\* The success that is shown is the answered request's own effect.
LEMMA OnSuccessKeeps ==
  ASSUME IdemInv, IntentInv, NEW h \in Hooks, NEW r \in Requests, OnSuccess(h, r)
  PROVE  IntentInv'
<1> DEFINE t == Left(h, [hook[h] EXCEPT !.key = None, !.inFlight = FALSE,
                                        !.unknown = FALSE, !.expired = FALSE])
           k == req[r].key
<1>1. hook[h] \in Hook
  BY DEF IntentInv, IntentTypeOK
<1>2. t \in Hook /\ t.key = None /\ hook' = [hook EXCEPT ![h] = t]
  BY <1>1 DEF OnSuccess, Left, NotMounted, Hook
<1>3. /\ Forget(r) /\ UNCHANGED <<offset, intent>> /\ stored' \in {None, stored}
      /\ succeeded' = succeeded \cup {k} /\ UNCHANGED effects
      /\ req[r].pc = "answered" /\ req[r].answer = "ok"
  BY DEF OnSuccess, Settle, ClearStored, Forget
<1>4. k \in Keys /\ effects[k] = <<intent[k].payload>>
  BY <1>3 DEF IdemInv, RequestOK, IntentInv, RequestsCarryIntents
<1> HIDE DEF t, k
<1>5. SuccessIsReal' /\ succeeded' \subseteq Keys
  BY <1>3, <1>4 DEF IntentInv, IntentTypeOK, SuccessIsReal
<1> QED
  BY <1>2, <1>3, <1>5, AnswerLeaves

\* A refusal lets the key go only when its outcome is known.
LEMMA OnErrorKeeps ==
  ASSUME IdemInv, IntentInv, NEW h \in Hooks, NEW r \in Requests, OnError(h, r)
  PROVE  IntentInv'
<1> DEFINE known == Known(h, req[r].answer)
           t == Left(h, [hook[h] EXCEPT !.inFlight = FALSE, !.unknown = ~known,
                                        !.key = IF known THEN None ELSE hook[h].key])
<1>1. hook[h] \in Hook
  BY DEF IntentInv, IntentTypeOK
<1>2. known \in BOOLEAN
  BY DEF Known
<1>3. hook' = [hook EXCEPT ![h] = t]
  BY DEF OnError
<1> HIDE DEF known
<1>4. t \in Hook /\ t.key \in {None, hook[h].key}
  BY <1>1, <1>2 DEF Left, NotMounted, Hook
<1>5. /\ Forget(r) /\ UNCHANGED <<offset, intent, succeeded, effects>>
      /\ stored' \in {None, stored}
  BY DEF OnError, Settle, ClearStored, Forget
<1> HIDE DEF t
<1>6. SuccessIsReal' /\ succeeded' \subseteq Keys
  BY <1>5 DEF IntentInv, IntentTypeOK, SuccessIsReal
<1> QED
  BY <1>3, <1>4, <1>5, <1>6, AnswerLeaves

\* Steps of one hook, without the server.
LEMMA OneHook ==
  ASSUME IdemInv, IntentInv, NEW h \in Hooks, NEW t \in Hook,
         t.key \in {None, stored, hook[h].key}, hook' = [hook EXCEPT ![h] = t],
         UNCHANGED <<idemVars, offset, intent, succeeded>>, stored' \in {None, stored}
  PROVE  IntentInv'
<1>1. /\ hook' \in [Hooks -> Hook] /\ offset' \in 0 .. Skew
      /\ \A g \in Hooks : hook'[g].key \in {None, stored, hook[g].key}
  BY DEF IntentInv, IntentTypeOK
<1> QED
  BY <1>1, BrowserKeeps

LEMMA HookStepKeeps ==
  ASSUME IdemInv, IntentInv, NEW h \in Hooks,
         Mount(h) \/ Unmount(h) \/ RetryTooLate(h) \/ ResolveExpired(h)
           \/ \E r \in Requests : OnNetworkError(h, r)
  PROVE  IntentInv'
<1>0. hook[h] \in Hook /\ stored \in Keys \cup {None} /\ NotMounted \in Hook
      /\ NotMounted.key = None
  BY DEF IntentInv, IntentTypeOK, NotMounted, Hook
<1>1. CASE Mount(h)
  <2> DEFINE t == [mounted |-> TRUE, key |-> stored, unknown |-> stored # None,
                   expired |-> stored # None /\ RecoveryExpired(stored), inFlight |-> FALSE]
  <2>1. t \in Hook /\ t.key = stored
    BY <1>0 DEF Hook, RecoveryExpired
  <2> QED
    BY <1>1, <2>1, OneHook DEF Mount, userVars
<1>2. CASE Unmount(h)
  <2> DEFINE t == IF hook[h].inFlight THEN [hook[h] EXCEPT !.mounted = FALSE] ELSE NotMounted
  <2>1. t \in Hook /\ t.key \in {None, hook[h].key}
    BY <1>0 DEF Hook
  <2> QED
    BY <1>2, <2>1, OneHook DEF Unmount, userVars
<1>3. CASE RetryTooLate(h)
  <2> DEFINE t == [hook[h] EXCEPT !.expired = TRUE, !.unknown = TRUE]
  <2>1. t \in Hook /\ t.key = hook[h].key
    BY <1>0 DEF Hook
  <2> QED
    BY <1>3, <2>1, OneHook DEF RetryTooLate, userVars
<1>4. CASE ResolveExpired(h)
  <2> DEFINE t == [hook[h] EXCEPT !.key = None, !.unknown = FALSE, !.expired = FALSE]
  <2>1. t \in Hook /\ t.key = None
    BY <1>0 DEF Hook
  <2> QED
    <3>1. hook' = [hook EXCEPT ![h] = t] /\ stored' \in {None, stored}
          /\ UNCHANGED <<idemVars, offset, intent, succeeded>>
      BY <1>4 DEF ResolveExpired
    <3> QED
      BY <2>1, <3>1, OneHook
<1>5. ASSUME NEW r \in Requests, OnNetworkError(h, r) PROVE IntentInv'
  <2> DEFINE t == Left(h, [hook[h] EXCEPT !.inFlight = FALSE, !.unknown = TRUE])
  <2>1. t \in Hook /\ t.key \in {None, hook[h].key}
    BY <1>0 DEF Left, Hook
  <2>2. hook' = [hook EXCEPT ![h] = t]
    BY <1>5 DEF OnNetworkError
  <2> QED
    BY <1>5, <2>1, <2>2, OneHook DEF OnNetworkError, Settle
<1> QED
  BY <1>1, <1>2, <1>3, <1>4, <1>5

\* A step of the clock or of the whole page.
LEMMA PageStepKeeps ==
  ASSUME IdemInv, IntentInv, Reload \/ (\E o \in 0 .. Skew : MoveClock(o)) \/ UNCHANGED intentVars
  PROVE  IntentInv'
<1>1. /\ offset' \in 0 .. Skew /\ UNCHANGED <<idemVars, intent, stored, succeeded>>
      /\ hook' = hook \/ hook' = [h \in Hooks |-> NotMounted]
  BY DEF Reload, MoveClock, intentVars, browser, userVars, IntentInv, IntentTypeOK
<1>2. NotMounted \in Hook /\ NotMounted.key = None /\ hook \in [Hooks -> Hook]
  BY DEF NotMounted, Hook, IntentInv, IntentTypeOK
<1> QED
  BY <1>1, <1>2, BrowserKeeps

LEMMA IntentStepKeeps ==
  IdemInv /\ IntentInv /\ [IntentNext]_intentVars => IdemInv' /\ IntentInv'
<1> SUFFICES ASSUME IdemInv, IntentInv, [IntentNext]_intentVars PROVE IdemInv' /\ IntentInv'
  OBVIOUS
<1>1. [Next]_idemVars /\ IdemInv'
  BY StepSimulates, StepKeeps
<1>2. IntentInv'
  BY <1>1, ServeKeeps, SubmitNewKeeps, RetryKeeps, OnSuccessKeeps, OnErrorKeeps,
     HookStepKeeps, PageStepKeeps
  DEF IntentNext
<1> QED
  BY <1>1, <1>2

-----------------------------------------------------------------------------
\* The browser and the server implement Idempotency: whatever the browser's
\* clock does (up to Skew) and however often the page is reloaded, no key is
\* sent after its retry window.
THEOREM BrowserKeepsPromise == IntentSpec => ServerUse
<1>1. IntentInit => Init
  BY DEF IntentInit
<1> QED
  BY <1>1, IntentInitInvariant, IntentStepKeeps, StepSimulates, PTL
  DEF IntentSpec, ServerUse, Spec

\* So the server's guarantee holds for it: a key takes effect at most once.
THEOREM CommandAtMostOnce == IntentSpec => []AtMostOnce
  BY BrowserKeepsPromise, EffectAtMostOnce, PTL DEF ServerUse

\* A command reported as done took effect exactly once, with its own payload,
\* also with several forms, reloads and a moving clock.
THEOREM ReportedSuccessIsReal == IntentSpec => []SuccessIsReal
<1>1. IntentInv => SuccessIsReal
  BY DEF IntentInv
<1> QED
  BY <1>1, IntentInitInvariant, IntentStepKeeps, PTL DEF IntentSpec

-----------------------------------------------------------------------------
(* What becomes of a command when one form at a time is alive.  With two, a   *)
(* late refusal to the first drops a key that the second sends again.        *)

Alive(h) == hook[h].mounted \/ hook[h].inFlight

ReportTypes(h) ==
  /\ listener \in [Requests -> {h, None}]
  /\ refused \subseteq Keys /\ resolved \subseteq Keys

\* The form awaits one request at a time, of its key unless the user has resolved it.
AwaitsOne(h) ==
  /\ \A r \in Requests : listener[r] = h =>
       /\ hook[h].inFlight /\ req[r].pc # "none"
       /\ hook[h].key # req[r].key => hook[h].key = None /\ req[r].key \in resolved
  /\ \A q, r \in Requests : listener[q] = h /\ listener[r] = h => q = r

\* The form and sessionStorage hold the same key; it is only certain not to have taken
\* effect before while its first request is under way.
InStep(h) ==
  /\ Alive(h) => hook[h].key = stored
  /\ ~Alive(h) => hook[h].key = None
  /\ hook[h].key # None /\ ~hook[h].unknown => hook[h].inFlight

Sent(r, k) == req[r].pc # "none" /\ req[r].key = k
Succeeded(r) == req[r].pc = "answered" /\ req[r].answer = "ok"

FirstAttempt(h) ==
  hook[h].key # None /\ ~hook[h].unknown =>
    /\ \A r \in Requests : Sent(r, hook[h].key) => listener[r] = h
    /\ effects[hook[h].key] # <<>> =>
         \E r \in Requests : Sent(r, hook[h].key) /\ Succeeded(r)

\* Every command the user has not been told of is the stored one.
Accounted == \A k \in Keys : Begun(k) => k \in succeeded \cup resolved \cup refused \/ stored = k

\* A refused command has had no effect and has no request left that could have one.
RefusedIsOver ==
  \A k \in refused \ resolved :
    /\ Begun(k) /\ effects[k] = <<>> /\ k # stored
    /\ \A r \in Requests : Sent(r, k) => req[r].pc = "answered"

ReportInv(h) ==
  ReportTypes(h) /\ AwaitsOne(h) /\ InStep(h) /\ FirstAttempt(h) /\ Accounted /\ RefusedIsOver

\* A step of the server for a request: it stays the request it is, and an effect comes
\* with its answer.
LEMMA HandleLeaves ==
  ASSUME IdemInv, NEW r \in Requests, Handle(r)
  PROVE  \E t \in Request :
           /\ req' = [req EXCEPT ![r] = t] /\ t.key = req[r].key
           /\ t.pc # "none" /\ req[r].pc \notin {"none", "answered"}
           /\ \/ effects' = effects
              \/ /\ t.pc = "answered" /\ t.answer = "ok"
                 /\ \A k \in Keys : k # req[r].key => effects'[k] = effects[k]
<1>1. req \in [Requests -> Request] /\ effects \in [Keys -> Seq(Payloads)] /\ req[r] \in Request
  BY DEF IdemInv, TypeOK
<1>2. CASE AcquireLock(r)
  <2> DEFINE t == [req[r] EXCEPT !.pc = "purge"]
  <2>1. t \in Request /\ t.key = req[r].key /\ t.pc = "purge"
    BY <1>1 DEF Request
  <2>2. req' = [req EXCEPT ![r] = t] /\ req[r].pc = "sent" /\ effects' = effects
    BY <1>2 DEF AcquireLock
  <2> QED BY <2>1, <2>2
<1>3. CASE Purge(r)
  <2> DEFINE t == [req[r] EXCEPT !.pc = "lookup", !.purged = Expired]
  <2>1. t \in Request /\ t.key = req[r].key /\ t.pc = "lookup"
    BY <1>1 DEF Request, Expired
  <2>2. req' = [req EXCEPT ![r] = t] /\ req[r].pc = "purge" /\ effects' = effects
    BY <1>1, <1>3 DEF Purge
  <2> QED BY <2>1, <2>2
<1>4. CASE Miss(r)
  <2> DEFINE t == [req[r] EXCEPT !.pc = "work"]
  <2>1. t \in Request /\ t.key = req[r].key /\ t.pc = "work"
    BY <1>1 DEF Request
  <2>2. req' = [req EXCEPT ![r] = t] /\ req[r].pc = "lookup" /\ effects' = effects
    BY <1>4 DEF Miss
  <2> QED BY <2>1, <2>2
<1>5. CASE Execute(r)
  <2> DEFINE t == [req[r] EXCEPT !.pc = "commit", !.expires = now + Retention]
  <2>0. now + Retention \in Nat
    BY WindowAssumption DEF IdemInv, TypeOK
  <2>1. t \in Request /\ t.key = req[r].key /\ t.pc = "commit"
    BY <1>1, <2>0 DEF Request
  <2>2. req' = [req EXCEPT ![r] = t] /\ req[r].pc = "work" /\ effects' = effects
    BY <1>1, <1>5 DEF Execute
  <2> QED BY <2>1, <2>2
<1>6. ASSUME NEW answer \in {"ok", "refused", "conflict", "lost"}, Answer(r, answer), Live(r),
             \/ effects' = effects
             \/ answer = "ok" /\ \A k \in Keys : k # req[r].key => effects'[k] = effects[k]
      PROVE  \E t \in Request :
               /\ req' = [req EXCEPT ![r] = t] /\ t.key = req[r].key
               /\ t.pc # "none" /\ req[r].pc \notin {"none", "answered"}
               /\ \/ effects' = effects
                  \/ /\ t.pc = "answered" /\ t.answer = "ok"
                     /\ \A k \in Keys : k # req[r].key => effects'[k] = effects[k]
  <2> DEFINE t == [req[r] EXCEPT !.pc = "answered", !.answer = answer, !.purged = {}]
  <2>1. t \in Request /\ t.key = req[r].key /\ t.pc = "answered" /\ t.answer = answer
    BY <1>1 DEF Request
  <2>2. req' = [req EXCEPT ![r] = t] /\ req[r].pc \notin {"none", "answered"}
    BY <1>1, <1>6 DEF Answer, Live
  <2> HIDE DEF t
  <2> QED BY <1>6, <2>1, <2>2
<1>7. CASE Commit(r)
  <2>1. Answer(r, "ok") /\ Live(r) /\ \A k \in Keys : k # req[r].key => effects'[k] = effects[k]
    BY <1>1, <1>7 DEF Commit, Live
  <2> QED BY <1>6, <2>1
<1>8. CASE Conflict(r) \/ Replay(r) \/ Refuse(r) \/ Crash(r)
  <2>1. PICK answer \in {"ok", "refused", "conflict", "lost"} : Answer(r, answer)
    BY <1>8 DEF Conflict, Replay, Refuse, Crash
  <2>2. Live(r) /\ effects' = effects
    BY <1>8 DEF Conflict, Replay, Refuse, Crash, Live, Rollback
  <2> QED BY <1>6, <2>1, <2>2
<1> QED
  BY <1>2, <1>3, <1>4, <1>5, <1>7, <1>8 DEF Handle

\* The server's steps keep what is known of the reports.
LEMMA ServeReports ==
  ASSUME IdemInv, IntentInv, NEW h, Hooks = {h}, ReportInv(h), Serve
  PROVE  ReportInv(h)'
<1>0. h # None
  BY SkewAssumption
<1>1. UNCHANGED browser
  BY DEF Serve
<1>2. \A r \in Requests : req[r].pc # "none" => req[r].key \in Keys
  BY DEF IdemInv, RequestOK
<1>3. req \in [Requests -> Request] /\ effects \in [Keys -> Seq(Payloads)]
  BY DEF IdemInv, TypeOK
<1> USE DEF Sent, Succeeded
<1>4. CASE UNCHANGED <<req, effects>>
  BY <1>1, <1>4 DEF ReportInv, ReportTypes, AwaitsOne, InStep, FirstAttempt, Accounted,
                    RefusedIsOver, Alive, Begun, browser, userVars
<1>5. ASSUME NEW r \in Requests, Handle(r) PROVE ReportInv(h)'
  <2>1. PICK t \in Request :
           /\ req' = [req EXCEPT ![r] = t] /\ t.key = req[r].key
           /\ t.pc # "none" /\ req[r].pc \notin {"none", "answered"}
           /\ \/ effects' = effects
              \/ /\ t.pc = "answered" /\ t.answer = "ok"
                 /\ \A k \in Keys : k # req[r].key => effects'[k] = effects[k]
    BY <1>5, HandleLeaves
  <2>2. req'[r] = t /\ \A q \in Requests \ {r} : req'[q] = req[q]
    BY <1>3, <2>1
  <2>3. \A q \in Requests, k \in Keys : Sent(q, k)' <=> Sent(q, k)
    BY <2>1, <2>2
  <2>4. AwaitsOne(h)'
    BY <1>1, <2>1, <2>2 DEF AwaitsOne, browser, userVars, ReportInv
  <2>5. InStep(h)' /\ ReportTypes(h)' /\ Accounted'
    BY <1>1 DEF InStep, ReportTypes, Accounted, Alive, Begun, browser, userVars, ReportInv
  <2>6. FirstAttempt(h)'
    <3> SUFFICES ASSUME NEW k \in Keys, k = hook[h].key, ~hook[h].unknown, FirstAttempt(h)
                 PROVE  /\ \A q \in Requests : Sent(q, k)' => listener[q] = h
                        /\ effects'[k] # <<>> =>
                             \E q \in Requests : Sent(q, k)' /\ Succeeded(q)'
      <4>1. hook[h].key \in Keys \cup {None}
        BY DEF IntentInv, IntentTypeOK, Hook
      <4>2. hook' = hook /\ listener' = listener
        BY <1>1 DEF browser
      <4> QED BY <4>1, <4>2 DEF FirstAttempt, ReportInv
    <3>1. k # None
      BY SkewAssumption
    <3>2. \A q \in Requests : Sent(q, k)' => listener[q] = h
      BY <2>2, <2>1, <3>1 DEF FirstAttempt
    <3>3. CASE effects'[k] = effects[k]
      <4> SUFFICES ASSUME effects[k] # <<>>
                   PROVE  \E q \in Requests : Sent(q, k)' /\ Succeeded(q)'
        BY <3>2, <3>3
      <4>1. PICK q \in Requests : Sent(q, k) /\ Succeeded(q)
        BY <3>1 DEF FirstAttempt
      <4>2. q # r
        BY <2>1, <4>1
      <4> QED BY <2>2, <4>1, <4>2
    <3>4. CASE effects'[k] # effects[k]
      BY <2>1, <2>2, <3>1, <3>2, <3>4
    <3> QED BY <3>3, <3>4
  <2>7. RefusedIsOver'
    <3> SUFFICES ASSUME NEW k \in refused \ resolved
                 PROVE  /\ Begun(k) /\ effects'[k] = <<>> /\ k # stored
                        /\ \A q \in Requests : Sent(q, k)' => req'[q].pc = "answered"
      BY <1>1 DEF RefusedIsOver, Begun, browser, userVars
    <3>1. k \in Keys /\ Begun(k) /\ effects[k] = <<>> /\ k # stored
          /\ \A q \in Requests : Sent(q, k) => req[q].pc = "answered"
      BY DEF ReportInv, RefusedIsOver, ReportTypes
    <3>2. req[r].key # k
      BY <2>1, <3>1
    <3> QED BY <2>1, <2>2, <2>3, <3>1, <3>2
  <2> QED BY <2>4, <2>5, <2>6, <2>7 DEF ReportInv
<1>6. ASSUME NEW r \in Requests, listener[r] = None, Forget(r) PROVE ReportInv(h)'
  <2>1. req'[r].pc = "none" /\ (\A q \in Requests \ {r} : req'[q] = req[q]) /\ effects' = effects
    BY <1>3, <1>6 DEF Forget, Slot
  <2>2. FirstAttempt(h)'
    BY <1>0, <1>1, <1>6, <2>1 DEF FirstAttempt, ReportInv, browser, userVars
  <2>3. AwaitsOne(h)' /\ InStep(h)' /\ ReportTypes(h)' /\ Accounted'
    BY <1>0, <1>1, <1>6, <2>1 DEF AwaitsOne, InStep, ReportTypes, Accounted, Alive, Begun, browser,
       userVars, ReportInv
  <2>4. RefusedIsOver'
    BY <1>1, <2>1 DEF RefusedIsOver, ReportInv, Begun, browser, userVars
  <2> QED BY <2>2, <2>3, <2>4 DEF ReportInv
<1> QED
  BY <1>4, <1>5, <1>6 DEF Serve, Tick

\* Sending a key, new or not: it is the only request the form then awaits.
LEMMA PostReports ==
  ASSUME IdemInv, IntentInv, NEW h, Hooks = {h}, ReportInv(h),
         NEW r \in Requests, NEW k \in Keys, NEW p \in Payloads,
         Arrive(r, k, p), Post(h, r, k), hook[h].mounted, ~hook[h].inFlight,
         stored \in {None, k}, \A l \in Keys : Begun(l)' <=> Begun(l) \/ l = k,
         k \notin refused \ resolved,
         hook[h].unknown \/ (effects[k] = <<>> /\ \A q \in Requests : ~Sent(q, k))
  PROVE  ReportInv(h)'
<1>0. h # None /\ k # None
  BY SkewAssumption
<1>1. /\ req[r].pc = "none" /\ req'[r].pc = "sent" /\ req'[r].key = k
      /\ (\A q \in Requests \ {r} : req'[q] = req[q]) /\ effects' = effects
  <2> DEFINE t == [Slot EXCEPT !.pc = "sent", !.key = k, !.payload = p, !.sentAt = now]
  <2>1. req' = [req EXCEPT ![r] = t] /\ t.pc = "sent" /\ t.key = k
    BY DEF Arrive, Slot
  <2> HIDE DEF t
  <2> QED BY <2>1 DEF Arrive, IdemInv, TypeOK
<1>2. /\ hook'[h].mounted = hook[h].mounted /\ hook'[h].key = k /\ hook'[h].inFlight = TRUE
      /\ hook'[h].unknown = hook[h].unknown
  BY DEF Post, IntentInv, IntentTypeOK, Hook
<1>3. /\ stored' = k /\ listener' \in [Requests -> {h, None}] /\ listener'[r] = h
      /\ \A q \in Requests \ {r} : listener'[q] = listener[q]
      /\ UNCHANGED userVars
  BY DEF Post, ReportInv, ReportTypes
<1>4. \A q \in Requests : listener[q] # h
  BY DEF ReportInv, AwaitsOne
<1>5. ReportTypes(h)'
  BY <1>3 DEF ReportInv, ReportTypes, userVars
<1>6. AwaitsOne(h)'
  BY <1>1, <1>2, <1>3, <1>4 DEF AwaitsOne
<1>7. InStep(h)'
  BY <1>2, <1>3 DEF InStep, Alive
<1>8. FirstAttempt(h)'
  BY <1>0, <1>1, <1>2, <1>3 DEF FirstAttempt, Sent
<1>9. Accounted'
  <2> SUFFICES ASSUME NEW l \in Keys, Begun(l)'
               PROVE  l \in succeeded \cup refused \cup resolved \cup {k}
    BY <1>3 DEF Accounted, userVars
  <2>1. CASE l = k
    BY <2>1
  <2>2. CASE Begun(l)
    BY <2>2, SkewAssumption DEF ReportInv, Accounted
  <2> QED BY <2>1, <2>2
<1>10. RefusedIsOver'
  BY <1>1, <1>3 DEF RefusedIsOver, ReportInv, ReportTypes, Sent, userVars
<1> QED
  BY <1>5, <1>6, <1>7, <1>8, <1>9, <1>10 DEF ReportInv

LEMMA SubmitNewReports ==
  ASSUME IdemInv, IntentInv, NEW h, Hooks = {h}, ReportInv(h),
         NEW r \in Requests, NEW k \in Keys, NEW p \in Payloads, SubmitNew(h, r, k, p)
  PROVE  ReportInv(h)'
<1>1. ~Begun(k) /\ \A l \in Keys : Begun(l)' <=> Begun(l) \/ l = k
  BY WindowAssumption DEF SubmitNew, Begun, IntentInv, IntentTypeOK
<1>2. effects[k] = <<>>
  BY <1>1 DEF IdemInv, KeyOK, IntentInv, SentWhenCreated
<1>3. \A q \in Requests : ~Sent(q, k)
  BY <1>1, WindowAssumption DEF Sent, Begun, IntentInv, RequestsCarryIntents, IdemInv, RequestOK
<1>4. stored = None
  BY DEF SubmitNew, ReportInv, InStep, Alive
<1>5. k \notin refused \ resolved
  BY <1>1 DEF ReportInv, RefusedIsOver
<1> QED
  BY <1>1, <1>2, <1>3, <1>4, <1>5, PostReports DEF SubmitNew

LEMMA RetryReports ==
  ASSUME IdemInv, IntentInv, NEW h, Hooks = {h}, ReportInv(h), NEW r \in Requests, Retry(h, r)
  PROVE  ReportInv(h)'
<1> DEFINE k == hook[h].key
<1>1. k \in Keys /\ Begun(k) /\ intent[k].payload \in Payloads /\ UNCHANGED intent
  BY DEF Retry, IntentInv, IntentTypeOK, HeldAreBegun, Hook, Begun
<1>2. stored = k /\ hook[h].unknown
  BY DEF Retry, ReportInv, InStep, Alive, IntentInv, IntentTypeOK, Hook
<1>3. k \notin refused \ resolved
  BY <1>2 DEF ReportInv, RefusedIsOver
<1>4. \A l \in Keys : Begun(l)' <=> Begun(l) \/ l = k
  BY <1>1 DEF Begun
<1>5. Arrive(r, k, intent[k].payload) /\ Post(h, r, k) /\ hook[h].mounted /\ ~hook[h].inFlight
  BY DEF Retry
<1> HIDE DEF k
<1> QED
  BY <1>1, <1>2, <1>3, <1>4, <1>5, PostReports

\* The end of a mutation: the form awaits nothing; its key, if it goes, goes from
\* sessionStorage too, and into the report.
LEMMA SettleReports ==
  ASSUME IdemInv, IntentInv, NEW h, Hooks = {h}, ReportInv(h),
         NEW r \in Requests, Settle(h, r), Forget(r) \/ UNCHANGED idemVars,
         NEW t \in Hook, hook' = [hook EXCEPT ![h] = Left(h, t)],
         t.mounted = hook[h].mounted, ~t.inFlight,
         \/ t.unknown /\ t.key = hook[h].key /\ stored' = stored
         \/ t.key = None /\ ClearStored(req[r].key) /\ req[r].key \in succeeded' \cup refused',
         succeeded \subseteq succeeded', refused \subseteq refused',
         refused' \in {refused, refused \cup {req[r].key}},
         refused' = refused \/ (req[r].pc = "answered" /\ req[r].answer \in {"refused", "conflict"}
                                /\ t.key = None /\ ~hook[h].unknown)
  PROVE  ReportInv(h)'
<1> DEFINE k == req[r].key
<1>0. h # None /\ None \notin Keys /\ Slot.pc = "none"
  BY SkewAssumption DEF Slot
<1>1. /\ \A q \in Requests : req'[q].pc # "none" => req'[q] = req[q]
      /\ \A q \in Requests \ {r} : req'[q] = req[q]
      /\ effects' = effects
  BY <1>0 DEF Forget, idemVars, IdemInv, TypeOK
<1>2. /\ req[r].pc # "none" /\ k \in Keys /\ hook[h].inFlight
      /\ (k # hook[h].key => hook[h].key = None /\ k \in resolved)
      /\ \A q \in Requests \ {r} : listener[q] # h
  BY DEF Settle, ReportInv, AwaitsOne, IdemInv, RequestOK
<1>3. /\ \A q \in Requests : listener'[q] = IF q = r THEN None ELSE listener[q]
      /\ listener' \in [Requests -> {h, None}] /\ UNCHANGED <<intent, resolved>>
  BY DEF Settle, ReportInv, ReportTypes
<1>4. hook[h].key = stored /\ stored \in Keys \cup {None}
  BY <1>2 DEF ReportInv, InStep, Alive, IntentInv, IntentTypeOK
<1>5. hook'[h] = IF hook[h].mounted THEN t ELSE NotMounted
  BY DEF Left, IntentInv, IntentTypeOK
<1>6. \/ stored' = stored /\ t.key = stored /\ t.unknown
      \/ stored' = None /\ t.key = None /\ k \in succeeded' \cup refused' /\ stored \in {None, k}
  <2>1. CASE t.unknown /\ t.key = hook[h].key /\ stored' = stored
    BY <1>4, <2>1
  <2>2. CASE t.key = None /\ ClearStored(k) /\ k \in succeeded' \cup refused'
    <3>1. stored \in {None, k}
      BY <1>2, <1>4
    <3> QED BY <2>2, <3>1 DEF ClearStored
  <2> QED BY <2>1, <2>2
<1>7. NotMounted.key = None /\ ~NotMounted.mounted /\ ~NotMounted.inFlight
  BY DEF NotMounted
<1> HIDE DEF k
<1>8. ReportTypes(h)' /\ AwaitsOne(h)'
  BY <1>0, <1>2, <1>3, k \in Keys DEF ReportInv, ReportTypes, AwaitsOne, k
<1>9. InStep(h)'
  BY <1>5, <1>6, <1>7 DEF InStep, Alive
<1>10. FirstAttempt(h)'
  BY <1>5, <1>6, <1>7 DEF FirstAttempt
<1>11. Accounted'
  BY <1>0, <1>3, <1>6 DEF Accounted, ReportInv, Begun
<1>12. RefusedIsOver'
  <2> SUFFICES ASSUME NEW l \in refused' \ resolved
               PROVE  /\ Begun(l) /\ effects[l] = <<>> /\ l # stored'
                      /\ \A q \in Requests : Sent(q, l)' => req'[q].pc = "answered"
    BY <1>1, <1>3 DEF RefusedIsOver, Begun
  <2>1. CASE l \in refused
    <3>1. /\ Begun(l) /\ effects[l] = <<>> /\ l # stored /\ l \in Keys
          /\ \A q \in Requests : Sent(q, l) => req[q].pc = "answered"
      BY <2>1 DEF ReportInv, RefusedIsOver, ReportTypes
    <3> QED BY <1>0, <1>1, <1>6, <3>1 DEF Sent
  <2>2. CASE l \notin refused
    <3>1. /\ l = k /\ req[r].pc = "answered" /\ req[r].answer \in {"refused", "conflict"}
          /\ t.key = None /\ ~hook[h].unknown
      BY <2>2 DEF k
    <3>2. k = hook[h].key /\ k # None
      BY <1>0, <1>2, <3>1
    <3>3. /\ \A q \in Requests : Sent(q, k) => q = r
          /\ effects[k] = <<>>
      BY <1>2, <3>1, <3>2 DEF ReportInv, FirstAttempt, Succeeded
    <3>4. Begun(k)
      BY <1>2, <3>2 DEF IntentInv, HeldAreBegun
    <3>5. stored' # k
      BY <1>0, <1>2, <1>4, <3>1, <3>2, <1>6
    <3> QED BY <1>1, <3>1, <3>3, <3>4, <3>5 DEF Sent
  <2> QED BY <2>1, <2>2
<1> QED
  BY <1>8, <1>9, <1>10, <1>11, <1>12 DEF ReportInv

LEMMA EndReports ==
  ASSUME IdemInv, IntentInv, NEW h, Hooks = {h}, ReportInv(h), NEW r \in Requests,
         OnSuccess(h, r) \/ OnError(h, r) \/ OnNetworkError(h, r)
  PROVE  ReportInv(h)'
<1>1. hook[h] \in Hook
  BY DEF IntentInv, IntentTypeOK
<1>2. CASE OnSuccess(h, r)
  <2> DEFINE t == [hook[h] EXCEPT !.key = None, !.inFlight = FALSE,
                                  !.unknown = FALSE, !.expired = FALSE]
  <2>1. t \in Hook /\ t.mounted = hook[h].mounted /\ t.inFlight = FALSE /\ t.key = None
    BY <1>1 DEF Hook
  <2>2. /\ Settle(h, r) /\ Forget(r) /\ hook' = [hook EXCEPT ![h] = Left(h, t)]
        /\ ClearStored(req[r].key) /\ succeeded' = succeeded \cup {req[r].key} /\ refused' = refused
    BY <1>2 DEF OnSuccess
  <2> HIDE DEF t
  <2> QED BY <2>1, <2>2, SettleReports
<1>3. CASE OnError(h, r)
  <2> DEFINE known == Known(h, req[r].answer)
             t == [hook[h] EXCEPT !.inFlight = FALSE, !.unknown = ~known,
                                  !.key = IF known THEN None ELSE hook[h].key]
  <2>0. known \in BOOLEAN
    BY DEF Known
  <2>1. /\ Settle(h, r) /\ Forget(r) /\ hook' = [hook EXCEPT ![h] = Left(h, t)]
        /\ (IF known THEN ClearStored(req[r].key) ELSE UNCHANGED stored)
        /\ refused' = (IF known THEN refused \cup {req[r].key} ELSE refused)
        /\ succeeded' = succeeded /\ req[r].pc = "answered"
    BY <1>3 DEF OnError
  <2>2. known => ~hook[h].unknown /\ req[r].answer \in {"refused", "conflict"}
    BY DEF Known
  <2> HIDE DEF known
  <2>3. /\ t \in Hook /\ t.mounted = hook[h].mounted /\ t.inFlight = FALSE
        /\ t.unknown = ~known /\ t.key = IF known THEN None ELSE hook[h].key
    BY <1>1, <2>0 DEF Hook
  <2> HIDE DEF t
  <2>4. CASE known
    BY <2>1, <2>2, <2>3, <2>4, SettleReports
  <2>5. CASE ~known
    BY <2>1, <2>3, <2>5, SettleReports
  <2> QED BY <2>4, <2>5
<1>4. CASE OnNetworkError(h, r)
  <2> DEFINE t == [hook[h] EXCEPT !.inFlight = FALSE, !.unknown = TRUE]
  <2>1. /\ t \in Hook /\ t.mounted = hook[h].mounted /\ t.inFlight = FALSE /\ t.unknown = TRUE
        /\ t.key = hook[h].key
    BY <1>1 DEF Hook
  <2>2. /\ Settle(h, r) /\ hook' = [hook EXCEPT ![h] = Left(h, t)]
        /\ UNCHANGED <<idemVars, stored, succeeded, refused>>
    BY <1>4 DEF OnNetworkError
  <2> HIDE DEF t
  <2> QED BY <2>1, <2>2, SettleReports
<1> QED BY <1>2, <1>3, <1>4

\* The steps of the form and the page that concern no request.
LEMMA PageReports ==
  ASSUME IdemInv, IntentInv, NEW h, Hooks = {h}, ReportInv(h),
         \/ Reload \/ (\E o \in 0 .. Skew : MoveClock(o))
         \/ Mount(h) \/ Unmount(h) \/ RetryTooLate(h) \/ ResolveExpired(h)
         \/ UNCHANGED intentVars
  PROVE  ReportInv(h)'
<1> USE DEF Sent, Succeeded
<1>0. /\ h # None /\ None \notin Keys /\ hook \in [Hooks -> Hook] /\ hook[h] \in Hook
      /\ NotMounted.key = None /\ NotMounted.mounted = FALSE /\ NotMounted.inFlight = FALSE
      /\ stored \in Keys \cup {None}
  BY SkewAssumption DEF IntentInv, IntentTypeOK, NotMounted
<1>1. CASE Reload
  BY <1>0, <1>1 DEF Reload, ReportInv, ReportTypes, AwaitsOne, InStep, Alive, FirstAttempt,
                    Accounted, RefusedIsOver, Begun, idemVars, userVars
<1>2. CASE (\E o \in 0 .. Skew : MoveClock(o)) \/ UNCHANGED intentVars
  BY <1>2 DEF MoveClock, ReportInv, ReportTypes, AwaitsOne, InStep, Alive, FirstAttempt,
              Accounted, RefusedIsOver, Begun, idemVars, userVars, intentVars, browser
<1>3. CASE Mount(h)
  <2> DEFINE t == [mounted |-> TRUE, key |-> stored, unknown |-> stored # None,
                   expired |-> stored # None /\ RecoveryExpired(stored), inFlight |-> FALSE]
  <2>1. /\ hook'[h].mounted /\ hook'[h].key = stored /\ hook'[h].unknown = (stored # None)
        /\ ~hook'[h].inFlight
    BY <1>0, <1>3 DEF Mount
  <2>2. ~hook[h].inFlight /\ UNCHANGED <<idemVars, intent, stored, listener, userVars>>
    BY <1>3 DEF Mount
  <2> QED BY <2>1, <2>2 DEF ReportInv, ReportTypes, AwaitsOne, InStep, Alive,
       FirstAttempt, Accounted, RefusedIsOver, Begun, idemVars, userVars
<1>4. CASE Unmount(h)
  <2>1. UNCHANGED <<idemVars, intent, stored, listener, userVars>>
    BY <1>4 DEF Unmount
  <2>2. CASE hook[h].inFlight
    <3>1. /\ hook'[h].mounted = FALSE /\ hook'[h].key = hook[h].key /\ hook'[h].inFlight
          /\ hook'[h].unknown = hook[h].unknown
      BY <1>0, <1>4, <2>2 DEF Unmount, Hook
    <3> QED BY <2>1, <2>2, <3>1 DEF ReportInv, ReportTypes, AwaitsOne, InStep,
         Alive, FirstAttempt, Accounted, RefusedIsOver, Begun, idemVars, userVars
  <2>3. CASE ~hook[h].inFlight
    <3>1. hook'[h] = NotMounted
      BY <1>0, <1>4, <2>3 DEF Unmount
    <3> QED BY <1>0, <2>1, <2>3, <3>1 DEF ReportInv, ReportTypes, AwaitsOne,
         InStep, Alive, FirstAttempt, Accounted, RefusedIsOver, Begun, idemVars, userVars
  <2> QED BY <2>2, <2>3
<1>5. CASE RetryTooLate(h)
  <2>1. UNCHANGED <<idemVars, intent, stored, listener, userVars>> /\ ~hook[h].inFlight
    BY <1>5 DEF RetryTooLate
  <2>2. /\ hook'[h].mounted = hook[h].mounted /\ hook'[h].key = hook[h].key
        /\ hook'[h].inFlight = hook[h].inFlight /\ hook'[h].unknown
    BY <1>0, <1>5 DEF RetryTooLate, Hook
  <2> QED BY <2>1, <2>2 DEF ReportInv, ReportTypes, AwaitsOne, InStep, Alive,
       FirstAttempt, Accounted, RefusedIsOver, Begun, idemVars, userVars
<1>6. CASE ResolveExpired(h)
  <2> DEFINE k == hook[h].key
  <2>1. /\ UNCHANGED <<idemVars, intent, listener, succeeded, refused>>
        /\ hook[h].mounted /\ resolved' = resolved \cup {k} /\ k # None
        /\ stored' = IF stored = k THEN None ELSE stored
    BY <1>6 DEF ResolveExpired
  <2>2. stored = k /\ k \in Keys
    BY <1>0, <2>1 DEF ReportInv, InStep, Alive
  <2>3. /\ hook'[h].mounted = TRUE /\ hook'[h].key = None
        /\ hook'[h].inFlight = hook[h].inFlight
    BY <1>0, <1>6, <2>1 DEF ResolveExpired, Hook
  <2>4. ReportTypes(h)' /\ InStep(h)' /\ FirstAttempt(h)' /\ Accounted'
    BY <2>1, <2>2, <2>3 DEF ReportInv, ReportTypes, InStep, Alive, FirstAttempt, Accounted, Begun
  <2>5. AwaitsOne(h)'
    BY <2>1, <2>2, <2>3 DEF ReportInv, AwaitsOne, idemVars
  <2>6. RefusedIsOver'
    BY <1>0, <2>1, <2>2 DEF ReportInv, ReportTypes, RefusedIsOver, Begun, idemVars
  <2> QED BY <2>4, <2>5, <2>6 DEF ReportInv
<1> QED BY <1>1, <1>2, <1>3, <1>4, <1>5, <1>6

\* The report invariant holds while there is one form.
LEMMA ReportsInductive ==
  ASSUME NEW h, Hooks = {h}
  PROVE  /\ IntentInit => ReportInv(h)
         /\ IdemInv /\ IntentInv /\ ReportInv(h) /\ [IntentNext]_intentVars => ReportInv(h)'
<1>0. h # None
  BY SkewAssumption
<1>1. ASSUME IntentInit PROVE ReportInv(h)
  BY <1>0, <1>1 DEF IntentInit, NotMounted, ReportInv, ReportTypes, AwaitsOne, InStep, Alive, FirstAttempt,
              Accounted, RefusedIsOver, Begun
<1>2. ASSUME IdemInv, IntentInv, ReportInv(h), [IntentNext]_intentVars PROVE ReportInv(h)'
  BY <1>2, ServeReports, SubmitNewReports, RetryReports, EndReports, PageReports DEF IntentNext
<1> QED BY <1>1, <1>2

\* With one form at a time, a command that took effect without the user having seen its
\* success is still held, unless the user resolved it.
THEOREM HeldUntilKnown ==
  ASSUME NEW h, Hooks = {h}
  PROVE  IntentSpec => []KeptUntilKnown
<1>1. ReportInv(h) => KeptUntilKnown
  <2> SUFFICES ASSUME ReportInv(h), NEW k \in Keys, Begun(k), effects[k] # <<>>
               PROVE  k \in succeeded \cup resolved \/ stored = k
    BY DEF KeptUntilKnown, Held, Begun
  <2> QED BY DEF ReportInv, Accounted, RefusedIsOver
<1> QED
  BY <1>1, ReportsInductive, IntentInitInvariant, IntentStepKeeps, PTL DEF IntentSpec

\* With one form at a time, what the user is told of a command stays true: a refused one
\* has no effect, now or later, and a successful one has exactly its own.
THEOREM ReportsStayTrue ==
  ASSUME NEW h, Hooks = {h}
  PROVE  IntentSpec => []ReportsAreTrue
<1>1. ReportInv(h) /\ IntentInv => ReportsAreTrue
  BY DEF ReportInv, RefusedIsOver, RefusalIsFinal, IntentInv, ReportsAreTrue
<1> QED
  BY <1>1, ReportsInductive, IntentInitInvariant, IntentStepKeeps, PTL DEF IntentSpec
=============================================================================
