----------------------------- MODULE TeamProofs -----------------------------
(***************************************************************************)
(* Proofs about the team commands, for any accounts, invitations, request     *)
(* handlers, seat limits and roles.                                          *)
(*                                                                         *)
(* Neither HasOwner nor SeatsAccounted is inductive: both rest on what the    *)
(* holder of the team lock has read and nobody else can change (WorkerOK),    *)
(* and the seats also on what a revocation, which takes no lock, leaves free. *)
(***************************************************************************)
EXTENDS Team, FiniteSetTheorems, TLAPS

Holding(w) ==
  \/ tx[w].pc \in {"seats", "pending", "recheck", "check"}
  \/ tx[w].pc = "write" /\ tx[w].kind # "revoke"

\* The kind of a command fits its step, and it names what it works on.
CommandOK(w) ==
  /\ tx[w].pc = "revoke" => tx[w].kind = "revoke"
  /\ tx[w].pc = "lock" => tx[w].kind \in {"invite", "accept", "role", "remove"}
  /\ tx[w].pc \in {"seats", "pending"} => tx[w].kind = "invite"
  /\ tx[w].pc = "recheck" => tx[w].kind = "accept"
  /\ tx[w].pc = "check" => tx[w].kind \in {"role", "remove"}
  /\ tx[w].kind \in {"invite", "accept", "role", "remove"} => tx[w].user \in Users
  /\ tx[w].kind \in {"accept", "revoke"} => tx[w].inv \in Invitations
  /\ tx[w].kind = "accept" => invitation[tx[w].inv].user # None

\* What an acceptance that is about to write has read under the lock.  Its
\* invitation may have been revoked or have expired since: then its seat is free.
MayStillJoin(w) ==
  /\ member[tx[w].user] = "NONE"
  /\ Cardinality(Members) < tx[w].seats
  /\ tx[w].seats <= highest
  /\ tx[w].inv \in Pending \/ SeatsTaken < highest

WorkerOK(w) ==
  /\ CommandOK(w)
  /\ Holding(w) => teamLock = w
  /\ tx[w].pc = "pending" => SeatsTaken < highest
  /\ tx[w].pc = "write" /\ tx[w].kind = "accept" => MayStillJoin(w)
  /\ tx[w].pc = "write" /\ tx[w].kind \in {"role", "remove"} =>
       member[tx[w].user] # "NONE" /\ ~LastOwner(w)

\* The inductive invariant.
TeamInv ==
  /\ TypeOK /\ seats <= highest
  /\ HasOwner /\ SeatsAccounted
  /\ \A w \in Workers : WorkerOK(w)

-----------------------------------------------------------------------------
\* Members and live invitations can be counted.
LEMMA Countable ==
  ASSUME TypeOK
  PROVE  /\ IsFiniteSet(Members) /\ Cardinality(Members) \in Nat
         /\ IsFiniteSet(Pending) /\ Cardinality(Pending) \in Nat
         /\ SeatsTaken \in Nat
<1>1. Members \subseteq Users /\ Pending \subseteq Invitations
  BY DEF Members, Pending
<1>2. IsFiniteSet(Members) /\ IsFiniteSet(Pending)
  BY <1>1, FS_Subset, TeamAssumption
<1> QED
  BY <1>2, FS_CardinalityType DEF SeatsTaken

LEMMA InitInvariant == Init => TeamInv
<1> SUFFICES ASSUME Init PROVE TeamInv
  OBVIOUS
<1> USE TeamAssumption DEF Init
<1>1. Unused \in InvitationType /\ Idle \in TxType
  BY DEF Unused, InvitationType, Idle, TxType
<1>2. TypeOK
  BY <1>1 DEF TypeOK
<1>3. HasOwner
  BY DEF HasOwner
<1>4. SeatsAccounted
  <2>1. Members = Owners /\ Pending = {}
    BY DEF Members, Pending, Open, Unused
  <2>2. Cardinality(Owners) \in Nat
    BY FS_Subset, FS_CardinalityType
  <2> QED
    BY <2>1, <2>2, FS_EmptySet DEF SeatsAccounted
<1>5. \A w \in Workers : WorkerOK(w)
  BY DEF WorkerOK, CommandOK, Holding, Idle
<1> QED
  BY <1>2, <1>3, <1>4, <1>5 DEF TeamInv

\* Most steps change one transaction, and no lock that another one holds.
LEMMA OneTransaction ==
  ASSUME TeamInv, NEW w \in Workers, NEW t \in TxType, tx' = [tx EXCEPT ![w] = t],
         teamLock' \in Workers \cup {None},
         teamLock \in Workers \ {w} => teamLock' = teamLock,
         UNCHANGED <<rows, plan>>, WorkerOK(w)'
  PROVE  TeamInv'
<1>1. TypeOK' /\ HasOwner' /\ SeatsAccounted' /\ seats' <= highest'
  BY DEF TeamInv, TypeOK, rows, plan, HasOwner, SeatsAccounted, Members, Pending, Open
<1>2. ASSUME NEW q \in Workers, q # w PROVE WorkerOK(q)'
  <2>1. tx'[q] = tx[q] /\ WorkerOK(q)
    BY <1>2 DEF TeamInv, TypeOK
  <2>2. /\ member' = member /\ highest' = highest
        /\ Members' = Members /\ Pending' = Pending /\ SeatsTaken' = SeatsTaken
    BY DEF rows, plan, Members, Pending, Open, SeatsTaken
  <2>3. CommandOK(q)' /\ (Holding(q)' => teamLock' = q)
    BY <1>2, <2>1 DEF WorkerOK, CommandOK, Holding, rows
  <2>4. (LastOwner(q)' => LastOwner(q)) /\ (MayStillJoin(q) => MayStillJoin(q)')
    BY <2>1, <2>2 DEF LastOwner, OwnerCount, MayStillJoin
  <2> QED
    BY <2>1, <2>2, <2>3, <2>4 DEF WorkerOK
<1> QED
  BY <1>1, <1>2 DEF TeamInv

\* A transaction that ends frees only its own lock.
LEMMA EndLeaves ==
  ASSUME TypeOK, NEW w \in Workers, End(w)
  PROVE  /\ Idle \in TxType /\ tx' = [tx EXCEPT ![w] = Idle] /\ tx' \in [Workers -> TxType]
         /\ teamLock' \in Workers \cup {None}
         /\ teamLock \in Workers \ {w} => teamLock' = teamLock
         /\ tx'[w] = Idle
         /\ \A q \in Workers \ {w} : tx'[q] = tx[q]
         /\ WorkerOK(w)'
<1>1. Idle \in TxType /\ Idle.pc = "idle" /\ Idle.kind = "none"
  BY DEF Idle, TxType
<1>2. tx' = [tx EXCEPT ![w] = Idle] /\ tx'[w] = Idle /\ tx' \in [Workers -> TxType]
      /\ \A q \in Workers \ {w} : tx'[q] = tx[q]
  BY <1>1 DEF End, TypeOK
<1>3. WorkerOK(w)'
  BY <1>1, <1>2 DEF WorkerOK, CommandOK, Holding
<1>4. /\ teamLock' \in Workers \cup {None}
      /\ teamLock \in Workers \ {w} => teamLock' = teamLock
  BY DEF End, TypeOK
<1> QED
  BY <1>1, <1>2, <1>3, <1>4

\* Rejections and crashes.
LEMMA RejectKeeps ==
  ASSUME TeamInv, NEW w \in Workers, End(w), UNCHANGED <<rows, plan>>
  PROVE  TeamInv'
<1>1. TypeOK
  BY DEF TeamInv
<1> QED
  BY <1>1, EndLeaves, OneTransaction

\* What a command is when it begins.
Fresh(t) ==
  /\ t \in TxType /\ t.pc \in {"lock", "revoke"}
  /\ t.pc = "revoke" => t.kind = "revoke"
  /\ t.pc = "lock" => t.kind \in {"invite", "accept", "role", "remove"}
  /\ t.kind \in {"invite", "accept", "role", "remove"} => t.user \in Users
  /\ t.kind \in {"accept", "revoke"} => t.inv \in Invitations
  /\ t.kind = "accept" => invitation[t.inv].user # None

\* Requests, before any lock is taken.
LEMMA RequestKeeps ==
  ASSUME TeamInv, NEW w \in Workers, Request(w)
  PROVE  TeamInv'
<1>0. TypeOK
  BY DEF TeamInv
<1>1. ASSUME NEW t, Fresh(t), Begin(w, t) PROVE TeamInv'
  <2>1. tx' = [tx EXCEPT ![w] = t] /\ tx'[w] = t /\ UNCHANGED <<rows, plan, teamLock>>
    BY <1>0, <1>1 DEF Begin, TypeOK
  <2>2. WorkerOK(w)'
    BY <1>1, <2>1 DEF Fresh, WorkerOK, CommandOK, Holding, rows
  <2>3. teamLock \in Workers \cup {None} /\ t \in TxType
    BY <1>0, <1>1 DEF TypeOK, Fresh
  <2> QED
    BY <2>1, <2>2, <2>3, OneTransaction
<1>2. ASSUME NEW u \in Users, NEW role \in Roles, RequestInvite(w, u, role) PROVE TeamInv'
  <2> DEFINE t == [Idle EXCEPT !.pc = "lock", !.kind = "invite", !.user = u, !.role = role]
  <2>1. Fresh(t)
    BY DEF Fresh, Idle, TxType
  <2> QED
    BY <1>1, <1>2, <2>1 DEF RequestInvite
<1>3. ASSUME NEW u \in Users, NEW role \in Roles \cup {"NONE"}, NEW kind \in {"role", "remove"},
             RequestChange(w, kind, u, role)
      PROVE  TeamInv'
  <2> DEFINE t == [Idle EXCEPT !.pc = "lock", !.kind = kind, !.user = u, !.role = role,
                               !.life = joined[u]]
  <2>1. Fresh(t)
    BY <1>0 DEF Fresh, Idle, TxType, TypeOK
  <2> QED
    BY <1>1, <1>3, <2>1 DEF RequestChange
<1>4. ASSUME NEW i \in Invitations, RequestAccept(w, i) PROVE TeamInv'
  <2> DEFINE t == [Idle EXCEPT !.pc = "lock", !.kind = "accept", !.inv = i,
                               !.user = invitation[i].user]
  <2>1. invitation[i].user \in Users /\ invitation[i].user # None
    BY <1>0, <1>4 DEF RequestAccept, TypeOK, InvitationType
  <2>2. Fresh(t)
    BY <2>1 DEF Fresh, Idle, TxType
  <2> QED
    BY <1>1, <1>4, <2>2 DEF RequestAccept
<1>5. ASSUME NEW i \in Invitations, RequestRevoke(w, i) PROVE TeamInv'
  <2> DEFINE t == [Idle EXCEPT !.pc = "revoke", !.kind = "revoke", !.inv = i]
  <2>1. Fresh(t)
    BY DEF Fresh, Idle, TxType
  <2> QED
    BY <1>1, <1>5, <2>1 DEF RequestRevoke
<1> QED
  BY <1>2, <1>3, <1>4, <1>5 DEF Request

-----------------------------------------------------------------------------
UnderWay == {"seats", "pending", "recheck", "check", "write"}

MovesTo(w, pc, n) ==
  /\ tx' = [tx EXCEPT ![w] = [tx[w] EXCEPT !.pc = pc, !.seats = n]]
  /\ teamLock' = teamLock \/ (teamLock = None /\ teamLock' = w)
  /\ UNCHANGED <<rows, plan>>

StepsTo(w, pc) ==
  /\ tx' = [tx EXCEPT ![w].pc = pc]
  /\ teamLock' = teamLock \/ (teamLock = None /\ teamLock' = w)
  /\ UNCHANGED <<rows, plan>>

\* A step to the next point of a transaction: what it knows there is to show.
LEMMA Proceed ==
  ASSUME TeamInv, NEW w \in Workers, NEW pc \in UnderWay, NEW n \in Nat, MovesTo(w, pc, n)
  PROVE  /\ tx'[w].pc = pc /\ tx'[w].seats = n /\ tx'[w].kind = tx[w].kind
         /\ tx'[w].user = tx[w].user /\ tx'[w].inv = tx[w].inv /\ tx'[w].role = tx[w].role
         /\ WorkerOK(w)' => TeamInv'
<1> DEFINE t == [tx[w] EXCEPT !.pc = pc, !.seats = n]
<1>1. tx[w] \in TxType /\ teamLock \in Workers \cup {None} /\ tx \in [Workers -> TxType]
  BY DEF TeamInv, TypeOK
<1>2. t \in TxType /\ t.pc = pc /\ t.seats = n /\ t.kind = tx[w].kind
      /\ t.user = tx[w].user /\ t.inv = tx[w].inv /\ t.role = tx[w].role
  BY <1>1 DEF TxType, UnderWay
<1>3. tx' = [tx EXCEPT ![w] = t] /\ tx'[w] = t
  BY <1>1 DEF MovesTo
<1> HIDE DEF t
<1>4. /\ teamLock' \in Workers \cup {None}
      /\ teamLock \in Workers \ {w} => teamLock' = teamLock
      /\ UNCHANGED <<rows, plan>>
  BY <1>1, TeamAssumption DEF MovesTo
<1>5. WorkerOK(w)' => TeamInv'
  BY <1>2, <1>3, <1>4, OneTransaction
<1> QED
  BY <1>2, <1>3, <1>5

\* The same for a step that leaves the limit the transaction has read alone.
LEMMA ProceedTo ==
  ASSUME TeamInv, NEW w \in Workers, NEW pc \in UnderWay, StepsTo(w, pc)
  PROVE  /\ tx'[w].pc = pc /\ tx'[w].seats = tx[w].seats /\ tx'[w].kind = tx[w].kind
         /\ tx'[w].user = tx[w].user /\ tx'[w].inv = tx[w].inv /\ tx'[w].role = tx[w].role
         /\ WorkerOK(w)' => TeamInv'
<1>1. tx[w] \in TxType
  BY DEF TeamInv, TypeOK
<1>2. tx[w].seats \in Nat
      /\ [tx[w] EXCEPT !.pc = pc, !.seats = tx[w].seats] = [tx[w] EXCEPT !.pc = pc]
  BY <1>1 DEF TxType
<1>3. MovesTo(w, pc, tx[w].seats)
  BY <1>2 DEF MovesTo, StepsTo
<1> QED
  BY <1>2, <1>3, Proceed

LEMMA LockTeamKeeps ==
  ASSUME TeamInv, NEW w \in Workers, LockTeam(w)
  PROVE  TeamInv'
<1> DEFINE pc == CASE tx[w].kind = "invite" -> "seats"
                   [] tx[w].kind = "accept" -> "recheck"
                   [] OTHER -> "check"
<1>1. TypeOK /\ CommandOK(w)
  BY DEF TeamInv, WorkerOK
<1>2. pc \in {"seats", "recheck", "check"} /\ pc \in UnderWay
      /\ (pc = "seats" => tx[w].kind = "invite") /\ (pc = "recheck" => tx[w].kind = "accept")
      /\ (pc = "check" => tx[w].kind \in {"role", "remove"})
  BY <1>1 DEF UnderWay, CommandOK, LockTeam
<1>3. /\ tx' = [tx EXCEPT ![w].pc = pc] /\ teamLock = None /\ teamLock' = w
      /\ UNCHANGED <<rows, plan>> /\ StepsTo(w, pc)
  BY DEF LockTeam, LockFree, StepsTo
<1> HIDE DEF pc
<1>4. /\ tx'[w].pc = pc /\ tx'[w].kind = tx[w].kind
      /\ tx'[w].user = tx[w].user /\ tx'[w].inv = tx[w].inv
      /\ WorkerOK(w)' => TeamInv'
  BY <1>1, <1>2, <1>3, ProceedTo
<1>5. WorkerOK(w)'
  BY <1>1, <1>2, <1>3, <1>4 DEF WorkerOK, CommandOK, Holding, rows
<1> QED
  BY <1>4, <1>5

\* The seat is still free when the invitation is created: only the holder of
\* the lock makes more members or invitations.
LEMMA CheckSeatsKeeps ==
  ASSUME TeamInv, NEW w \in Workers, CheckSeats(w)
  PROVE  TeamInv'
<1>1. TypeOK /\ WorkerOK(w) /\ teamLock = w /\ tx[w].kind = "invite"
  BY DEF TeamInv, WorkerOK, Holding, CommandOK, CheckSeats
<1>2. /\ StepsTo(w, "pending") /\ "pending" \in UnderWay
      /\ UNCHANGED <<rows, plan, teamLock>>
  BY DEF CheckSeats, StepsTo, UnderWay
<1>3. /\ tx'[w].pc = "pending" /\ tx'[w].kind = tx[w].kind
      /\ tx'[w].user = tx[w].user /\ tx'[w].inv = tx[w].inv
      /\ WorkerOK(w)' => TeamInv'
  BY <1>2, ProceedTo
<1>4. SeatsTaken' < highest'
  <2>1. SeatsTaken' = SeatsTaken /\ highest' = highest
    BY <1>2 DEF rows, plan, SeatsTaken, Members, Pending, Open
  <2>2. SeatsTaken < seats /\ seats <= highest
    BY DEF CheckSeats, TeamInv
  <2> QED
    BY <1>1, <2>1, <2>2, Countable DEF TypeOK
<1>5. WorkerOK(w)'
  BY <1>1, <1>2, <1>3, <1>4 DEF WorkerOK, CommandOK, Holding, rows
<1> QED
  BY <1>3, <1>5

\* What the acceptance has read under the lock.
LEMMA RecheckKeeps ==
  ASSUME TeamInv, NEW w \in Workers, Recheck(w)
  PROVE  TeamInv'
<1>1. TypeOK /\ WorkerOK(w) /\ teamLock = w /\ tx[w].kind = "accept" /\ tx[w].inv \in Invitations
  BY DEF TeamInv, WorkerOK, Holding, CommandOK, Recheck
<1>2. MovesTo(w, "write", seats) /\ seats \in Nat /\ UNCHANGED <<rows, plan, teamLock>>
  BY <1>1 DEF Recheck, MovesTo, TypeOK, TxType
<1>3. /\ tx'[w].pc = "write" /\ tx'[w].kind = tx[w].kind /\ tx'[w].seats = seats
      /\ tx'[w].user = tx[w].user /\ tx'[w].inv = tx[w].inv
      /\ WorkerOK(w)' => TeamInv'
  BY <1>1, <1>2, Proceed DEF UnderWay
<1>4. MayStillJoin(w)'
  <2>1. /\ Members' = Members /\ Pending' = Pending /\ member' = member /\ highest' = highest
    BY <1>2 DEF rows, plan, Members, Pending, Open
  <2>2. member[tx[w].user] = "NONE" /\ Cardinality(Members) < seats /\ seats <= highest
    BY DEF Recheck, MayJoin, TeamInv
  <2>3. tx[w].inv \in Pending
    <3>1. invitation[tx[w].inv].user # None
      BY <1>1 DEF WorkerOK, CommandOK
    <3> QED
      BY <1>1, <3>1 DEF Recheck, MayJoin, Acceptable, Pending, Open
  <2> QED
    BY <1>3, <2>1, <2>2, <2>3 DEF MayStillJoin
<1>5. WorkerOK(w)'
  BY <1>1, <1>2, <1>3, <1>4 DEF WorkerOK, CommandOK, Holding, rows
<1> QED
  BY <1>3, <1>5

\* The command is legal, and stays so while the lock is held.
LEMMA CheckChangeKeeps ==
  ASSUME TeamInv, NEW w \in Workers, CheckChange(w)
  PROVE  TeamInv'
<1>1. WorkerOK(w) /\ teamLock = w
  BY DEF TeamInv, WorkerOK, Holding, CheckChange
<1>2. /\ StepsTo(w, "write")
      /\ Present(w) /\ ~LastOwner(w) /\ tx[w].pc = "check"
      /\ "write" \in UnderWay /\ UNCHANGED <<rows, plan>> /\ teamLock' = teamLock
  BY DEF CheckChange, StepsTo, UnderWay
<1>3. /\ tx'[w].pc = "write" /\ tx'[w].kind = tx[w].kind /\ tx'[w].role = tx[w].role
      /\ tx'[w].user = tx[w].user /\ tx'[w].inv = tx[w].inv
      /\ WorkerOK(w)' => TeamInv'
  BY <1>2, ProceedTo
<1>4. member'[tx'[w].user] # "NONE" /\ ~LastOwner(w)'
  BY <1>2, <1>3 DEF Present, LastOwner, OwnerCount, rows
<1>5. tx[w].kind \in {"role", "remove"}
  BY <1>1, <1>2 DEF WorkerOK, CommandOK
<1>6. WorkerOK(w)'
  BY <1>1, <1>2, <1>3, <1>4, <1>5 DEF WorkerOK, CommandOK, Holding, rows
<1> QED
  BY <1>3, <1>6

LEMMA ReadInvitationKeeps ==
  ASSUME TeamInv, NEW w \in Workers, ReadInvitation(w)
  PROVE  TeamInv'
<1>1. WorkerOK(w) /\ tx[w].kind = "revoke"
  BY DEF TeamInv, WorkerOK, CommandOK, ReadInvitation
<1>2. /\ StepsTo(w, "write")
      /\ "write" \in UnderWay /\ UNCHANGED <<rows, plan>> /\ teamLock' = teamLock
  BY DEF ReadInvitation, StepsTo, UnderWay
<1>3. /\ tx'[w].pc = "write" /\ tx'[w].kind = tx[w].kind
      /\ tx'[w].user = tx[w].user /\ tx'[w].inv = tx[w].inv
      /\ WorkerOK(w)' => TeamInv'
  BY <1>2, ProceedTo
<1>4. WorkerOK(w)'
  BY <1>1, <1>2, <1>3 DEF WorkerOK, CommandOK, Holding, rows
<1> QED
  BY <1>3, <1>4

-----------------------------------------------------------------------------
(* Steps that write rows.                                                   *)

\* A user without a lock-holding command is told nothing by a write under the lock.
LEMMA OthersUnderLock ==
  ASSUME TeamInv, NEW w \in Workers, Holding(w), NEW q \in Workers, q # w, tx'[q] = tx[q],
         \A i \in Invitations : invitation[i].user # None => invitation'[i].user # None
  PROVE  WorkerOK(q)'
<1>1. WorkerOK(q) /\ ~Holding(q)
  BY DEF TeamInv, WorkerOK
<1>2. CommandOK(q)' /\ ~Holding(q)'
  BY <1>1 DEF WorkerOK, CommandOK, Holding
<1> QED
  BY <1>1, <1>2 DEF WorkerOK, Holding

\* Without new members or invitations, and with no smaller limit in history,
\* every worker still knows what it knew.
LEMMA OthersWhenFreed ==
  ASSUME TeamInv, UNCHANGED <<member, joined>>,
         Pending' \subseteq Pending, highest \in Nat, highest' \in Nat, highest <= highest',
         \A i \in Invitations : invitation[i].user # None => invitation'[i].user # None,
         NEW q \in Workers, tx'[q] = tx[q], teamLock = q => teamLock' = q
  PROVE  WorkerOK(q)'
<1>1. WorkerOK(q) /\ TypeOK
  BY DEF TeamInv
<1>2. CommandOK(q)' /\ (Holding(q)' => teamLock' = q)
  BY <1>1 DEF WorkerOK, CommandOK, Holding
<1>3. /\ Members' = Members
      /\ Cardinality(Pending') \in Nat /\ Cardinality(Pending') <= Cardinality(Pending)
      /\ Cardinality(Members) \in Nat /\ Cardinality(Pending) \in Nat
      /\ \A i : i \in Pending \ Pending' => Cardinality(Pending') < Cardinality(Pending)
  <2>1. IsFiniteSet(Pending) /\ Cardinality(Members) \in Nat /\ Cardinality(Pending) \in Nat
    BY <1>1, Countable
  <2>2. IsFiniteSet(Pending') /\ Cardinality(Pending') <= Cardinality(Pending)
        /\ (Cardinality(Pending) = Cardinality(Pending') => Pending = Pending')
    BY <2>1, FS_Subset
  <2>3. Cardinality(Pending') \in Nat
    BY <2>2, FS_CardinalityType
  <2>4. Members' = Members
    BY DEF Members
  <2> QED
    BY <2>1, <2>2, <2>3, <2>4
<1>4. SeatsTaken < highest => SeatsTaken' < highest'
  BY <1>3 DEF SeatsTaken
<1>5. MayStillJoin(q) => MayStillJoin(q)'
  <2> SUFFICES ASSUME MayStillJoin(q) PROVE MayStillJoin(q)'
    OBVIOUS
  <2>1. tx[q].seats \in Nat
    BY <1>1 DEF TypeOK, TxType
  <2>2. member'[tx'[q].user] = "NONE" /\ Cardinality(Members') < tx'[q].seats
        /\ tx'[q].seats <= highest'
    BY <1>3, <2>1 DEF MayStillJoin
  <2>3. tx'[q].inv \in Pending' \/ SeatsTaken' < highest'
    <3>1. CASE tx[q].inv \in Pending \ Pending'
      <4>1. SeatsTaken <= highest
        BY DEF TeamInv, SeatsAccounted, SeatsTaken
      <4> QED
        BY <1>3, <3>1, <4>1 DEF SeatsTaken
    <3>2. CASE tx[q].inv \notin Pending
      BY <1>4, <3>2 DEF MayStillJoin
    <3> QED
      BY <3>1, <3>2
  <2> QED
    BY <2>2, <2>3 DEF MayStillJoin
<1>6. LastOwner(q)' => LastOwner(q)
  BY DEF LastOwner, OwnerCount
<1> QED
  BY <1>1, <1>2, <1>4, <1>5, <1>6 DEF WorkerOK

\* The same for the invariants of the workspace.
LEMMA WorkspaceWhenFreed ==
  ASSUME TeamInv, UNCHANGED <<member, joined>>, Pending' \subseteq Pending,
         highest' \in Nat, highest <= highest'
  PROVE  HasOwner' /\ SeatsAccounted'
<1>1. TypeOK /\ highest \in Nat
  BY DEF TeamInv, TypeOK
<1>2. IsFiniteSet(Pending) /\ Cardinality(Members) \in Nat /\ Cardinality(Pending) \in Nat
  BY <1>1, Countable
<1>3. IsFiniteSet(Pending') /\ Cardinality(Pending') <= Cardinality(Pending)
  BY <1>2, FS_Subset
<1>4. Cardinality(Pending') \in Nat /\ Members' = Members
  BY <1>3, FS_CardinalityType DEF Members
<1> QED
  BY <1>1, <1>2, <1>3, <1>4 DEF TeamInv, HasOwner, SeatsAccounted

\* Invitations that expire or are revoked, outside the lock.
LEMMA InvitationKeeps ==
  ASSUME TeamInv, NEW i \in Invitations,
         NEW v \in {[invitation[i] EXCEPT !.expired = TRUE],
                    [invitation[i] EXCEPT !.revoked = TRUE]},
         invitation' = [invitation EXCEPT ![i] = v], UNCHANGED <<member, joined, plan>>,
         UNCHANGED <<tx, teamLock>> \/ \E w \in Workers : End(w)
  PROVE  TeamInv'
<1>1. /\ TypeOK /\ invitation \in [Invitations -> InvitationType]
      /\ seats \in Nat /\ highest \in Nat /\ UNCHANGED <<seats, highest>>
  BY DEF TeamInv, TypeOK, plan
<1>2. v \in InvitationType /\ v.user = invitation[i].user
      /\ v.accepted = invitation[i].accepted
      /\ (invitation[i].revoked => v.revoked) /\ (invitation[i].expired => v.expired)
  BY <1>1 DEF InvitationType
<1>3. /\ invitation' \in [Invitations -> InvitationType] /\ invitation'[i] = v
      /\ \A j \in Invitations \ {i} : invitation'[j] = invitation[j]
  BY <1>1, <1>2
<1>4. /\ Pending' \subseteq Pending
      /\ \A j \in Invitations : invitation[j].user # None => invitation'[j].user # None
  BY <1>1, <1>2, <1>3 DEF Pending, Open, InvitationType
<1>5. HasOwner' /\ SeatsAccounted'
  BY <1>1, <1>4, WorkspaceWhenFreed
<1>6. ASSUME NEW q \in Workers, tx'[q] = tx[q], teamLock = q => teamLock' = q
      PROVE  WorkerOK(q)'
  BY <1>1, <1>4, <1>6, OthersWhenFreed
<1>7. CASE UNCHANGED <<tx, teamLock>>
  <2>1. TypeOK'
    BY <1>1, <1>3, <1>7 DEF TypeOK
  <2>2. seats' <= highest'
    BY <1>1 DEF TeamInv
  <2> QED
    BY <1>5, <1>6, <1>7, <2>1, <2>2 DEF TeamInv
<1>8. ASSUME NEW w \in Workers, End(w) PROVE TeamInv'
  <2>1. /\ tx' \in [Workers -> TxType] /\ teamLock' \in Workers \cup {None}
        /\ \A q \in Workers \ {w} : tx'[q] = tx[q]
        /\ teamLock \in Workers \ {w} => teamLock' = teamLock
        /\ WorkerOK(w)'
    BY <1>1, <1>8, EndLeaves
  <2>2. TypeOK'
    BY <1>1, <1>3, <2>1 DEF TypeOK
  <2>3. seats' <= highest'
    BY <1>1 DEF TeamInv
  <2>4. ASSUME NEW q \in Workers PROVE WorkerOK(q)'
    <3>1. CASE q = w
      BY <2>1, <3>1
    <3>2. CASE q # w
      BY <1>6, <2>1, <3>2
    <3> QED
      BY <3>1, <3>2
  <2> QED
    BY <1>5, <2>2, <2>3, <2>4 DEF TeamInv
<1> QED
  BY <1>7, <1>8

\* A new plan: the history remembers the largest limit.
LEMMA ChangePlanKeeps ==
  ASSUME TeamInv, NEW n \in SeatLimits, ChangePlan(n)
  PROVE  TeamInv'
<1>1. /\ TypeOK /\ n \in Nat /\ highest \in Nat /\ seats' = n
      /\ highest' \in Nat /\ highest <= highest' /\ n <= highest'
      /\ UNCHANGED <<member, joined, invitation, teamLock, tx>>
  BY TeamAssumption DEF TeamInv, TypeOK, ChangePlan, rows
<1>2. Pending' \subseteq Pending
  BY <1>1 DEF Pending, Open
<1>3. HasOwner' /\ SeatsAccounted'
  BY <1>1, <1>2, WorkspaceWhenFreed
<1>4. \A q \in Workers : WorkerOK(q)'
  BY <1>1, <1>2, OthersWhenFreed
<1>5. TypeOK'
  BY <1>1 DEF TypeOK
<1> QED
  BY <1>1, <1>3, <1>4, <1>5 DEF TeamInv

\* What every write under the lock leaves of the other commands.
LEMMA HolderKeeps ==
  ASSUME TeamInv, NEW w \in Workers, Holding(w), End(w), UNCHANGED plan,
         member' \in [Users -> Roles \cup {"NONE"}], joined' \in [Users -> Nat],
         invitation' \in [Invitations -> InvitationType],
         \A i \in Invitations : invitation[i].user # None => invitation'[i].user # None,
         HasOwner', SeatsAccounted'
  PROVE  TeamInv'
<1>1. TypeOK /\ seats <= highest
  BY DEF TeamInv
<1>2. /\ tx' \in [Workers -> TxType] /\ teamLock' \in Workers \cup {None}
      /\ \A q \in Workers \ {w} : tx'[q] = tx[q]
      /\ WorkerOK(w)'
  BY <1>1, EndLeaves
<1>3. TypeOK' /\ seats' <= highest'
  BY <1>1, <1>2 DEF TypeOK, plan
<1>4. ASSUME NEW q \in Workers PROVE WorkerOK(q)'
  <2>1. CASE q = w
    BY <1>2, <2>1
  <2>2. CASE q # w
    BY <1>2, <2>2, OthersUnderLock
  <2> QED
    BY <2>1, <2>2
<1> QED
  BY <1>3, <1>4 DEF TeamInv

\* The seat the invitation reserves was free, and still is.
LEMMA CreateInvitationKeeps ==
  ASSUME TeamInv, NEW w \in Workers, NEW i \in Invitations, CreateInvitation(w, i)
  PROVE  TeamInv'
<1> DEFINE u == tx[w].user
<1>1. /\ TypeOK /\ WorkerOK(w) /\ Holding(w) /\ SeatsTaken < highest
      /\ u \in Users /\ u # None /\ tx[w] \in TxType
      /\ invitation \in [Invitations -> InvitationType] /\ highest \in Nat
  BY TeamAssumption DEF TeamInv, TypeOK, WorkerOK, Holding, CommandOK, CreateInvitation
<1>2. /\ invitation[i].user = None /\ i \notin Pending
      /\ invitation'[i] = [Unused EXCEPT !.user = u, !.role = tx[w].role]
      /\ \A j \in Invitations \ {i} :
           \/ invitation'[j] = invitation[j]
           \/ invitation'[j] = [invitation[j] EXCEPT !.revoked = TRUE]
      /\ UNCHANGED <<member, joined, plan>> /\ End(w)
      /\ invitation' = [v \in Invitations |->
           CASE v = i -> [Unused EXCEPT !.user = u, !.role = tx[w].role]
             [] v \in OpenFor(u) \ {i} -> [invitation[v] EXCEPT !.revoked = TRUE]
             [] OTHER -> invitation[v]]
  BY DEF CreateInvitation, Unused, Pending, Open
<1>3. /\ [Unused EXCEPT !.user = u, !.role = tx[w].role] \in InvitationType
      /\ [Unused EXCEPT !.user = u, !.role = tx[w].role].user = u
  BY <1>1 DEF Unused, InvitationType, TxType
<1> HIDE DEF u
<1>4. \A j \in Invitations : [invitation[j] EXCEPT !.revoked = TRUE] \in InvitationType
  BY <1>1 DEF InvitationType
<1>5. invitation' \in [Invitations -> InvitationType]
  BY <1>1, <1>2, <1>3, <1>4
<1>6. \A j \in Invitations : invitation[j].user # None => invitation'[j].user # None
  BY <1>1, <1>2, <1>3 DEF InvitationType
<1>7. Pending' \subseteq Pending \cup {i}
  BY <1>1, <1>2 DEF Pending, Open, InvitationType
<1>8. SeatsAccounted'
  <2>1. /\ IsFiniteSet(Pending) /\ Cardinality(Pending) \in Nat /\ Cardinality(Members) \in Nat
    BY <1>1, Countable
  <2>2. IsFiniteSet(Pending \cup {i}) /\ Cardinality(Pending \cup {i}) = Cardinality(Pending) + 1
    BY <1>2, <2>1, FS_AddElement
  <2>3. IsFiniteSet(Pending') /\ Cardinality(Pending') <= Cardinality(Pending) + 1
    BY <1>7, <2>2, FS_Subset
  <2>4. Cardinality(Pending') \in Nat /\ Members' = Members /\ highest' = highest
    BY <1>2, <2>3, FS_CardinalityType DEF Members, plan
  <2> QED
    BY <1>1, <2>1, <2>3, <2>4 DEF SeatsAccounted, SeatsTaken
<1>9. HasOwner'
  BY <1>2 DEF TeamInv, HasOwner
<1>10. member' \in [Users -> Roles \cup {"NONE"}] /\ joined' \in [Users -> Nat]
  BY <1>1, <1>2 DEF TypeOK
<1> QED
  BY <1>1, <1>2, <1>5, <1>6, <1>8, <1>9, <1>10, HolderKeeps

\* The new member takes the seat of its invitation, or one that was free.
LEMMA JoinKeeps ==
  ASSUME TeamInv, NEW w \in Workers, Join(w)
  PROVE  TeamInv' /\ Cardinality(Members') <= tx[w].seats
<1> DEFINE u == tx[w].user
           i == tx[w].inv
<1>1. /\ TypeOK /\ WorkerOK(w) /\ Holding(w) /\ MayStillJoin(w)
      /\ u \in Users /\ i \in Invitations /\ tx[w].seats \in Nat
      /\ invitation \in [Invitations -> InvitationType] /\ highest \in Nat
  BY DEF TeamInv, TypeOK, TxType, WorkerOK, Holding, CommandOK, Join
<1>2. /\ member' = [member EXCEPT ![u] = invitation[i].role]
      /\ joined' = [joined EXCEPT ![u] = @ + 1]
      /\ invitation' = [invitation EXCEPT ![i] = [invitation[i] EXCEPT !.accepted = TRUE]]
      /\ UNCHANGED plan /\ End(w) /\ member[u] = "NONE"
  BY <1>1 DEF Join, MayStillJoin
<1> HIDE DEF u, i
<1>3. /\ [invitation[i] EXCEPT !.accepted = TRUE] \in InvitationType
      /\ [invitation[i] EXCEPT !.accepted = TRUE].user = invitation[i].user
      /\ [invitation[i] EXCEPT !.accepted = TRUE].accepted = TRUE
      /\ invitation[i].role \in Roles \cup {"NONE"}
  BY <1>1 DEF InvitationType
<1>4. /\ member' \in [Users -> Roles \cup {"NONE"}] /\ joined' \in [Users -> Nat]
      /\ invitation' \in [Invitations -> InvitationType]
  BY <1>1, <1>2, <1>3 DEF TypeOK
<1>5. \A j \in Invitations : invitation[j].user # None => invitation'[j].user # None
  BY <1>1, <1>2, <1>3
<1>6. Members' \subseteq Members \cup {u} /\ Pending' \subseteq Pending \ {i}
  BY <1>1, <1>2, <1>3 DEF Members, Pending, Open, TypeOK
<1>7. /\ IsFiniteSet(Members) /\ Cardinality(Members) \in Nat
      /\ IsFiniteSet(Pending) /\ Cardinality(Pending) \in Nat
  BY <1>1, Countable
<1>8. /\ Cardinality(Members') \in Nat /\ Cardinality(Members') <= Cardinality(Members) + 1
  <2>1. /\ IsFiniteSet(Members \cup {u})
        /\ Cardinality(Members \cup {u}) = IF u \in Members THEN Cardinality(Members)
                                                            ELSE Cardinality(Members) + 1
    BY <1>7, FS_AddElement
  <2>2. Cardinality(Members \cup {u}) \in Nat /\ IsFiniteSet(Members')
        /\ Cardinality(Members') <= Cardinality(Members \cup {u})
    BY <1>6, <2>1, FS_Subset, FS_CardinalityType
  <2> QED
    BY <1>7, <2>1, <2>2, FS_CardinalityType
<1>9. /\ Cardinality(Pending') \in Nat
      /\ Cardinality(Pending') <= Cardinality(Pending)
      /\ i \in Pending => Cardinality(Pending') <= Cardinality(Pending) - 1
  <2>1. /\ IsFiniteSet(Pending \ {i})
        /\ Cardinality(Pending \ {i}) = IF i \in Pending THEN Cardinality(Pending) - 1
                                                         ELSE Cardinality(Pending)
    BY <1>7, FS_RemoveElement
  <2>2. IsFiniteSet(Pending') /\ Cardinality(Pending') <= Cardinality(Pending \ {i})
    BY <1>6, <2>1, FS_Subset
  <2> QED
    BY <1>7, <2>1, <2>2, FS_CardinalityType
<1>10. SeatsAccounted'
  <2>1. Cardinality(Members) + Cardinality(Pending) <= highest /\ highest' = highest
    BY <1>2 DEF TeamInv, SeatsAccounted, plan
  <2>2. i \in Pending \/ Cardinality(Members) + Cardinality(Pending) < highest
    BY <1>1 DEF MayStillJoin, SeatsTaken, i
  <2> QED
    BY <1>1, <1>7, <1>8, <1>9, <2>1, <2>2 DEF SeatsAccounted
<1>11. HasOwner'
  BY <1>1, <1>2 DEF TeamInv, HasOwner, TypeOK
<1>12. Cardinality(Members) < tx[w].seats
  BY <1>1 DEF MayStillJoin
<1>13. TeamInv'
  BY <1>1, <1>2, <1>4, <1>5, <1>10, <1>11, HolderKeeps
<1> QED
  BY <1>1, <1>7, <1>8, <1>12, <1>13

\* With a second owner, or an owner's role written, an owner is left.
LEMMA WriteChangeKeeps ==
  ASSUME TeamInv, NEW w \in Workers, WriteChange(w)
  PROVE  TeamInv'
<1> DEFINE u == tx[w].user
           role == IF tx[w].kind = "role" THEN tx[w].role ELSE "NONE"
           others == {o \in Users : member[o] = "OWNER"}
<1>1. /\ TypeOK /\ WorkerOK(w) /\ Holding(w) /\ u \in Users
      /\ member[u] # "NONE" /\ ~LastOwner(w) /\ role \in Roles \cup {"NONE"}
      /\ tx[w].kind \in {"role", "remove"} /\ highest \in Nat
  BY DEF TeamInv, TypeOK, TxType, WorkerOK, Holding, CommandOK, WriteChange
<1>2. /\ member' = [member EXCEPT ![u] = role] /\ UNCHANGED <<joined, invitation, plan>>
      /\ End(w)
  BY DEF WriteChange
<1>3. HasOwner'
  <2>1. CASE role = "OWNER"
    BY <1>1, <1>2, <2>1 DEF HasOwner, TypeOK
  <2>2. CASE member[u] # "OWNER"
    BY <1>1, <1>2, <2>2 DEF TeamInv, HasOwner, TypeOK
  <2>3. CASE member[u] = "OWNER" /\ role # "OWNER"
    <3>1. ~(Cardinality(others) <= 1)
      BY <1>1, <2>3 DEF LastOwner, OwnerCount
    <3>2. Cardinality({u}) = 1
      BY FS_Singleton
    <3>3. others # {u}
      BY <3>1, <3>2
    <3>4. PICK o \in others : o # u
      BY <1>1, <2>3, <3>3
    <3> QED
      BY <1>1, <1>2, <3>4 DEF HasOwner, TypeOK
  <2> QED
    BY <2>1, <2>2, <2>3
<1> HIDE DEF u, role, others
<1>4. SeatsAccounted'
  <2>1. Members' \subseteq Members /\ Pending' = Pending
    BY <1>1, <1>2 DEF Members, Pending, Open, TypeOK
  <2>2. IsFiniteSet(Members) /\ Cardinality(Members) \in Nat /\ Cardinality(Pending) \in Nat
    BY <1>1, Countable
  <2>3. IsFiniteSet(Members') /\ Cardinality(Members') <= Cardinality(Members)
    BY <2>1, <2>2, FS_Subset
  <2>4. Cardinality(Members') \in Nat /\ highest' = highest
    BY <1>2, <2>3, FS_CardinalityType DEF plan
  <2> QED
    BY <1>1, <2>1, <2>2, <2>3, <2>4 DEF TeamInv, SeatsAccounted
<1>5. /\ member' \in [Users -> Roles \cup {"NONE"}] /\ joined' \in [Users -> Nat]
      /\ invitation' \in [Invitations -> InvitationType]
      /\ \A i \in Invitations : invitation[i].user # None => invitation'[i].user # None
  BY <1>1, <1>2 DEF TypeOK
<1> QED
  BY <1>1, <1>2, <1>3, <1>4, <1>5, HolderKeeps

-----------------------------------------------------------------------------
\* Every step preserves the invariant.
LEMMA StepKeeps == TeamInv /\ [Next]_vars => TeamInv'
<1> SUFFICES ASSUME TeamInv, [Next]_vars PROVE TeamInv'
  OBVIOUS
<1>1. ASSUME NEW w \in Workers, Step(w) \/ Crash(w) PROVE TeamInv'
  <2>1. CASE RejectInvite(w) \/ RejectAccept(w) \/ RejectChange(w) \/ RejectRevoke(w) \/ Crash(w)
    BY <2>1, RejectKeeps
    DEF RejectInvite, RejectAccept, RejectChange, RejectRevoke, Crash, Reject
  <2>2. CASE StampRevoked(w)
    <3> DEFINE i == tx[w].inv
               v == [invitation[i] EXCEPT !.revoked = TRUE]
    <3>1. i \in Invitations
      BY <2>2 DEF StampRevoked, TeamInv, WorkerOK, CommandOK
    <3>2. invitation' = [invitation EXCEPT ![i] = v] /\ UNCHANGED <<member, joined, plan>> /\ End(w)
      BY <2>2 DEF StampRevoked
    <3> QED
      BY <3>1, <3>2, InvitationKeeps
  <2> QED
    BY <1>1, <2>1, <2>2, LockTeamKeeps, CheckSeatsKeeps, CreateInvitationKeeps, RecheckKeeps,
       JoinKeeps, CheckChangeKeeps, WriteChangeKeeps, ReadInvitationKeeps
    DEF Step
<1>2. ASSUME NEW i \in Invitations, ExpireInvitation(i) PROVE TeamInv'
  <2> DEFINE v == [invitation[i] EXCEPT !.expired = TRUE]
  <2>1. /\ invitation' = [invitation EXCEPT ![i] = v]
        /\ UNCHANGED <<member, joined, plan>> /\ UNCHANGED <<tx, teamLock>>
    BY <1>2 DEF ExpireInvitation
  <2> QED
    BY <2>1, InvitationKeeps
<1>3. CASE UNCHANGED vars
  BY ZenonT(40), <1>3
  DEF vars, rows, plan, TeamInv, TypeOK, HasOwner, SeatsAccounted, WorkerOK, CommandOK, Holding,
      MayStillJoin, LastOwner, OwnerCount, SeatsTaken, Members, Pending, Open
<1> QED
  BY <1>1, <1>2, <1>3, RequestKeeps, ChangePlanKeeps DEF Next

\* The inductive invariant holds in every reachable state.
THEOREM TeamInvariance == Spec => []TeamInv
  BY InitInvariant, StepKeeps, PTL DEF Spec

\* Whatever demotions, removals and departures overlap, an owner is left.
THEOREM OwnerRemains == Spec => []HasOwner
<1>1. TeamInv => HasOwner
  BY DEF TeamInv
<1> QED
  BY <1>1, TeamInvariance, PTL

\* Members and live invitations together never outgrow the largest seat limit.
THEOREM SeatsNeverOutgrown == Spec => []SeatsAccounted
<1>1. TeamInv => SeatsAccounted
  BY DEF TeamInv
<1> QED
  BY <1>1, TeamInvariance, PTL

\* A member joins only while all members fit the limit the acceptance has read.
THEOREM JoinsFit == Spec => SeatsRespected
<1>1. TeamInv /\ [Next]_vars =>
        [\A w \in Workers : Join(w) => Cardinality(Members') <= tx[w].seats]_vars
  BY JoinKeeps
<1> QED
  BY <1>1, TeamInvariance, PTL DEF Spec, SeatsRespected

-----------------------------------------------------------------------------
(* What becomes of each invitation.                                         *)

\* Two open invitations are of different users: creating one revokes the others.
OpenApart ==
  \A i, j \in Invitations :
    Open(i) /\ Open(j) /\ invitation[i].user = invitation[j].user => i = j

\* A command on an invitation changes one flag of it, and never opens it again.
Flagged(i) ==
  \E v \in InvitationType :
    /\ invitation' = [invitation EXCEPT ![i] = v] /\ v.user = invitation[i].user
    /\ v.accepted = invitation[i].accepted
    /\ invitation[i].revoked => v.revoked

\* The steps, by what they do to the invitations.
LEMMA InvitationSteps ==
  ASSUME TeamInv, Next
  PROVE  \/ UNCHANGED <<invitation, joined>>
         \/ \E i \in Invitations : Flagged(i) /\ UNCHANGED joined
         \/ \E w \in Workers, i \in Invitations : CreateInvitation(w, i)
         \/ \E w \in Workers : Join(w)
<1>1. invitation \in [Invitations -> InvitationType]
  BY DEF TeamInv, TypeOK
<1>2. ASSUME NEW w \in Workers, StampRevoked(w)
      PROVE  \E i \in Invitations : Flagged(i) /\ UNCHANGED joined
  <2> DEFINE i == tx[w].inv
             v == [invitation[i] EXCEPT !.revoked = TRUE]
  <2>1. i \in Invitations
    BY <1>2 DEF StampRevoked, TeamInv, WorkerOK, CommandOK
  <2>2. v \in InvitationType /\ v.user = invitation[i].user /\ v.revoked
        /\ v.accepted = invitation[i].accepted
    BY <1>1, <2>1 DEF InvitationType
  <2>3. invitation' = [invitation EXCEPT ![i] = v] /\ UNCHANGED joined
    BY <1>2 DEF StampRevoked
  <2> QED
    BY <2>1, <2>2, <2>3 DEF Flagged
<1>3. ASSUME NEW i \in Invitations, ExpireInvitation(i) PROVE Flagged(i) /\ UNCHANGED joined
  <2> DEFINE v == [invitation[i] EXCEPT !.expired = TRUE]
  <2>1. v \in InvitationType /\ v.user = invitation[i].user
        /\ v.accepted = invitation[i].accepted /\ v.revoked = invitation[i].revoked
    BY <1>1 DEF InvitationType
  <2>2. invitation' = [invitation EXCEPT ![i] = v] /\ UNCHANGED joined
    BY <1>3 DEF ExpireInvitation
  <2> QED
    BY <2>1, <2>2 DEF Flagged
<1>4. ASSUME NEW w \in Workers, Request(w) PROVE UNCHANGED <<invitation, joined>>
  BY <1>4 DEF Request, RequestInvite, RequestChange, RequestAccept, RequestRevoke, Begin, rows
<1>5. ASSUME NEW w \in Workers, Step(w) \/ Crash(w)
      PROVE  \/ UNCHANGED <<invitation, joined>> \/ StampRevoked(w) \/ Join(w)
             \/ \E i \in Invitations : CreateInvitation(w, i)
  BY <1>5 DEF Step, Crash, LockTeam, CheckSeats, RejectInvite, Recheck, RejectAccept, CheckChange,
     RejectChange, WriteChange, ReadInvitation, RejectRevoke, Reject, rows
<1>6. ASSUME NEW n \in SeatLimits, ChangePlan(n) PROVE UNCHANGED <<invitation, joined>>
  BY <1>6 DEF ChangePlan, rows
<1> QED
  BY <1>2, <1>3, <1>4, <1>5, <1>6 DEF Next

\* No step opens a second invitation of a user.
LEMMA OpenApartKept == TeamInv /\ OpenApart /\ [Next]_vars => OpenApart'
<1> SUFFICES ASSUME TeamInv, OpenApart, [Next]_vars PROVE OpenApart'
  OBVIOUS
<1>1. invitation \in [Invitations -> InvitationType]
  BY DEF TeamInv, TypeOK
<1>2. ASSUME NEW w \in Workers, NEW i \in Invitations, CreateInvitation(w, i) PROVE OpenApart'
  <2> DEFINE u == tx[w].user
  <2>1. \A j \in Invitations \ {i} :
          IF Open(j) /\ invitation[j].user = u
          THEN invitation'[j] = [invitation[j] EXCEPT !.revoked = TRUE]
          ELSE invitation'[j] = invitation[j]
    BY <1>2 DEF CreateInvitation, OpenFor
  <2>2. invitation'[i].user = u
    BY <1>2 DEF CreateInvitation, Unused
  <2> HIDE DEF u
  <2>3. \A j \in Invitations \ {i} :
          /\ invitation'[j].user = invitation[j].user
          /\ Open(j)' => Open(j) /\ invitation[j].user # u
    BY <1>1, <2>1 DEF Open, InvitationType
  <2> QED
    BY <2>2, <2>3 DEF OpenApart
<1>3. ASSUME NEW i \in Invitations, NEW v \in InvitationType,
             invitation' = [invitation EXCEPT ![i] = v], v.user = invitation[i].user,
             invitation[i].accepted => v.accepted, invitation[i].revoked => v.revoked
      PROVE  OpenApart'
  <2>1. \A j \in Invitations :
          invitation'[j].user = invitation[j].user /\ (Open(j)' => Open(j))
    BY <1>1, <1>3 DEF Open
  <2> QED
    BY <2>1 DEF OpenApart
<1>4. ASSUME NEW w \in Workers, Join(w) PROVE OpenApart'
  <2> DEFINE i == tx[w].inv
             v == [invitation[i] EXCEPT !.accepted = TRUE]
  <2>1. i \in Invitations
    BY <1>4 DEF Join, TeamInv, WorkerOK, CommandOK
  <2>2. v \in InvitationType /\ v.user = invitation[i].user /\ v.accepted
        /\ v.revoked = invitation[i].revoked
    BY <1>1, <2>1 DEF InvitationType
  <2>3. invitation' = [invitation EXCEPT ![i] = v]
    BY <1>4 DEF Join
  <2> HIDE DEF v, i
  <2> QED
    BY <1>3, <2>1, <2>2, <2>3
<1>5. CASE UNCHANGED invitation
  BY <1>5 DEF OpenApart, Open
<1> QED
  BY <1>2, <1>3, <1>4, <1>5, InvitationSteps DEF Flagged, vars, rows

\* The unique index on open invitations never refuses an invite.
THEOREM OneOpenEach == Spec => []OneOpenPerEmail
<1>1. Init => OpenApart
  BY DEF Init, OpenApart, Open, Unused
<1>2. OpenApart => OneOpenPerEmail
  <2> SUFFICES ASSUME OpenApart, NEW u \in Users
               PROVE  Cardinality({i \in Invitations : Open(i) /\ invitation[i].user = u}) <= 1
    BY DEF OneOpenPerEmail
  <2> DEFINE S == {i \in Invitations : Open(i) /\ invitation[i].user = u}
  <2>1. CASE S = {}
    BY <2>1, FS_EmptySet
  <2>2. ASSUME NEW i \in S PROVE Cardinality(S) <= 1
    <3>1. S = {i}
      BY <2>2 DEF OpenApart
    <3> HIDE DEF S
    <3> QED
      BY <3>1, FS_Singleton
  <2> QED
    BY <2>1, <2>2
<1> QED
  BY <1>1, <1>2, TeamInvariance, OpenApartKept, PTL DEF Spec

-----------------------------------------------------------------------------
\* What an acceptance knows of its invitation, and keeps as long as the lock.
AcceptanceOK(w) ==
  tx[w].kind = "accept" =>
    /\ invitation[tx[w].inv].user = tx[w].user
    /\ tx[w].pc = "write" => ~invitation[tx[w].inv].accepted

JoinsInv == JoinsMatchAcceptances /\ \A w \in Workers : AcceptanceOK(w)

AcceptedOf(u) == {i \in Invitations : invitation[i].user = u /\ invitation[i].accepted}

\* The steps, by what they do to an acceptance.
LEMMA AcceptanceSteps ==
  ASSUME TeamInv, Next, NEW w \in Workers
  PROVE  \/ tx'[w] = tx[w]
         \/ tx'[w].kind # "accept"
         \/ /\ tx'[w].kind = "accept" /\ tx'[w].pc \in {"lock", "recheck"}
            /\ UNCHANGED invitation
            /\ \/ tx'[w].user = invitation[tx'[w].inv].user
               \/ tx[w].kind = "accept" /\ tx'[w].inv = tx[w].inv /\ tx'[w].user = tx[w].user
         \/ Recheck(w)
<1>1. tx \in [Workers -> TxType] /\ invitation \in [Invitations -> InvitationType] /\ CommandOK(w)
  BY DEF TeamInv, TypeOK, WorkerOK
<1>2. ASSUME NEW v \in Workers, NEW i \in Invitations, RequestAccept(v, i)
      PROVE  \/ tx'[w] = tx[w]
             \/ /\ tx'[w].kind = "accept" /\ tx'[w].pc = "lock" /\ UNCHANGED invitation
                /\ tx'[w].user = invitation[tx'[w].inv].user
  BY <1>1, <1>2 DEF RequestAccept, Begin, Idle, rows
<1>3. ASSUME NEW v \in Workers, Request(v), \A i \in Invitations : ~RequestAccept(v, i)
      PROVE  tx'[w] = tx[w] \/ tx'[w].kind # "accept"
  BY <1>1, <1>3 DEF Request, RequestInvite, RequestChange, RequestRevoke, Begin, Idle
<1>4. ASSUME NEW v \in Workers, End(v) PROVE tx'[w] = tx[w] \/ tx'[w].kind # "accept"
  BY <1>1, <1>4 DEF End, Idle
<1>5. ASSUME NEW v \in Workers, NEW pc, tx' = [tx EXCEPT ![v].pc = pc]
      PROVE  \/ tx'[w] = tx[w]
             \/ /\ w = v /\ tx'[w].kind = tx[w].kind /\ tx'[w].pc = pc
                /\ tx'[w].inv = tx[w].inv /\ tx'[w].user = tx[w].user
  BY <1>1, <1>5 DEF TxType
<1>6. ASSUME NEW v \in Workers, LockTeam(v)
      PROVE  \/ tx'[w] = tx[w]
             \/ tx'[w].kind # "accept"
             \/ /\ tx'[w].kind = "accept" /\ tx'[w].pc = "recheck" /\ UNCHANGED invitation
                /\ tx[w].kind = "accept" /\ tx'[w].inv = tx[w].inv /\ tx'[w].user = tx[w].user
  <2> DEFINE pc == CASE tx[v].kind = "invite" -> "seats"
                     [] tx[v].kind = "accept" -> "recheck"
                     [] OTHER -> "check"
  <2>1. tx' = [tx EXCEPT ![v].pc = pc] /\ UNCHANGED invitation
    BY <1>6 DEF LockTeam, rows
  <2>2. tx[v].kind = "accept" => pc = "recheck"
    OBVIOUS
  <2> HIDE DEF pc
  <2> QED
    BY <1>5, <2>1, <2>2
<1>7. ASSUME NEW v \in Workers, CheckSeats(v) \/ CheckChange(v) \/ ReadInvitation(v)
      PROVE  tx'[w] = tx[w] \/ tx'[w].kind # "accept"
  <2>1. tx[v].kind # "accept"
    BY <1>7 DEF CheckSeats, CheckChange, ReadInvitation, TeamInv, WorkerOK, CommandOK
  <2>2. PICK pc : tx' = [tx EXCEPT ![v].pc = pc]
    BY <1>7 DEF CheckSeats, CheckChange, ReadInvitation
  <2> QED
    BY <1>5, <2>1, <2>2
<1>8. ASSUME NEW v \in Workers, Step(v) \/ Crash(v)
      PROVE  \/ LockTeam(v) \/ CheckSeats(v) \/ CheckChange(v) \/ ReadInvitation(v)
             \/ Recheck(v) \/ End(v)
  BY <1>8 DEF Step, Crash, RejectInvite, CreateInvitation, RejectAccept, Join, RejectChange,
     WriteChange, RejectRevoke, StampRevoked, Reject
<1>9. ASSUME NEW v \in Workers, Recheck(v) PROVE tx'[w] = tx[w] \/ Recheck(w)
  BY <1>1, <1>9 DEF Recheck
<1>10. ASSUME \/ \E i \in Invitations : ExpireInvitation(i)
              \/ \E n \in SeatLimits : ChangePlan(n)
       PROVE  tx'[w] = tx[w]
  BY <1>10 DEF ExpireInvitation, ChangePlan
<1> QED
  BY <1>2, <1>3, <1>4, <1>6, <1>7, <1>8, <1>9, <1>10 DEF Next

\* An acceptance that does not join, and what others may do to its invitation.
LEMMA AcceptanceKept ==
  ASSUME TeamInv, Next, NEW w \in Workers, AcceptanceOK(w),
         \A i \in Invitations :
           invitation[i].user # None =>
             /\ invitation'[i].user = invitation[i].user
             /\ invitation'[i].accepted =>
                  invitation[i].accepted \/ \E v \in Workers : Join(v)
  PROVE  AcceptanceOK(w)'
<1>1. CommandOK(w) /\ (tx[w].kind = "accept" => tx[w].inv \in Invitations
                         /\ invitation[tx[w].inv].user # None)
  BY DEF TeamInv, WorkerOK, CommandOK
<1>2. CASE tx'[w] = tx[w]
  <2>1. ASSUME NEW v \in Workers, Join(v), tx[w].kind = "accept", tx[w].pc = "write"
        PROVE  FALSE
    <3>1. v = w
      BY <2>1, TeamAssumption DEF TeamInv, WorkerOK, Holding, Join
    <3>2. tx'[w] = Idle
      BY <2>1, <3>1 DEF Join, End, TeamInv, TypeOK
    <3> QED
      BY <1>2, <2>1, <3>2 DEF Idle
  <2> QED
    BY <1>1, <1>2, <2>1 DEF AcceptanceOK
<1>3. CASE Recheck(w)
  <2>1. /\ tx'[w].user = tx[w].user /\ tx'[w].inv = tx[w].inv /\ UNCHANGED invitation
        /\ tx[w].kind = "accept" /\ ~invitation[tx[w].inv].accepted
    <3>1. tx[w] \in TxType /\ tx \in [Workers -> TxType]
      BY DEF TeamInv, TypeOK
    <3> QED
      BY <1>1, <1>3, <3>1 DEF Recheck, MayJoin, Acceptable, CommandOK, TxType, rows
  <2> QED
    BY <2>1 DEF AcceptanceOK
<1> QED
  BY <1>1, <1>2, <1>3, AcceptanceSteps DEF AcceptanceOK

\* Invitations that leave the accepted ones of each user as they are.
LEMMA SameAccepted ==
  ASSUME JoinsMatchAcceptances, joined' = joined, \A u \in Users : AcceptedOf(u)' = AcceptedOf(u)
  PROVE  JoinsMatchAcceptances'
BY DEF JoinsMatchAcceptances, AcceptedOf

\* Every step keeps joins and acceptances in balance.
LEMMA JoinsKept == TeamInv /\ JoinsInv /\ [Next]_vars => JoinsInv'
<1> SUFFICES ASSUME TeamInv, JoinsInv, [Next]_vars PROVE JoinsInv'
  OBVIOUS
<1>1. /\ invitation \in [Invitations -> InvitationType] /\ joined \in [Users -> Nat]
      /\ tx \in [Workers -> TxType]
  BY DEF TeamInv, TypeOK
<1>2. CASE UNCHANGED vars
  BY <1>2 DEF JoinsInv, JoinsMatchAcceptances, AcceptanceOK, vars, rows
<1>3. CASE Next /\ UNCHANGED <<invitation, joined>>
  BY <1>3, AcceptanceKept DEF JoinsInv, JoinsMatchAcceptances
<1>4. ASSUME Next, NEW i \in Invitations, Flagged(i), UNCHANGED joined PROVE JoinsInv'
  <2>1. \A j \in Invitations : invitation'[j].user = invitation[j].user
                               /\ invitation'[j].accepted = invitation[j].accepted
    BY <1>1, <1>4 DEF Flagged
  <2>2. JoinsMatchAcceptances'
    BY <1>4, <2>1, SameAccepted DEF JoinsInv, AcceptedOf
  <2> QED
    BY <1>4, <2>1, <2>2, AcceptanceKept DEF JoinsInv
<1>5. ASSUME Next, NEW w \in Workers, NEW i \in Invitations, CreateInvitation(w, i) PROVE JoinsInv'
  <2>1. \A j \in Invitations :
          /\ invitation'[j].accepted = invitation[j].accepted
          /\ invitation'[j].user = invitation[j].user
             \/ (invitation[j].user = None /\ ~invitation[j].accepted)
    <3>1. invitation[i].user = None /\ ~invitation[i].accepted
      BY <1>5 DEF CreateInvitation, Unused
    <3>2. ASSUME NEW j \in Invitations, j # i
          PROVE  invitation'[j] = invitation[j]
                 \/ invitation'[j] = [invitation[j] EXCEPT !.revoked = TRUE]
      BY <1>5, <3>2 DEF CreateInvitation
    <3>3. ASSUME NEW j \in Invitations, j # i
          PROVE  invitation'[j].user = invitation[j].user
                 /\ invitation'[j].accepted = invitation[j].accepted
      BY <1>1, <3>2, <3>3 DEF InvitationType
    <3>4. invitation'[i].accepted = invitation[i].accepted
      BY <1>5 DEF CreateInvitation, Unused
    <3>5. ASSUME NEW j \in Invitations
          PROVE  /\ invitation'[j].accepted = invitation[j].accepted
                 /\ invitation'[j].user = invitation[j].user
                    \/ (invitation[j].user = None /\ ~invitation[j].accepted)
      <4>1. CASE j = i
        BY <3>1, <3>4, <4>1
      <4>2. CASE j # i
        BY <3>3, <4>2
      <4> QED
        BY <4>1, <4>2
    <3> QED
      BY <3>5
  <2>2. joined' = joined
    BY <1>5 DEF CreateInvitation
  <2>3. JoinsMatchAcceptances'
    BY <2>1, <2>2, SameAccepted DEF JoinsInv, AcceptedOf
  <2> QED
    BY <1>5, <2>1, <2>3, AcceptanceKept DEF JoinsInv
<1>6. ASSUME Next, NEW w \in Workers, Join(w) PROVE JoinsInv'
  <2> DEFINE i == tx[w].inv
             u == tx[w].user
  <2>1. /\ i \in Invitations /\ u \in Users /\ invitation[i].user = u /\ ~invitation[i].accepted
    BY <1>6 DEF Join, JoinsInv, AcceptanceOK, TeamInv, WorkerOK, CommandOK
  <2>2. /\ joined' = [joined EXCEPT ![u] = @ + 1]
        /\ invitation' = [invitation EXCEPT ![i].accepted = TRUE]
    BY <1>6 DEF Join
  <2> HIDE DEF i, u
  <2>3. \A j \in Invitations :
          /\ invitation'[j].user = invitation[j].user
          /\ invitation'[j].accepted <=> (invitation[j].accepted \/ j = i)
    BY <1>1, <2>1, <2>2 DEF InvitationType
  <2>4. ASSUME NEW o \in Users PROVE joined'[o] = Cardinality(AcceptedOf(o)')
    <3>1. joined[o] = Cardinality(AcceptedOf(o))
      BY DEF JoinsInv, JoinsMatchAcceptances, AcceptedOf
    <3>2. CASE o = u
      <4>1. AcceptedOf(o)' = AcceptedOf(o) \cup {i} /\ i \notin AcceptedOf(o)
        BY <2>1, <2>3, <3>2 DEF AcceptedOf
      <4>2. AcceptedOf(o) \subseteq Invitations
        BY DEF AcceptedOf
      <4>3. IsFiniteSet(AcceptedOf(o))
        BY <4>2, FS_Subset, TeamAssumption
      <4>4. Cardinality(AcceptedOf(o) \cup {i}) = Cardinality(AcceptedOf(o)) + 1
        BY <4>1, <4>3, FS_AddElement
      <4> QED
        BY <1>1, <2>2, <3>1, <3>2, <4>1, <4>4
    <3>3. CASE o # u
      <4>1. AcceptedOf(o)' = AcceptedOf(o)
        BY <2>1, <2>3, <3>3 DEF AcceptedOf
      <4> QED
        BY <1>1, <2>2, <3>1, <3>3, <4>1
    <3> QED
      BY <3>2, <3>3
  <2>5. JoinsMatchAcceptances'
    BY <2>4 DEF JoinsMatchAcceptances, AcceptedOf
  <2> QED
    BY <1>6, <2>3, <2>5, AcceptanceKept DEF JoinsInv
<1> QED
  BY <1>2, <1>3, <1>4, <1>5, <1>6, InvitationSteps

\* An invitation lets its user in once, however acceptances of it overlap.
THEOREM JoinedOnce == Spec => []JoinsMatchAcceptances
<1>1. Init => JoinsInv
  <2> SUFFICES ASSUME Init PROVE JoinsInv
    OBVIOUS
  <2>1. \A u \in Users : AcceptedOf(u) = {}
    BY DEF Init, AcceptedOf, Unused
  <2>2. JoinsMatchAcceptances
    BY <2>1, FS_EmptySet DEF Init, JoinsMatchAcceptances, AcceptedOf
  <2> QED
    BY <2>2 DEF Init, JoinsInv, AcceptanceOK, Idle
<1>2. JoinsInv => JoinsMatchAcceptances
  BY DEF JoinsInv
<1> QED
  BY <1>1, <1>2, TeamInvariance, JoinsKept, PTL DEF Spec

\* An email has one open invitation at most, and each invitation lets in once.
THEOREM InvitationsCountOnce == Spec => []InvitedOnce
  BY OneOpenEach, JoinedOnce, PTL DEF InvitedOnce
=============================================================================
