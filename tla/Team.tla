-------------------------------- MODULE Team --------------------------------
(***************************************************************************)
(* Memberships and invitations of one workspace.  Every command is one       *)
(* transaction; all but the revocation of an invitation first take the       *)
(* advisory lock team:<organization>.  Under the lock the memberships are    *)
(* stable, but the plan, the age of an invitation and its revocation are not,*)
(* so reading and writing are separate steps.                               *)
(*                                                                         *)
(* Owners issue the commands; the guards read the role before the            *)
(* transaction, so it may be out of date and decides nothing here.          *)
(***************************************************************************)
EXTENDS Integers, FiniteSets

CONSTANTS
  Users,       \* accounts, each with its email
  Owners,      \* owners when the model begins
  Invitations, \* rows of organization_invitations
  Workers,     \* request handlers
  None,
  SeatLimits,  \* maxTeamMembers of the plans
  FirstLimit,  \* the limit when the model begins
  Roles        \* "OWNER", and those of MANAGER and STAFF

ASSUME TeamAssumption ==
  /\ IsFiniteSet(Users) /\ IsFiniteSet(Invitations)
  /\ None \notin Users \cup Invitations \cup Workers
  /\ Owners \subseteq Users /\ Owners # {}
  /\ SeatLimits \subseteq Nat /\ FirstLimit \in SeatLimits
  /\ Cardinality(Owners) <= FirstLimit
  /\ "OWNER" \in Roles /\ "NONE" \notin Roles

VARIABLES
  member,     \* role of each user, "NONE" without a membership
  joined,     \* memberships each user has been given by invitation
  invitation, \* the invitations
  seats,      \* maxTeamMembers of the effective plan
  highest,    \* history: the largest limit the plans have had
  teamLock,   \* holder of the advisory lock
  tx          \* the transaction of each worker

rows == <<member, joined, invitation>>
plan == <<seats, highest>>
vars == <<rows, plan, teamLock, tx>>

Unused == [user |-> None, role |-> "NONE", expired |-> FALSE,
           accepted |-> FALSE, revoked |-> FALSE]
Idle == [pc    |-> "idle", \* "lock", "seats", "pending", "recheck", "check", "revoke", "write"
         kind  |-> "none", \* "invite", "accept", "role", "remove", "revoke"
         user  |-> None,
         inv   |-> None,
         role  |-> "NONE",
         life  |-> 0,      \* which membership of the user the command names
         seats |-> 0]      \* limit an acceptance has read

Init ==
  /\ member = [u \in Users |-> IF u \in Owners THEN "OWNER" ELSE "NONE"]
  /\ joined = [u \in Users |-> 0]
  /\ invitation = [i \in Invitations |-> Unused]
  /\ seats = FirstLimit /\ highest = FirstLimit
  /\ teamLock = None
  /\ tx = [w \in Workers |-> Idle]

Members == {u \in Users : member[u] # "NONE"}
OwnerCount == Cardinality({u \in Users : member[u] = "OWNER"})
Open(i) == invitation[i].user # None /\ ~invitation[i].accepted /\ ~invitation[i].revoked
Pending == {i \in Invitations : Open(i) /\ ~invitation[i].expired}

AcceptableUnlessRevoked(i) == ~invitation[i].revoked /\ ~invitation[i].expired
\* assertAcceptable
Acceptable(i) ==
  /\ ~invitation[i].revoked /\ ~invitation[i].accepted /\ ~invitation[i].expired

-----------------------------------------------------------------------------
Begin(w, fields) ==
  /\ tx[w].pc = "idle"
  /\ tx' = [tx EXCEPT ![w] = fields]
  /\ UNCHANGED <<rows, plan, teamLock>>

RequestInvite(w, u, role) ==
  /\ role # "OWNER"
  /\ Begin(w, [Idle EXCEPT !.pc = "lock", !.kind = "invite", !.user = u, !.role = role])

\* The invitation is resolved and judged before the transaction begins.
RequestAccept(w, i) ==
  /\ invitation[i].user # None /\ Acceptable(i)
  /\ Begin(w, [Idle EXCEPT !.pc = "lock", !.kind = "accept", !.inv = i,
                           !.user = invitation[i].user])

RequestChange(w, kind, u, role) ==
  /\ member[u] # "NONE"
  /\ Begin(w, [Idle EXCEPT !.pc = "lock", !.kind = kind, !.user = u, !.role = role,
                           !.life = joined[u]])

RequestRevoke(w, i) ==
  /\ invitation[i].user # None
  /\ Begin(w, [Idle EXCEPT !.pc = "revoke", !.kind = "revoke", !.inv = i])

LockFree == teamLock = None

LockTeam(w) ==
  /\ tx[w].pc = "lock" /\ LockFree
  /\ teamLock' = w
  /\ tx' = [tx EXCEPT ![w].pc = CASE tx[w].kind = "invite" -> "seats"
                                  [] tx[w].kind = "accept" -> "recheck"
                                  [] OTHER -> "check"]
  /\ UNCHANGED <<rows, plan>>

-----------------------------------------------------------------------------
End(w) ==
  /\ tx' = [tx EXCEPT ![w] = Idle]
  /\ teamLock' = IF teamLock = w THEN None ELSE teamLock

Reject(w) == End(w) /\ UNCHANGED <<rows, plan>>

SeatsTakenByMembers == Cardinality(Members)
\* An invitation that has expired takes no seat.
SeatsTaken == Cardinality(Members) + Cardinality(Pending)

\* invite: the seat count, then the check that the email is no member.
CheckSeats(w) ==
  /\ tx[w].pc = "seats" /\ SeatsTaken < seats /\ member[tx[w].user] = "NONE"
  /\ tx' = [tx EXCEPT ![w].pc = "pending"]
  /\ UNCHANGED <<rows, plan, teamLock>>

OpenFor(u) == {i \in Invitations : Open(i) /\ invitation[i].user = u}
Replaceable(i) == invitation[i].expired

\* invite: an expired open invitation of the email is revoked, a live one is a
\* conflict; then the new one is created.
CreateInvitation(w, i) ==
  LET u == tx[w].user IN
  /\ tx[w].pc = "pending" /\ invitation[i] = Unused
  /\ \A old \in OpenFor(u) : Replaceable(old)
  /\ invitation' = [v \in Invitations |->
       CASE v = i -> [Unused EXCEPT !.user = u, !.role = tx[w].role]
         [] v \in OpenFor(u) \ {i} -> [invitation[v] EXCEPT !.revoked = TRUE]
         [] OTHER -> invitation[v]]
  /\ End(w)
  /\ UNCHANGED <<member, joined, plan>>

RejectInvite(w) ==
  /\ \/ tx[w].pc = "seats" /\ (SeatsTaken >= seats \/ member[tx[w].user] # "NONE")
     \/ tx[w].pc = "pending" /\ \E old \in OpenFor(tx[w].user) : ~Replaceable(old)
  /\ Reject(w)

MayJoin(w) ==
  /\ Acceptable(tx[w].inv)
  /\ member[tx[w].user] = "NONE"
  /\ Cardinality(Members) < seats

\* acceptInvitation under the lock: the invitation is read and judged again,
\* and the seat limit with it.
Recheck(w) ==
  /\ tx[w].pc = "recheck" /\ MayJoin(w)
  /\ tx' = [tx EXCEPT ![w].pc = "write", ![w].seats = seats]
  /\ UNCHANGED <<rows, plan, teamLock>>

RejectAccept(w) == tx[w].pc = "recheck" /\ ~MayJoin(w) /\ Reject(w)

Join(w) ==
  LET u == tx[w].user  i == tx[w].inv IN
  /\ tx[w].pc = "write" /\ tx[w].kind = "accept"
  /\ member' = [member EXCEPT ![u] = invitation[i].role]
  /\ joined' = [joined EXCEPT ![u] = @ + 1]
  /\ invitation' = [invitation EXCEPT ![i].accepted = TRUE]
  /\ End(w)
  /\ UNCHANGED plan

\* changeMemberRole and removeMember under the lock.
LastOwnerUnguarded(w) == FALSE
LastOwner(w) ==
  /\ member[tx[w].user] = "OWNER" /\ OwnerCount <= 1
  /\ tx[w].kind = "remove" \/ tx[w].role # "OWNER"

Present(w) == member[tx[w].user] # "NONE" /\ joined[tx[w].user] = tx[w].life

CheckChange(w) ==
  /\ tx[w].pc = "check" /\ Present(w) /\ ~LastOwner(w)
  /\ tx' = [tx EXCEPT ![w].pc = "write"]
  /\ UNCHANGED <<rows, plan, teamLock>>

RejectChange(w) ==
  /\ tx[w].pc = "check" /\ ~(Present(w) /\ ~LastOwner(w))
  /\ Reject(w)

WriteChange(w) ==
  /\ tx[w].pc = "write" /\ tx[w].kind \in {"role", "remove"}
  /\ member' = [member EXCEPT ![tx[w].user] =
       IF tx[w].kind = "role" THEN tx[w].role ELSE "NONE"]
  /\ End(w)
  /\ UNCHANGED <<joined, invitation, plan>>

\* revokeInvitation takes no lock: it reads the invitation ...
ReadInvitation(w) ==
  /\ tx[w].pc = "revoke" /\ Open(tx[w].inv)
  /\ tx' = [tx EXCEPT ![w].pc = "write"]
  /\ UNCHANGED <<rows, plan, teamLock>>

RejectRevoke(w) == tx[w].pc = "revoke" /\ ~Open(tx[w].inv) /\ Reject(w)

\* ... and stamps it by its id alone.
StampRevoked(w) ==
  /\ tx[w].pc = "write" /\ tx[w].kind = "revoke"
  /\ invitation' = [invitation EXCEPT ![tx[w].inv].revoked = TRUE]
  /\ End(w)
  /\ UNCHANGED <<member, joined, plan>>

Crash(w) ==
  /\ tx[w].pc # "idle"
  /\ End(w)
  /\ UNCHANGED <<rows, plan>>

-----------------------------------------------------------------------------
(* What happens outside these commands.                                     *)

ExpireInvitation(i) ==
  /\ Open(i) /\ ~invitation[i].expired
  /\ invitation' = [invitation EXCEPT ![i].expired = TRUE]
  /\ UNCHANGED <<member, joined, plan, teamLock, tx>>

\* A subscription webhook changes the effective plan; no team lock is taken.
ChangePlan(n) ==
  /\ seats' = n
  /\ highest' = IF n > highest THEN n ELSE highest
  /\ UNCHANGED <<rows, teamLock, tx>>

Request(w) ==
  \/ \E u \in Users, role \in Roles :
       \/ RequestInvite(w, u, role)
       \/ RequestChange(w, "role", u, role)
  \/ \E u \in Users : RequestChange(w, "remove", u, "NONE")
  \/ \E i \in Invitations : RequestAccept(w, i) \/ RequestRevoke(w, i)

Step(w) ==
  \/ LockTeam(w)
  \/ CheckSeats(w) \/ RejectInvite(w)
  \/ \E i \in Invitations : CreateInvitation(w, i)
  \/ Recheck(w) \/ RejectAccept(w) \/ Join(w)
  \/ CheckChange(w) \/ RejectChange(w) \/ WriteChange(w)
  \/ ReadInvitation(w) \/ RejectRevoke(w) \/ StampRevoked(w)

Next ==
  \/ \E w \in Workers : Request(w) \/ Step(w) \/ Crash(w)
  \/ \E i \in Invitations : ExpireInvitation(i)
  \/ \E n \in SeatLimits : ChangePlan(n)

Spec == Init /\ [][Next]_vars

-----------------------------------------------------------------------------
(* Properties.                                                              *)

InvitationType == [user : Users \cup {None}, role : Roles \cup {"NONE"}, expired : BOOLEAN,
                   accepted : BOOLEAN, revoked : BOOLEAN]
TxType == [pc : {"idle", "lock", "seats", "pending", "recheck", "check", "revoke", "write"},
           kind : {"none", "invite", "accept", "role", "remove", "revoke"},
           user : Users \cup {None}, inv : Invitations \cup {None},
           role : Roles \cup {"NONE"}, life : Nat, seats : Nat]

TypeOK ==
  /\ member \in [Users -> Roles \cup {"NONE"}]
  /\ joined \in [Users -> Nat]
  /\ invitation \in [Invitations -> InvitationType]
  /\ seats \in Nat /\ highest \in Nat
  /\ teamLock \in Workers \cup {None}
  /\ tx \in [Workers -> TxType]

\* "two concurrent demotions/removals of the last two Owners can never both
\* succeed": the workspace always has an owner.
HasOwner == \E u \in Users : member[u] = "OWNER"

\* Members and live invitations together never outgrow the largest seat limit
\* the workspace has had, however invitations, acceptances, revocations and
\* expiries overlap.
SeatsAccounted == Cardinality(Members) + Cardinality(Pending) <= highest

\* A member joins only while the members, the new one included, fit the limit
\* that the acceptance has read.
SeatsRespected ==
  [][\A w \in Workers : Join(w) => Cardinality(Members') <= tx[w].seats]_vars

\* An invitation lets its user in once: a user has been given as many
\* memberships as there are accepted invitations for the email.
JoinsMatchAcceptances ==
  \A u \in Users :
    joined[u] = Cardinality({i \in Invitations :
                               invitation[i].user = u /\ invitation[i].accepted})

\* The unique index on open invitations of an email never refuses an invite.
OneOpenPerEmail ==
  \A u \in Users :
    Cardinality({i \in Invitations : Open(i) /\ invitation[i].user = u}) <= 1

\* An email has one open invitation at most, and each invitation lets its user in
\* once, whatever invites, acceptances, revocations and removals overlap.
InvitedOnce == JoinsMatchAcceptances /\ OneOpenPerEmail
=============================================================================
