---------------------------- MODULE LoginsProofs ----------------------------
(***************************************************************************)
(* Proofs about client addresses, sessions, the rate limiter and the login  *)
(* throttle, for any users, clients, number of requests at once and limits. *)
(*                                                                         *)
(* SessionsBounded is not inductive: a request that has read an over-full     *)
(* list may be overtaken by others.  Budget says what is left if any of the   *)
(* requests that are about to revoke did so now, and that is inductive.       *)
(*                                                                         *)
(* BurstBounded and GuessesBounded are about what has happened within the     *)
(* last window, which the server does not keep: it keeps a counter per key,   *)
(* and a list of failures per pair that may have been swept or evicted.       *)
(* BurstInv and GuessesInv say what those tell about the past.                *)
(***************************************************************************)
EXTENDS Logins, FiniteSetTheorems, SequenceTheorems, TLAPS

Session == [user : Users, state : {"live", "out", "revoked", "gone"}, expires : Nat]
SeenAddresses == UNION {Seen[c] : c \in Clients}
Request ==
  [pc : {"idle", "verify", "create", "read", "revoke", "insert", "logout"},
   user : Users \cup {None}, from : Clients \cup {None},
   key : SeenAddresses \cup {None}, id : Nat, excess : SUBSET Nat]

TypeOK ==
  /\ now \in Nat
  /\ sessions \in Seq(Session)
  /\ req \in [Workers -> Request]

Younger(i) == {j \in DOMAIN sessions : j > i /\ sessions[j].user = sessions[i].user}
Inserters(u) == {w \in Workers : req[w].pc = "insert" /\ req[w].user = u}
Revokers(u) == {w \in Workers : req[w].pc = "revoke" /\ req[w].user = u}
Doomed(R) == UNION {req[w].excess : w \in R}

\* A request under way has a user; a session it is to end exists, and one it is
\* about to revoke is the user's own and has been followed by MaxActive others.
RequestOK(w) ==
  /\ req[w].pc # "idle" => req[w].user \in Users
  /\ req[w].pc = "logout" => req[w].id \in DOMAIN sessions
  /\ req[w].pc # "revoke" => req[w].excess = {}
  /\ \A i \in req[w].excess :
       /\ i \in DOMAIN sessions
       /\ Cardinality(Younger(i)) >= MaxActive

Budget(u) ==
  \A R \in SUBSET Revokers(u) :
    Cardinality(ActiveOf(u) \ Doomed(R)) + Cardinality(Inserters(u)) + Cardinality(R)
      <= MaxActive + Cardinality(Workers)

\* The inductive invariant.
SessionsInv ==
  /\ TypeOK
  /\ \A w \in Workers : RequestOK(w)
  /\ NewestKept
  /\ \A u \in Users : Budget(u)

-----------------------------------------------------------------------------
\* The client of a request that really comes from c, which is no proxy, is c:
\* whatever hops it puts before its own address are ignored.
THEOREM ForgedHopsIgnored ==
  ASSUME NEW c \in Clients, ~IsProxy(c), IsProxy(Proxy),
         NEW Hops, c \in Hops, Forged \subseteq Seq(Hops)
  PROVE  Seen[c] \subseteq {c}
<1> SUFFICES ASSUME NEW f \in Forged
             PROVE  /\ ResolveClientAddress(c, f) = c
                    /\ ResolveClientAddress(Proxy, Append(f, c)) = c
  BY DEF Seen
<1>1. ResolveClientAddress(c, f) = c
  BY DEF ResolveClientAddress
<1> DEFINE hops == Append(f, c)  last == Len(f) + 1
<1>2. f \in Seq(Hops)
  OBVIOUS
<1>3. hops[last] = c /\ DOMAIN hops = 1 .. last /\ last \in Nat
  BY <1>2
<1>4. last \in Strangers(hops) /\ \A i \in Strangers(hops) : i \in Nat /\ i <= last
  BY <1>3 DEF Strangers
<1> HIDE DEF hops, last
<1>5. \A i : i \in Strangers(hops) /\ (\A j \in Strangers(hops) : j <= i) => i = last
  BY <1>3, <1>4
<1>6. (CHOOSE i \in Strangers(hops) : \A j \in Strangers(hops) : j <= i) = last
  BY <1>4, <1>5
<1>7. NearestStranger(hops) = c
  BY <1>3, <1>6 DEF NearestStranger
<1> QED
  BY <1>1, <1>4, <1>7 DEF ResolveClientAddress, hops

\* Each session that is not in excess has fewer than MaxActive younger ones, and
\* no two have the same number of them.
LEMMA ExcessLeaves ==
  ASSUME NEW S \in SUBSET Nat, IsFiniteSet(S)
  PROVE  Cardinality(S \ Excess(S)) <= MaxActive
<1> DEFINE T == S \ Excess(S)
           f == [i \in T |-> Cardinality({j \in S : j > i})]
<1>1. \A i \in S : IsFiniteSet({j \in S : j > i}) /\ Cardinality({j \in S : j > i}) \in Nat
  BY FS_Subset, FS_CardinalityType
<1>2. IsFiniteSet(T) /\ Cardinality(T) \in Nat
  BY FS_Subset, FS_CardinalityType
<1>3. f \in [T -> 0 .. MaxActive - 1]
  <2> SUFFICES ASSUME NEW i \in T
               PROVE  Cardinality({j \in S : j > i}) \in 0 .. MaxActive - 1
    OBVIOUS
  <2>1. i \in S /\ ~(Cardinality({j \in S : j > i}) >= MaxActive)
    BY DEF Excess
  <2> QED
    BY <1>1, <2>1, LoginsAssumption
<1>4. IsFiniteSet(0 .. MaxActive - 1) /\ Cardinality(0 .. MaxActive - 1) = MaxActive
  BY FS_Interval, LoginsAssumption
<1>5. \A x, y \in T : x < y => f[x] # f[y]
  <2> SUFFICES ASSUME NEW x \in T, NEW y \in T, x < y
               PROVE  Cardinality({j \in S : j > x}) # Cardinality({j \in S : j > y})
    OBVIOUS
  <2>0. x \in S /\ y \in S /\ \A j \in S : j \in Int
    OBVIOUS
  <2>1. \A j \in S : j > y => j > x
    BY <2>0
  <2>2. {j \in S : j > y} \subseteq {j \in S : j > x}
    BY <2>1
  <2>3. y \in {j \in S : j > x} /\ y \notin {j \in S : j > y}
    BY <2>0
  <2> QED
    BY <1>1, <2>0, <2>1, <2>2, <2>3, FS_Subset
<1> HIDE DEF T, f
<1>6. CASE Cardinality(T) > MaxActive
  <2>1. PICK x, y \in T : x # y /\ f[x] = f[y]
    BY <1>2, <1>3, <1>4, <1>6, FS_PigeonHole
  <2>2. x < y \/ y < x
    BY <2>1 DEF T
  <2> QED
    BY <1>5, <2>1, <2>2
<1> QED
  BY <1>2, <1>6, LoginsAssumption DEF T

-----------------------------------------------------------------------------
\* What is counted is finite.
LEMMA Countable ==
  ASSUME TypeOK
  PROVE  /\ \A u \in Users : ActiveOf(u) \in SUBSET Nat /\ IsFiniteSet(ActiveOf(u))
         /\ \A i \in DOMAIN sessions : IsFiniteSet(Younger(i)) /\ Cardinality(Younger(i)) \in Nat
         /\ \A u \in Users : IsFiniteSet(Inserters(u)) /\ Cardinality(Inserters(u)) \in Nat
         /\ \A u \in Users : \A R \in SUBSET Revokers(u) :
              IsFiniteSet(R) /\ Cardinality(R) \in Nat
         /\ Cardinality(Workers) \in Nat
<1>1. DOMAIN sessions = 1 .. Len(sessions) /\ Len(sessions) \in Nat
  BY DEF TypeOK
<1>2. IsFiniteSet(DOMAIN sessions) /\ DOMAIN sessions \in SUBSET Nat
  BY <1>1, FS_Interval
<1>3. \A u \in Users : ActiveOf(u) \in SUBSET Nat /\ IsFiniteSet(ActiveOf(u))
  BY <1>2, FS_Subset DEF ActiveOf
<1>4. \A i \in DOMAIN sessions : IsFiniteSet(Younger(i)) /\ Cardinality(Younger(i)) \in Nat
  BY <1>2, FS_Subset, FS_CardinalityType DEF Younger
<1>5. \A u \in Users : Inserters(u) \in SUBSET Workers /\ Revokers(u) \in SUBSET Workers
  BY DEF Inserters, Revokers
<1>6. \A P \in SUBSET Workers : IsFiniteSet(P) /\ Cardinality(P) \in Nat
  BY FS_Subset, FS_CardinalityType, LoginsAssumption
<1> QED
  BY <1>3, <1>4, <1>5, <1>6

\* Rows keep their place and their user, so the younger ones only grow in number.
LEMMA YoungerGrow ==
  ASSUME TypeOK, TypeOK', DOMAIN sessions \subseteq DOMAIN sessions',
         \A i \in DOMAIN sessions : sessions'[i].user = sessions[i].user
  PROVE  \A i \in DOMAIN sessions :
           Cardinality(Younger(i)) >= MaxActive => Cardinality(Younger(i)') >= MaxActive
<1> SUFFICES ASSUME NEW i \in DOMAIN sessions, Cardinality(Younger(i)) >= MaxActive
             PROVE  Cardinality(Younger(i)') >= MaxActive
  OBVIOUS
<1>1. Younger(i) \subseteq Younger(i)'
  BY DEF Younger
<1>2. IsFiniteSet(Younger(i)') /\ Cardinality(Younger(i)') \in Nat
  <2>1. DOMAIN sessions' = 1 .. Len(sessions') /\ Len(sessions') \in Nat
    BY DEF TypeOK
  <2>2. IsFiniteSet(DOMAIN sessions') /\ Younger(i)' \subseteq DOMAIN sessions'
    BY <2>1, FS_Interval DEF Younger
  <2> QED
    BY <2>2, FS_Subset, FS_CardinalityType
<1>3. Cardinality(Younger(i)) \in Nat
  BY Countable
<1> QED
  BY <1>1, <1>2, <1>3, FS_Subset, LoginsAssumption

\* Fewer active sessions, with the same requests about to insert or to revoke.
LEMMA BudgetShrinks ==
  ASSUME TypeOK, NEW u \in Users, Budget(u), ActiveOf(u)' \subseteq ActiveOf(u),
         Inserters(u)' = Inserters(u), Revokers(u)' \subseteq Revokers(u),
         \A w \in Revokers(u)' : req'[w].excess = req[w].excess
  PROVE  Budget(u)'
<1> SUFFICES ASSUME NEW R \in SUBSET Revokers(u)'
             PROVE  Cardinality(ActiveOf(u)' \ Doomed(R)') + Cardinality(Inserters(u)')
                      + Cardinality(R) <= MaxActive + Cardinality(Workers)
  BY DEF Budget
<1>1. R \in SUBSET Revokers(u) /\ Doomed(R)' = Doomed(R)
  BY DEF Doomed
<1>2. ActiveOf(u)' \ Doomed(R)' \subseteq ActiveOf(u) \ Doomed(R)
  BY <1>1
<1>3. IsFiniteSet(ActiveOf(u) \ Doomed(R))
  BY Countable, FS_Difference
<1>4. /\ Cardinality(ActiveOf(u)' \ Doomed(R)') <= Cardinality(ActiveOf(u) \ Doomed(R))
      /\ Cardinality(ActiveOf(u)' \ Doomed(R)') \in Nat
      /\ Cardinality(ActiveOf(u) \ Doomed(R)) \in Nat
  BY <1>2, <1>3, FS_Subset, FS_CardinalityType
<1>5. Cardinality(ActiveOf(u) \ Doomed(R)) + Cardinality(Inserters(u)) + Cardinality(R)
        <= MaxActive + Cardinality(Workers)
  BY <1>1 DEF Budget
<1> QED
  BY <1>1, <1>4, <1>5, Countable, LoginsAssumption

\* A request is not about to insert and about to revoke.
LEMMA InsertersOrRevokers ==
  ASSUME TypeOK, NEW u \in Users, NEW I \in SUBSET Workers, NEW R \in SUBSET Workers,
         I \cap R = {}
  PROVE  Cardinality(I) + Cardinality(R) <= Cardinality(Workers)
<1>1. /\ IsFiniteSet(I) /\ Cardinality(I) \in Nat
      /\ IsFiniteSet(R) /\ Cardinality(R) \in Nat
  BY FS_Subset, FS_CardinalityType, LoginsAssumption
<1>2. Cardinality(I \cup R) = Cardinality(I) + Cardinality(R)
  <2>1. Cardinality(I \cap R) = 0
    BY FS_EmptySet
  <2>2. Cardinality(I \cup R) = Cardinality(I) + Cardinality(R) - Cardinality(I \cap R)
    BY <1>1, FS_Union
  <2> QED
    BY <1>1, <2>1, <2>2
<1>3. Cardinality(I \cup R) <= Cardinality(Workers)
  BY FS_Subset, LoginsAssumption
<1> QED
  BY <1>2, <1>3

-----------------------------------------------------------------------------
LEMMA InitInvariant == Init => SessionsInv
<1> SUFFICES ASSUME Init PROVE SessionsInv
  OBVIOUS
<1>1. Idle \in Request
  BY DEF Idle, Request
<1>2. TypeOK
  <2>1. sessions \in Seq(Session)
    BY EmptySeq DEF Init
  <2> QED
    BY <1>1, <2>1 DEF Init, TypeOK
<1>3. \A w \in Workers : RequestOK(w)
  BY DEF Init, RequestOK, Idle
<1>4. NewestKept
  BY DEF Init, NewestKept
<1>5. ASSUME NEW u \in Users PROVE Budget(u)
  <2>1. ActiveOf(u) = {} /\ Inserters(u) = {} /\ Revokers(u) = {}
    BY DEF Init, ActiveOf, Inserters, Revokers, Idle
  <2>2. \A R \in SUBSET Revokers(u) : R = {} /\ ActiveOf(u) \ Doomed(R) = {}
    BY <2>1
  <2>3. Cardinality(Workers) \in Nat
    BY FS_CardinalityType, LoginsAssumption
  <2> QED
    BY <2>1, <2>2, <2>3, FS_EmptySet, LoginsAssumption DEF Budget
<1> QED
  BY <1>2, <1>3, <1>4, <1>5 DEF SessionsInv

\* A step of one request that touches no session and neither comes to an insert
\* or a revocation nor from one.
LEMMA RequestStep ==
  ASSUME SessionsInv, NEW w \in Workers, NEW r \in Request, req' = [req EXCEPT ![w] = r],
         UNCHANGED <<now, sessions>>,
         req[w].pc \notin {"revoke", "insert"}, r.pc \notin {"revoke", "insert"},
         r.excess = {}, r.pc # "idle" => r.user \in Users,
         r.pc = "logout" => r.id \in DOMAIN sessions
  PROVE  SessionsInv'
<1>1. TypeOK'
  BY DEF SessionsInv, TypeOK
<1>2. req'[w] = r /\ \A v \in Workers \ {w} : req'[v] = req[v]
  BY DEF SessionsInv, TypeOK
<1>3. \A v \in Workers : RequestOK(v)'
  BY <1>2 DEF SessionsInv, RequestOK, Younger
<1>4. NewestKept'
  BY DEF SessionsInv, NewestKept
<1>5. ASSUME NEW u \in Users PROVE Budget(u)'
  <2>1. /\ Inserters(u)' = Inserters(u) /\ Revokers(u)' = Revokers(u)
        /\ \A v \in Revokers(u)' : req'[v].excess = req[v].excess
    BY <1>2 DEF Inserters, Revokers
  <2>2. ActiveOf(u)' = ActiveOf(u)
    BY DEF ActiveOf, Active
  <2> QED
    BY <2>1, <2>2, BudgetShrinks DEF SessionsInv
<1> QED
  BY <1>1, <1>3, <1>4, <1>5 DEF SessionsInv

LEMMA SameRequests ==
  ASSUME SessionsInv, UNCHANGED <<now, sessions, req>>
  PROVE  SessionsInv'
<1>1. TypeOK' /\ NewestKept' /\ \A w \in Workers : RequestOK(w)'
  BY DEF SessionsInv, TypeOK, RequestOK, NewestKept, Younger
<1>2. ASSUME NEW u \in Users PROVE Budget(u)'
  <2>1. /\ ActiveOf(u)' = ActiveOf(u) /\ Inserters(u)' = Inserters(u)
        /\ Revokers(u)' = Revokers(u)
    BY DEF ActiveOf, Active, Inserters, Revokers
  <2> QED
    BY <2>1, BudgetShrinks DEF SessionsInv
<1> QED
  BY <1>1, <1>2 DEF SessionsInv

LEMMA LoginKeeps ==
  ASSUME SessionsInv, NEW w \in Workers, NEW u \in Users, NEW c \in Clients, Login(w, u, c)
  PROVE  SessionsInv'
<1>1. req[w].pc = "idle" /\ UNCHANGED <<now, sessions>>
  BY DEF Login, Arrive
<1>2. PICK seen \in Seen[c] :
        \/ UNCHANGED req
        \/ req' = [req EXCEPT ![w] = [Idle EXCEPT !.pc = "verify", !.user = u,
                                                 !.from = c, !.key = seen]]
  BY DEF Login
<1>3. [Idle EXCEPT !.pc = "verify", !.user = u, !.from = c, !.key = seen] \in Request
  <2>1. seen \in SeenAddresses
    BY DEF SeenAddresses
  <2> QED
    BY <2>1 DEF Idle, Request
<1> QED
  BY <1>1, <1>2, <1>3, RequestStep, SameRequests DEF Idle

LEMMA AnonymousKeeps ==
  ASSUME SessionsInv, NEW w \in Workers, NEW u \in Users, NEW c \in Clients,
         Signup(w, u, c) \/ DemoLogin(w, u, c)
  PROVE  SessionsInv'
<1>1. PICK route \in {"signup", "demo-login"} : Anonymous(w, u, c, route)
  <2>1. CASE Signup(w, u, c)
    BY <2>1 DEF Signup
  <2>2. CASE DemoLogin(w, u, c)
    BY <2>2 DEF DemoLogin
  <2> QED
    BY <2>1, <2>2
<1>2. req[w].pc = "idle" /\ UNCHANGED <<now, sessions>>
  BY <1>1 DEF Anonymous, Arrive
<1>3. PICK pc \in {"create", "read"} :
        UNCHANGED req \/ req' = [req EXCEPT ![w] = [Idle EXCEPT !.user = u, !.pc = pc]]
  BY <1>1 DEF Anonymous
<1>4. [Idle EXCEPT !.user = u, !.pc = pc] \in Request
  BY DEF Idle, Request
<1> QED
  BY <1>2, <1>3, <1>4, RequestStep, SameRequests DEF Idle

LEMMA AuthenticatedKeeps ==
  ASSUME SessionsInv, NEW w \in Workers, NEW i \in DOMAIN sessions,
         SwitchWorkspace(w, i) \/ Logout(w, i)
  PROVE  SessionsInv'
<1>1. PICK pc \in {"read", "logout"} : Authenticated(w, i, pc)
  <2>1. CASE SwitchWorkspace(w, i)
    BY <2>1 DEF SwitchWorkspace
  <2>2. CASE Logout(w, i)
    BY <2>2 DEF Logout
  <2> QED
    BY <2>1, <2>2
<1>2. req[w].pc = "idle" /\ UNCHANGED <<now, sessions>>
  BY <1>1 DEF Authenticated, Arrive
<1> DEFINE u == sessions[i].user
<1>3. \/ UNCHANGED req
      \/ req' = [req EXCEPT ![w] = [Idle EXCEPT !.pc = pc, !.user = u, !.id = i]]
  BY <1>1 DEF Authenticated
<1>4. u \in Users /\ i \in Nat
  <2>1. sessions \in Seq(Session) /\ i \in 1 .. Len(sessions)
    BY DEF SessionsInv, TypeOK
  <2>2. sessions[i] \in Session
    BY <2>1, ElementOfSeq
  <2> QED
    BY <2>1, <2>2 DEF Session
<1>5. [Idle EXCEPT !.pc = pc, !.user = u, !.id = i] \in Request
  BY <1>4 DEF Idle, Request
<1> QED
  BY <1>2, <1>3, <1>4, <1>5, RequestStep, SameRequests DEF Idle

LEMMA PasswordKeeps ==
  ASSUME SessionsInv, NEW w \in Workers, WrongPassword(w) \/ RightPassword(w) \/ CreateAccount(w)
  PROVE  SessionsInv'
<1>1. req[w] \in Request /\ RequestOK(w)
  BY DEF SessionsInv, TypeOK
<1>2. Idle \in Request /\ Idle.pc = "idle" /\ Idle.excess = {}
  BY DEF Idle, Request
<1>3. CASE WrongPassword(w)
  BY <1>1, <1>2, <1>3, RequestStep DEF WrongPassword, Ends
<1>4. CASE RightPassword(w)
  <2>1. req[w].user \in Users
    BY <1>1, <1>4 DEF RightPassword, RequestOK
  <2> DEFINE r == [Idle EXCEPT !.pc = "read", !.user = req[w].user]
  <2>2. r \in Request /\ r.pc = "read" /\ r.user \in Users /\ r.excess = {}
    BY <2>1 DEF Idle, Request
  <2>3. req' = [req EXCEPT ![w] = r] /\ req[w].pc = "verify" /\ UNCHANGED <<now, sessions>>
    BY <1>4 DEF RightPassword
  <2> QED
    BY <2>2, <2>3, RequestStep
<1>5. CASE CreateAccount(w)
  <2>1. req[w].pc = "create" /\ UNCHANGED <<now, sessions>>
    BY <1>5 DEF CreateAccount
  <2>2. CASE Ends(w)
    BY <1>2, <2>1, <2>2, RequestStep DEF Ends
  <2>3. CASE Goes(w, "read")
    <3> DEFINE r == [req[w] EXCEPT !.pc = "read"]
    <3>1. r \in Request /\ r.pc = "read" /\ r.user \in Users /\ r.excess = req[w].excess
      BY <1>1, <2>1 DEF Request, RequestOK
    <3>2. req' = [req EXCEPT ![w] = r]
      BY <2>3 DEF Goes
    <3>3. r.excess = {}
      BY <1>1, <2>1, <3>1 DEF RequestOK
    <3> QED
      BY <2>1, <3>1, <3>2, <3>3, RequestStep
  <2> QED
    BY <1>5, <2>2, <2>3 DEF CreateAccount
<1> QED
  BY <1>3, <1>4, <1>5

-----------------------------------------------------------------------------
\* Steps that only end sessions: what they leave of the rows.
LEMMA RowsKept ==
  ASSUME SessionsInv, DOMAIN sessions' = DOMAIN sessions,
         sessions' = [i \in DOMAIN sessions |-> sessions'[i]],
         \A i \in DOMAIN sessions :
           /\ sessions'[i] \in Session
           /\ sessions'[i].user = sessions[i].user
           /\ sessions'[i].expires = sessions[i].expires
           /\ sessions'[i].state = "live" => sessions[i].state = "live",
         now' \in Nat, now' >= now
  PROVE  /\ sessions' \in Seq(Session)
         /\ \A u \in Users : ActiveOf(u)' \subseteq ActiveOf(u)
<1>1. DOMAIN sessions = 1 .. Len(sessions) /\ Len(sessions) \in Nat
  BY DEF SessionsInv, TypeOK
<1>2. sessions' \in Seq(Session)
  <2>1. sessions' \in [1 .. Len(sessions) -> Session]
    BY <1>1
  <2> QED
    BY <1>1, <2>1, SeqDef
<1>3. ASSUME NEW u \in Users, NEW i \in ActiveOf(u)' PROVE i \in ActiveOf(u)
  <2>1. i \in DOMAIN sessions /\ sessions'[i].state = "live" /\ sessions'[i].expires > now'
    BY <1>3 DEF ActiveOf, Active
  <2>2. sessions[i].expires \in Nat /\ now \in Nat
    BY <2>1 DEF Session, SessionsInv, TypeOK
  <2> QED
    BY <1>3, <2>1, <2>2 DEF ActiveOf, Active
<1> QED
  BY <1>2, <1>3

LEMMA TickKeeps ==
  ASSUME SessionsInv, Tick
  PROVE  SessionsInv'
<1>1. /\ UNCHANGED <<sessions, req>> /\ now' \in Nat /\ now' >= now
      /\ \A i \in DOMAIN sessions : sessions[i] \in Session
      /\ sessions \in Seq(Session)
  BY DEF Tick, SessionsInv, TypeOK
<1>2. \A u \in Users : ActiveOf(u)' \subseteq ActiveOf(u)
  BY <1>1, RowsKept
<1>3. TypeOK' /\ NewestKept' /\ \A w \in Workers : RequestOK(w)'
  BY <1>1 DEF SessionsInv, TypeOK, RequestOK, NewestKept, Younger
<1>4. ASSUME NEW u \in Users PROVE Budget(u)'
  <2>1. Inserters(u)' = Inserters(u) /\ Revokers(u)' = Revokers(u)
    BY <1>1 DEF Inserters, Revokers
  <2> QED
    BY <1>1, <1>2, <2>1, BudgetShrinks DEF SessionsInv
<1> QED
  BY <1>3, <1>4 DEF SessionsInv

LEMMA RevokeSessionKeeps ==
  ASSUME SessionsInv, NEW w \in Workers, RevokeSession(w)
  PROVE  SessionsInv'
<1> DEFINE i == req[w].id
<1>1. /\ req[w].pc = "logout" /\ req' = [req EXCEPT ![w] = Idle] /\ now' = now
      /\ i \in DOMAIN sessions
      /\ sessions' = IF sessions[i].state = "gone" THEN sessions
                     ELSE [sessions EXCEPT ![i].state = "out"]
  BY DEF RevokeSession, Ends, SessionsInv, RequestOK
<1>2. Idle \in Request /\ Idle.pc = "idle" /\ Idle.excess = {}
  BY DEF Idle, Request
<1>3. /\ sessions \in Seq(Session) /\ now \in Nat /\ req \in [Workers -> Request]
      /\ \A j \in DOMAIN sessions : sessions[j] \in Session
  BY DEF SessionsInv, TypeOK
<1>4. /\ DOMAIN sessions' = DOMAIN sessions
      /\ sessions' = [j \in DOMAIN sessions |-> sessions'[j]]
      /\ \A j \in DOMAIN sessions :
           /\ sessions'[j] \in Session
           /\ sessions'[j].user = sessions[j].user
           /\ sessions'[j].expires = sessions[j].expires
           /\ sessions'[j].state \in {"out", sessions[j].state}
  <2>1. CASE sessions[i].state = "gone"
    BY <1>1, <1>3, <2>1
  <2>2. CASE sessions[i].state # "gone"
    <3>1. sessions' = [sessions EXCEPT ![i] = [sessions[i] EXCEPT !.state = "out"]]
      BY <1>1, <2>2
    <3>2. sessions[i] \in Session
      BY <1>1, <1>3
    <3>3. [sessions[i] EXCEPT !.state = "out"] \in Session
      BY <3>2 DEF Session
    <3> DEFINE ended == [sessions[i] EXCEPT !.state = "out"]
    <3>4. /\ ended \in Session /\ ended.user = sessions[i].user
          /\ ended.expires = sessions[i].expires /\ ended.state = "out"
      BY <3>2, <3>3 DEF Session
    <3> HIDE DEF ended
    <3>5. /\ DOMAIN sessions' = DOMAIN sessions
          /\ sessions' = [j \in DOMAIN sessions |-> sessions'[j]]
          /\ \A j \in DOMAIN sessions : sessions'[j] = IF j = i THEN ended ELSE sessions[j]
      BY <1>1, <3>1 DEF ended
    <3> QED
      BY <1>3, <3>4, <3>5
  <2> QED
    BY <2>1, <2>2
<1>5. sessions' \in Seq(Session) /\ \A u \in Users : ActiveOf(u)' \subseteq ActiveOf(u)
  <2>1. \A j \in DOMAIN sessions : sessions'[j].state = "live" => sessions[j].state = "live"
    BY <1>4
  <2> QED
    BY <1>1, <1>3, <1>4, <2>1, RowsKept
<1>6. TypeOK'
  BY <1>1, <1>2, <1>3, <1>5 DEF TypeOK
<1>7. req'[w] = Idle /\ \A v \in Workers \ {w} : req'[v] = req[v]
  BY <1>1, <1>3
<1>8. \A j \in DOMAIN sessions : Younger(j)' = Younger(j)
  BY <1>4 DEF Younger
<1>9. \A v \in Workers : RequestOK(v)'
  BY <1>2, <1>4, <1>7, <1>8 DEF SessionsInv, RequestOK
<1>10. NewestKept'
  BY <1>4, <1>8 DEF SessionsInv, NewestKept, Younger
<1>11. ASSUME NEW u \in Users PROVE Budget(u)'
  <2>1. /\ Inserters(u)' = Inserters(u) /\ Revokers(u)' = Revokers(u)
        /\ \A v \in Revokers(u)' : req'[v].excess = req[v].excess
    BY <1>1, <1>2, <1>7 DEF Inserters, Revokers
  <2> QED
    BY <1>3, <1>5, <2>1, BudgetShrinks DEF SessionsInv
<1> QED
  BY <1>6, <1>9, <1>10, <1>11 DEF SessionsInv

LEMMA InsertKeeps ==
  ASSUME SessionsInv, NEW w \in Workers, InsertSession(w)
  PROVE  SessionsInv'
<1> DEFINE u == req[w].user
           row == [user |-> u, state |-> "live", expires |-> now + SessionTtl]
           new == Len(sessions) + 1
<1>1. /\ req[w].pc = "insert" /\ req' = [req EXCEPT ![w] = Idle] /\ now' = now
      /\ sessions' = Append(sessions, row)
  BY DEF InsertSession, Ends
<1>2. Idle \in Request /\ Idle.pc = "idle" /\ Idle.excess = {}
  BY DEF Idle, Request
<1>3. /\ sessions \in Seq(Session) /\ now \in Nat /\ req \in [Workers -> Request]
      /\ u \in Users
  BY <1>1 DEF SessionsInv, TypeOK, RequestOK
<1>4. row \in Session
  BY <1>3, LoginsAssumption DEF Session
<1>5. /\ sessions' \in Seq(Session) /\ new \in Nat
      /\ DOMAIN sessions = 1 .. Len(sessions) /\ DOMAIN sessions' = 1 .. new
      /\ sessions'[new] = row /\ \A i \in DOMAIN sessions : sessions'[i] = sessions[i]
  BY <1>1, <1>3, <1>4
<1> HIDE DEF new, row
<1>6. TypeOK /\ TypeOK'
  BY <1>1, <1>2, <1>3, <1>5 DEF TypeOK, SessionsInv
<1>7. req'[w] = Idle /\ \A v \in Workers \ {w} : req'[v] = req[v]
  BY <1>1, <1>3
<1>8. /\ DOMAIN sessions \subseteq DOMAIN sessions'
      /\ \A i \in DOMAIN sessions' : i \in DOMAIN sessions \/ i = new
  BY <1>5 DEF new
<1>9. \A i \in DOMAIN sessions :
        Cardinality(Younger(i)) >= MaxActive => Cardinality(Younger(i)') >= MaxActive
  BY <1>5, <1>6, <1>8, YoungerGrow
<1>10. \A v \in Workers : RequestOK(v)'
  BY <1>2, <1>7, <1>8, <1>9 DEF SessionsInv, RequestOK
<1>11. NewestKept'
  <2>1. ASSUME NEW i \in DOMAIN sessions', sessions'[i].state = "revoked"
        PROVE  i \in DOMAIN sessions /\ sessions[i].state = "revoked"
    BY <1>5, <1>8, <2>1 DEF row
  <2> QED
    BY <1>9, <2>1 DEF SessionsInv, NewestKept, Younger
<1>12. ASSUME NEW v \in Users PROVE Budget(v)'
  <2>1. /\ Revokers(v)' = Revokers(v)
        /\ \A q \in Revokers(v)' : req'[q].excess = req[q].excess
    BY <1>1, <1>2, <1>7 DEF Revokers
  <2>2. CASE v # u
    <3>1. ActiveOf(v)' \subseteq ActiveOf(v)
      BY <1>1, <1>5, <1>8, <2>2 DEF ActiveOf, Active, row
    <3>2. Inserters(v)' = Inserters(v)
      BY <1>1, <1>2, <1>7, <2>2 DEF Inserters
    <3> QED
      BY <1>6, <2>1, <3>1, <3>2, BudgetShrinks DEF SessionsInv
  <2>3. CASE v = u
    <3> SUFFICES ASSUME NEW R \in SUBSET Revokers(v)'
                 PROVE  Cardinality(ActiveOf(v)' \ Doomed(R)') + Cardinality(Inserters(v)')
                          + Cardinality(R) <= MaxActive + Cardinality(Workers)
      BY DEF Budget
    <3> DEFINE A == ActiveOf(v) \ Doomed(R)
    <3>1. R \in SUBSET Revokers(v) /\ Doomed(R)' = Doomed(R)
      BY <2>1 DEF Doomed
    <3>2. ActiveOf(v)' \ Doomed(R)' \subseteq A \cup {new}
      BY <1>1, <1>5, <1>8, <3>1 DEF ActiveOf, Active
    <3>3. IsFiniteSet(A) /\ Cardinality(A) \in Nat
      BY <1>6, Countable, FS_Difference, FS_CardinalityType
    <3> HIDE DEF A
    <3>4. /\ Cardinality(ActiveOf(v)' \ Doomed(R)') <= Cardinality(A) + 1
          /\ Cardinality(ActiveOf(v)' \ Doomed(R)') \in Nat
      <4>1. IsFiniteSet(A \cup {new}) /\ Cardinality(A \cup {new}) <= Cardinality(A) + 1
        <5>1. Cardinality(A \cup {new})
                = IF new \in A THEN Cardinality(A) ELSE Cardinality(A) + 1
          BY <3>3, FS_AddElement
        <5> QED
          BY <3>3, <5>1, FS_AddElement
      <4>2. IsFiniteSet(ActiveOf(v)' \ Doomed(R)')
        BY <3>2, <4>1, FS_Subset
      <4> QED
        BY <3>2, <3>3, <4>1, <4>2, FS_Subset, FS_CardinalityType
    <3>5. Inserters(v)' = Inserters(v) \ {w} /\ w \in Inserters(v)
      BY <1>1, <1>2, <1>7, <2>3 DEF Inserters
    <3>6. Cardinality(Inserters(v)') = Cardinality(Inserters(v)) - 1
      BY <1>6, <3>5, Countable, FS_RemoveElement
    <3>7. Cardinality(A) + Cardinality(Inserters(v)) + Cardinality(R)
            <= MaxActive + Cardinality(Workers)
      BY <3>1 DEF SessionsInv, Budget, A
    <3>8. Cardinality(Inserters(v)) \in Nat /\ Cardinality(R) \in Nat
      BY <1>6, <3>1, Countable
    <3> QED
      BY <1>6, <3>3, <3>4, <3>6, <3>7, <3>8, Countable, LoginsAssumption
  <2> QED
    BY <2>2, <2>3
<1> QED
  BY <1>6, <1>10, <1>11, <1>12 DEF SessionsInv

\* Ending some sessions by an update of their rows, as both the purge and the
\* revocation of the excess do.
LEMMA RowsEnd ==
  ASSUME SessionsInv, NEW ended, NEW state \in {"gone", "revoked"}, now' = now,
         sessions' = [i \in DOMAIN sessions |->
           IF i \in ended THEN [sessions[i] EXCEPT !.state = state] ELSE sessions[i]]
  PROVE  /\ sessions' \in Seq(Session) /\ DOMAIN sessions' = DOMAIN sessions
         /\ \A u \in Users : ActiveOf(u)' \subseteq ActiveOf(u)
         /\ \A i \in DOMAIN sessions : Younger(i)' = Younger(i)
<1>1. /\ now \in Nat /\ \A i \in DOMAIN sessions : sessions[i] \in Session
  BY DEF SessionsInv, TypeOK
<1>2. ASSUME NEW i \in DOMAIN sessions
      PROVE  /\ sessions'[i] \in Session /\ sessions'[i].user = sessions[i].user
             /\ sessions'[i].expires = sessions[i].expires
             /\ sessions'[i].state = "live" => sessions[i].state = "live"
  <2>1. CASE i \in ended
    <3> DEFINE row == [sessions[i] EXCEPT !.state = state]
    <3>1. /\ row \in Session /\ row.user = sessions[i].user
          /\ row.expires = sessions[i].expires /\ row.state # "live"
      BY <1>1 DEF Session
    <3> HIDE DEF row
    <3>2. sessions'[i] = row
      BY <2>1 DEF row
    <3> QED
      BY <3>1, <3>2
  <2>2. CASE i \notin ended
    BY <1>1, <2>2
  <2> QED
    BY <2>1, <2>2
<1>3. /\ DOMAIN sessions' = DOMAIN sessions
      /\ sessions' = [i \in DOMAIN sessions |-> sessions'[i]]
  OBVIOUS
<1>4. sessions' \in Seq(Session) /\ \A u \in Users : ActiveOf(u)' \subseteq ActiveOf(u)
  BY <1>1, <1>2, <1>3, RowsKept
<1> QED
  BY <1>2, <1>3, <1>4 DEF Younger

LEMMA ReadKeeps ==
  ASSUME SessionsInv, NEW w \in Workers, ReadActive(w)
  PROVE  SessionsInv'
<1> DEFINE u == req[w].user
           excess == Excess(ActiveOf(u))
           pc == IF excess = {} THEN "insert" ELSE "revoke"
           r == [req[w] EXCEPT !.excess = excess, !.pc = pc]
           expired == {i \in DOMAIN sessions : sessions[i].user = u /\ sessions[i].expires < now}
<1>1. /\ req[w].pc = "read" /\ now' = now /\ req' = [req EXCEPT ![w] = r]
      /\ sessions' = [i \in DOMAIN sessions |->
           IF i \in expired THEN [sessions[i] EXCEPT !.state = "gone"] ELSE sessions[i]]
  BY DEF ReadActive
<1>2. TypeOK /\ req[w] \in Request /\ u \in Users /\ now \in Nat
  BY <1>1 DEF SessionsInv, TypeOK, RequestOK
<1>3. excess \subseteq ActiveOf(u) /\ ActiveOf(u) \in SUBSET Nat /\ IsFiniteSet(ActiveOf(u))
  BY <1>2, Countable DEF Excess
<1>4. r \in Request /\ r.pc = pc /\ r.excess = excess /\ r.user = u
  BY <1>2, <1>3 DEF Request
<1>5. /\ sessions' \in Seq(Session) /\ DOMAIN sessions' = DOMAIN sessions
      /\ \A v \in Users : ActiveOf(v)' \subseteq ActiveOf(v)
      /\ \A i \in DOMAIN sessions : Younger(i)' = Younger(i)
  BY <1>1, RowsEnd
<1> HIDE DEF r
<1>6. TypeOK'
  BY <1>1, <1>2, <1>4, <1>5 DEF TypeOK
<1>7. req'[w] = r /\ \A v \in Workers \ {w} : req'[v] = req[v]
  BY <1>1, <1>2 DEF TypeOK
<1>8. \A v \in Workers : RequestOK(v)'
  <2>1. ASSUME NEW i \in excess
        PROVE  i \in DOMAIN sessions /\ Cardinality(Younger(i)) >= MaxActive
    <3>1. i \in DOMAIN sessions /\ sessions[i].user = u
      BY <1>3 DEF ActiveOf
    <3>2. Cardinality({j \in ActiveOf(u) : j > i}) >= MaxActive
      BY DEF Excess
    <3>3. {j \in ActiveOf(u) : j > i} \subseteq Younger(i)
      BY <3>1 DEF ActiveOf, Younger
    <3>4. IsFiniteSet(Younger(i)) /\ Cardinality(Younger(i)) \in Nat
      BY <1>2, <3>1, Countable
    <3>5. /\ Cardinality({j \in ActiveOf(u) : j > i}) <= Cardinality(Younger(i))
          /\ Cardinality({j \in ActiveOf(u) : j > i}) \in Nat
      BY <3>3, <3>4, FS_Subset, FS_CardinalityType
    <3> QED
      BY <3>1, <3>2, <3>4, <3>5, LoginsAssumption
  <2>2. RequestOK(w)'
    BY <1>2, <1>4, <1>5, <1>7, <2>1 DEF RequestOK
  <2>3. \A v \in Workers \ {w} : RequestOK(v)'
    BY <1>5, <1>7 DEF SessionsInv, RequestOK
  <2> QED
    BY <2>2, <2>3
<1>9. NewestKept'
  <2>1. \A i \in DOMAIN sessions : sessions'[i].state = "revoked" => sessions[i].state = "revoked"
    BY <1>1, <1>2 DEF TypeOK, Session
  <2> QED
    BY <1>5, <2>1 DEF SessionsInv, NewestKept, Younger
<1>10. ASSUME NEW v \in Users PROVE Budget(v)'
  <2>1. CASE v # u
    <3>1. /\ Inserters(v)' = Inserters(v) /\ Revokers(v)' = Revokers(v)
          /\ \A q \in Revokers(v)' : req'[q].excess = req[q].excess
      BY <1>1, <1>4, <1>7, <2>1 DEF Inserters, Revokers
    <3> QED
      BY <1>2, <1>5, <3>1, BudgetShrinks DEF SessionsInv
  <2>2. CASE v = u
    <3> SUFFICES ASSUME NEW R \in SUBSET Revokers(v)'
                 PROVE  Cardinality(ActiveOf(v)' \ Doomed(R)') + Cardinality(Inserters(v)')
                          + Cardinality(R) <= MaxActive + Cardinality(Workers)
      BY DEF Budget
    <3> DEFINE left == ActiveOf(v) \ excess
    <3>1. IsFiniteSet(left) /\ Cardinality(left) <= MaxActive /\ Cardinality(left) \in Nat
      BY <1>3, <2>2, ExcessLeaves, FS_Subset, FS_CardinalityType
    <3>2. R \in SUBSET Workers /\ Inserters(v)' \in SUBSET Workers /\ R \cap Inserters(v)' = {}
      BY DEF Inserters, Revokers
    <3>3. Cardinality(Inserters(v)') + Cardinality(R) <= Cardinality(Workers)
      BY <1>2, <3>2, InsertersOrRevokers
    <3>4. /\ Cardinality(R) \in Nat /\ Cardinality(Inserters(v)') \in Nat
          /\ Cardinality(Workers) \in Nat
      BY <3>2, FS_Subset, FS_CardinalityType, LoginsAssumption
    <3>5. CASE excess = {} \/ w \in R
      <4>1. ActiveOf(v)' \ Doomed(R)' \subseteq left
        BY <1>4, <1>5, <1>7, <2>2, <3>5 DEF Doomed
      <4>2. /\ Cardinality(ActiveOf(v)' \ Doomed(R)') <= Cardinality(left)
            /\ Cardinality(ActiveOf(v)' \ Doomed(R)') \in Nat
        BY <3>1, <4>1, FS_Subset, FS_CardinalityType
      <4> QED
        BY <3>1, <3>3, <3>4, <4>2, LoginsAssumption
    <3>6. CASE excess # {} /\ w \notin R
      <4>1. R \in SUBSET Revokers(v) /\ \A q \in R : req'[q].excess = req[q].excess
        BY <1>7, <3>6 DEF Revokers
      <4>2. Inserters(v)' = Inserters(v) /\ Doomed(R)' = Doomed(R)
        BY <1>1, <1>4, <1>7, <3>6, <4>1 DEF Inserters, Doomed
      <4>3. ActiveOf(v)' \ Doomed(R)' \subseteq ActiveOf(v) \ Doomed(R)
        BY <1>5, <4>2
      <4>4. IsFiniteSet(ActiveOf(v) \ Doomed(R))
        BY <1>2, Countable, FS_Difference
      <4>5. /\ Cardinality(ActiveOf(v)' \ Doomed(R)') <= Cardinality(ActiveOf(v) \ Doomed(R))
            /\ Cardinality(ActiveOf(v)' \ Doomed(R)') \in Nat
            /\ Cardinality(ActiveOf(v) \ Doomed(R)) \in Nat
        BY <4>3, <4>4, FS_Subset, FS_CardinalityType
      <4>6. Cardinality(ActiveOf(v) \ Doomed(R)) + Cardinality(Inserters(v)) + Cardinality(R)
              <= MaxActive + Cardinality(Workers)
        BY <4>1 DEF SessionsInv, Budget
      <4> QED
        BY <3>4, <4>2, <4>5, <4>6, LoginsAssumption
    <3> QED
      BY <3>5, <3>6
  <2> QED
    BY <2>1, <2>2
<1> QED
  BY <1>6, <1>8, <1>9, <1>10 DEF SessionsInv

LEMMA RevokeExcessKeeps ==
  ASSUME SessionsInv, NEW w \in Workers, RevokeExcess(w)
  PROVE  SessionsInv'
<1> DEFINE r == [req[w] EXCEPT !.pc = "insert", !.excess = {}]
           ended == {i \in req[w].excess : sessions[i].state # "gone"}
<1>1. /\ req[w].pc = "revoke" /\ now' = now /\ req' = [req EXCEPT ![w] = r]
      /\ sessions' = [i \in DOMAIN sessions |->
           IF i \in ended THEN [sessions[i] EXCEPT !.state = "revoked"] ELSE sessions[i]]
  BY DEF RevokeExcess
<1>2. /\ TypeOK /\ req[w] \in Request /\ req[w].user \in Users /\ now \in Nat
      /\ RequestOK(w)
  BY <1>1 DEF SessionsInv, TypeOK, RequestOK
<1>3. r \in Request /\ r.pc = "insert" /\ r.excess = {} /\ r.user = req[w].user
  BY <1>2 DEF Request
<1>4. /\ sessions' \in Seq(Session) /\ DOMAIN sessions' = DOMAIN sessions
      /\ \A v \in Users : ActiveOf(v)' \subseteq ActiveOf(v)
      /\ \A i \in DOMAIN sessions : Younger(i)' = Younger(i)
  BY <1>1, RowsEnd
<1>5. \A v \in Users : ActiveOf(v)' \cap req[w].excess = {}
  <2> SUFFICES ASSUME NEW v \in Users, NEW i \in ActiveOf(v)', i \in req[w].excess
               PROVE  FALSE
    OBVIOUS
  <2>1. i \in DOMAIN sessions /\ sessions'[i].state = "live"
    BY <1>4 DEF ActiveOf, Active
  <2>2. sessions[i] \in Session
    BY <1>2, <2>1 DEF TypeOK
  <2>3. CASE sessions[i].state = "gone"
    BY <1>1, <2>1, <2>3
  <2>4. CASE sessions[i].state # "gone"
    <3>1. sessions'[i] = [sessions[i] EXCEPT !.state = "revoked"]
      BY <1>1, <2>1, <2>4
    <3> QED
      BY <2>1, <2>2, <3>1 DEF Session
  <2> QED
    BY <2>3, <2>4
<1> HIDE DEF r
<1>6. TypeOK'
  BY <1>1, <1>2, <1>3, <1>4 DEF TypeOK
<1>7. req'[w] = r /\ \A v \in Workers \ {w} : req'[v] = req[v]
  BY <1>1, <1>2 DEF TypeOK
<1>8. \A v \in Workers : RequestOK(v)'
  BY <1>2, <1>3, <1>4, <1>7 DEF SessionsInv, RequestOK
<1>9. NewestKept'
  <2> SUFFICES ASSUME NEW i \in DOMAIN sessions, sessions'[i].state = "revoked"
               PROVE  Cardinality(Younger(i)) >= MaxActive
    BY <1>4 DEF NewestKept, Younger
  <2>1. CASE i \in req[w].excess
    BY <1>2, <2>1 DEF RequestOK
  <2>2. CASE i \notin req[w].excess
    BY <1>1, <2>2 DEF SessionsInv, NewestKept, Younger
  <2> QED
    BY <2>1, <2>2
<1>10. ASSUME NEW v \in Users PROVE Budget(v)'
  <2>1. /\ Revokers(v)' = Revokers(v) \ {w} /\ w \notin Revokers(v)'
        /\ \A q \in Revokers(v)' : req'[q].excess = req[q].excess
    BY <1>3, <1>7 DEF Revokers
  <2>2. CASE v # req[w].user
    <3>1. Inserters(v)' = Inserters(v)
      BY <1>1, <1>3, <1>7, <2>2 DEF Inserters
    <3> QED
      BY <1>2, <1>4, <2>1, <3>1, BudgetShrinks DEF SessionsInv
  <2>3. CASE v = req[w].user
    <3> SUFFICES ASSUME NEW R \in SUBSET Revokers(v)'
                 PROVE  Cardinality(ActiveOf(v)' \ Doomed(R)') + Cardinality(Inserters(v)')
                          + Cardinality(R) <= MaxActive + Cardinality(Workers)
      BY DEF Budget
    <3> DEFINE Q == R \cup {w}
    <3>1. Q \in SUBSET Revokers(v) /\ w \notin R
      BY <1>1, <2>1, <2>3 DEF Revokers
    <3>2. Doomed(Q) = Doomed(R) \cup req[w].excess /\ Doomed(R)' = Doomed(R)
      BY <2>1 DEF Doomed
    <3>3. ActiveOf(v)' \ Doomed(R)' \subseteq ActiveOf(v) \ Doomed(Q)
      BY <1>4, <1>5, <3>2
    <3>4. IsFiniteSet(ActiveOf(v) \ Doomed(Q))
      BY <1>2, Countable, FS_Difference
    <3>5. /\ Cardinality(ActiveOf(v)' \ Doomed(R)') <= Cardinality(ActiveOf(v) \ Doomed(Q))
          /\ Cardinality(ActiveOf(v)' \ Doomed(R)') \in Nat
          /\ Cardinality(ActiveOf(v) \ Doomed(Q)) \in Nat
      BY <3>3, <3>4, FS_Subset, FS_CardinalityType
    <3>6. Inserters(v)' = Inserters(v) \cup {w} /\ w \notin Inserters(v)
      BY <1>1, <1>3, <1>7, <2>3 DEF Inserters
    <3>7. /\ IsFiniteSet(Inserters(v)) /\ Cardinality(Inserters(v)) \in Nat
          /\ IsFiniteSet(R) /\ Cardinality(R) \in Nat
      BY <1>2, <2>1, Countable
    <3>8. /\ Cardinality(Inserters(v)') = Cardinality(Inserters(v)) + 1
          /\ Cardinality(Q) = Cardinality(R) + 1
      BY <3>1, <3>6, <3>7, FS_AddElement
    <3>9. Cardinality(ActiveOf(v) \ Doomed(Q)) + Cardinality(Inserters(v)) + Cardinality(Q)
            <= MaxActive + Cardinality(Workers)
      BY <3>1 DEF SessionsInv, Budget
    <3>10. Cardinality(Workers) \in Nat
      BY <1>2, Countable
    <3> HIDE DEF Q
    <3> QED
      BY <3>5, <3>7, <3>8, <3>9, <3>10, LoginsAssumption
  <2> QED
    BY <2>2, <2>3
<1> QED
  BY <1>6, <1>8, <1>9, <1>10 DEF SessionsInv

LEMMA StepKeeps == SessionsInv /\ [Next]_vars => SessionsInv'
<1> SUFFICES ASSUME SessionsInv, [Next]_vars PROVE SessionsInv'
  OBVIOUS
<1>1. CASE Tick
  BY <1>1, TickKeeps
<1>2. ASSUME NEW w \in Workers, NEW u \in Users, NEW c \in Clients,
             Login(w, u, c) \/ Signup(w, u, c) \/ DemoLogin(w, u, c)
      PROVE  SessionsInv'
  BY <1>2, LoginKeeps, AnonymousKeeps
<1>3. ASSUME NEW w \in Workers, NEW i \in DOMAIN sessions,
             SwitchWorkspace(w, i) \/ Logout(w, i)
      PROVE  SessionsInv'
  BY <1>3, AuthenticatedKeeps
<1>4. ASSUME NEW w \in Workers, WrongPassword(w) \/ RightPassword(w) \/ CreateAccount(w)
      PROVE  SessionsInv'
  BY <1>4, PasswordKeeps
<1>5. ASSUME NEW w \in Workers,
             ReadActive(w) \/ RevokeExcess(w) \/ InsertSession(w) \/ RevokeSession(w)
      PROVE  SessionsInv'
  BY <1>5, ReadKeeps, RevokeExcessKeeps, InsertKeeps, RevokeSessionKeeps
<1>6. CASE UNCHANGED vars
  BY <1>6, SameRequests DEF vars
<1> QED
  BY <1>1, <1>2, <1>3, <1>4, <1>5, <1>6 DEF Next

\* issueSession in any number of concurrent requests: what is active, about to
\* be revoked and about to be inserted stays within the limit.
THEOREM SessionsInvariant == Spec => []SessionsInv
BY InitInvariant, StepKeeps, PTL DEF Spec

\* Nobody keeps more active sessions than MAX_ACTIVE_SESSIONS_PER_USER and one for
\* each request the server handles at once, however logins, demo logins, switches,
\* logouts and expiry overlap.
THEOREM SessionsAreBounded == Spec => []SessionsBounded
<1>1. SessionsInv => SessionsBounded
  <2> SUFFICES ASSUME SessionsInv, NEW u \in Users
               PROVE  Cardinality(ActiveOf(u)) <= MaxActive + Cardinality(Workers)
    BY DEF SessionsBounded
  <2>1. {} \in SUBSET Revokers(u) /\ ActiveOf(u) \ Doomed({}) = ActiveOf(u)
    BY DEF Doomed
  <2>2. Cardinality(ActiveOf(u) \ Doomed({})) + Cardinality(Inserters(u)) + Cardinality({})
          <= MaxActive + Cardinality(Workers)
    BY <2>1 DEF SessionsInv, Budget
  <2>3. /\ Cardinality(ActiveOf(u)) \in Nat /\ Cardinality(Inserters(u)) \in Nat
        /\ Cardinality(Workers) \in Nat
    BY Countable, FS_CardinalityType DEF SessionsInv
  <2> QED
    BY SMTT(30), <2>1, <2>2, <2>3, FS_EmptySet, LoginsAssumption
<1> QED
  BY <1>1, SessionsInvariant, PTL

\* A session is ended by hygiene only after MaxActive younger ones of its user.
THEOREM NewestAreKept == Spec => []NewestKept
<1>1. SessionsInv => NewestKept
  BY DEF SessionsInv
<1> QED
  BY <1>1, SessionsInvariant, PTL

-----------------------------------------------------------------------------
(* Times of what happened, in order.                                         *)

Ordered(times) ==
  times \in Seq(Nat) /\ \A i, j \in 1 .. Len(times) : i <= j => times[i] <= times[j]

\* m is what is left of times when its first d have been dropped.
Leaves(times, d, m) ==
  /\ d \in 0 .. Len(times) /\ m \in Seq(Nat)
  /\ Len(m) = Len(times) - d
  /\ \A i \in 1 .. Len(m) : m[i] = times[i + d]

\* The first d of times are those that are no later than the cutoff.
Splits(times, d, cutoff) ==
  /\ d \in 0 .. Len(times)
  /\ \A i \in 1 .. Len(times) : i <= d <=> times[i] <= cutoff

LEMMA SplitAt ==
  ASSUME NEW times, Ordered(times), NEW cutoff \in Int
  PROVE  Splits(times, Cardinality({i \in DOMAIN times : times[i] <= cutoff}), cutoff)
<1> DEFINE S == {i \in DOMAIN times : times[i] <= cutoff}
           d == Cardinality(S)
           n == Len(times)
<1>1. n \in Nat /\ DOMAIN times = 1 .. n /\ \A i \in 1 .. n : times[i] \in Nat
  BY DEF Ordered
<1>2. \A k \in 0 .. n : IsFiniteSet(1 .. k) /\ Cardinality(1 .. k) = k
  BY FS_Interval, <1>1
<1>3. S \subseteq 1 .. n /\ IsFiniteSet(S) /\ d \in Nat /\ d <= n
  BY <1>1, <1>2, FS_Subset, FS_CardinalityType
<1>4. ASSUME NEW i \in 1 .. n, times[i] <= cutoff
      PROVE  i <= d
  <2>1. 1 .. i \subseteq S
    BY <1>1, <1>4 DEF Ordered
  <2>2. i \in 0 .. n
    BY <1>1
  <2> QED
    BY <1>2, <1>3, <2>1, <2>2, FS_Subset
<1>5. ASSUME NEW i \in 1 .. n, ~(times[i] <= cutoff)
      PROVE  ~(i <= d)
  <2>1. S \subseteq 1 .. (i - 1)
    BY <1>1, <1>5 DEF Ordered
  <2>2. i - 1 \in 0 .. n
    BY <1>1
  <2>3. d <= i - 1
    BY <1>2, <2>1, <2>2, FS_Subset
  <2> QED
    BY <1>1, <1>3, <2>3
<1> QED
  BY <1>1, <1>3, <1>4, <1>5 DEF Splits

\* Recent keeps the end of an ordered list that is later than the cutoff.
LEMMA RecentIs ==
  ASSUME NEW times, Ordered(times), NEW window \in Nat, NEW at \in Nat
  PROVE  /\ Ordered(Recent(times, window, at))
         /\ \E d \in Nat : /\ Splits(times, d, at - window)
                           /\ Leaves(times, d, Recent(times, window, at))
<1> DEFINE d == Cardinality({i \in DOMAIN times : times[i] <= at - window})
           m == SubSeq(times, d + 1, Len(times))
<1>1. Splits(times, d, at - window)
  BY SplitAt
<1>2. m = Recent(times, window, at)
  BY DEF Recent
<1> HIDE DEF d
<1>3. d \in 0 .. Len(times) /\ times \in Seq(Nat) /\ Len(times) \in Nat
  BY <1>1 DEF Splits, Ordered
<1>4. m \in Seq(Nat) /\ Len(m) = Len(times) - d /\ \A i \in 1 .. Len(m) : m[i] = times[i + d]
  <2>1. /\ d + 1 \in Int /\ Len(times) \in Int
        /\ \A i \in d + 1 .. Len(times) : times[i] \in Nat
    BY <1>3
  <2>2. /\ m \in Seq(Nat)
        /\ Len(m) = IF d + 1 <= Len(times) THEN Len(times) - (d + 1) + 1 ELSE 0
        /\ \A i \in 1 .. Len(times) - (d + 1) + 1 : m[i] = times[d + 1 + i - 1]
    BY <2>1, SubSeqProperties
  <2>3. Len(m) = Len(times) - d
    BY <1>3, <2>2
  <2>4. \A i \in 1 .. Len(m) : m[i] = times[i + d]
    <3> SUFFICES ASSUME NEW i \in 1 .. Len(m) PROVE m[i] = times[i + d]
      OBVIOUS
    <3>1. i \in 1 .. Len(times) - (d + 1) + 1 /\ d + 1 + i - 1 = i + d
      BY <1>3, <2>3
    <3> QED
      BY <2>2, <3>1
  <2> QED
    BY <2>2, <2>3, <2>4
<1> HIDE DEF m
<1>5. Leaves(times, d, m)
  BY <1>3, <1>4 DEF Leaves
<1>6. Ordered(m)
  <2> SUFFICES ASSUME NEW i \in 1 .. Len(m), NEW j \in 1 .. Len(m), i <= j
               PROVE  m[i] <= m[j]
    BY <1>4 DEF Ordered
  <2>1. i + d \in 1 .. Len(times) /\ j + d \in 1 .. Len(times) /\ i + d <= j + d
    BY <1>3, <1>4
  <2>2. times[i + d] <= times[j + d]
    BY <2>1 DEF Ordered
  <2> QED
    BY <1>4, <2>2
<1> QED
  BY <1>1, <1>2, <1>3, <1>5, <1>6

LEMMA AppendIs ==
  ASSUME NEW times, Ordered(times), NEW at \in Nat, \A i \in 1 .. Len(times) : times[i] <= at
  PROVE  /\ Ordered(Append(times, at))
         /\ Len(Append(times, at)) = Len(times) + 1
         /\ \A i \in 1 .. Len(times) : Append(times, at)[i] = times[i]
         /\ Append(times, at)[Len(times) + 1] = at
         /\ \A i \in 1 .. Len(times) + 1 : Append(times, at)[i] <= at
<1>1. times \in Seq(Nat) /\ Len(times) \in Nat
  BY DEF Ordered
<1> DEFINE m == Append(times, at)
<1>2. /\ m \in Seq(Nat) /\ Len(m) = Len(times) + 1
      /\ \A i \in 1 .. Len(times) : m[i] = times[i]
      /\ m[Len(times) + 1] = at
  BY <1>1
<1> HIDE DEF m
<1>3. \A i \in 1 .. Len(times) + 1 : i \in 1 .. Len(times) \/ i = Len(times) + 1
  BY <1>1
<1>4. \A i \in 1 .. Len(times) + 1 : m[i] <= at
  BY <1>1, <1>2, <1>3
<1>5. Ordered(m)
  <2> SUFFICES ASSUME NEW i \in 1 .. Len(m), NEW j \in 1 .. Len(m), i <= j
               PROVE  m[i] <= m[j]
    BY <1>2 DEF Ordered
  <2>1. CASE j = Len(times) + 1
    BY <1>2, <1>4, <2>1
  <2>2. CASE j \in 1 .. Len(times)
    <3>1. i \in 1 .. Len(times)
      BY <1>1, <2>2
    <3> QED
      BY <1>2, <2>2, <3>1 DEF Ordered
  <2> QED
    BY <1>2, <1>3, <2>1, <2>2
<1> QED
  BY <1>2, <1>4, <1>5 DEF m

-----------------------------------------------------------------------------
(* The rate limiter.  BurstBounded is not inductive: how often a source may   *)
(* still get through depends on its bucket.  Of the times that count against   *)
(* it, those up to the start of the running window are at most MaxWrites - 1,  *)
(* for the first call of the window before is out of the span by then, and the *)
(* bucket counts the others and the one that opened it.                        *)

Keys == (Routes \X Clients) \cup Users
Tier(k) == IF k \in Users THEN "user" ELSE "auth"
Bucket == [count : Nat, resetAt : Nat]
Opened(bucket) == bucket.resetAt - RateWindow
Running(k) == Current(limiter[Tier(k)].buckets, k, now)
BucketOf(k) == limiter[Tier(k)].buckets[k]

BucketOK(bucket, at) ==
  /\ bucket \in Bucket
  /\ bucket.count \in 1 .. MaxWrites
  /\ bucket.resetAt <= at + RateWindow

LimiterOK ==
  /\ now \in Nat
  /\ DOMAIN limiter = {"auth", "user"}
  /\ \A tier \in {"auth", "user"} :
       \A k \in DOMAIN limiter[tier].buckets :
         Tier(k) = tier /\ BucketOK(limiter[tier].buckets[k], now)

Fits(times, bucket) ==
  \E n \in 0 .. MaxWrites - 1 :
    /\ n <= Len(times)
    /\ \A i \in 1 .. n : times[i] <= Opened(bucket)
    /\ Len(times) <= n + bucket.count
    /\ Len(times) = n + bucket.count => times[n + 1] <= Opened(bucket)

Quiet(times, at) ==
  Len(times) <= MaxWrites - 1 /\ \A i \in 1 .. Len(times) : times[i] < at

Past(times, at) == Ordered(times) /\ \A i \in 1 .. Len(times) : times[i] <= at

AdmittedOK(k) ==
  /\ Past(admitted[k], now)
  /\ Running(k) => Fits(admitted[k], BucketOf(k))
  /\ ~Running(k) => Quiet(admitted[k], now)

\* The inductive invariant.
BurstInv ==
  /\ LimiterOK
  /\ DOMAIN admitted = Keys
  /\ \A k \in Keys : AdmittedOK(k)

\* The server takes nobody for somebody else.
EachAsHimself == \A c \in Clients : Seen[c] \subseteq {c}

\* One call changes one bucket, and may drop others.
Counts(old, key, at, new) ==
  /\ key \in DOMAIN new
  /\ ~Current(old, key, at) => new[key] = [count |-> 1, resetAt |-> at + RateWindow]
  /\ Current(old, key, at) /\ Allowed(old, key, at) =>
       new[key] = [old[key] EXCEPT !.count = @ + 1]
  /\ Current(old, key, at) /\ ~Allowed(old, key, at) => new[key] = old[key]
  /\ \A k \in DOMAIN new \ {key} : k \in DOMAIN old /\ new[k] = old[k]

LEMMA CountedIs ==
  ASSUME NEW buckets, NEW key, NEW at, NEW b \in Counted(buckets, key, at)
  PROVE  Counts(buckets, key, at, b)
<1> DEFINE fresh == [count |-> 1, resetAt |-> at + RateWindow]
<1>1. ASSUME NEW room, b = With(room, key, fresh), ~Current(buckets, key, at),
             \A k \in DOMAIN room : k \in DOMAIN buckets /\ room[k] = buckets[k]
      PROVE  /\ key \in DOMAIN b /\ b[key] = fresh
             /\ \A k \in DOMAIN b \ {key} : k \in DOMAIN buckets /\ b[k] = buckets[k]
  BY <1>1 DEF With
<1>2. CASE ~Current(buckets, key, at)
  <2>1. CASE key \in DOMAIN buckets
    <3>1. b = With(buckets, key, fresh)
      BY <1>2, <2>1 DEF Counted
    <3> QED
      BY <1>1, <1>2, <3>1 DEF Counts
  <2>2. CASE key \notin DOMAIN buckets
    <3>1. PICK room \in BucketRoom(buckets, at) : b = With(room, key, fresh)
      BY <1>2, <2>2 DEF Counted
    <3>2. \A k \in DOMAIN room : k \in DOMAIN buckets /\ room[k] = buckets[k]
      BY DEF BucketRoom, SweepBuckets, Without, EndsFirst
    <3> QED
      BY <1>1, <1>2, <3>1, <3>2 DEF Counts
  <2> QED
    BY <2>1, <2>2
<1>3. CASE Current(buckets, key, at) /\ Allowed(buckets, key, at)
  <2>1. b = [buckets EXCEPT ![key].count = @ + 1]
    BY <1>3 DEF Counted
  <2> QED
    BY <1>3, <2>1 DEF Current, Counts
<1>4. CASE Current(buckets, key, at) /\ ~Allowed(buckets, key, at)
  <2>1. b = buckets
    BY <1>4 DEF Counted
  <2> QED
    BY <1>4, <2>1 DEF Current, Counts
<1> QED
  BY <1>2, <1>3, <1>4

LEMMA ConsumeIs ==
  ASSUME NEW lim, NEW key, NEW at \in Nat, NEW l \in Consume(lim, key, at),
         \A k \in DOMAIN lim.buckets : lim.buckets[k] \in Bucket
  PROVE  Counts(lim.buckets, key, at, l.buckets)
<1>1. PICK b \in Counted(lim.buckets, key, at) :
        l.buckets = b \/ l.buckets = SweepBuckets(b, at)
  BY DEF Consume
<1>2. Counts(lim.buckets, key, at, b)
  BY CountedIs
<1>3. ~(b[key].resetAt <= at)
  <2>1. CASE ~Current(lim.buckets, key, at)
    BY <1>2, <2>1, RateLimiterAssumption DEF Counts
  <2>2. CASE Current(lim.buckets, key, at)
    <3>1. lim.buckets[key] \in Bucket /\ lim.buckets[key].resetAt > at
      BY <2>2 DEF Current
    <3>2. b[key].resetAt = lim.buckets[key].resetAt
      BY <1>2, <2>2, <3>1 DEF Bucket, Counts
    <3> QED
      BY <3>1, <3>2 DEF Bucket
  <2> QED
    BY <2>1, <2>2
<1>4. CASE l.buckets = b
  BY <1>2, <1>4
<1>5. CASE l.buckets = SweepBuckets(b, at)
  <2>1. /\ key \in DOMAIN l.buckets /\ DOMAIN l.buckets \subseteq DOMAIN b
        /\ \A k \in DOMAIN l.buckets : l.buckets[k] = b[k]
    BY <1>2, <1>3, <1>5 DEF SweepBuckets, Without, Elapsed, Counts
  <2> QED
    BY <1>2, <2>1 DEF Counts
<1> QED
  BY <1>1, <1>4, <1>5

\* What has just passed fits the bucket it is counted in.
LEMMA PassFits ==
  ASSUME NEW times, NEW at \in Nat, Past(times, at)
  PROVE  /\ Past(Append(times, at), at)
         /\ Quiet(times, at) =>
              Fits(Append(times, at), [count |-> 1, resetAt |-> at + RateWindow])
         /\ \A bucket \in Bucket : bucket.count \in 1 .. MaxWrites - 1 /\ Fits(times, bucket) =>
              Fits(Append(times, at), [bucket EXCEPT !.count = @ + 1])
<1> DEFINE m == Append(times, at)
<1>0. Ordered(times) /\ \A i \in 1 .. Len(times) : times[i] <= at
  BY DEF Past
<1>1. /\ Ordered(m) /\ Len(m) = Len(times) + 1
      /\ \A i \in 1 .. Len(times) : m[i] = times[i]
      /\ m[Len(times) + 1] = at
      /\ \A i \in 1 .. Len(times) + 1 : m[i] <= at
  BY <1>0, AppendIs
<1>2. Len(times) \in Nat /\ times \in Seq(Nat) /\ \A i \in 1 .. Len(times) : times[i] \in Nat
  BY <1>0 DEF Ordered
<1> HIDE DEF m
<1>3. Past(m, at)
  BY <1>1 DEF Past
<1>4. ASSUME Quiet(times, at)
      PROVE  Fits(m, [count |-> 1, resetAt |-> at + RateWindow])
  <2> DEFINE n == Len(times)  fresh == [count |-> 1, resetAt |-> at + RateWindow]
  <2>1. n \in 0 .. MaxWrites - 1
    BY <1>2, <1>4, RateLimiterAssumption DEF Quiet
  <2>2. Opened(fresh) = at /\ fresh.count = 1
    BY RateLimiterAssumption DEF Opened
  <2> HIDE DEF fresh
  <2>3. \A i \in 1 .. n : m[i] <= Opened(fresh)
    BY <1>1, <1>2, <2>2
  <2>4. Len(m) <= n + fresh.count /\ n <= Len(m) /\ m[n + 1] <= Opened(fresh)
    BY <1>1, <1>2, <2>2
  <2>5. Fits(m, fresh)
    BY <2>1, <2>3, <2>4 DEF Fits
  <2> QED
    BY <2>5 DEF fresh
<1>5. ASSUME NEW bucket \in Bucket, bucket.count \in 1 .. MaxWrites - 1, Fits(times, bucket)
      PROVE  Fits(m, [bucket EXCEPT !.count = @ + 1])
  <2> DEFINE more == [bucket EXCEPT !.count = @ + 1]
  <2>1. more.count = bucket.count + 1 /\ Opened(more) = Opened(bucket) /\ bucket.count \in Nat
    BY DEF Bucket, Opened
  <2> HIDE DEF more
  <2>2. PICK n \in 0 .. MaxWrites - 1 :
          /\ n <= Len(times)
          /\ \A i \in 1 .. n : times[i] <= Opened(bucket)
          /\ Len(times) <= n + bucket.count
          /\ Len(times) = n + bucket.count => times[n + 1] <= Opened(bucket)
    BY <1>5 DEF Fits
  <2>3. n \in Nat
    BY RateLimiterAssumption
  <2>4. \A i \in 1 .. n : m[i] <= Opened(more)
    <3>1. \A i \in 1 .. n : i \in 1 .. Len(times)
      BY <1>2, <2>2, <2>3
    <3> QED
      BY <1>1, <2>1, <2>2, <3>1
  <2>5. n <= Len(m) /\ Len(m) <= n + more.count
    BY <1>1, <1>2, <2>1, <2>2, <2>3
  <2>6. ASSUME Len(m) = n + more.count PROVE m[n + 1] <= Opened(more)
    <3>1. Len(times) = n + bucket.count /\ n + 1 \in 1 .. Len(times)
      BY SMTT(30), <1>1, <1>2, <1>5, <2>1, <2>3, <2>6, RateLimiterAssumption
    <3> QED
      BY <1>1, <2>1, <2>2, <3>1
  <2>7. Fits(m, more)
    BY <2>4, <2>5, <2>6 DEF Fits
  <2> QED
    BY <2>7 DEF more
<1> QED
  BY <1>3, <1>4, <1>5 DEF m

LEMMA EnforceKeeps ==
  ASSUME BurstInv, NEW tier \in {"auth", "user"}, NEW key \in Keys, Tier(key) = tier,
         Enforce(tier, key, key), now' = now
  PROVE  BurstInv'
<1> DEFINE lim == limiter[tier]  old == lim.buckets
           evicted(l) == {k \in DOMAIN old \ DOMAIN l.buckets : Current(old, k, now)}
<1>1. PICK l \in Consume(lim, key, now) :
        /\ limiter' = [limiter EXCEPT ![tier] = l]
        /\ admitted' = [k \in DOMAIN admitted |->
             CASE k = key /\ Allowed(old, key, now) -> Append(admitted[k], now)
               [] k \in evicted(l) -> << >>
               [] OTHER -> admitted[k]]
  BY DEF Enforce
<1> HIDE DEF lim, old
<1>2. /\ now \in Nat /\ now' \in Nat
      /\ DOMAIN limiter = {"auth", "user"} /\ DOMAIN admitted = Keys
      /\ \A t \in {"auth", "user"} :
           \A k \in DOMAIN limiter[t].buckets :
             Tier(k) = t /\ BucketOK(limiter[t].buckets[k], now)
  BY DEF BurstInv, LimiterOK
<1>3. /\ \A k \in DOMAIN old : Tier(k) = tier /\ old[k] \in Bucket /\ BucketOK(old[k], now)
      /\ lim.buckets = old
  BY <1>2 DEF BucketOK, old, lim
<1>4. /\ key \in DOMAIN l.buckets
      /\ ~Current(old, key, now) => l.buckets[key] = [count |-> 1, resetAt |-> now + RateWindow]
      /\ Current(old, key, now) /\ Allowed(old, key, now) =>
           l.buckets[key] = [old[key] EXCEPT !.count = @ + 1]
      /\ Current(old, key, now) /\ ~Allowed(old, key, now) => l.buckets[key] = old[key]
      /\ \A k \in DOMAIN l.buckets \ {key} : k \in DOMAIN old /\ l.buckets[k] = old[k]
  <2>1. Counts(lim.buckets, key, now, l.buckets)
    BY <1>1, <1>2, <1>3, ConsumeIs
  <2> QED
    BY <1>3, <2>1 DEF Counts
<1>5. /\ DOMAIN limiter' = {"auth", "user"} /\ limiter'[tier] = l
      /\ \A t \in {"auth", "user"} \ {tier} : limiter'[t] = limiter[t]
      /\ DOMAIN admitted' = Keys
      /\ limiter[tier].buckets = old
  BY <1>1, <1>2 DEF lim, old
<1>6. \A k \in Keys :
        /\ Tier(k) = tier =>
             /\ Running(k) = Current(old, k, now) /\ BucketOf(k) = old[k]
             /\ Running(k)' = Current(l.buckets, k, now) /\ BucketOf(k)' = l.buckets[k]
        /\ Tier(k) # tier => Running(k)' = Running(k) /\ BucketOf(k)' = BucketOf(k)
  <2>1. \A k \in Keys : Tier(k) \in {"auth", "user"}
    BY DEF Tier
  <2> QED
    BY <1>5, <2>1 DEF Running, BucketOf
<1>7. ASSUME Current(old, key, now), Allowed(old, key, now)
      PROVE  old[key].count \in 1 .. MaxWrites - 1
  <2>1. BucketOK(old[key], now) /\ old[key].count < MaxWrites
    BY <1>3, <1>7 DEF Current, Allowed
  <2> QED
    BY <2>1, RateLimiterAssumption DEF BucketOK
<1>8. BucketOK(l.buckets[key], now) /\ l.buckets[key].resetAt > now
  <2>1. CASE ~Current(old, key, now)
    <3>1. l.buckets[key] = [count |-> 1, resetAt |-> now + RateWindow]
      BY <1>4, <2>1
    <3> QED
      BY <1>2, <3>1, RateLimiterAssumption DEF BucketOK, Bucket
  <2>2. CASE Current(old, key, now) /\ Allowed(old, key, now)
    <3>1. /\ l.buckets[key] = [old[key] EXCEPT !.count = @ + 1]
          /\ BucketOK(old[key], now) /\ old[key].resetAt > now
      BY <1>3, <1>4, <2>2 DEF Current
    <3> QED
      BY <1>2, <1>7, <2>2, <3>1, RateLimiterAssumption DEF BucketOK, Bucket
  <2>3. CASE Current(old, key, now) /\ ~Allowed(old, key, now)
    BY <1>3, <1>4, <2>3 DEF Current
  <2> QED
    BY <2>1, <2>2, <2>3
<1>9. LimiterOK'
  <2>1. \A k \in DOMAIN l.buckets : Tier(k) = tier /\ BucketOK(l.buckets[k], now)
    BY <1>3, <1>4, <1>8
  <2>2. \A t \in {"auth", "user"} :
          \A k \in DOMAIN limiter'[t].buckets :
            Tier(k) = t /\ BucketOK(limiter'[t].buckets[k], now)
    <3> SUFFICES ASSUME NEW t \in {"auth", "user"}
                 PROVE  \A k \in DOMAIN limiter'[t].buckets :
                          Tier(k) = t /\ BucketOK(limiter'[t].buckets[k], now)
      OBVIOUS
    <3>1. CASE t = tier
      BY <1>5, <2>1, <3>1
    <3>2. CASE t # tier
      BY <1>2, <1>5, <3>2
    <3> QED
      BY <3>1, <3>2
  <2> QED
    BY <1>2, <1>5, <2>2 DEF LimiterOK
<1> DEFINE E == evicted(l)
<1>10. /\ \A k \in E : Tier(k) = tier /\ k \notin DOMAIN l.buckets /\ k # key
       /\ \A k \in Keys \ E : Tier(k) = tier /\ k # key =>
            /\ Current(l.buckets, k, now) = Current(old, k, now)
            /\ Current(old, k, now) => l.buckets[k] = old[k]
  BY <1>3, <1>4 DEF Current
<1>11. \A k \in Keys : admitted'[k] =
         CASE k = key /\ Allowed(old, key, now) -> Append(admitted[k], now)
           [] k \in E -> << >>
           [] OTHER -> admitted[k]
  BY <1>1, <1>2
<1> HIDE DEF E, evicted
<1>12. ASSUME NEW k \in Keys PROVE AdmittedOK(k)'
  <2>1. AdmittedOK(k)
    BY DEF BurstInv
  <2>2. CASE k = key
    <3>1. /\ Running(k)' /\ BucketOf(k)' = l.buckets[key]
          /\ Running(k) = Current(old, key, now) /\ BucketOf(k) = old[key]
      <4>1. Current(l.buckets, key, now)
        BY <1>4, <1>8 DEF Current
      <4> QED
        BY <1>6, <2>2, <4>1
    <3>2. Past(admitted[k], now)
      BY <2>1 DEF AdmittedOK
    <3>3. CASE Allowed(old, key, now)
      <4>1. admitted'[k] = Append(admitted[k], now)
        BY <1>10, <1>11, <2>2, <3>3
      <4>2. Past(Append(admitted[k], now), now)
        BY <1>2, <3>2, PassFits
      <4>3. CASE ~Current(old, key, now)
        <5>1. Quiet(admitted[k], now)
          BY <2>1, <3>1, <4>3 DEF AdmittedOK
        <5>2. Fits(Append(admitted[k], now), l.buckets[key])
          BY <1>2, <1>4, <3>2, <4>3, <5>1, PassFits
        <5> QED
          BY <3>1, <4>1, <4>2, <5>2 DEF AdmittedOK
      <4>4. CASE Current(old, key, now)
        <5>1. Fits(admitted[k], old[key])
          BY <2>1, <3>1, <4>4 DEF AdmittedOK
        <5>2. old[key] \in Bucket /\ old[key].count \in 1 .. MaxWrites - 1
          BY <1>3, <1>7, <3>3, <4>4 DEF Current
        <5>3. Fits(Append(admitted[k], now), [old[key] EXCEPT !.count = @ + 1])
          BY <1>2, <3>2, <5>1, <5>2, PassFits
        <5>4. Fits(Append(admitted[k], now), l.buckets[key])
          BY <1>4, <3>3, <4>4, <5>3
        <5> QED
          BY <3>1, <4>1, <4>2, <5>4 DEF AdmittedOK
      <4> QED
        BY <4>3, <4>4
    <3>4. CASE ~Allowed(old, key, now)
      <4>1. admitted'[k] = admitted[k]
        BY <1>10, <1>11, <2>2, <3>4
      <4>2. Current(old, key, now)
        BY <3>4 DEF Allowed
      <4>3. Fits(admitted[k], l.buckets[key])
        BY <1>4, <2>1, <3>1, <3>4, <4>2 DEF AdmittedOK
      <4> QED
        BY <3>1, <3>2, <4>1, <4>3 DEF AdmittedOK
    <3> QED
      BY <3>3, <3>4
  <2>3. CASE k \in E
    <3>1. admitted'[k] = << >> /\ ~Running(k)'
      BY <1>6, <1>10, <1>11, <2>3 DEF Current
    <3>2. Past(<< >>, now) /\ Quiet(<< >>, now)
      BY RateLimiterAssumption DEF Past, Ordered, Quiet
    <3> QED
      BY <3>1, <3>2 DEF AdmittedOK
  <2>4. CASE k # key /\ k \notin E
    <3>1. admitted'[k] = admitted[k]
      BY <1>11, <2>4
    <3>2. Running(k)' = Running(k) /\ (Running(k) => BucketOf(k)' = BucketOf(k))
      BY <1>6, <1>10, <2>4
    <3> QED
      BY <2>1, <3>1, <3>2 DEF AdmittedOK
  <2> QED
    BY <2>2, <2>3, <2>4
<1> QED
  BY <1>5, <1>9, <1>12 DEF BurstInv

\* When a window ends, the calls up to its start are out of the span.
LEMMA TickForgets ==
  ASSUME NEW times, NEW at \in Nat, Past(times, at)
  PROVE  LET later == Recent(times, RateWindow, at + 1) IN
         /\ Past(later, at + 1)
         /\ Quiet(times, at) => Quiet(later, at + 1)
         /\ \A bucket \in Bucket : bucket.count \in 1 .. MaxWrites /\ Fits(times, bucket) =>
              /\ Fits(later, bucket)
              /\ bucket.resetAt <= at + 1 => Quiet(later, at + 1)
<1> DEFINE next == at + 1
           later == Recent(times, RateWindow, next)
           cutoff == next - RateWindow
<1>1. /\ Ordered(times) /\ times \in Seq(Nat) /\ Len(times) \in Nat
      /\ \A i \in 1 .. Len(times) : times[i] \in Nat /\ times[i] <= at
      /\ \A i, j \in 1 .. Len(times) : i <= j => times[i] <= times[j]
      /\ next \in Nat /\ RateWindow \in Nat /\ cutoff \in Int
      /\ MaxWrites \in Nat \ {0}
  BY RateLimiterAssumption DEF Past, Ordered
<1> HIDE DEF next
<1>2. /\ Ordered(later)
      /\ \E d \in Nat : Splits(times, d, cutoff) /\ Leaves(times, d, later)
  BY <1>1, RecentIs
<1> USE DEF next
<1>3. PICK d \in Nat : Splits(times, d, cutoff) /\ Leaves(times, d, later)
  BY <1>2
<1> HIDE DEF later
<1>4. /\ d <= Len(times) /\ Len(later) = Len(times) - d
      /\ \A i \in 1 .. Len(later) : later[i] = times[i + d] /\ i + d \in 1 .. Len(times)
      /\ \A i \in 1 .. Len(times) : i <= d <=> times[i] <= cutoff
      /\ Len(later) \in Nat
  BY <1>1, <1>3 DEF Splits, Leaves
<1>5. \A i \in 1 .. Len(later) : later[i] <= at /\ later[i] < at + 1 /\ later[i] \in Nat
  <2> SUFFICES ASSUME NEW i \in 1 .. Len(later)
               PROVE  later[i] <= at /\ later[i] < at + 1 /\ later[i] \in Nat
    OBVIOUS
  <2>1. later[i] = times[i + d] /\ i + d \in 1 .. Len(times)
    BY <1>4
  <2> QED
    BY <1>1, <2>1
<1>6. Past(later, at + 1)
  BY <1>2, <1>5 DEF Past
<1>7. Quiet(times, at) => Quiet(later, at + 1)
  BY <1>1, <1>4, <1>5 DEF Quiet
<1>8. ASSUME NEW bucket \in Bucket, bucket.count \in 1 .. MaxWrites, Fits(times, bucket)
      PROVE  /\ Fits(later, bucket)
             /\ bucket.resetAt <= at + 1 => Quiet(later, at + 1)
  <2> DEFINE s == Opened(bucket)  c == bucket.count
  <2>0. s \in Int /\ c \in Nat /\ c >= 1 /\ c <= MaxWrites
    BY <1>1, <1>8 DEF Opened, Bucket
  <2>1. PICK n \in 0 .. MaxWrites - 1 :
          /\ n <= Len(times)
          /\ \A i \in 1 .. n : times[i] <= s
          /\ Len(times) <= n + c
          /\ Len(times) = n + c => times[n + 1] <= s
    BY <1>8 DEF Fits
  <2>2. n \in Nat /\ n <= MaxWrites - 1
    BY <1>1, <2>1
  <2>3. ASSUME bucket.resetAt <= at + 1 PROVE Quiet(later, at + 1)
    <3>1. s <= cutoff
      BY <1>1, <2>0, <2>3 DEF Opened, Bucket
    <3>2. \A i \in 1 .. n : i \in 1 .. Len(times) /\ times[i] <= cutoff
      BY <1>1, <2>0, <2>1, <2>2, <3>1
    <3>3. n <= d
      <4>1. CASE n = 0
        BY <4>1
      <4>2. CASE n # 0
        BY <1>4, <2>2, <3>2, <4>2
      <4> QED
        BY <4>1, <4>2
    <3>4. CASE Len(times) = n + c
      <4>1. n + 1 \in 1 .. Len(times) /\ times[n + 1] <= cutoff
        BY SMTT(30), <1>1, <2>0, <2>1, <2>2, <3>1, <3>4
      <4>2. n + 1 <= d
        BY <1>4, <4>1
      <4>3. Len(later) <= MaxWrites - 1
        BY <1>1, <1>4, <2>0, <2>2, <3>4, <4>2
      <4> QED
        BY <1>5, <4>3 DEF Quiet
    <3>5. CASE Len(times) # n + c
      <4>1. Len(times) <= n + c - 1
        BY <1>1, <2>0, <2>1, <2>2, <3>5
      <4>2. Len(later) <= MaxWrites - 1
        BY SMTT(30), <1>1, <1>4, <2>0, <2>2, <3>3, <4>1
      <4> QED
        BY <1>5, <4>2 DEF Quiet
    <3> QED
      BY <3>4, <3>5
  <2>4. Fits(later, bucket)
    <3>1. CASE d <= n
      <4> DEFINE k == n - d
      <4>1. /\ k \in 0 .. MaxWrites - 1 /\ k <= Len(later) /\ Len(later) <= k + c
            /\ k \in Nat
        BY <1>1, <1>4, <2>0, <2>1, <2>2, <3>1
      <4>2. \A i \in 1 .. k : later[i] <= s
        <5> SUFFICES ASSUME NEW i \in 1 .. k PROVE later[i] <= s
          OBVIOUS
        <5>1. i \in 1 .. Len(later) /\ i + d \in 1 .. n
          BY <1>4, <2>2, <4>1
        <5> QED
          BY <1>4, <2>1, <5>1
      <4>3. ASSUME Len(later) = k + c PROVE later[k + 1] <= s
        <5>1. Len(times) = n + c /\ k + 1 \in 1 .. Len(later) /\ k + 1 + d = n + 1
          BY <1>4, <2>0, <2>2, <4>1, <4>3
        <5> QED
          BY <1>4, <2>1, <5>1
      <4> HIDE DEF k
      <4> QED
        BY <4>1, <4>2, <4>3 DEF Fits
    <3>2. CASE n < d
      <4>1. 0 \in 0 .. MaxWrites - 1 /\ 0 <= Len(later) /\ Len(later) < 0 + c
        BY <1>1, <1>4, <2>0, <2>1, <2>2, <3>2
      <4>2. \A i \in 1 .. 0 : later[i] <= s
        OBVIOUS
      <4> QED
        BY SMTT(30), <1>4, <2>0, <4>1, <4>2 DEF Fits
    <3> QED
      BY <2>2, <3>1, <3>2
  <2> QED
    BY <2>3, <2>4
<1> QED
  BY <1>6, <1>7, <1>8 DEF later

LEMMA BurstTick ==
  ASSUME BurstInv, Tick
  PROVE  BurstInv'
<1>1. /\ now \in Nat /\ now' = now + 1 /\ now' \in Nat /\ limiter' = limiter
      /\ DOMAIN admitted = Keys
      /\ admitted' = [k \in Keys |-> Recent(admitted[k], RateWindow, now + 1)]
  BY DEF BurstInv, LimiterOK, Tick
<1>2. LimiterOK'
  <2>1. \A bucket : BucketOK(bucket, now) => BucketOK(bucket, now')
    BY <1>1, RateLimiterAssumption DEF BucketOK, Bucket
  <2> QED
    BY <1>1, <2>1 DEF BurstInv, LimiterOK
<1>3. ASSUME NEW k \in Keys PROVE AdmittedOK(k)'
  <2> DEFINE later == Recent(admitted[k], RateWindow, now + 1)
  <2>1. AdmittedOK(k) /\ admitted'[k] = later /\ BucketOf(k)' = BucketOf(k)
    BY <1>1 DEF BurstInv, BucketOf
  <2>2. Past(admitted[k], now)
    BY <2>1 DEF AdmittedOK
  <2>3. /\ Past(later, now + 1)
        /\ Quiet(admitted[k], now) => Quiet(later, now + 1)
        /\ \A bucket \in Bucket : bucket.count \in 1 .. MaxWrites /\ Fits(admitted[k], bucket) =>
             /\ Fits(later, bucket)
             /\ bucket.resetAt <= now + 1 => Quiet(later, now + 1)
    BY <1>1, <2>2, TickForgets
  <2> HIDE DEF later
  <2>4. CASE ~Running(k)
    <3>1. ~Running(k)'
      <4>1. \A tier \in {"auth", "user"} :
              \A q \in DOMAIN limiter[tier].buckets : limiter[tier].buckets[q] \in Bucket
        BY DEF BurstInv, LimiterOK, BucketOK
      <4>2. Tier(k) \in {"auth", "user"}
        BY DEF Tier
      <4>3. k \in DOMAIN limiter[Tier(k)].buckets =>
              limiter[Tier(k)].buckets[k].resetAt \in Nat
        BY <4>1, <4>2 DEF Bucket
      <4> QED
        BY <1>1, <2>4, <4>3 DEF Running, Current
    <3>2. Quiet(later, now')
      BY <1>1, <2>1, <2>3, <2>4 DEF AdmittedOK
    <3> QED
      BY <1>1, <2>1, <2>3, <3>1, <3>2 DEF AdmittedOK
  <2>5. CASE Running(k)
    <3>1. /\ BucketOf(k) \in Bucket /\ BucketOf(k).count \in 1 .. MaxWrites
          /\ Fits(admitted[k], BucketOf(k))
      <4>1. Tier(k) \in {"auth", "user"} /\ k \in DOMAIN limiter[Tier(k)].buckets
        BY <2>5 DEF Tier, Running, Current
      <4>2. BucketOK(BucketOf(k), now)
        BY <4>1 DEF BurstInv, LimiterOK, BucketOf
      <4> QED
        BY <2>1, <2>5, <4>2 DEF BucketOK, AdmittedOK
    <3>2. Fits(later, BucketOf(k)) /\ (BucketOf(k).resetAt <= now + 1 => Quiet(later, now + 1))
      BY <2>3, <3>1
    <3>3. ~Running(k)' => BucketOf(k).resetAt <= now + 1
      BY <1>1, <2>5, <3>1 DEF Running, Current, BucketOf, Bucket
    <3> QED
      BY <1>1, <2>1, <2>3, <3>2, <3>3 DEF AdmittedOK
  <2> QED
    BY <2>4, <2>5
<1> QED
  BY <1>1, <1>2, <1>3 DEF BurstInv

LEMMA BurstSame ==
  ASSUME BurstInv, UNCHANGED <<now, limiter, admitted>>
  PROVE  BurstInv'
BY DEF BurstInv, LimiterOK, AdmittedOK, Running, BucketOf

LEMMA BurstInit == Init => BurstInv
<1> SUFFICES ASSUME Init PROVE BurstInv
  OBVIOUS
<1>1. /\ now = 1 /\ DOMAIN admitted = Keys /\ DOMAIN limiter = {"auth", "user"}
      /\ \A k \in Keys : admitted[k] = << >>
      /\ \A tier \in {"auth", "user"} : DOMAIN limiter[tier].buckets = {}
  BY DEF Init, Keys, NewLimiter
<1>2. LimiterOK
  BY <1>1 DEF LimiterOK
<1>3. Past(<< >>, 1) /\ Quiet(<< >>, 1)
  BY RateLimiterAssumption DEF Past, Ordered, Quiet
<1>4. \A k \in Keys : ~Running(k)
  BY <1>1 DEF Running, Current, Tier
<1> QED
  BY <1>1, <1>2, <1>3, <1>4 DEF BurstInv, AdmittedOK

LEMMA BurstStep == EachAsHimself /\ BurstInv /\ SessionsInv /\ [Next]_vars => BurstInv'
<1> SUFFICES ASSUME EachAsHimself, BurstInv, SessionsInv, [Next]_vars PROVE BurstInv'
  OBVIOUS
<1>0. \A r \in Routes, c \in Clients : <<r, c>> \in Keys /\ Tier(<<r, c>>) = "auth"
  BY LoginsAssumption DEF Keys, Tier
<1>1. CASE Tick
  BY <1>1, BurstTick
<1>2. ASSUME NEW w \in Workers, NEW u \in Users, NEW c \in Clients, Login(w, u, c)
      PROVE  BurstInv'
  <2>1. PICK seen \in Seen[c] : Enforce("auth", <<"login", seen>>, <<"login", c>>)
    BY <1>2 DEF Login
  <2>2. seen = c /\ now' = now /\ "login" \in Routes
    BY <1>2 DEF EachAsHimself, Login, Routes
  <2> QED
    BY <1>0, <2>1, <2>2, EnforceKeeps
<1>3. ASSUME NEW w \in Workers, NEW u \in Users, NEW c \in Clients, NEW route \in Routes,
             Anonymous(w, u, c, route)
      PROVE  BurstInv'
  <2>1. PICK seen \in Seen[c] : Enforce("auth", <<route, seen>>, <<route, c>>)
    BY <1>3 DEF Anonymous
  <2>2. seen = c /\ now' = now
    BY <1>3 DEF EachAsHimself, Anonymous
  <2> QED
    BY <1>0, <2>1, <2>2, EnforceKeeps
<1>4. ASSUME NEW w \in Workers, NEW i \in DOMAIN sessions, NEW pc, Authenticated(w, i, pc)
      PROVE  BurstInv'
  <2>1. CASE Active(i)
    <3>1. Enforce("user", sessions[i].user, sessions[i].user) /\ now' = now
      BY <1>4, <2>1 DEF Authenticated
    <3>2. sessions[i].user \in Users
      <4>1. sessions[i] \in Session
        BY ElementOfSeq DEF SessionsInv, TypeOK
      <4> QED
        BY <4>1 DEF Session
    <3>3. sessions[i].user \in Keys /\ Tier(sessions[i].user) = "user"
      BY <3>2 DEF Keys, Tier
    <3> QED
      BY <3>1, <3>3, EnforceKeeps
  <2>2. CASE ~Active(i)
    BY <1>4, <2>2, BurstSame DEF Authenticated
  <2> QED
    BY <2>1, <2>2
<1>5. ASSUME NEW w \in Workers, WrongPassword(w) \/ RightPassword(w) \/ CreateAccount(w)
      PROVE  BurstInv'
  BY <1>5, BurstSame DEF WrongPassword, RightPassword, CreateAccount
<1>6. ASSUME NEW w \in Workers,
             ReadActive(w) \/ RevokeExcess(w) \/ InsertSession(w) \/ RevokeSession(w)
      PROVE  BurstInv'
  BY <1>6, BurstSame DEF ReadActive, RevokeExcess, InsertSession, RevokeSession
<1>7. CASE UNCHANGED vars
  BY <1>7, BurstSame DEF vars
<1>8. ASSUME NEW w \in Workers, NEW u \in Users, NEW c \in Clients,
             Signup(w, u, c) \/ DemoLogin(w, u, c)
      PROVE  BurstInv'
  BY <1>3, <1>8 DEF Signup, DemoLogin, Routes
<1>9. ASSUME NEW w \in Workers, NEW i \in DOMAIN sessions,
             SwitchWorkspace(w, i) \/ Logout(w, i)
      PROVE  BurstInv'
  BY <1>4, <1>9 DEF SwitchWorkspace, Logout
<1> QED
  BY <1>1, <1>2, <1>5, <1>6, <1>7, <1>8, <1>9 DEF Next

\* FixedWindowRateLimiter in any of the tiers, however its buckets are swept and
\* evicted: within any span as long as the window a client that is no proxy, or
\* a user, gets through at most 2 * MaxWrites - 1 times, whatever headers it
\* sends along.
THEOREM BurstsAreBounded ==
  ASSUME IsProxy(Proxy), \A c \in Clients : ~IsProxy(c),
         NEW Hops, Clients \subseteq Hops, Forged \subseteq Seq(Hops)
  PROVE  Spec => []BurstBounded
<1>1. EachAsHimself
  BY ForgedHopsIgnored DEF EachAsHimself
<1>2. BurstInv => BurstBounded
  <2> SUFFICES ASSUME BurstInv, NEW k \in Keys
               PROVE  Len(admitted[k]) <= 2 * MaxWrites - 1
    BY DEF BurstInv, BurstBounded
  <2>1. AdmittedOK(k)
    BY DEF BurstInv
  <2>2. Len(admitted[k]) \in Nat /\ MaxWrites \in Nat \ {0}
    BY <2>1, RateLimiterAssumption DEF AdmittedOK, Past, Ordered
  <2>3. CASE ~Running(k)
    BY <2>1, <2>2, <2>3 DEF AdmittedOK, Quiet
  <2>4. CASE Running(k)
    <3>1. Tier(k) \in {"auth", "user"} /\ k \in DOMAIN limiter[Tier(k)].buckets
      BY <2>4 DEF Tier, Running, Current
    <3>2. BucketOf(k).count \in 1 .. MaxWrites
      BY <3>1 DEF BurstInv, LimiterOK, BucketOf, BucketOK
    <3>3. PICK n \in 0 .. MaxWrites - 1 : Len(admitted[k]) <= n + BucketOf(k).count
      BY <2>1, <2>4 DEF AdmittedOK, Fits
    <3> QED
      BY <2>2, <3>2, <3>3
  <2> QED
    BY <2>3, <2>4
<1> QED
  BY <1>1, <1>2, BurstInit, BurstStep, SessionsInvariant, PTL DEF Spec

-----------------------------------------------------------------------------
(* The throttle.  While a pair is not blocked its misses are short of the      *)
(* limit, or late ones of the block before.  When the block is armed, what can *)
(* still miss is the other requests that passed the check before; their misses *)
(* are the only ones left when the block ends.                              *)

Workforce == Cardinality(Workers)
Larger(a, b) == IF a > b THEN a ELSE b
ThrottleEntry == [failures : Seq(Nat), blockedUntil : Nat]
Guessing(p) == {w \in Workers : req[w].pc = "verify" /\ <<req[w].user, req[w].from>> = p}
EntryOf(p) == Entry(throttle.entries, p)

\* m are the failures of the entry that are in the window.
Remembers(entry, m, at) ==
  /\ Past(entry.failures, at) /\ Past(m, at)
  /\ \A i \in 1 .. Len(m) : m[i] > at - FailureWindow
  /\ \E d \in Nat : /\ Splits(entry.failures, d, at - FailureWindow)
                    /\ Leaves(entry.failures, d, m)

\* The misses after the block was armed, and those that can still follow.
Late(m, until, v) ==
  \E n \in 0 .. Len(m) :
    /\ \A i \in 1 .. n : m[i] <= until - FailureBlock
    /\ Len(m) - n + v <= Workforce - 1

Blocks(m, until, v, at) ==
  /\ until > at => /\ Len(m) + v <= Larger(FailureLimit, Workforce) + Workforce - 1
                   /\ Late(m, until, v)
  /\ ~(until > at) => Len(m) <= Larger(FailureLimit, Workforce) - 1

GuessesOK(p) ==
  /\ EntryOf(p) \in ThrottleEntry
  /\ Remembers(EntryOf(p), misses[p], now)
  /\ Blocks(misses[p], EntryOf(p).blockedUntil, Cardinality(Guessing(p)), now)

\* The inductive invariant.
GuessesInv ==
  /\ now \in Nat
  /\ misses \in [Pairs -> Seq(Nat)]
  /\ DOMAIN throttle = {"entries", "calls"}
  /\ \A w \in Workers :
       req[w].pc = "verify" => req[w].from \in Clients /\ req[w].key = req[w].from
  /\ \A p \in Pairs : GuessesOK(p)

LEMMA LimitsOK ==
  /\ FailureLimit \in Nat \ {0} /\ FailureWindow \in Nat \ {0} /\ FailureBlock \in Nat \ {0}
  /\ Workforce \in Nat
  /\ Larger(FailureLimit, Workforce) \in Nat
  /\ FailureLimit <= Larger(FailureLimit, Workforce)
  /\ Workforce <= Larger(FailureLimit, Workforce)
<1>1. Workforce \in Nat
  BY FS_CardinalityType, LoginsAssumption DEF Workforce
<1> QED
  BY <1>1, ThrottleAssumption DEF Larger

LEMMA NothingMissed ==
  ASSUME NEW at \in Nat, NEW v
  PROVE  /\ NoEntry \in ThrottleEntry
         /\ Remembers(NoEntry, << >>, at)
         /\ Blocks(<< >>, NoEntry.blockedUntil, v, at)
<1>1. Past(<< >>, at)
  BY DEF Past, Ordered
<1>2. Splits(<< >>, 0, at - FailureWindow) /\ Leaves(<< >>, 0, << >>)
  BY DEF Splits, Leaves
<1>3. NoEntry.failures = << >> /\ NoEntry.blockedUntil = 0
  BY DEF NoEntry
<1>4. Remembers(NoEntry, << >>, at)
  BY <1>1, <1>2, <1>3 DEF Remembers
<1>5. Blocks(<< >>, NoEntry.blockedUntil, v, at)
  BY <1>3, LimitsOK DEF Blocks
<1>6. NoEntry \in ThrottleEntry
  BY DEF NoEntry, ThrottleEntry
<1> QED
  BY <1>4, <1>5, <1>6

\* A tick drops the same misses from the entry and from the history.
LEMMA TickRemembers ==
  ASSUME NEW entry, NEW m, NEW at \in Nat, Remembers(entry, m, at)
  PROVE  Remembers(entry, Recent(m, FailureWindow, at + 1), at + 1)
<1> DEFINE f == entry.failures
           next == at + 1
           later == Recent(m, FailureWindow, next)
           cutoff == next - FailureWindow
<1>1. /\ next \in Nat /\ FailureWindow \in Nat /\ cutoff \in Int
      /\ Past(f, at) /\ Past(m, at)
      /\ \A i \in 1 .. Len(m) : m[i] > at - FailureWindow
  BY LimitsOK DEF Remembers
<1>2. PICK d \in Nat : Splits(f, d, at - FailureWindow) /\ Leaves(f, d, m)
  BY DEF Remembers
<1> HIDE DEF next, f
<1>3. /\ Ordered(later)
      /\ \E e \in Nat : Splits(m, e, cutoff) /\ Leaves(m, e, later)
  BY <1>1, RecentIs DEF Past
<1>4. PICK e \in Nat : Splits(m, e, cutoff) /\ Leaves(m, e, later)
  BY <1>3
<1> HIDE DEF later, cutoff
<1>5. cutoff = at - FailureWindow + 1 /\ next = at + 1
  BY <1>1 DEF cutoff, next
<1>6. /\ f \in Seq(Nat) /\ Len(f) \in Nat /\ \A i \in 1 .. Len(f) : f[i] \in Nat /\ f[i] <= at
      /\ m \in Seq(Nat) /\ Len(m) \in Nat /\ \A i \in 1 .. Len(m) : m[i] \in Nat /\ m[i] <= at
      /\ later \in Seq(Nat) /\ Len(later) \in Nat
  BY <1>1, <1>3 DEF Past, Ordered
<1>7. /\ d <= Len(f) /\ Len(m) = Len(f) - d
      /\ \A i \in 1 .. Len(m) : m[i] = f[i + d]
      /\ \A i \in 1 .. Len(f) : i <= d <=> f[i] <= at - FailureWindow
      /\ e <= Len(m) /\ Len(later) = Len(m) - e
      /\ \A i \in 1 .. Len(later) : later[i] = m[i + e]
      /\ \A i \in 1 .. Len(m) : i <= e <=> m[i] <= cutoff
  BY <1>2, <1>4 DEF Splits, Leaves
<1>8. Past(f, next)
  BY <1>1, <1>5, <1>6 DEF Past
<1>9. \A i \in 1 .. Len(later) : later[i] = m[i + e] /\ i + e \in 1 .. Len(m) /\ ~(i + e <= e)
  BY <1>6, <1>7
<1>10. \A i \in 1 .. Len(later) : ~(later[i] <= cutoff) /\ later[i] \in Nat /\ later[i] <= at
  BY <1>6, <1>7, <1>9
<1>11. Past(later, next)
  BY <1>3, <1>5, <1>10 DEF Past
<1>12. Leaves(f, d + e, later)
  <2>1. \A i \in 1 .. Len(later) : m[i + e] = f[i + e + d]
    BY <1>7, <1>9
  <2> QED
    BY <1>6, <1>7, <1>9, <2>1 DEF Leaves
<1>13. Splits(f, d + e, cutoff)
  <2> SUFFICES ASSUME NEW i \in 1 .. Len(f)
               PROVE  i <= d + e <=> f[i] <= cutoff
    BY <1>6, <1>7 DEF Splits
  <2>1. CASE i <= d
    <3>1. f[i] <= at - FailureWindow /\ f[i] \in Nat
      BY <1>6, <1>7, <2>1
    <3> QED
      BY <1>1, <1>5, <2>1, <3>1
  <2>2. CASE ~(i <= d)
    <3>1. i - d \in 1 .. Len(m) /\ m[i - d] = f[i]
      BY <1>6, <1>7, <2>2
    <3>2. i - d <= e <=> f[i] <= cutoff
      BY <1>7, <3>1
    <3> QED
      BY <3>2
  <2> QED
    BY <2>1, <2>2
<1>14. /\ \A i \in 1 .. Len(later) : later[i] > cutoff
       /\ d + e \in Nat
  BY <1>1, <1>10
<1>15. Remembers(entry, later, next)
  BY <1>8, <1>11, <1>12, <1>13, <1>14 DEF Remembers, f, cutoff
<1> QED
  BY <1>15 DEF later, next

\* When a block ends, only late misses are in the window.
LEMMA TickBlocks ==
  ASSUME NEW m, NEW until \in Nat, NEW v \in Nat, NEW at \in Nat,
         FailureBlock >= FailureWindow, Past(m, at), Blocks(m, until, v, at)
  PROVE  Blocks(Recent(m, FailureWindow, at + 1), until, v, at + 1)
<1> DEFINE next == at + 1
           later == Recent(m, FailureWindow, next)
           cutoff == next - FailureWindow
<1>1. next \in Nat /\ FailureWindow \in Nat /\ FailureBlock \in Nat /\ cutoff \in Int
  BY LimitsOK
<1> HIDE DEF next
<1>2. /\ Ordered(later)
      /\ \E d \in Nat : Splits(m, d, cutoff) /\ Leaves(m, d, later)
  BY <1>1, RecentIs DEF Past
<1>3. PICK d \in Nat : Splits(m, d, cutoff) /\ Leaves(m, d, later)
  BY <1>2
<1> HIDE DEF later, cutoff
<1>4. /\ Len(m) \in Nat /\ Len(later) = Len(m) - d /\ d <= Len(m) /\ Len(later) \in Nat
      /\ \A i \in 1 .. Len(m) : m[i] \in Nat
      /\ \A i \in 1 .. Len(later) : later[i] = m[i + d]
      /\ \A i \in 1 .. Len(m) : i <= d <=> m[i] <= cutoff
  <2>1. Len(m) \in Nat /\ (\A i \in 1 .. Len(m) : m[i] \in Nat) /\ Len(later) \in Nat
    BY <1>2 DEF Past, Ordered
  <2> QED
    BY <1>3, <2>1 DEF Splits, Leaves
<1>5. next = at + 1 /\ cutoff = next - FailureWindow
  BY DEF next, cutoff
<1>6. CASE until > next
  <2>1. /\ Len(m) + v <= Larger(FailureLimit, Workforce) + Workforce - 1
        /\ Late(m, until, v)
    BY <1>5, <1>6 DEF Blocks
  <2>2. PICK n \in 0 .. Len(m) : /\ \A i \in 1 .. n : m[i] <= until - FailureBlock
                                 /\ Len(m) - n + v <= Workforce - 1
    BY <2>1 DEF Late
  <2>3. Late(later, until, v)
    <3>1. CASE d <= n
      <4> DEFINE k == n - d
      <4>1. k \in 0 .. Len(later) /\ Len(later) - k + v <= Workforce - 1
        BY <1>4, <2>2, <3>1, LimitsOK
      <4>2. \A i \in 1 .. k : later[i] <= until - FailureBlock
        <5> SUFFICES ASSUME NEW i \in 1 .. k PROVE later[i] <= until - FailureBlock
          OBVIOUS
        <5>1. i \in 1 .. Len(later) /\ i + d \in 1 .. n
          BY <1>4, <4>1
        <5> QED
          BY <1>4, <2>2, <5>1
      <4> HIDE DEF k
      <4> QED
        BY <4>1, <4>2 DEF Late
    <3>2. CASE ~(d <= n)
      <4>1. 0 \in 0 .. Len(later) /\ Len(later) - 0 + v <= Workforce - 1
        BY <1>4, <2>2, <3>2, LimitsOK
      <4>2. \A i \in 1 .. 0 : later[i] <= until - FailureBlock
        OBVIOUS
      <4> QED
        BY <4>1, <4>2 DEF Late
    <3> QED
      BY <3>1, <3>2
  <2>4. Len(later) + v <= Larger(FailureLimit, Workforce) + Workforce - 1
    BY <1>4, <2>1, LimitsOK
  <2>5. Blocks(later, until, v, next)
    BY <1>6, <2>3, <2>4 DEF Blocks
  <2> QED
    BY <2>5 DEF later, next
<1>7. CASE ~(until > next)
  <2>1. Len(later) <= Larger(FailureLimit, Workforce) - 1
    <3>1. CASE until > at
      <4>1. PICK n \in 0 .. Len(m) : /\ \A i \in 1 .. n : m[i] <= until - FailureBlock
                                     /\ Len(m) - n + v <= Workforce - 1
        BY <3>1 DEF Blocks, Late
      <4>2. until - FailureBlock <= cutoff
        BY <1>1, <1>5, <1>7
      <4>3. \A i \in 1 .. n : i \in 1 .. Len(m) /\ m[i] <= cutoff
        BY <1>1, <1>4, <4>1, <4>2
      <4>4. n <= d
        <5>1. CASE n = 0
          BY <5>1
        <5>2. CASE n # 0
          <6>1. n \in 1 .. n
            BY <5>2
          <6> QED
            BY <1>4, <4>3, <6>1
        <5> QED
          BY <5>1, <5>2
      <4> QED
        BY <1>4, <4>1, <4>4, LimitsOK
    <3>2. CASE ~(until > at)
      BY <1>4, <3>2, LimitsOK DEF Blocks
    <3> QED
      BY <3>1, <3>2
  <2>2. Blocks(later, until, v, next)
    BY <1>7, <2>1 DEF Blocks
  <2> QED
    BY <2>2 DEF later, next
<1> QED
  BY <1>6, <1>7

\* What the entry keeps when it counts a failure is what the history holds.
LEMMA KeptIs ==
  ASSUME NEW entry, NEW m, NEW at \in Nat, Remembers(entry, m, at)
  PROVE  InWindow(entry.failures, at) = m
<1> DEFINE f == entry.failures
           kept == InWindow(f, at)
           cutoff == at - FailureWindow
<1>1. Past(f, at) /\ FailureWindow \in Nat
  BY LimitsOK DEF Remembers
<1>2. PICK d \in Nat : Splits(f, d, cutoff) /\ Leaves(f, d, m)
  BY DEF Remembers
<1>3. PICK e \in Nat : Splits(f, e, cutoff) /\ Leaves(f, e, kept)
  BY <1>1, RecentIs DEF Past, InWindow
<1> HIDE DEF f, kept, cutoff
<1>4. d = e
  <2>1. /\ Len(f) \in Nat /\ d <= Len(f) /\ e <= Len(f)
        /\ \A i \in 1 .. Len(f) : i <= d <=> i <= e
    BY <1>1, <1>2, <1>3 DEF Past, Ordered, Splits
  <2>2. ASSUME d < e PROVE FALSE
    <3>1. e \in 1 .. Len(f)
      BY <2>1, <2>2
    <3> QED
      BY <2>1, <2>2, <3>1
  <2>3. ASSUME e < d PROVE FALSE
    <3>1. d \in 1 .. Len(f)
      BY <2>1, <2>3
    <3> QED
      BY <2>1, <2>3, <3>1
  <2> QED
    BY <2>2, <2>3
<1>5. kept = m
  <2>1. /\ kept \in Seq(Nat) /\ m \in Seq(Nat) /\ Len(kept) = Len(m)
        /\ \A i \in 1 .. Len(m) : kept[i] = m[i]
    BY <1>2, <1>3, <1>4 DEF Leaves
  <2> QED
    BY <2>1, SeqEqual
<1> QED
  BY <1>5 DEF kept, f

\* The entry counts a miss as the history does.
LEMMA CountIs ==
  ASSUME NEW entry \in ThrottleEntry, NEW m, NEW at \in Nat, Remembers(entry, m, at)
  PROVE  LET arms == Len(m) + 1 >= FailureLimit /\ entry.blockedUntil <= at
         IN  /\ CountFailure(entry, at) =
                  [failures |-> Append(m, at),
                   blockedUntil |-> IF arms THEN at + FailureBlock ELSE entry.blockedUntil]
             /\ CountFailure(entry, at) \in ThrottleEntry
             /\ Remembers(CountFailure(entry, at), Append(m, at), at)
             /\ ~Dead(CountFailure(entry, at), at)
<1> DEFINE f == entry.failures
           kept == InWindow(f, at)
           more == Append(m, at)
           cutoff == at - FailureWindow
<1>1. /\ Past(f, at) /\ Past(m, at) /\ FailureWindow \in Nat \ {0} /\ FailureWindow \in Nat
      /\ \A i \in 1 .. Len(m) : m[i] > cutoff
      /\ entry.blockedUntil \in Nat /\ cutoff \in Int
  BY LimitsOK DEF Remembers, ThrottleEntry
<1>5. kept = m
  BY KeptIs
<1> HIDE DEF f, kept, cutoff
<1>6. /\ Ordered(more) /\ Len(more) = Len(m) + 1 /\ Len(m) \in Nat
      /\ \A i \in 1 .. Len(m) : more[i] = m[i]
      /\ more[Len(m) + 1] = at
      /\ \A i \in 1 .. Len(m) + 1 : more[i] <= at
  BY <1>1, AppendIs DEF Past, Ordered
<1> HIDE DEF more
<1>7. /\ Past(more, at) /\ more \in Seq(Nat) /\ Len(more) \in Nat
      /\ \A i \in 1 .. Len(more) : more[i] > cutoff /\ more[i] \in Nat
  <2>1. Past(more, at) /\ more \in Seq(Nat) /\ Len(more) \in Nat
    BY <1>6 DEF Past, Ordered
  <2>2. at > cutoff
    BY <1>1 DEF cutoff
  <2>3. \A i \in 1 .. Len(more) : i \in 1 .. Len(m) \/ i = Len(m) + 1
    BY <1>6
  <2>4. \A i \in 1 .. Len(more) : more[i] > cutoff /\ more[i] \in Nat
    BY <1>1, <1>6, <2>1, <2>2, <2>3
  <2> QED
    BY <2>1, <2>4
<1>8. Splits(more, 0, cutoff) /\ Leaves(more, 0, more)
  <2>1. \A i \in 1 .. Len(more) : ~(i <= 0) /\ ~(more[i] <= cutoff)
    BY <1>1, <1>7
  <2> QED
    BY <1>7, <2>1 DEF Splits, Leaves
<1> DEFINE arms == Len(m) + 1 >= FailureLimit /\ entry.blockedUntil <= at
           counted == [failures |-> more,
                       blockedUntil |-> IF arms THEN at + FailureBlock ELSE entry.blockedUntil]
<1>9. CountFailure(entry, at) = counted
  BY <1>5, <1>6 DEF CountFailure, kept, more, f
<1>10. counted \in ThrottleEntry
  BY <1>1, <1>7, LimitsOK DEF ThrottleEntry
<1>11. counted.failures = more
  OBVIOUS
<1>12. Remembers(counted, more, at)
  <2>1. 0 \in Nat
    OBVIOUS
  <2> QED
    BY <1>7, <1>8, <1>11, <2>1 DEF Remembers, cutoff
<1> HIDE DEF counted
<1>13. ~Dead(counted, at)
  <2>1. PICK g \in Nat : Splits(more, g, cutoff) /\ Leaves(more, g, InWindow(more, at))
    BY <1>1, <1>6, RecentIs DEF InWindow, cutoff
  <2>2. ~(Len(more) <= g)
    BY <1>1, <1>6, <1>7, <2>1 DEF Splits
  <2>3. Len(InWindow(more, at)) # 0
    BY <1>7, <2>1, <2>2 DEF Leaves
  <2>4. InWindow(more, at) # << >>
    BY <2>3
  <2> QED
    BY <1>11, <2>4 DEF Dead
<1> QED
  BY <1>9, <1>10, <1>12, <1>13 DEF counted, more

\* A miss comes from a request that could still miss.
LEMMA MissBlocks ==
  ASSUME NEW m, NEW until \in Nat, NEW v \in 1 .. Workforce, NEW at \in Nat,
         Past(m, at), Blocks(m, until, v, at)
  PROVE  LET arms == Len(m) + 1 >= FailureLimit /\ until <= at
         IN  Blocks(Append(m, at), IF arms THEN at + FailureBlock ELSE until, v - 1, at)
<1> DEFINE more == Append(m, at)
           arms == Len(m) + 1 >= FailureLimit /\ until <= at
           W == Workforce
           M == Larger(FailureLimit, Workforce)
<1>1. /\ Len(more) = Len(m) + 1 /\ Len(m) \in Nat
      /\ \A i \in 1 .. Len(m) : more[i] = m[i]
      /\ \A i \in 1 .. Len(m) + 1 : more[i] <= at
  BY AppendIs DEF Past, Ordered
<1>2. /\ W \in Nat /\ M \in Nat /\ FailureLimit \in Nat /\ FailureLimit <= M /\ W <= M
      /\ FailureBlock \in Nat \ {0} /\ v \in Nat /\ v <= W /\ v >= 1
  BY LimitsOK
<1> HIDE DEF more, W, M
<1>3. CASE until > at
  <2>1. Len(m) + v <= M + W - 1
    BY <1>3 DEF Blocks, M, W
  <2>2. PICK n \in 0 .. Len(m) : /\ \A i \in 1 .. n : m[i] <= until - FailureBlock
                                 /\ Len(m) - n + v <= W - 1
    BY <1>3 DEF Blocks, Late, W
  <2>3. n \in 0 .. Len(more) /\ Len(more) - n + (v - 1) <= W - 1
    BY <1>1, <1>2, <2>2
  <2>4. \A i \in 1 .. n : more[i] <= until - FailureBlock
    BY <1>1, <2>2
  <2>5. Late(more, until, v - 1)
    BY <2>3, <2>4 DEF Late, W
  <2>6. Len(more) + (v - 1) <= M + W - 1
    BY <1>1, <1>2, <2>1
  <2>7. ~arms /\ Blocks(more, until, v - 1, at)
    BY <1>3, <2>5, <2>6 DEF Blocks, M, W
  <2> QED
    BY <2>7 DEF more
<1>4. CASE ~(until > at) /\ arms
  <2> DEFINE armed == at + FailureBlock
  <2>0. Len(m) <= M - 1 /\ armed > at /\ armed - FailureBlock = at
    BY <1>2, <1>4 DEF Blocks, M
  <2>1. Len(more) \in 0 .. Len(more) /\ Len(more) - Len(more) + (v - 1) <= W - 1
    BY <1>1, <1>2
  <2>2. \A i \in 1 .. Len(more) : more[i] <= armed - FailureBlock
    BY <1>1, <2>0
  <2> HIDE DEF armed
  <2>3. Late(more, armed, v - 1)
    BY <2>1, <2>2 DEF Late, W
  <2>4. Len(more) + (v - 1) <= M + W - 1
    BY <1>1, <1>2, <2>0
  <2>5. Blocks(more, armed, v - 1, at)
    BY <2>0, <2>3, <2>4 DEF Blocks, M, W
  <2> QED
    BY <1>4, <2>5 DEF more, armed
<1>5. CASE ~(until > at) /\ ~arms
  <2>1. Len(more) <= M - 1
    BY <1>1, <1>2, <1>5
  <2>2. Blocks(more, until, v - 1, at)
    BY <1>5, <2>1 DEF Blocks, M
  <2> QED
    BY <1>5, <2>2 DEF more
<1> QED
  BY <1>3, <1>4, <1>5

-----------------------------------------------------------------------------
\* One failure changes one entry, and may drop others.
LEMMA RecordIs ==
  ASSUME NEW old, NEW pair, NEW at \in Nat, NEW t \in RecordFailure(old, pair, at),
         ~Dead(CountFailure(Entry(old.entries, pair), at), at)
  PROVE  /\ pair \in DOMAIN t.entries
         /\ t.entries[pair] = CountFailure(Entry(old.entries, pair), at)
         /\ \A q \in DOMAIN t.entries \ {pair} :
              q \in DOMAIN old.entries /\ t.entries[q] = old.entries[q]
<1> DEFINE counted == CountFailure(Entry(old.entries, pair), at)
<1>1. PICK e \in Tracked(old.entries, pair, at) :
        t.entries = e \/ t.entries = SweepEntries(e, at)
  BY DEF RecordFailure
<1>2. PICK room : /\ e = With(room, pair, counted)
                  /\ \A q \in DOMAIN room : q \in DOMAIN old.entries /\ room[q] = old.entries[q]
  <2>1. CASE pair \in DOMAIN old.entries
    BY <2>1 DEF Tracked
  <2>2. CASE pair \notin DOMAIN old.entries
    <3>1. PICK room \in EntryRoom(old.entries, at) : e = With(room, pair, counted)
      BY <2>2 DEF Tracked
    <3>2. \A q \in DOMAIN room : q \in DOMAIN old.entries /\ room[q] = old.entries[q]
      BY DEF EntryRoom, SweepEntries, Without, Stalest
    <3> QED
      BY <3>1, <3>2
  <2> QED
    BY <2>1, <2>2
<1> HIDE DEF counted
<1>3. /\ pair \in DOMAIN e /\ e[pair] = counted
      /\ \A q \in DOMAIN e \ {pair} : q \in DOMAIN old.entries /\ e[q] = old.entries[q]
  BY <1>2 DEF With
<1>4. ~Dead(counted, at)
  BY DEF counted
<1>5. CASE t.entries = e
  BY <1>3, <1>5 DEF counted
<1>6. CASE t.entries = SweepEntries(e, at)
  <2>1. /\ DOMAIN t.entries \subseteq DOMAIN e /\ pair \in DOMAIN t.entries
        /\ \A q \in DOMAIN t.entries : t.entries[q] = e[q]
    BY <1>3, <1>4, <1>6 DEF SweepEntries, Without
  <2> QED
    BY <1>3, <2>1 DEF counted
<1> QED
  BY <1>1, <1>5, <1>6

LEMMA GuessersFinite ==
  \A p : IsFiniteSet(Guessing(p)) /\ Cardinality(Guessing(p)) \in 0 .. Workforce
<1>1. \A p : Guessing(p) \subseteq Workers
  BY DEF Guessing
<1>2. \A p : IsFiniteSet(Guessing(p)) /\ Cardinality(Guessing(p)) <= Cardinality(Workers)
               /\ Cardinality(Guessing(p)) \in Nat
  BY <1>1, FS_Subset, FS_CardinalityType, LoginsAssumption
<1> QED
  BY <1>2, LimitsOK DEF Workforce

\* A step by which nobody comes to guess or stops, and nothing is counted.
LEMMA SameGuesses ==
  ASSUME GuessesInv, UNCHANGED <<now, throttle, misses>>,
         \A w \in Workers : req'[w] = req[w] \/ (req[w].pc # "verify" /\ req'[w].pc # "verify")
  PROVE  GuessesInv'
<1>1. \A p \in Pairs : Guessing(p)' = Guessing(p)
  BY DEF Guessing
<1>2. \A p \in Pairs : EntryOf(p)' = EntryOf(p) /\ misses'[p] = misses[p] /\ now' = now
  BY DEF EntryOf
<1>3. \A p \in Pairs : GuessesOK(p)'
  BY <1>1, <1>2 DEF GuessesInv, GuessesOK
<1> QED
  BY <1>3 DEF GuessesInv

LEMMA LoginGuesses ==
  ASSUME EachAsHimself, SessionsInv, GuessesInv,
         NEW w \in Workers, NEW u \in Users, NEW c \in Clients, Login(w, u, c)
  PROVE  GuessesInv'
<1> DEFINE p == <<u, c>>
           enters == Passes("auth", <<"login", c>>) /\ ~Blocked(throttle.entries, p, now)
           r == [Idle EXCEPT !.pc = "verify", !.user = u, !.from = c, !.key = c]
<1>1. /\ req[w].pc = "idle" /\ UNCHANGED <<now, misses>>
      /\ throttle' = IF enters THEN [throttle EXCEPT !.entries = LiftBlock(@, p)] ELSE throttle
      /\ req' = IF enters THEN [req EXCEPT ![w] = r] ELSE req
  BY DEF EachAsHimself, Login, Arrive
<1>2. CASE ~enters
  BY <1>1, <1>2, SameGuesses
<1>3. CASE enters
  <2>1. /\ throttle' = [throttle EXCEPT !.entries = LiftBlock(@, p)]
        /\ req' = [req EXCEPT ![w] = r]
        /\ DOMAIN throttle = {"entries", "calls"} /\ DOMAIN throttle' = {"entries", "calls"}
    BY <1>1, <1>3 DEF GuessesInv
  <2>2. DOMAIN req = Workers
    BY DEF SessionsInv, TypeOK
  <2>3. req'[w] = r /\ \A v \in Workers \ {w} : req'[v] = req[v]
    BY <2>1, <2>2
  <2>4. r.pc = "verify" /\ r.user = u /\ r.from = c /\ r.key = c
    BY DEF Idle
  <2> HIDE DEF r
  <2>5. \A v \in Workers :
          req'[v].pc = "verify" => req'[v].from \in Clients /\ req'[v].key = req'[v].from
    BY <2>3, <2>4 DEF GuessesInv
  <2>6. ASSUME NEW q \in Pairs \ {p} PROVE GuessesOK(q)'
    <3>1. Guessing(q)' = Guessing(q)
      BY <1>1, <2>3, <2>4 DEF Guessing
    <3>2. EntryOf(q)' = EntryOf(q)
      <4>1. throttle'.entries = LiftBlock(throttle.entries, p)
        BY <2>1 DEF LiftBlock
      <4> QED
        BY <4>1 DEF EntryOf, Entry, LiftBlock
    <3>3. GuessesOK(q) /\ misses'[q] = misses[q]
      BY <1>1 DEF GuessesInv
    <3> QED
      BY <1>1, <3>1, <3>2, <3>3 DEF GuessesOK
  <2>7. GuessesOK(p)'
    <3>1. GuessesOK(p) /\ misses'[p] = misses[p] /\ now' = now /\ now \in Nat
      BY <1>1 DEF GuessesInv, Pairs
    <3>2. ~(EntryOf(p).blockedUntil > now) /\ EntryOf(p) \in ThrottleEntry
      BY <1>3, <3>1 DEF Blocked, EntryOf, GuessesOK
    <3>3. /\ EntryOf(p)' \in ThrottleEntry /\ EntryOf(p)'.failures = EntryOf(p).failures
          /\ ~(EntryOf(p)'.blockedUntil > now)
      <4>1. throttle'.entries = LiftBlock(throttle.entries, p)
        BY <2>1 DEF LiftBlock
      <4>2. CASE p \in DOMAIN throttle.entries
        <5>1. EntryOf(p)' = [EntryOf(p) EXCEPT !.blockedUntil = 0]
          BY <4>1, <4>2 DEF EntryOf, Entry, LiftBlock
        <5>2. \A e \in ThrottleEntry :
                /\ [e EXCEPT !.blockedUntil = 0] \in ThrottleEntry
                /\ [e EXCEPT !.blockedUntil = 0].failures = e.failures
                /\ [e EXCEPT !.blockedUntil = 0].blockedUntil = 0
          BY DEF ThrottleEntry
        <5>3. /\ EntryOf(p)' \in ThrottleEntry /\ EntryOf(p)'.failures = EntryOf(p).failures
              /\ EntryOf(p)'.blockedUntil = 0
          BY <3>2, <5>1, <5>2
        <5> QED
          BY <3>1, <5>3
      <4>3. CASE p \notin DOMAIN throttle.entries
        <5>1. EntryOf(p)' = EntryOf(p)
          BY <4>1, <4>3 DEF EntryOf, Entry, LiftBlock
        <5> QED
          BY <3>2, <5>1
      <4> QED
        BY <4>2, <4>3
    <3>4. Len(misses[p]) <= Larger(FailureLimit, Workforce) - 1
      BY <3>1, <3>2 DEF GuessesOK, Blocks
    <3>5. Remembers(EntryOf(p)', misses[p], now)
      BY <3>1, <3>3 DEF GuessesOK, Remembers
    <3>6. \A v : Blocks(misses[p], EntryOf(p)'.blockedUntil, v, now)
      BY <3>3, <3>4 DEF Blocks
    <3> QED
      BY <3>1, <3>3, <3>5, <3>6 DEF GuessesOK
  <2>8. \A q \in Pairs : GuessesOK(q)'
    BY <2>6, <2>7
  <2> QED
    BY <1>1, <2>1, <2>5, <2>8 DEF GuessesInv
<1> QED
  BY <1>2, <1>3

LEMMA WrongGuesses ==
  ASSUME SessionsInv, GuessesInv, NEW w \in Workers, WrongPassword(w)
  PROVE  GuessesInv'
<1>0. PICK u \in Users, c \in Clients : u = req[w].user /\ c = req[w].from
  BY DEF SessionsInv, TypeOK, RequestOK, GuessesInv, WrongPassword
<1> DEFINE p == <<u, c>>
<1>1. /\ req[w].pc = "verify" /\ req[w].key = c /\ p \in Pairs /\ now' = now /\ now \in Nat
      /\ req' = [req EXCEPT ![w] = Idle] /\ DOMAIN req = Workers
  BY <1>0 DEF SessionsInv, TypeOK, GuessesInv, WrongPassword, Ends, Pairs
<1>2. PICK t \in RecordFailure(throttle, p, now) :
        /\ throttle' = t
        /\ misses' = [q \in Pairs |-> CASE q = p -> Append(misses[q], now)
                       [] q \in {a \in DOMAIN throttle.entries \ DOMAIN t.entries :
                                   ~Dead(throttle.entries[a], now)} -> << >>
                       [] OTHER -> misses[q]]
  BY <1>0, <1>1 DEF WrongPassword
<1> DEFINE entry == Entry(throttle.entries, p)
           m == misses[p]
           v == Cardinality(Guessing(p))
           counted == CountFailure(entry, now)
<1>3. /\ entry \in ThrottleEntry /\ Remembers(entry, m, now)
      /\ Blocks(m, entry.blockedUntil, v, now)
  BY <1>1 DEF GuessesInv, GuessesOK, EntryOf
<1>4. req'[w] = Idle /\ Idle.pc = "idle" /\ \A x \in Workers \ {w} : req'[x] = req[x]
  BY <1>1 DEF Idle
<1>5. /\ Guessing(p)' = Guessing(p) \ {w} /\ w \in Guessing(p)
      /\ \A q \in Pairs \ {p} : Guessing(q)' = Guessing(q)
  BY <1>0, <1>1, <1>4 DEF Guessing
<1>6. v \in 1 .. Workforce /\ Cardinality(Guessing(p)') = v - 1
  <2>1. IsFiniteSet(Guessing(p)) /\ v \in 0 .. Workforce
    BY GuessersFinite
  <2>2. Cardinality(Guessing(p) \ {w}) = v - 1
    BY <1>5, <2>1, FS_RemoveElement
  <2>3. Cardinality(Guessing(p) \ {w}) \in Nat
    BY <2>1, FS_RemoveElement, FS_CardinalityType
  <2>4. Cardinality(Guessing(p)') = Cardinality(Guessing(p) \ {w})
    BY <1>5
  <2> HIDE DEF v
  <2> QED
    BY <2>1, <2>2, <2>3, <2>4, LimitsOK
<1> HIDE DEF v
<1> DEFINE arms == Len(m) + 1 >= FailureLimit /\ entry.blockedUntil <= now
           until == IF arms THEN now + FailureBlock ELSE entry.blockedUntil
<1>7. /\ counted = [failures |-> Append(m, now), blockedUntil |-> until]
      /\ counted \in ThrottleEntry /\ Remembers(counted, Append(m, now), now)
      /\ ~Dead(counted, now)
  <2> HIDE DEF entry, m
  <2> QED
    BY <1>1, <1>3, CountIs
<1>8. Blocks(Append(m, now), until, v - 1, now)
  <2>1. entry.blockedUntil \in Nat /\ Past(m, now)
    BY <1>3 DEF ThrottleEntry, Remembers
  <2> HIDE DEF entry, m
  <2> QED
    BY <1>1, <1>3, <1>6, <2>1, MissBlocks
<1>9. /\ p \in DOMAIN t.entries /\ t.entries[p] = counted
      /\ \A q \in DOMAIN t.entries \ {p} :
           q \in DOMAIN throttle.entries /\ t.entries[q] = throttle.entries[q]
  <2>1. t \in RecordFailure(throttle, p, now) /\ now \in Nat /\ ~Dead(counted, now)
    BY <1>1, <1>2, <1>7
  <2> QED
    BY <2>1, RecordIs
<1>10. EntryOf(p)' = counted /\ misses'[p] = Append(m, now)
  BY <1>1, <1>2, <1>9 DEF EntryOf, Entry
<1> HIDE DEF until, counted, entry, m
<1>11. counted.blockedUntil = until
  BY <1>7
<1>12. GuessesOK(p)'
  BY <1>1, <1>6, <1>7, <1>8, <1>10, <1>11 DEF GuessesOK
<1>13. ASSUME NEW q \in Pairs \ {p} PROVE GuessesOK(q)'
  <2>1. GuessesOK(q) /\ Guessing(q)' = Guessing(q)
    BY <1>5 DEF GuessesInv
  <2>2. CASE q \in DOMAIN t.entries
    <3>1. EntryOf(q)' = EntryOf(q) /\ misses'[q] = misses[q]
      BY <1>2, <1>9, <2>2 DEF EntryOf, Entry
    <3> QED
      BY <1>1, <2>1, <3>1 DEF GuessesOK
  <2>3. CASE q \notin DOMAIN t.entries /\ q \notin DOMAIN throttle.entries
    <3>1. EntryOf(q)' = EntryOf(q) /\ misses'[q] = misses[q]
      BY <1>2, <2>3 DEF EntryOf, Entry
    <3> QED
      BY <1>1, <2>1, <3>1 DEF GuessesOK
  <2>4. CASE q \notin DOMAIN t.entries /\ q \in DOMAIN throttle.entries
    <3>1. EntryOf(q)' = NoEntry
      BY <1>2, <2>4 DEF EntryOf, Entry
    <3>2. misses'[q] = << >>
      <4>1. CASE ~Dead(throttle.entries[q], now)
        BY <1>2, <2>4, <4>1
      <4>2. CASE Dead(throttle.entries[q], now)
        <5>1. misses'[q] = misses[q]
          BY <1>2, <4>2
        <5>2. /\ EntryOf(q) = throttle.entries[q] /\ EntryOf(q) \in ThrottleEntry
              /\ Remembers(EntryOf(q), misses[q], now)
          BY <2>1, <2>4 DEF EntryOf, Entry, GuessesOK
        <5>3. InWindow(EntryOf(q).failures, now) = << >>
          BY <4>2, <5>2 DEF Dead
        <5>4. misses[q] = << >>
          BY <1>1, <5>2, <5>3, KeptIs
        <5> QED
          BY <5>1, <5>4
      <4> QED
        BY <4>1, <4>2
    <3>3. \A x : /\ NoEntry \in ThrottleEntry /\ Remembers(NoEntry, << >>, now)
                 /\ Blocks(<< >>, NoEntry.blockedUntil, x, now)
      BY <1>1, NothingMissed
    <3> QED
      BY <1>1, <3>1, <3>2, <3>3 DEF GuessesOK
  <2> QED
    BY <2>2, <2>3, <2>4
<1>14. \A q \in Pairs : GuessesOK(q)'
  BY <1>12, <1>13
<1>15. misses' \in [Pairs -> Seq(Nat)]
  <2>1. DOMAIN misses' = Pairs /\ misses' = [q \in Pairs |-> misses'[q]]
    BY <1>2
  <2>2. \A q \in Pairs : misses'[q] \in Seq(Nat)
    BY <1>14 DEF GuessesOK, Remembers, Past, Ordered
  <2> QED
    BY <2>1, <2>2
<1>16. \A x \in Workers :
         req'[x].pc = "verify" => req'[x].from \in Clients /\ req'[x].key = req'[x].from
  BY <1>4 DEF GuessesInv
<1>17. DOMAIN throttle' = {"entries", "calls"}
  BY <1>2 DEF RecordFailure
<1> QED
  BY <1>1, <1>14, <1>15, <1>16, <1>17 DEF GuessesInv

LEMMA RightGuesses ==
  ASSUME SessionsInv, GuessesInv, NEW w \in Workers, RightPassword(w)
  PROVE  GuessesInv'
<1>0. PICK u \in Users, c \in Clients : u = req[w].user /\ c = req[w].from
  BY DEF SessionsInv, TypeOK, RequestOK, GuessesInv, RightPassword
<1> DEFINE p == <<u, c>>
           r == [Idle EXCEPT !.pc = "read", !.user = u]
<1>1. /\ req[w].pc = "verify" /\ req[w].key = c /\ p \in Pairs /\ now' = now /\ now \in Nat
      /\ req' = [req EXCEPT ![w] = r] /\ DOMAIN req = Workers
  BY <1>0 DEF SessionsInv, TypeOK, GuessesInv, RightPassword, Pairs
<1>2. /\ DOMAIN throttle = {"entries", "calls"} /\ DOMAIN throttle' = {"entries", "calls"}
      /\ throttle'.entries = Without(throttle.entries, {p})
      /\ misses' = [misses EXCEPT ![p] = << >>] /\ misses \in [Pairs -> Seq(Nat)]
  BY <1>0, <1>1 DEF RightPassword, ClearFailures, GuessesInv
<1>3. req'[w] = r /\ r.pc = "read" /\ \A x \in Workers \ {w} : req'[x] = req[x]
  BY <1>1 DEF Idle
<1> HIDE DEF r
<1>4. \A q \in Pairs \ {p} : Guessing(q)' = Guessing(q)
  BY <1>0, <1>1, <1>3 DEF Guessing
<1>5. EntryOf(p)' = NoEntry /\ misses'[p] = << >>
  BY <1>1, <1>2 DEF EntryOf, Entry, Without
<1>6. \A q \in Pairs \ {p} : EntryOf(q)' = EntryOf(q) /\ misses'[q] = misses[q]
  BY <1>2 DEF EntryOf, Entry, Without
<1>7. \A x : /\ NoEntry \in ThrottleEntry /\ Remembers(NoEntry, << >>, now)
             /\ Blocks(<< >>, NoEntry.blockedUntil, x, now)
  BY <1>1, NothingMissed
<1>8. GuessesOK(p)'
  BY <1>1, <1>5, <1>7 DEF GuessesOK
<1>9. \A q \in Pairs \ {p} : GuessesOK(q)'
  BY <1>1, <1>4, <1>6 DEF GuessesInv, GuessesOK
<1>10. \A x \in Workers :
         req'[x].pc = "verify" => req'[x].from \in Clients /\ req'[x].key = req'[x].from
  BY <1>3 DEF GuessesInv
<1>11. misses' \in [Pairs -> Seq(Nat)]
  BY <1>2, EmptySeq
<1> QED
  BY <1>1, <1>2, <1>8, <1>9, <1>10, <1>11 DEF GuessesInv

LEMMA TickGuesses ==
  ASSUME GuessesInv, Tick, FailureBlock >= FailureWindow
  PROVE  GuessesInv'
<1>1. /\ now \in Nat /\ now' = now + 1 /\ now' \in Nat
      /\ UNCHANGED <<throttle, req>>
      /\ misses' = [p \in Pairs |-> Recent(misses[p], FailureWindow, now + 1)]
  BY DEF GuessesInv, Tick
<1>2. ASSUME NEW p \in Pairs PROVE GuessesOK(p)'
  <2> DEFINE later == Recent(misses[p], FailureWindow, now + 1)
             v == Cardinality(Guessing(p))
  <2>1. /\ GuessesOK(p) /\ EntryOf(p)' = EntryOf(p) /\ Cardinality(Guessing(p)') = v
        /\ misses'[p] = later
    BY <1>1 DEF GuessesInv, EntryOf, Guessing
  <2>2. v \in Nat
    BY GuessersFinite, LimitsOK
  <2>3. /\ Past(misses[p], now) /\ EntryOf(p).blockedUntil \in Nat
        /\ Remembers(EntryOf(p), misses[p], now)
        /\ Blocks(misses[p], EntryOf(p).blockedUntil, v, now)
    BY <2>1 DEF GuessesOK, Remembers, ThrottleEntry
  <2> HIDE DEF v
  <2>4. Remembers(EntryOf(p), later, now + 1)
    BY <1>1, <2>3, TickRemembers
  <2>5. Blocks(later, EntryOf(p).blockedUntil, v, now + 1)
    BY <1>1, <2>2, <2>3, TickBlocks
  <2> HIDE DEF later
  <2> QED
    BY <1>1, <2>1, <2>4, <2>5 DEF GuessesOK
<1>3. misses' \in [Pairs -> Seq(Nat)]
  <2>1. DOMAIN misses' = Pairs /\ misses' = [q \in Pairs |-> misses'[q]]
    BY <1>1
  <2>2. \A q \in Pairs : misses'[q] \in Seq(Nat)
    BY <1>2 DEF GuessesOK, Remembers, Past, Ordered
  <2> QED
    BY <2>1, <2>2
<1> QED
  BY <1>1, <1>2, <1>3 DEF GuessesInv

LEMMA GuessesInit == Init => GuessesInv
<1> SUFFICES ASSUME Init PROVE GuessesInv
  OBVIOUS
<1>1. /\ now = 1 /\ misses \in [Pairs -> Seq(Nat)] /\ \A p \in Pairs : misses[p] = << >>
      /\ \A w \in Workers : req[w].pc # "verify"
      /\ DOMAIN throttle.entries = {} /\ DOMAIN throttle = {"entries", "calls"}
  BY EmptySeq DEF Init, Idle, NewThrottle
<1>2. \A p \in Pairs : EntryOf(p) = NoEntry
  BY <1>1 DEF EntryOf, Entry
<1>3. \A x : /\ NoEntry \in ThrottleEntry /\ Remembers(NoEntry, << >>, 1)
             /\ Blocks(<< >>, NoEntry.blockedUntil, x, 1)
  BY NothingMissed
<1>4. \A p \in Pairs : GuessesOK(p)
  BY <1>1, <1>2, <1>3 DEF GuessesOK
<1> QED
  BY <1>1, <1>4 DEF GuessesInv

LEMMA GuessesStep ==
  EachAsHimself /\ FailureBlock >= FailureWindow /\ GuessesInv /\ SessionsInv /\ [Next]_vars
    => GuessesInv'
<1> SUFFICES ASSUME EachAsHimself, FailureBlock >= FailureWindow, GuessesInv, SessionsInv,
                    [Next]_vars
             PROVE  GuessesInv'
  OBVIOUS
<1>0. DOMAIN req = Workers
  BY DEF SessionsInv, TypeOK
<1>1. CASE Tick
  BY <1>1, TickGuesses
<1>2. ASSUME NEW w \in Workers, NEW u \in Users, NEW c \in Clients, Login(w, u, c)
      PROVE  GuessesInv'
  BY <1>2, LoginGuesses
<1>3. ASSUME NEW w \in Workers, NEW u \in Users, NEW c \in Clients, NEW route,
             Anonymous(w, u, c, route)
      PROVE  GuessesInv'
  <2>1. /\ req[w].pc = "idle" /\ UNCHANGED <<now, throttle, misses>>
        /\ \A v \in Workers \ {w} : req'[v] = req[v]
    BY <1>0, <1>3 DEF Anonymous, Arrive
  <2>2. req'[w] = req[w] \/ req'[w].pc # "verify"
    BY <1>0, <1>3 DEF Anonymous, Idle
  <2> QED
    BY <2>1, <2>2, SameGuesses
<1>4. ASSUME NEW w \in Workers, NEW i \in DOMAIN sessions, NEW pc \in {"read", "logout"},
             Authenticated(w, i, pc)
      PROVE  GuessesInv'
  <2>1. /\ req[w].pc = "idle" /\ UNCHANGED <<now, throttle, misses>>
        /\ \A v \in Workers \ {w} : req'[v] = req[v]
    BY <1>0, <1>4 DEF Authenticated, Arrive
  <2>2. req'[w] = req[w] \/ req'[w].pc # "verify"
    BY <1>0, <1>4 DEF Authenticated, Idle
  <2> QED
    BY <2>1, <2>2, SameGuesses
<1>5. ASSUME NEW w \in Workers, WrongPassword(w)
      PROVE  GuessesInv'
  BY <1>5, WrongGuesses
<1>6. ASSUME NEW w \in Workers, RightPassword(w)
      PROVE  GuessesInv'
  BY <1>6, RightGuesses
<1>7. ASSUME NEW w \in Workers,
             \/ CreateAccount(w) \/ ReadActive(w) \/ RevokeExcess(w)
             \/ InsertSession(w) \/ RevokeSession(w)
      PROVE  GuessesInv'
  <2>1. UNCHANGED <<now, throttle, misses>>
    BY <1>7 DEF CreateAccount, ReadActive, RevokeExcess, InsertSession, RevokeSession
  <2>2. \A v \in Workers \ {w} : req'[v] = req[v]
    BY <1>0, <1>7 DEF CreateAccount, ReadActive, RevokeExcess, InsertSession, RevokeSession,
                      Ends, Goes
  <2>3. req[w].pc # "verify" /\ req'[w].pc # "verify"
    <3>1. req[w] \in Request
      BY DEF SessionsInv, TypeOK
    <3>2. \A pc : [req[w] EXCEPT !.pc = pc].pc = pc
      BY <3>1 DEF Request
    <3>3. \A x, pc : [req[w] EXCEPT !.excess = x, !.pc = pc].pc = pc
      BY <3>1 DEF Request
    <3>4. CASE CreateAccount(w)
      <4>1. /\ req[w].pc = "create"
            /\ \/ req' = [req EXCEPT ![w] = Idle]
               \/ req' = [req EXCEPT ![w] = [req[w] EXCEPT !.pc = "read"]]
        BY <3>4 DEF CreateAccount, Ends, Goes
      <4>2. req'[w] = Idle \/ req'[w] = [req[w] EXCEPT !.pc = "read"]
        BY <1>0, <4>1
      <4>3. Idle.pc = "idle" /\ [req[w] EXCEPT !.pc = "read"].pc = "read"
        BY <3>1 DEF Idle, Request
      <4>4. req'[w].pc \in {"idle", "read"}
        BY <4>2, <4>3
      <4> QED
        BY <4>1, <4>4
    <3>5. CASE ReadActive(w)
      BY <1>0, <3>1, <3>5 DEF ReadActive, Request
    <3>6. CASE RevokeExcess(w)
      BY <1>0, <3>1, <3>6 DEF RevokeExcess, Request
    <3>7. CASE InsertSession(w)
      BY <1>0, <3>7 DEF InsertSession, Ends, Idle
    <3>8. CASE RevokeSession(w)
      BY <1>0, <3>8 DEF RevokeSession, Ends, Idle
    <3> QED
      BY <1>7, <3>4, <3>5, <3>6, <3>7, <3>8
  <2> QED
    BY <2>1, <2>2, <2>3, SameGuesses
<1>8. CASE UNCHANGED vars
  BY <1>8, SameGuesses DEF vars
<1>9. ASSUME NEW w \in Workers, NEW u \in Users, NEW c \in Clients,
             Signup(w, u, c) \/ DemoLogin(w, u, c)
      PROVE  GuessesInv'
  BY <1>3, <1>9 DEF Signup, DemoLogin
<1>10. ASSUME NEW w \in Workers, NEW i \in DOMAIN sessions,
              SwitchWorkspace(w, i) \/ Logout(w, i)
       PROVE  GuessesInv'
  BY <1>4, <1>10 DEF SwitchWorkspace, Logout
<1> QED
  BY <1>1, <1>2, <1>5, <1>6, <1>7, <1>8, <1>9, <1>10 DEF Next

\* AuthThrottleService, however its entries are swept and evicted: within a window a
\* client that is no proxy gets at most FailureLimit wrong guesses at an account
\* and one for each further request that passed the check before the block was
\* armed, whatever headers it sends along.
THEOREM GuessesAreBounded ==
  ASSUME IsProxy(Proxy), \A c \in Clients : ~IsProxy(c),
         NEW Hops, Clients \subseteq Hops, Forged \subseteq Seq(Hops)
  PROVE  Spec => []GuessesBounded
<1>1. EachAsHimself
  BY ForgedHopsIgnored DEF EachAsHimself
<1>2. CASE FailureBlock >= FailureWindow
  <2>1. GuessesInv => GuessesBounded
    <3> SUFFICES ASSUME GuessesInv, NEW p \in Pairs
                 PROVE  \/ Len(misses[p]) < FailureLimit + Cardinality(Workers)
                        \/ Len(misses[p]) < 2 * Cardinality(Workers)
      BY DEF GuessesBounded
    <3>1. GuessesOK(p)
      BY DEF GuessesInv
    <3>2. Len(misses[p]) \in Nat /\ EntryOf(p).blockedUntil \in Nat /\ now \in Nat
      BY <3>1 DEF GuessesInv, GuessesOK, Remembers, Past, Ordered, ThrottleEntry
    <3>3. Cardinality(Guessing(p)) \in Nat
      BY GuessersFinite, LimitsOK
    <3>4. Len(misses[p]) <= Larger(FailureLimit, Workforce) + Workforce - 1
      BY <3>1, <3>2, <3>3, LimitsOK DEF GuessesOK, Blocks
    <3> QED
      BY <3>2, <3>4, LimitsOK DEF Larger, Workforce
  <2> QED
    BY <1>1, <1>2, <2>1, GuessesInit, GuessesStep, SessionsInvariant, PTL DEF Spec
<1>3. CASE ~(FailureBlock >= FailureWindow)
  <2>1. GuessesBounded
    BY <1>3 DEF GuessesBounded
  <2> QED
    BY <2>1, PTL
<1> QED
  BY <1>2, <1>3
=============================================================================
