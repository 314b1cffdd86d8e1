------------------------------- MODULE Logins -------------------------------
(***************************************************************************)
(* Signing in: the rate limiter and the per-account throttle in the memory   *)
(* of the API process, and the rows of the sessions table.  A request runs   *)
(* up to its next await in one step; the statements of issueSession are      *)
(* separate, for they share no transaction.                                  *)
(*                                                                         *)
(* Time passes in ticks.  A request comes from a client, directly or through *)
(* the reverse proxy, with a forwarded-for header the client may have begun. *)
(***************************************************************************)
EXTENDS ClientAddress, AuthThrottle

CONSTANTS
  Users,          \* accounts, by their normalised email
  DemoUsers,      \* those of them a demo login issues sessions for
  Clients,        \* addresses requests really come from
  Proxy,          \* address of the reverse proxy
  Forged,         \* headers a client may send along
  Workers,        \* requests handled at once
  None,
  MaxActive,      \* MAX_ACTIVE_SESSIONS_PER_USER
  SessionTtl,     \* SESSION_TTL_HOURS, in ticks
  Horizon,        \* bound: last tick
  MaxRequests     \* bound: requests

Routes == {"login", "signup", "demo-login"}

ASSUME LoginsAssumption ==
  /\ IsFiniteSet(Workers) /\ None \notin Users /\ DemoUsers \subseteq Users
  /\ Users \cap (Routes \X Clients) = {}  \* the tiers of the limiter share no key
  /\ MaxActive \in Nat \ {0} /\ SessionTtl \in Nat \ {0}
  /\ Horizon \in Nat /\ MaxRequests \in Nat

VARIABLES
  now,
  registered, \* users with an account
  limiter,    \* per tier, "auth" and "user": its buckets and its calls since the last sweep
  throttle,   \* entries and calls since the last sweep
  sessions,   \* rows in the order of their creation; purged ones keep their place
  req,        \* what each worker is doing
  requests,   \* number of requests so far
  admitted,   \* history: times at which the limiter let requests of a key pass
  misses      \* history: times of failed verifications, per user and client

vars == <<now, registered, limiter, throttle, sessions, req, requests, admitted, misses>>

Pairs == Users \X Clients

Idle == [pc   |-> "idle", \* "verify", "create", "read", "revoke", "insert", "logout"
         user |-> None,
         from |-> None,   \* client the request really comes from
         key  |-> None,   \* client as the server resolved it
         id   |-> 0,      \* session of an authenticated request
         excess |-> {}]   \* sessions issueSession is about to revoke

Init ==
  /\ now = 1
  /\ registered = DemoUsers
  /\ limiter = [tier \in {"auth", "user"} |-> NewLimiter]
  /\ throttle = NewThrottle
  /\ sessions = << >>
  /\ req = [w \in Workers |-> Idle]
  /\ requests = 0
  /\ admitted = [k \in (Routes \X Clients) \cup Users |-> << >>]
  /\ misses = [p \in Pairs |-> << >>]

-----------------------------------------------------------------------------
(* A request arrives.                                                       *)

Arrive(w) == req[w].pc = "idle" /\ requests < MaxRequests /\ requests' = requests + 1

\* What the server may take for the address of a client: it calls directly or
\* through the proxy, which appends the caller to the header.
Seen == [c \in Clients |->
  {ResolveClientAddress(c, f) : f \in Forged}
    \cup {ResolveClientAddress(Proxy, Append(f, c)) : f \in Forged}]

\* RateLimitGuard.  The history knows a request by where it really comes from;
\* it is forgotten when the bucket of a running window is evicted.
Enforce(tier, key, source) ==
  \E l \in Consume(limiter[tier], key, now) :
    LET old == limiter[tier].buckets
        evicted == {k \in DOMAIN old \ DOMAIN l.buckets : Current(old, k, now)}
    IN /\ limiter' = [limiter EXCEPT ![tier] = l]
       /\ admitted' = [k \in DOMAIN admitted |->
            CASE k = source /\ Allowed(old, key, now) -> Append(admitted[k], now)
              [] k \in evicted -> << >>
              [] OTHER -> admitted[k]]

Passes(tier, key) == Allowed(limiter[tier].buckets, key, now)

\* AuthService.login up to the lookup of the user: a blocked pair goes no
\* further.
Login(w, u, c) ==
  /\ Arrive(w)
  /\ \E seen \in Seen[c] :
       LET enters == Passes("auth", <<"login", seen>>) /\ ~Blocked(throttle.entries, <<u, seen>>, now)
       IN /\ Enforce("auth", <<"login", seen>>, <<"login", c>>)
          /\ throttle' = IF enters THEN [throttle EXCEPT !.entries = LiftBlock(@, <<u, seen>>)]
                         ELSE throttle
          /\ req' = IF enters THEN [req EXCEPT ![w] = [Idle EXCEPT !.pc = "verify", !.user = u,
                                                       !.from = c, !.key = seen]]
                    ELSE req
  /\ UNCHANGED <<now, registered, sessions, misses>>

\* signup up to the hash of the password, demoLogin up to issueSession.
Anonymous(w, u, c, route) ==
  /\ Arrive(w)
  /\ \E seen \in Seen[c] :
       LET enters == Passes("auth", <<route, seen>>) /\ (u \in registered <=> route = "demo-login")
       IN /\ Enforce("auth", <<route, seen>>, <<route, c>>)
          /\ req' = IF enters
                    THEN [req EXCEPT ![w] = [Idle EXCEPT !.user = u,
                            !.pc = IF route = "signup" THEN "create" ELSE "read"]]
                    ELSE req
  /\ UNCHANGED <<now, registered, throttle, sessions, misses>>

Signup(w, u, c) == Anonymous(w, u, c, "signup")
DemoLogin(w, u, c) == u \in DemoUsers /\ Anonymous(w, u, c, "demo-login")

Active(i) == sessions[i].state = "live" /\ sessions[i].expires > now

\* SessionGuard, then the limiter of the user; a request whose session is over
\* ends there.  Switching or creating a workspace and accepting an invitation
\* come to issueSession, logging out does not.
Authenticated(w, i, pc) ==
  /\ Arrive(w)
  /\ IF Active(i)
     THEN LET u == sessions[i].user IN
          /\ Enforce("user", u, u)
          /\ req' = IF Passes("user", u)
                    THEN [req EXCEPT ![w] = [Idle EXCEPT !.pc = pc, !.user = u, !.id = i]]
                    ELSE req
     ELSE UNCHANGED <<limiter, admitted, req>>
  /\ UNCHANGED <<now, registered, throttle, sessions, misses>>

SwitchWorkspace(w, i) == Authenticated(w, i, "read")
Logout(w, i) == Authenticated(w, i, "logout")

-----------------------------------------------------------------------------
(* The rest of a request.                                                   *)

Ends(w) == req' = [req EXCEPT ![w] = Idle]
Goes(w, pc) == req' = [req EXCEPT ![w].pc = pc]

\* The password does not match, or there is no such user.
WrongPassword(w) ==
  LET r == req[w]  p == <<r.user, r.from>> IN
  /\ r.pc = "verify"
  /\ \E t \in RecordFailure(throttle, <<r.user, r.key>>, now) :
       LET evicted == {q \in DOMAIN throttle.entries \ DOMAIN t.entries :
                         ~Dead(throttle.entries[q], now)}
       IN /\ throttle' = t
          /\ misses' = [q \in Pairs |-> CASE q = p -> Append(misses[q], now)
                                          [] q \in evicted -> << >>
                                          [] OTHER -> misses[q]]
  /\ Ends(w)
  /\ UNCHANGED <<now, registered, limiter, sessions, requests, admitted>>

RightPassword(w) ==
  LET r == req[w] IN
  /\ r.pc = "verify" /\ r.user \in registered
  /\ throttle' = ClearFailures(throttle, <<r.user, r.key>>)
  /\ misses' = [misses EXCEPT ![<<r.user, r.from>>] = << >>]
  /\ req' = [req EXCEPT ![w] = [Idle EXCEPT !.pc = "read", !.user = r.user]]
  /\ UNCHANGED <<now, registered, limiter, sessions, requests, admitted>>

\* The unique index on the email refuses a second account.
CreateAccount(w) ==
  LET r == req[w] IN
  /\ r.pc = "create"
  /\ registered' = registered \cup {r.user}
  /\ IF r.user \in registered THEN Ends(w) ELSE Goes(w, "read")
  /\ UNCHANGED <<now, limiter, throttle, sessions, requests, admitted, misses>>

\* The oldest of the active sessions beyond the limit; an id is the place of its
\* row in the order of creation.
ExcessWithout(ids) == {}
Excess(ids) == {i \in ids : Cardinality({j \in ids : j > i}) >= MaxActive}

\* Expired rows are deleted, then the active ones are read.
ActiveOf(u) == {i \in DOMAIN sessions : sessions[i].user = u /\ Active(i)}
ReadActive(w) ==
  LET u == req[w].user IN
  /\ req[w].pc = "read"
  /\ sessions' = [i \in DOMAIN sessions |->
       IF sessions[i].user = u /\ sessions[i].expires < now
       THEN [sessions[i] EXCEPT !.state = "gone"] ELSE sessions[i]]
  /\ req' = [req EXCEPT ![w].excess = Excess(ActiveOf(u)),
                        ![w].pc = IF Excess(ActiveOf(u)) = {} THEN "insert" ELSE "revoke"]
  /\ UNCHANGED <<now, registered, limiter, throttle, requests, admitted, misses>>

\* updateMany by id: rows deleted meanwhile are not found.
RevokeExcess(w) ==
  /\ req[w].pc = "revoke"
  /\ sessions' = [i \in DOMAIN sessions |->
       IF i \in req[w].excess /\ sessions[i].state # "gone"
       THEN [sessions[i] EXCEPT !.state = "revoked"] ELSE sessions[i]]
  /\ req' = [req EXCEPT ![w].pc = "insert", ![w].excess = {}]
  /\ UNCHANGED <<now, registered, limiter, throttle, requests, admitted, misses>>

InsertSession(w) ==
  /\ req[w].pc = "insert"
  /\ sessions' = Append(sessions, [user |-> req[w].user, state |-> "live",
                                   expires |-> now + SessionTtl])
  /\ Ends(w)
  /\ UNCHANGED <<now, registered, limiter, throttle, requests, admitted, misses>>

\* revokeSession: the update of a row deleted meanwhile fails.
RevokeSession(w) ==
  LET i == req[w].id IN
  /\ req[w].pc = "logout"
  /\ sessions' = IF sessions[i].state = "gone" THEN sessions
                 ELSE [sessions EXCEPT ![i].state = "out"]
  /\ Ends(w)
  /\ UNCHANGED <<now, registered, limiter, throttle, requests, admitted, misses>>

Tick ==
  /\ now < Horizon
  /\ now' = now + 1
  /\ admitted' = [k \in DOMAIN admitted |-> Recent(admitted[k], RateWindow, now + 1)]
  /\ misses' = [p \in Pairs |-> Recent(misses[p], FailureWindow, now + 1)]
  /\ UNCHANGED <<registered, limiter, throttle, sessions, req, requests>>

Next ==
  \/ Tick
  \/ \E w \in Workers :
       \/ \E u \in Users, c \in Clients : Login(w, u, c) \/ Signup(w, u, c) \/ DemoLogin(w, u, c)
       \/ \E i \in DOMAIN sessions : SwitchWorkspace(w, i) \/ Logout(w, i)
       \/ WrongPassword(w) \/ RightPassword(w) \/ CreateAccount(w)
       \/ ReadActive(w) \/ RevokeExcess(w) \/ InsertSession(w) \/ RevokeSession(w)

Spec == Init /\ [][Next]_vars

-----------------------------------------------------------------------------
(* Properties.                                                              *)

\* Within a window one source gets at most FailureLimit wrong guesses at an
\* account and one for each further request that passed the check before the
\* block was armed, whatever headers it sends along; such late guesses still
\* count when the block ends.  A success of the same pair, or the eviction of
\* its entry, starts the count anew.
GuessesBounded ==
  FailureBlock >= FailureWindow =>
    \A p \in Pairs :
      \/ Len(misses[p]) < FailureLimit + Cardinality(Workers)
      \/ Len(misses[p]) < 2 * Cardinality(Workers)

\* A source, or a user, gets through the limiter at most 2 * MaxWrites - 1
\* times within any span as long as the window: fixed windows let a burst at
\* the end of one and the start of the next pass, and no more.
BurstBounded == \A k \in DOMAIN admitted : Len(admitted[k]) <= 2 * MaxWrites - 1

\* The excess is computed before the insert and by several requests at once, so
\* more than MAX_ACTIVE_SESSIONS_PER_USER stay active: at most one more for
\* each request that can run at once.
SessionsBounded ==
  \A u \in Users : Cardinality(ActiveOf(u)) <= MaxActive + Cardinality(Workers)

\* Hygiene ends only sessions that MaxActive younger ones of the user have
\* followed: nobody is signed out by his own new login.
NewestKept ==
  \A i \in DOMAIN sessions : sessions[i].state = "revoked" =>
    Cardinality({j \in DOMAIN sessions : j > i /\ sessions[j].user = sessions[i].user})
      >= MaxActive
=============================================================================
