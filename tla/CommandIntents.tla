--------------------------- MODULE CommandIntents ---------------------------
(***************************************************************************)
(* useCommandMutation against executeIdempotent: the pending command of one *)
(* form in one browser tab.  A hook keeps the command's payload and key in   *)
(* memory and in sessionStorage until it knows the outcome; the page may be  *)
(* reloaded, and the form unmounted and mounted again, at any time.          *)
(*                                                                         *)
(* A key stands for the intent that carries it: the payload and the creation*)
(* time never leave its side.                                               *)
(***************************************************************************)
EXTENDS Idempotency

CONSTANTS
  Hooks,     \* instances of the hook that can be alive at once
  Recovery,  \* MAX_RECOVERY_AGE: a key older than this is not sent (23 hours)
  Tolerance, \* how far in the future a creation time may lie (5 minutes)
  Skew       \* how much the clock of the browser may be moved

ASSUME SkewAssumption ==
  /\ Recovery \in Nat /\ Tolerance \in Nat /\ Skew \in Nat
  /\ Recovery + Skew <= RetryWindow
  /\ None \notin Keys \cup Hooks

VARIABLES
  offset,    \* the clock of the browser minus now
  intent,    \* payload and creation time of each key
  stored,    \* the intent in sessionStorage
  hook,      \* the state of each hook instance
  listener,  \* the hook that awaits the answer of each request
  succeeded, \* keys whose success the user has been shown
  refused,   \* keys dropped after a 4xx
  resolved   \* keys dropped after the user verified their outcome

userVars   == <<succeeded, refused, resolved>>
browser    == <<offset, intent, stored, hook, listener, userVars>>
intentVars == <<idemVars, browser>>

NotMounted == [mounted |-> FALSE, key |-> None, unknown |-> FALSE, expired |-> FALSE,
               inFlight |-> FALSE]

IntentInit ==
  /\ Init
  /\ offset = 0
  /\ intent = [k \in Keys |-> [payload |-> None, createdAt |-> 0]]
  /\ stored = None
  /\ hook = [h \in Hooks |-> NotMounted]
  /\ listener = [r \in Requests |-> None]
  /\ succeeded = {} /\ refused = {} /\ resolved = {}

Clock == now + offset

RecoveryExpiredNever(k) == FALSE
RecoveryExpired(k) ==
  \/ Clock - intent[k].createdAt >= Recovery
  \/ intent[k].createdAt > Clock + Tolerance

\* The user, or the operating system, moves the browser's clock.
MoveClock(o) == offset' = o /\ UNCHANGED <<idemVars, intent, stored, hook, listener, userVars>>

\* A form that is shown restores the stored intent, whose outcome is unknown.
Mount(h) ==
  /\ \A g \in Hooks : ~hook[g].mounted
  /\ ~hook[h].inFlight
  /\ hook' = [hook EXCEPT ![h] =
       [mounted |-> TRUE, key |-> stored, unknown |-> stored # None,
        expired |-> stored # None /\ RecoveryExpired(stored), inFlight |-> FALSE]]
  /\ UNCHANGED <<idemVars, offset, intent, stored, listener, userVars>>

\* A route change: a mutation under way goes on without its form.
Unmount(h) ==
  /\ hook[h].mounted
  /\ hook' = [hook EXCEPT ![h] =
       IF hook[h].inFlight THEN [hook[h] EXCEPT !.mounted = FALSE] ELSE NotMounted]
  /\ UNCHANGED <<idemVars, offset, intent, stored, listener, userVars>>

\* A reload or a crash of the page; sessionStorage survives it.
Reload ==
  /\ \E h \in Hooks : hook[h] # NotMounted
  /\ hook' = [h \in Hooks |-> NotMounted]
  /\ listener' = [r \in Requests |-> None]
  /\ UNCHANGED <<idemVars, offset, intent, stored, userVars>>

-----------------------------------------------------------------------------
(* mutate: a second submit while one is in flight is ignored.               *)

Post(h, r, k) ==
  /\ stored' = k
  /\ hook' = [hook EXCEPT ![h].key = k, ![h].inFlight = TRUE]
  /\ listener' = [listener EXCEPT ![r] = h]
  /\ UNCHANGED <<offset, userVars>>

\* A new intent gets a new key (crypto.randomUUID).
SubmitNew(h, r, k, p) ==
  /\ hook[h].mounted /\ ~hook[h].inFlight /\ hook[h].key = None
  /\ intent[k].payload = None
  /\ intent' = [intent EXCEPT ![k] = [payload |-> p, createdAt |-> Clock]]
  /\ Arrive(r, k, p)
  /\ Post(h, r, k)

\* The first intent's value and key are sent again.
Retry(h, r) ==
  LET k == hook[h].key IN
  /\ hook[h].mounted /\ ~hook[h].inFlight /\ k # None
  /\ ~RecoveryExpired(k)
  /\ Arrive(r, k, intent[k].payload) /\ UNCHANGED intent
  /\ Post(h, r, k)

RetryTooLate(h) ==
  /\ hook[h].mounted /\ ~hook[h].inFlight /\ hook[h].key # None
  /\ RecoveryExpired(hook[h].key)
  /\ hook' = [hook EXCEPT ![h].expired = TRUE, ![h].unknown = TRUE]
  /\ UNCHANGED <<idemVars, offset, intent, stored, listener, userVars>>

\* "I verified the outcome", offered once the intent has expired.
ResolveExpired(h) ==
  LET k == hook[h].key IN
  /\ hook[h].mounted /\ hook[h].expired /\ k # None /\ RecoveryExpired(k)
  /\ hook' = [hook EXCEPT ![h].key = None, ![h].unknown = FALSE, ![h].expired = FALSE]
  /\ stored' = IF stored = k THEN None ELSE stored
  /\ resolved' = resolved \cup {k}
  /\ UNCHANGED <<idemVars, offset, intent, listener, succeeded, refused>>

-----------------------------------------------------------------------------
(* The end of a mutation.                                                   *)

Settle(h, r) ==
  /\ listener[r] = h
  /\ listener' = [listener EXCEPT ![r] = None]
  /\ UNCHANGED <<offset, intent, resolved>>

ClearStored(k) == stored' = IF stored = k THEN None ELSE stored

\* What is left of a hook: its state goes with its form.
Left(h, state) == IF hook[h].mounted THEN state ELSE NotMounted

OnSuccess(h, r) ==
  /\ req[r].answer = "ok" /\ Forget(r) /\ Settle(h, r)
  /\ hook' = [hook EXCEPT ![h] =
       Left(h, [@ EXCEPT !.key = None, !.inFlight = FALSE,
                         !.unknown = FALSE, !.expired = FALSE])]
  /\ ClearStored(req[r].key)
  /\ succeeded' = succeeded \cup {req[r].key}
  /\ UNCHANGED refused

KnownOnRefusal(h, answer) == answer \in {"refused", "conflict"}
\* A 4xx settles the outcome only when no earlier attempt has left it unknown.
Known(h, answer) == ~hook[h].unknown /\ answer \in {"refused", "conflict"}

OnError(h, r) ==
  LET known == Known(h, req[r].answer) IN
  /\ req[r].pc = "answered" /\ req[r].answer # "ok"
  /\ Forget(r) /\ Settle(h, r)
  /\ hook' = [hook EXCEPT ![h] =
       Left(h, [hook[h] EXCEPT !.inFlight = FALSE, !.unknown = ~known,
                               !.key = IF known THEN None ELSE hook[h].key])]
  /\ IF known THEN ClearStored(req[r].key) ELSE UNCHANGED stored
  /\ refused' = IF known THEN refused \cup {req[r].key} ELSE refused
  /\ UNCHANGED succeeded

\* The browser gives the request up (network error, timeout) wherever it is.
OnNetworkError(h, r) ==
  /\ Settle(h, r)
  /\ hook' = [hook EXCEPT ![h] = Left(h, [@ EXCEPT !.inFlight = FALSE, !.unknown = TRUE])]
  /\ UNCHANGED <<idemVars, stored, succeeded, refused>>

-----------------------------------------------------------------------------
\* The server's part; an answer nobody listens for is dropped.
Serve ==
  /\ \/ Tick
     \/ \E r \in Requests : Handle(r)
     \/ \E r \in Requests : listener[r] = None /\ Forget(r)
  /\ UNCHANGED browser

IntentNext ==
  \/ Serve
  \/ Reload
  \/ \E o \in 0 .. Skew : MoveClock(o)
  \/ \E h \in Hooks : Mount(h) \/ Unmount(h) \/ RetryTooLate(h) \/ ResolveExpired(h)
  \/ \E h \in Hooks, r \in Requests :
       \/ Retry(h, r) \/ OnSuccess(h, r) \/ OnError(h, r) \/ OnNetworkError(h, r)
       \/ \E k \in Keys, p \in Payloads : SubmitNew(h, r, k, p)

IntentSpec == IntentInit /\ [][IntentNext]_intentVars

-----------------------------------------------------------------------------
(* Properties.                                                              *)

Held(k) == stored = k \/ \E h \in Hooks : hook[h].key = k

\* The comment of useCommandMutation: "Keep the exact submitted payload and key
\* until its outcome is known."  A command of a form that took effect without the
\* user having seen its success is still held, unless the user resolved it.
KeptUntilKnown ==
  \A k \in Keys : intent[k].payload # None /\ effects[k] # <<>> =>
    k \in succeeded \cup resolved \/ Held(k)

\* A command reported as refused has had no effect and never has one later,
\* through no earlier attempt that is still under way.
RefusalIsFinal == \A k \in refused \ resolved : effects[k] = <<>>

\* A command reported as done took effect exactly once, with its own payload.
SuccessIsReal == \A k \in succeeded : effects[k] = <<intent[k].payload>>

\* What the user has been told about a command is what has become of it, and stays so.
ReportsAreTrue == RefusalIsFinal /\ SuccessIsReal

\* The browser keeps the promise on which the server's guarantee rests: no key
\* is sent after its retry window, whatever its clock does and however often
\* the page is reloaded.
ServerUse == Spec
=============================================================================
