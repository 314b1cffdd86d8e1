--------------------------------- MODULE Tabs ---------------------------------
(***************************************************************************)
(* The tabs of one browser: they share the session cookie, while each page     *)
(* keeps in memory the CSRF token it sends with its writes and, in the         *)
(* workspace shell, the membership it showed when it was mounted.  A request    *)
(* carries the cookie of the moment it is sent and passes the guards of the API *)
(* (session, CSRF, permission) before its handler runs.  Meanwhile sessions     *)
(* expire and owners elsewhere change roles and remove members.               *)
(*                                                                         *)
(* Session s is also the CSRF token derived from it.                         *)
(***************************************************************************)
EXTENDS Access, Naturals, FiniteSets

CONSTANTS
  Tabs,
  Requests,     \* requests of the tabs under way at once
  MaxSessions,  \* bound: rows of the sessions table
  Members,      \* memberships, numbered in the order they are created
  UserOf,       \* their users
  OrgOf,        \* their workspaces
  DemoMembers,  \* the canonical members of the demo workspace
  JoinsAs,      \* role of its creator or invitation, for each membership
  Beginnings,   \* accounts, roles and session to begin with, and what is to come:
                \* bounds on the sessions created and on the changes from elsewhere
  Nil

Users == {UserOf[m] : m \in Members \ DemoMembers}

\* The members of the demo workspace are created together.
ASSUME TabsAssumption ==
  /\ Members \subseteq Nat /\ DemoMembers \subseteq Members
  /\ MaxSessions \in Nat
  /\ \A d \in DemoMembers : UserOf[d] \notin Users
  /\ JoinsAs \in [Members -> Roles]
  /\ \A b \in Beginnings :
       /\ b.registered \subseteq Users /\ b.role \in [Members -> Roles \cup {Nil}]
       /\ (\A d \in DemoMembers : b.role[d] # Nil) \/ (\A d \in DemoMembers : b.role[d] = Nil)
       /\ b.cookie # Nil => /\ b.cookie \in 1 .. MaxSessions
                            /\ b.member \in Members /\ b.role[b.member] # Nil
  /\ Nil \notin Tabs /\ Nil \notin Nat /\ Nil \notin Roles /\ Nil \notin {"router", "browser"}
  /\ \A m \in Members : UserOf[m] # Nil

VARIABLES
  registered, \* users with an account
  role,       \* role of each member; Nil: no such membership
  session,    \* rows of the sessions table, in the order of their creation
  cookie,     \* the browser's session cookie
  tab,        \* the page in each tab
  req,        \* requests and their answers
  left        \* what is left of the bounds

tabVars == <<registered, role, session, cookie, tab, req, left>>

Sessions == 1 .. MaxSessions

\* A page of the workspace shows a membership and its role; as history, session is
\* the one it was mounted under.  All others (the
\* sign-in, demo and sign-up forms, the pages to create a workspace and to accept
\* an invitation, the shell before it has read the session) show none, and links
\* lead from each to each.
BlankPage == [view  |-> Nil,
          token |-> Nil,  \* csrfToken of the module api-client
          late  |-> FALSE, \* history: see Late
          next  |-> Nil]  \* "router" or "browser": what replaces this page

Idle == [pc      |-> "idle", \* "csrf", "sent", "answered"
         kind    |-> Nil, arg |-> Nil,
         tab     |-> Nil,   \* Nil: the page that asked is gone
         cookie  |-> Nil,   \* it was sent with; then the session of the answer
         shown   |-> Nil,   \* what the page showed when it asked for a read or
         leaving |-> FALSE,  \* a write, and whether it was about to be replaced
         late    |-> FALSE]  \* history: see Late

Unused == [user |-> Nil, member |-> Nil, live |-> FALSE,
           maker |-> Nil,   \* history: tab whose answer set its cookie,
           known |-> FALSE]  \* history: and whether that page could follow it

TabInit ==
  /\ \E b \in Beginnings :
       /\ registered = b.registered /\ role = b.role /\ cookie = b.cookie /\ left = b.left
       /\ session = [s \in Sessions |-> IF s = b.cookie
                      THEN [Unused EXCEPT !.user = UserOf[b.member], !.member = b.member, !.live = TRUE]
                      ELSE Unused]
  /\ tab = [t \in Tabs |-> BlankPage]
  /\ req = [r \in Requests |-> Idle]

Valid(s) == s # Nil /\ session[s].live

-----------------------------------------------------------------------------
(* Pages.                                                                   *)

\* The browser loads a page: the module state of the old one is gone, and what
\* its requests still bring nobody reads.
Unread(t) ==
  [r \in Requests |->
     IF req[r].tab # t THEN req[r]
     ELSE IF req[r].pc \in {"csrf", "answered"} \/ req[r].shown # Nil THEN Idle
     ELSE [req[r] EXCEPT !.tab = Nil]]
Load(t) == tab' = [tab EXCEPT ![t] = BlankPage] /\ req' = Unread(t)

Open(t) == Load(t) /\ UNCHANGED <<registered, role, session, cookie, left>>

\* The router replaces the page, and the modules stay.
Leave(t) == tab' = [tab EXCEPT ![t].view = Nil, ![t].next = Nil] /\ req' = req

\* A link to another section, which mounts the shell anew, or out of the workspace.
Visit(t) ==
  /\ tab[t].view # Nil /\ tab[t].next = Nil /\ Leave(t)
  /\ UNCHANGED <<registered, role, session, cookie, left>>

\* The page an answer leads to replaces the one that asked.
Arrive(t) ==
  /\ \/ tab[t].next = "router" /\ Leave(t)
     \/ tab[t].next = "browser" /\ Load(t)
  /\ UNCHANGED <<registered, role, session, cookie, left>>

\* WorkspaceShell: without a session or a membership it only has links.
Mount(t) ==
  /\ tab[t].view = Nil /\ Valid(cookie) /\ session[cookie].member # Nil
  /\ LET m == session[cookie].member
     IN  tab' = [tab EXCEPT ![t].view = [member |-> m, role |-> role[m], session |-> cookie]]
  /\ UNCHANGED <<registered, role, session, cookie, req, left>>

-----------------------------------------------------------------------------
(* Requests.  Answers to the first group set the cookie.                     *)

Public == {"login", "signup", "card", "demo"}  \* no guard asks for a session
Signs  == Public \cup {"switch", "join"}
Raw    == {"card"}                             \* by fetch, not by apiRequest
Clears == {"login", "logout"}                  \* clearCsrfToken when answered

Underway(t, kinds) == \E r \in Requests : req[r].tab = t /\ req[r].kind \in kinds

\* A session is left for each request that will create one.
Affordable ==
  Cardinality({r \in Requests : req[r].kind \in Signs /\ req[r].pc \in {"csrf", "sent"}}) < left.sessions

\* CsrfGuard.
CsrfPassesAny(q) == TRUE
CsrfPasses(q) == q.kind \in Public \cup {"read"} \/ q.token = q.cookie

\* A request leaves with the cookie of now.  CsrfGuard looks at nothing but the
\* request, and refuses some of them already here.
Leaving(q, token) ==
  CASE q.kind \in Public    -> [q EXCEPT !.pc = "sent", !.cookie = Nil]
    [] q.kind \notin Public ->
         IF CsrfPasses([kind |-> q.kind, cookie |-> cookie, token |-> token])
         THEN [q EXCEPT !.pc = "sent", !.cookie = cookie] ELSE Idle

\* The page fetches the first token of its module, and the cookie it does so with is
\* no longer the one of the session it was mounted under.
Late(t) == tab[t].token = Nil /\ tab[t].view # Nil /\ tab[t].view.session # cookie

\* apiRequest, up to its first await: whoever has no token fetches one first.
Ask(t, r, kind, arg) ==
  LET q == [Idle EXCEPT !.kind = kind, !.arg = arg, !.tab = t] IN
  /\ req[r].pc = "idle"
  /\ req' = [req EXCEPT ![r] =
       IF kind \notin Raw /\ tab[t].token = Nil
       THEN [q EXCEPT !.pc = "csrf", !.cookie = cookie, !.late = Late(t)]
       ELSE Leaving(q, tab[t].token)]
  /\ UNCHANGED <<registered, role, session, cookie, tab, left>>

\* A form or a button of its own is disabled from its click to the next page.
AskOnce(t, r, kind, arg) ==
  ~Underway(t, {kind}) /\ (kind \in Signs => Affordable) /\ Ask(t, r, kind, arg)

Outside(t) == tab[t].view = Nil /\ ~Underway(t, Public \cup {"join"})
Inside(t)  == tab[t].view # Nil /\ tab[t].next = Nil

LoginForm(t, r)     == Outside(t) /\ \E u \in registered : AskOnce(t, r, "login", u)
SignupForm(t, r)    == Outside(t) /\ \E u \in Users \ registered : AskOnce(t, r, "signup", u)
DemoLoginCard(t, r) == Outside(t) /\ \E d \in DemoMembers : role[d] # Nil /\ AskOnce(t, r, "card", d)

\* CreateWorkspacePage and AcceptInvitationCard, once they have seen a session.
Joins(t, r)      == Outside(t) /\ Valid(cookie) /\ AskOnce(t, r, "join", Nil)
SetupForm(t, r)  == Joins(t, r)
AcceptForm(t, r) == Joins(t, r)

WorkspaceSwitcher(t, r) ==
  /\ Inside(t)
  /\ \E m \in Members \ {tab[t].view.member} :
       UserOf[m] = UserOf[tab[t].view.member] /\ role[m] # Nil /\ AskOnce(t, r, "switch", m)
DemoRoleSwitcher(t, r) ==
  /\ Inside(t) /\ tab[t].view.member \in DemoMembers
  /\ \E d \in DemoMembers \ {tab[t].view.member} : AskOnce(t, r, "demo", d)
SignOut(t, r) == Inside(t) /\ AskOnce(t, r, "logout", Nil)

\* A section writes, and its page has no token yet.
FirstWrite(t, r) ==
  /\ req[r].pc = "idle" /\ tab[t].view # Nil /\ tab[t].token = Nil
  /\ req' = [req EXCEPT ![r] =
       [Idle EXCEPT !.pc = "csrf", !.kind = "write", !.tab = t, !.cookie = cookie,
                    !.shown = tab[t].view, !.leaving = tab[t].next # Nil, !.late = Late(t)]]
  /\ UNCHANGED <<registered, role, session, cookie, tab, left>>

\* readCsrfToken: the token of the cookie it was sent with, if that session is
\* valid, is kept for later writes.  The request goes on with the cookie of now.
Fetched(r) == IF Valid(req[r].cookie) THEN req[r].cookie ELSE Nil

GotToken(r) ==
  /\ req[r].pc = "csrf"
  /\ req' = [req EXCEPT ![r] =
       IF @.kind = "write" THEN Idle ELSE Leaving([@ EXCEPT !.late = FALSE], Fetched(r))]
  /\ tab' = IF Fetched(r) = Nil THEN tab
            ELSE [tab EXCEPT ![req[r].tab].token = Fetched(r), ![req[r].tab].late = req[r].late]
  /\ UNCHANGED <<registered, role, session, cookie, left>>

\* What a section reads or writes changes nothing here, and a change on its way to
\* the API only has it refused: such a request is judged as it leaves.  These
\* can leave now: reads, writes of a page with a token, and writes for which one
\* has just been fetched.
Uses ==
  LET showing == {t \in Tabs : tab[t].view # Nil}
      Use(kind, t, token, shown, leaving, late) ==
        [kind |-> kind, tab |-> t, cookie |-> cookie, token |-> token,
         shown |-> shown, leaving |-> leaving, late |-> late]
  IN  {Use("read", t, Nil, tab[t].view, tab[t].next # Nil, FALSE) : t \in showing}
        \cup {Use("write", t, tab[t].token, tab[t].view, tab[t].next # Nil, tab[t].late) :
                t \in {u \in showing : tab[u].token # Nil}}
        \cup {Use("write", req[r].tab, Fetched(r), req[r].shown, req[r].leaving, req[r].late) :
                r \in {q \in Requests : req[q].pc = "csrf" /\ req[q].kind = "write"}}

-----------------------------------------------------------------------------
(* The API.                                                                 *)

\* SessionGuard and PermissionGuard, and what comes of all three.
SessionPasses(q) == q.kind \in Public \/ Valid(q.cookie)
PermissionPasses(q, permission) ==
  LET m == session[q.cookie].member IN
  permission # Nil => m # Nil /\ Can(role[m], permission)

Verdict(q, permission) ==
  CASE ~SessionPasses(q) -> "401"
    [] SessionPasses(q) /\ ~CsrfPasses(q) -> "csrf"
    [] SessionPasses(q) /\ CsrfPasses(q) /\ ~PermissionPasses(q, permission) -> "role"
    [] OTHER -> "passed"

WithAnswer(r) == [req EXCEPT ![r].pc = "answered", ![r].arg = Nil]

\* issueSession, and the answer that carries the session.
IssueSession(r, user, member) ==
  \E s \in Sessions :
    /\ session[s].user = Nil /\ \A older \in 1 .. s - 1 : session[older].user # Nil
    /\ session' = [session EXCEPT ![s] = [Unused EXCEPT !.user = user, !.member = member, !.live = TRUE]]
    /\ req' = [WithAnswer(r) EXCEPT ![r].cookie = s]
    /\ left' = [left EXCEPT !.sessions = @ - 1]

\* What a handler has committed before it issues a session stays if that fails.
SessionFails(r) == req' = [req EXCEPT ![r] = Idle] /\ UNCHANGED <<session, left>>

\* memberships[0]: the first one that was created.
FirstMembership(user) ==
  LET mine == {m \in Members : UserOf[m] = user /\ role[m] # Nil} IN
  IF mine = {} THEN Nil ELSE CHOOSE m \in mine : \A n \in mine : m <= n

Login(r) ==
  /\ req[r].kind = "login" /\ IssueSession(r, req[r].arg, FirstMembership(req[r].arg))
  /\ UNCHANGED <<registered, role>>

Signup(r) ==
  /\ req[r].kind = "signup" /\ req[r].arg \notin registered
  /\ registered' = registered \cup {req[r].arg}
  /\ IssueSession(r, req[r].arg, Nil) \/ SessionFails(r)
  /\ UNCHANGED role

DemoLogin(r) ==
  /\ req[r].kind \in {"card", "demo"} /\ IssueSession(r, UserOf[req[r].arg], req[r].arg)
  /\ UNCHANGED <<registered, role>>

SwitchWorkspace(r) ==
  LET m == req[r].arg IN
  /\ req[r].kind = "switch" /\ role[m] # Nil /\ UserOf[m] = session[req[r].cookie].user
  /\ IssueSession(r, UserOf[m], m)
  /\ UNCHANGED <<registered, role>>

\* createWorkspace and acceptInvitation.
Join(r) ==
  /\ req[r].kind = "join"
  /\ \E m \in Members \ DemoMembers :
       /\ UserOf[m] = session[req[r].cookie].user /\ role[m] = Nil
       /\ role' = [role EXCEPT ![m] = JoinsAs[m]]
       /\ IssueSession(r, UserOf[m], m) \/ SessionFails(r)
  /\ UNCHANGED registered

Logout(r) ==
  /\ req[r].kind = "logout"
  /\ session' = [session EXCEPT ![req[r].cookie].live = FALSE]
  /\ req' = WithAnswer(r)
  /\ UNCHANGED <<registered, role, left>>

\* A refusal of the guards or of the service, or an error: the page stays as it is.
Fail(r) ==
  /\ req' = [req EXCEPT ![r] = Idle]
  /\ UNCHANGED <<registered, role, session, left>>

\* The guards and the handler of a route.  None of these asks for a permission.
Serve(r) ==
  /\ req[r].pc = "sent"
  /\ \/ /\ SessionPasses(req[r])
        /\ \/ Login(r) \/ Signup(r) \/ DemoLogin(r) \/ SwitchWorkspace(r) \/ Join(r) \/ Logout(r)
     \/ Fail(r)
  /\ UNCHANGED <<cookie, tab>>

-----------------------------------------------------------------------------
(* The answer.  The browser takes the cookie, the page the token.            *)

TokenUnadopted(r) ==
  IF req[r].kind \in Clears THEN Nil ELSE tab[req[r].tab].token
TokenAfter(r) ==
  CASE req[r].kind \in Clears -> Nil
    [] req[r].kind \in Signs \ (Raw \cup Clears) -> req[r].cookie
    [] OTHER -> tab[req[r].tab].token

\* The workspace switchers load the workspace; the others leave it to the router.
NextAfter(r) ==
  IF tab[req[r].tab].view = Nil THEN Nil
  ELSE IF req[r].kind \in {"switch", "demo"} THEN "browser" ELSE "router"

Answer(r) ==
  LET t == req[r].tab
      known == req[r].kind \notin Raw
               /\ ~\E q \in Requests : req[q].tab = t /\ req[q].pc = "csrf"
  IN
  /\ req[r].pc = "answered" /\ t # Nil
  /\ req' = [req EXCEPT ![r] = Idle]
  /\ tab' = [tab EXCEPT ![t].token = TokenAfter(r), ![t].next = NextAfter(r),
                        ![t].late = @ /\ req[r].kind \in Raw]
  /\ cookie' = IF req[r].kind = "logout" THEN Nil ELSE req[r].cookie
  /\ session' = IF req[r].kind = "logout" THEN session
                ELSE [session EXCEPT ![req[r].cookie].maker = t, ![req[r].cookie].known = known]
  /\ UNCHANGED <<registered, role, left>>

\* The network drops a request or an answer, or its page is gone.
Lose(r) ==
  /\ req[r].pc \in {"csrf", "sent", "answered"}
  /\ req' = [req EXCEPT ![r] = Idle]
  /\ UNCHANGED <<registered, role, session, cookie, tab, left>>

-----------------------------------------------------------------------------
(* What happens elsewhere.                                                   *)

Change ==
  /\ left.changes > 0 /\ left' = [left EXCEPT !.changes = @ - 1]
  /\ UNCHANGED <<registered, cookie, tab, req>>

\* A session expires, or another sign-in of its user revokes it.
EndSession(s) ==
  /\ session[s].live /\ session' = [session EXCEPT ![s].live = FALSE]
  /\ Change /\ UNCHANGED role

ChangeMemberRole(m) ==
  /\ role[m] # Nil
  /\ \E new \in Roles \ {role[m]} : role' = [role EXCEPT ![m] = new]
  /\ Change /\ UNCHANGED session

\* The sessions of a membership go with it.
MemberRemoved(m) ==
  /\ role[m] # Nil /\ role' = [role EXCEPT ![m] = Nil]
  /\ session' = [s \in Sessions |-> [session[s] EXCEPT !.live = @ /\ session[s].member # m]]
  /\ Change

TabNext ==
  \/ \E t \in Tabs : Open(t) \/ Visit(t) \/ Arrive(t) \/ Mount(t)
  \/ \E t \in Tabs, r \in Requests :
       \/ LoginForm(t, r) \/ SignupForm(t, r) \/ DemoLoginCard(t, r) \/ SetupForm(t, r)
       \/ AcceptForm(t, r)
       \/ WorkspaceSwitcher(t, r) \/ DemoRoleSwitcher(t, r) \/ SignOut(t, r) \/ FirstWrite(t, r)
  \/ \E r \in Requests : GotToken(r) \/ Serve(r) \/ Answer(r) \/ Lose(r)
  \/ \E s \in Sessions : EndSession(s)
  \/ \E m \in Members \ DemoMembers : ChangeMemberRole(m) \/ MemberRemoved(m)

TabSpec == TabInit /\ [][TabNext]_tabVars

-----------------------------------------------------------------------------
(* Properties.                                                              *)

\* A page never loses the right to write by what it did itself: a write is refused
\* for its token only if the session of the cookie was made by another tab, by
\* the demo login card, which does not tell api-client, or while a token was
\* being fetched (adoption and clearing in lib/api-client.ts, login-form.tsx
\* and workspace-navigation.tsx).
OwnSessionHonoured ==
  \A use \in Uses : Verdict(use, Nil) = "csrf" =>
    ~(session[use.cookie].maker = use.tab /\ session[use.cookie].known)

\* A write takes effect in the workspace its page showed, although the cookie that
\* chooses the workspace belongs to all tabs: the token tells the sessions apart.
\* A page whose own tab has changed the session is excepted while it is on its way
\* out; when another tab has changed it, a page is excepted that had no token then
\* and fetched its first one for the new session (readCsrfToken in
\* lib/api-client.ts).  A page that had its token before is never excepted.
WritesLandWhereShown ==
  \A use \in Uses : use.kind = "write" /\ Verdict(use, Nil) = "passed" =>
    LET s == session[use.cookie] IN
    \/ s.member # Nil /\ OrgOf[s.member] = OrgOf[use.shown.member]
    \/ s.maker = use.tab /\ use.leaving
    \/ s.maker # use.tab /\ use.late /\ use.token = use.cookie

Permissions(use) ==
  IF use.kind = "read" THEN RoleReads[use.shown.role] ELSE RoleWrites[use.shown.role]

\* The client's checks of the role agree with the API's: a screen asks for what
\* is refused to the role only when membership or role are no longer the ones it
\* shows (features/*.tsx and auth/rbac.ts).
OfferedIsPermitted ==
  \A use \in Uses : \A p \in Permissions(use) : Verdict(use, p) = "role" =>
    LET m == session[use.cookie].member IN
    m # use.shown.member \/ role[m] # use.shown.role
=============================================================================
