----------------------------- MODULE ClientProofs -----------------------------
(***************************************************************************)
(* Proofs about the web client: the query cache of its screens, for any number  *)
(* of views and commands, the import page and the search boxes, the lines of    *)
(* a drawer and the forms.                                                   *)
(*                                                                         *)
(* RestsCurrent is not inductive: a view may hold rows that are not due yet     *)
(* when it is off the screen or being fetched, as long as it is marked and no   *)
(* answer on its way is older than what is due (ViewOK); and a command whose    *)
(* answer will be put into the cache must not be older either (SentOK).        *)
(*                                                                         *)
(* NothingLost is not inductive either.  Where an entry is held has to be said   *)
(* more exactly: a form that is closed or locked holds nothing of its own        *)
(* (FieldsOK), what a request carries is still on the form until the server has  *)
(* saved it (SaveOK), what is remembered is under way or of unknown outcome      *)
(* (HookOK), and each of them holds entries of one record only (BelongTo).       *)
(*                                                                         *)
(* What the tabs may write with is about the session of the cookie; TabInv says  *)
(* where it comes from: an answer carries a session that nothing else has yet     *)
(* (FreshOK), so that the tab that takes it is its maker, has its token or none    *)
(* (TokenOK), and shows its workspace or is about to be replaced (ShownOK).  All   *)
(* other tabs have its token only if they fetched it, and then show what they were *)
(* mounted with (SeenOK): its workspace, unless they were late (LandOK).          *)
(***************************************************************************)
EXTENDS Screens, ImportWizard, SearchBoxes, LineEditor, Forms, Tabs, SequenceTheorems,
        WellFoundedInduction, TLAPS

TypeOK ==
  /\ screen \in Screens /\ query \in screen.queries
  /\ shown \in Views \cup {Closed}
  /\ cache \in [Views -> [data : Nat \cup {Nothing}, invalid : BOOLEAN, failed : BOOLEAN,
                          fetch : {"idle", "asked", "read"}, saw : Nat]]
  /\ sent \in [Commands -> [state : {"idle", "asked", "done"}, view : Views \cup {Closed},
                            commit : Nat]]
  /\ commits \in Nat /\ submitted \in Nat
  /\ due \in [Views -> Nat]

ViewOK(v) ==
  /\ due[v] <= commits
  /\ cache[v].fetch = "read" => cache[v].saw >= due[v]
  /\ \/ cache[v].data >= due[v]
     \/ /\ cache[v].data = Nothing \/ cache[v].invalid
        /\ v = shown => InFlight(v) \/ cache[v].failed

SentOK(c) ==
  sent[c].state = "done" =>
    /\ sent[c].commit <= commits
    /\ query \in screen.commands[c].sets => \A v \in Views : due[v] <= sent[c].commit

ScreensInv ==
  /\ TypeOK
  /\ \A v \in Views : ViewOK(v)
  /\ \A c \in Commands : SentOK(c)

-----------------------------------------------------------------------------
\* Whatever a command writes of a query of its screen, it refreshes or sets,
\* but for the queries known to be left stale; and of a query that one command
\* sets, all commands of the screen set the record.
CoversOf(s, c, q) ==
  /\ s.commands[c].writes \cap Reads[q] # {} =>
       \/ q \in s.commands[c].refreshes \cup s.commands[c].sets
       \/ <<c, q>> \in LeftStale
       \/ q \in Details /\ c \in Creating
  /\ q \in s.commands[c].sets =>
       /\ q \in Details
       /\ \A d \in DOMAIN s.commands : q \in s.commands[d].sets
Covers(s) == \A c \in DOMAIN s.commands, q \in s.queries : CoversOf(s, c, q)

LEMMA ReadsOf ==
  /\ Reads["orders"] = ListOrders /\ Reads["orderDetail"] = FindOrder
  /\ Reads["balances"] = ListBalances /\ Reads["alerts"] = ListAlerts
  /\ Reads["summary"] = Summary /\ Reads["trace"] = TraceProduct
  /\ Reads["receipts"] = ListReceipts /\ Reads["receiptDetail"] = FindReceipt
  /\ Reads["products"] = ListProducts /\ Reads["customers"] = ListCustomers
  /\ Reads["suppliers"] = ListSuppliers /\ Reads["deliveries"] = ListDeliveries
  /\ Reads["deliveryDetail"] = FindDelivery /\ Reads["settings"] = Settings
  /\ Reads["team"] = ListTeam /\ Reads["invitations"] = ListInvitations
  /\ Reads["billing"] = BillingStatus
  /\ Reads["orderEditCustomer"] = FindCustomer /\ Reads["orderEditProduct"] = FindProduct
BY DEF Reads

LEMMA OrdersCovered == Covers(OrdersWorkspace)
<1> SUFFICES ASSUME NEW c \in {"create", "update", "transition"},
                    NEW q \in {"orders", "products", "customers", "orderDetail",
                               "orderEditCustomer", "orderEditProduct"}
             PROVE  CoversOf(OrdersWorkspace, c, q)
  BY DEF Covers, OrdersWorkspace, Screen, Command, HeaderSearch
<1> QED
  BY ReadsOf DEF OrdersWorkspace, Screen, Command, CreateOrder, UpdateOrder,
       TransitionOrder, ListOrders, ListProducts, ListCustomers, FindOrder,
       FindCustomer, FindProduct,
       LeftStale, Details, Creating, CoversOf

LEMMA InventoryCovered == Covers(InventoryWorkspace)
<1> SUFFICES ASSUME NEW c \in {"adjust"},
                    NEW q \in {"orders", "products", "customers", "balances", "alerts", "summary", "trace"}
             PROVE  CoversOf(InventoryWorkspace, c, q)
  BY DEF Covers, InventoryWorkspace, Screen, Command, HeaderSearch
<1> QED
  BY ReadsOf DEF InventoryWorkspace, Screen, Command, Adjust, ListOrders,
       ListProducts, ListCustomers, ListBalances, ListAlerts, Summary,
       TraceProduct, ListMovements, LeftStale, Details, Creating, CoversOf

LEMMA ReceiptsCovered == Covers(ReceiptsWorkspace)
<1> SUFFICES ASSUME NEW c \in {"receive"},
                    NEW q \in {"orders", "products", "customers", "receipts", "receiptDetail", "suppliers"}
             PROVE  CoversOf(ReceiptsWorkspace, c, q)
  BY DEF Covers, ReceiptsWorkspace, Screen, Command, HeaderSearch
<1> QED
  BY ReadsOf DEF ReceiptsWorkspace, Screen, Command, Receive, Adjust, ListOrders,
       ListProducts, ListCustomers, ListReceipts, FindReceipt, ListSuppliers,
       LeftStale, Details, Creating, CoversOf

LEMMA ProductsCovered == Covers(ProductsWorkspace)
<1> SUFFICES ASSUME NEW c \in {"saveProduct"},
                    NEW q \in {"orders", "products", "customers"}
             PROVE  CoversOf(ProductsWorkspace, c, q)
  BY DEF Covers, ProductsWorkspace, Screen, Command, HeaderSearch
<1> QED
  BY ReadsOf DEF ProductsWorkspace, Screen, Command, SaveProduct, ListOrders,
       ListProducts, ListCustomers, LeftStale, Details, Creating, CoversOf

LEMMA PartnersCovered == Covers(PartnersWorkspace)
<1> SUFFICES ASSUME NEW c \in {"saveCustomer", "saveSupplier"},
                    NEW q \in {"orders", "products", "customers", "suppliers"}
             PROVE  CoversOf(PartnersWorkspace, c, q)
  BY DEF Covers, PartnersWorkspace, Screen, Command, HeaderSearch
<1> QED
  BY ReadsOf DEF PartnersWorkspace, Screen, Command, SaveCustomer, SaveSupplier,
       ListOrders, ListProducts, ListCustomers, ListSuppliers, LeftStale, Details,
       Creating, CoversOf

LEMMA ImportsCovered == Covers(ImportsWorkspace)
<1> SUFFICES ASSUME NEW c \in {"commit"},
                    NEW q \in {"orders", "products", "customers"}
             PROVE  CoversOf(ImportsWorkspace, c, q)
  BY DEF Covers, ImportsWorkspace, Screen, Command, HeaderSearch
<1> QED
  BY ReadsOf DEF ImportsWorkspace, Screen, Command, CommitImport, ListOrders,
       ListProducts, ListCustomers, LeftStale, Details, Creating, CoversOf

LEMMA IntegrationsCovered == Covers(IntegrationsWorkspace)
<1> SUFFICES ASSUME NEW c \in {"retry"},
                    NEW q \in {"orders", "products", "customers", "deliveries", "deliveryDetail"}
             PROVE  CoversOf(IntegrationsWorkspace, c, q)
  BY DEF Covers, IntegrationsWorkspace, Screen, Command, HeaderSearch
<1> QED
  BY ReadsOf DEF IntegrationsWorkspace, Screen, Command, RetryDelivery,
       CreateOrder, ListOrders, ListProducts, ListCustomers, ListDeliveries,
       FindDelivery, LeftStale, Details, Creating, CoversOf

LEMMA SettingsCovered == Covers(SettingsWorkspace)
<1> SUFFICES ASSUME NEW c \in {"invite", "revoke", "changeRole", "remove"},
                    NEW q \in {"orders", "products", "customers", "settings", "team", "invitations", "billing"}
             PROVE  CoversOf(SettingsWorkspace, c, q)
  BY DEF Covers, SettingsWorkspace, Screen, Command, HeaderSearch
<1> QED
  BY ReadsOf DEF SettingsWorkspace, Screen, Command, Invite, RevokeInvitation,
       ChangeRole, RemoveMember, ListOrders, ListProducts, ListCustomers,
       Settings, ListTeam, ListInvitations, BillingStatus, LeftStale, Details,
       Creating, CoversOf

LEMMA OverviewCovered == Covers(OverviewWorkspace)
BY DEF Covers, OverviewWorkspace, Screen, NoCommand

LEMMA AuditCovered == Covers(AuditWorkspace)
BY DEF Covers, AuditWorkspace, Screen, NoCommand

LEMMA AllCovered == \A s \in Screens : Covers(s)
BY OrdersCovered, InventoryCovered, ReceiptsCovered, ProductsCovered, PartnersCovered,
   ImportsCovered, IntegrationsCovered, SettingsCovered, OverviewCovered, AuditCovered
   DEF Screens

-----------------------------------------------------------------------------
EntrySet == [data : Nat \cup {Nothing}, invalid : BOOLEAN, failed : BOOLEAN,
             fetch : {"idle", "asked", "read"}, saw : Nat]
SentSet == [state : {"idle", "asked", "done"}, view : Views \cup {Closed}, commit : Nat]

LEMMA InitInv == Init => ScreensInv
<1> SUFFICES ASSUME Init PROVE ScreensInv
  OBVIOUS
<1>1. TypeOK
  BY ScreensAssumption DEF Init, TypeOK, Empty, Nothing, NotSent
<1>2. \A v \in Views : ViewOK(v)
  BY ScreensAssumption DEF Init, ViewOK, Empty, Nothing, InFlight
<1>3. \A c \in Commands : SentOK(c)
  BY DEF Init, SentOK, NotSent
<1> QED BY <1>1, <1>2, <1>3 DEF ScreensInv

\* A step that changes at most the screen's view and one entry of the cache.
LEMMA CacheStep ==
  ASSUME ScreensInv, NEW v \in Views, NEW e \in EntrySet, Entry(v, e),
         shown' \in Views \cup {Closed},
         UNCHANGED <<screen, query, sent, commits, submitted, due>>,
         ViewOK(v)',
         \A u \in Views \ {v} : u = shown' => u = shown
  PROVE  ScreensInv'
<1>1. TypeOK'
  BY DEF ScreensInv, TypeOK, Entry, EntrySet, Commands
<1>2. ASSUME NEW u \in Views PROVE ViewOK(u)'
  <2>1. CASE u = v
    BY <2>1
  <2>2. CASE u # v
    <3>1. cache'[u] = cache[u]
      BY <2>2 DEF Entry, ScreensInv, TypeOK
    <3> QED BY <2>2, <3>1 DEF ScreensInv, ViewOK, InFlight
  <2> QED BY <2>1, <2>2
<1>3. \A c \in Commands : SentOK(c)'
  BY DEF ScreensInv, SentOK, Commands
<1> QED BY <1>1, <1>2, <1>3 DEF ScreensInv, Commands

LEMMA SubmitStep ==
  ASSUME ScreensInv, NEW c \in Commands, NEW v \in Views \cup {Closed}, Submit(c, v)
  PROVE  ScreensInv'
<1>1. TypeOK'
  <2>1. [NotSent EXCEPT !.state = "asked", !.view = v] \in SentSet
    BY DEF NotSent, SentSet
  <2>2. sent' \in [Commands -> SentSet]
    BY <2>1 DEF ScreensInv, TypeOK, Submit, SentSet
  <2> QED BY <2>2 DEF ScreensInv, TypeOK, Submit, SentSet, Commands
<1>2. \A u \in Views : ViewOK(u)'
  BY DEF ScreensInv, ViewOK, Submit, InFlight
<1>3. \A d \in Commands : SentOK(d)'
  BY DEF ScreensInv, TypeOK, SentOK, Submit, NotSent, Commands
<1> QED BY <1>1, <1>2, <1>3 DEF ScreensInv, Commands, Submit

LEMMA ExecutedStep ==
  ASSUME ScreensInv, NEW c \in Commands, Executed(c)
  PROVE  ScreensInv'
<1>1. TypeOK'
  <2>1. sent[c] \in SentSet /\ commits' \in Nat
    BY DEF ScreensInv, TypeOK, Executed, SentSet
  <2>2. [sent[c] EXCEPT !.state = "done", !.commit = commits'] \in SentSet
    BY <2>1 DEF SentSet
  <2>3. sent' = [sent EXCEPT ![c] = [sent[c] EXCEPT !.state = "done", !.commit = commits']]
    BY DEF ScreensInv, TypeOK, Executed
  <2>4. sent' \in [Commands -> SentSet]
    BY <2>2, <2>3 DEF ScreensInv, TypeOK, SentSet
  <2> QED BY <2>1, <2>4 DEF ScreensInv, TypeOK, Executed, SentSet, Commands
<1>2. \A u \in Views : ViewOK(u)'
  BY DEF ScreensInv, TypeOK, ViewOK, Executed, InFlight
<1>3. \A d \in Commands : SentOK(d)'
  BY DEF ScreensInv, TypeOK, SentOK, ViewOK, Executed, Commands
<1> QED BY <1>1, <1>2, <1>3 DEF ScreensInv, Commands, Executed

LEMMA RefusedStep ==
  ASSUME ScreensInv, NEW c \in Commands, Refused(c)
  PROVE  ScreensInv'
<1>1. TypeOK'
  BY DEF ScreensInv, TypeOK, Refused, NotSent, Commands
<1>2. \A u \in Views : ViewOK(u)'
  BY DEF ScreensInv, ViewOK, Refused, InFlight
<1>3. \A d \in Commands : SentOK(d)'
  BY DEF ScreensInv, TypeOK, SentOK, Refused, NotSent, Commands
<1> QED BY <1>1, <1>2, <1>3 DEF ScreensInv, Commands, Refused

-----------------------------------------------------------------------------
\* The answer of a command.
LEMMA AnsweredTypes ==
  ASSUME ScreensInv, NEW c \in Commands, CommandAnswered(c)
  PROVE  TypeOK'
<1>1. sent' \in [Commands -> SentSet]
  BY DEF ScreensInv, TypeOK, CommandAnswered, NotSent, SentSet
<1>2. \A v \in Views : SetTo(v, sent[c].commit) \in EntrySet
  BY ZenonT(40) DEF ScreensInv, TypeOK, SetTo, EntrySet
<1>3. \A v \in Views : Invalidated(v) \in EntrySet
  BY DEF ScreensInv, TypeOK, Invalidated, Asked, EntrySet
<1>4. cache' \in [Views -> EntrySet]
  BY <1>2, <1>3 DEF ScreensInv, TypeOK, CommandAnswered, EntrySet
<1>5. due' \in [Views -> Nat]
  BY DEF ScreensInv, TypeOK, CommandAnswered
<1> QED
  BY <1>1, <1>4, <1>5 DEF ScreensInv, TypeOK, CommandAnswered, SentSet, EntrySet, Commands

\* A view is due to show the command only if the answer sets it or refreshes it.
LEMMA PromisedReached ==
  ASSUME ScreensInv, NEW c \in Commands, NEW v \in Views, Promised(c, v)
  PROVE  \/ Sets(c, v)
         \/ Refreshes(c, v) /\ ~InFlight(v)
         \/ Refreshes(c, v) /\ v = shown /\ cache[v].data # Nothing
<1>1. CoversOf(screen, c, query)
  BY AllCovered DEF ScreensInv, TypeOK, Covers, Commands
<1> QED
  BY <1>1 DEF Promised, Affects, Overtaken, CoversOf, Sets, Refreshes

LEMMA AnsweredView ==
  ASSUME ScreensInv, NEW c \in Commands, CommandAnswered(c), NEW v \in Views
  PROVE  ViewOK(v)'
<1> DEFINE upTo == sent[c].commit
<1>1. ViewOK(v) /\ SentOK(c) /\ sent[c].state = "done" /\ upTo <= commits /\ upTo \in Nat
  BY DEF ScreensInv, CommandAnswered, SentOK, TypeOK
<1>2. cache[v] \in EntrySet /\ due[v] \in Nat /\ commits \in Nat
  BY DEF ScreensInv, TypeOK, EntrySet
<1>3. /\ due'[v] = IF Promised(c, v) /\ due[v] < upTo THEN upTo ELSE due[v]
      /\ shown' = shown /\ commits' = commits
  BY DEF CommandAnswered
<1>4. \/ Sets(c, v) /\ cache'[v] = SetTo(v, upTo)
      \/ ~Sets(c, v) /\ Refreshes(c, v) /\ cache'[v] = Invalidated(v)
      \/ ~Sets(c, v) /\ (~Refreshes(c, v) \/ KindMayDiffer) /\ cache'[v] = cache[v]
  BY DEF CommandAnswered
<1>5. CASE Sets(c, v)
  <2>1. cache'[v] = SetTo(v, upTo)
    BY <1>4, <1>5
  <2>2. query \in screen.commands[c].sets /\ due[v] <= upTo
    BY <1>1, <1>5 DEF Sets, SentOK
  <2>3. Promised(c, v) => ~InFlight(v)
    BY <2>2 DEF Promised, Overtaken
  <2>4. /\ cache'[v].data = upTo /\ cache'[v].fetch = cache[v].fetch
        /\ cache'[v].saw = cache[v].saw
    BY <2>1, <1>2 DEF SetTo, EntrySet
  <2> QED BY <1>1, <1>2, <1>3, <2>2, <2>3, <2>4 DEF ViewOK, InFlight
<1>6. CASE ~Sets(c, v) /\ Refreshes(c, v) /\ cache'[v] = Invalidated(v)
  <2>1. Promised(c, v) => ~InFlight(v) \/ (v = shown /\ cache[v].data # Nothing)
    BY <1>6, PromisedReached
  <2>2. CASE v = shown /\ (cache[v].data # Nothing \/ ~InFlight(v))
    <3>1. cache'[v].fetch = "asked" /\ cache'[v].invalid /\ cache'[v].data = cache[v].data
      BY <1>2, <1>6, <2>2 DEF Invalidated, Asked, EntrySet
    <3> QED BY <1>1, <1>2, <1>3, <3>1 DEF ViewOK, InFlight
  <2>3. CASE ~(v = shown /\ (cache[v].data # Nothing \/ ~InFlight(v)))
    <3>1. /\ cache'[v].fetch = cache[v].fetch /\ cache'[v].invalid
          /\ cache'[v].data = cache[v].data /\ cache'[v].saw = cache[v].saw
          /\ cache'[v].failed = cache[v].failed
      BY <1>2, <1>6, <2>3 DEF Invalidated, Asked, EntrySet, InFlight
    <3> QED BY <1>1, <1>2, <1>3, <2>1, <2>3, <3>1 DEF ViewOK, InFlight
  <2> QED BY <2>2, <2>3
<1>7. CASE ~Sets(c, v) /\ (~Refreshes(c, v) \/ KindMayDiffer) /\ cache'[v] = cache[v]
  <2>1. ~Promised(c, v)
    BY <1>7, PromisedReached DEF Promised
  <2> QED BY <1>1, <1>3, <1>7, <2>1 DEF ViewOK, InFlight
<1> QED BY <1>4, <1>5, <1>6, <1>7

LEMMA AnsweredCommands ==
  ASSUME ScreensInv, NEW c \in Commands, CommandAnswered(c), NEW d \in Commands
  PROVE  SentOK(d)'
<1>1. CASE d = c
  BY <1>1 DEF CommandAnswered, SentOK, ScreensInv, TypeOK, NotSent
<1>2. CASE d # c
  <2>1. sent'[d] = sent[d] /\ screen' = screen /\ query' = query /\ commits' = commits
    BY <1>2 DEF CommandAnswered, ScreensInv, TypeOK
  <2> SUFFICES ASSUME sent[d].state = "done", query \in screen.commands[d].sets,
                      NEW v \in Views
               PROVE  due'[v] <= sent[d].commit
    BY <2>1 DEF SentOK, ScreensInv
  <2>2. due[v] <= sent[d].commit
    BY DEF SentOK, ScreensInv
  <2>3. query \in screen.commands[c].sets
    BY AllCovered DEF ScreensInv, TypeOK, Covers, CoversOf, Commands
  <2>4. ~Promised(c, v)
    BY <1>2, <2>3 DEF Promised, Overtaken
  <2> QED BY <2>2, <2>4 DEF CommandAnswered
<1> QED BY <1>1, <1>2

-----------------------------------------------------------------------------
LEMMA NextInv == ScreensInv /\ [Next]_vars => ScreensInv'
<1> SUFFICES ASSUME ScreensInv, [Next]_vars PROVE ScreensInv'
  OBVIOUS
<1> USE DEF EntrySet
<1>1. ASSUME NEW v \in Views, Show(v) PROVE ScreensInv'
  <2>1. PICK old \in {TRUE, ~Fresh(v)} :
          IF old /\ ~InFlight(v) THEN Entry(v, Asked(cache[v])) ELSE UNCHANGED cache
    BY <1>1 DEF Show
  <2> DEFINE e == IF old /\ ~InFlight(v) THEN Asked(cache[v]) ELSE cache[v]
  <2>2. e \in EntrySet /\ Entry(v, e)
    BY <2>1 DEF ScreensInv, TypeOK, Entry, Asked
  <2>3. ViewOK(v)'
    <3>1. cache'[v] = e
      BY <2>2 DEF ScreensInv, TypeOK, Entry
    <3>2. cache[v] \in EntrySet /\ ViewOK(v)
      BY DEF ScreensInv, TypeOK
    <3> QED BY <1>1, <2>1, <3>1, <3>2 DEF Show, ViewOK, InFlight, Asked, Fresh
  <2> HIDE DEF e
  <2> QED BY <1>1, <2>2, <2>3, CacheStep DEF Show
<1>2. ASSUME NEW v \in Views, Refetch(v) PROVE ScreensInv'
  <2>1. Asked(cache[v]) \in EntrySet /\ cache'[v] = Asked(cache[v])
    BY <1>2 DEF ScreensInv, TypeOK, Refetch, Entry, Asked
  <2>2. ViewOK(v)'
    BY <1>2, <2>1 DEF ScreensInv, TypeOK, Refetch, CacheOnly, ViewOK, InFlight, Asked
  <2> QED BY <1>2, <2>1, <2>2, CacheStep DEF Refetch, CacheOnly, ScreensInv, TypeOK
<1>3. ASSUME NEW v \in Views, Read(v) PROVE ScreensInv'
  <2> DEFINE e == [cache[v] EXCEPT !.fetch = "read", !.saw = commits]
  <2>1. e \in EntrySet /\ cache'[v] = e /\ Entry(v, e)
    BY <1>3 DEF ScreensInv, TypeOK, Read, Entry
  <2>2. ViewOK(v)'
    BY <1>3, <2>1 DEF ScreensInv, TypeOK, Read, CacheOnly, ViewOK, InFlight
  <2> HIDE DEF e
  <2> QED BY <1>3, <2>1, <2>2, CacheStep DEF Read, CacheOnly, ScreensInv, TypeOK
<1>4. ASSUME NEW v \in Views, Answered(v) PROVE ScreensInv'
  <2> DEFINE e == [Empty EXCEPT !.data = cache[v].saw]
  <2>1. e \in EntrySet /\ cache'[v] = e /\ Entry(v, e)
    BY <1>4 DEF ScreensInv, TypeOK, Answered, Entry, Empty, Nothing
  <2>2. ViewOK(v)'
    BY <1>4, <2>1 DEF ScreensInv, TypeOK, Answered, CacheOnly, ViewOK, InFlight, Empty, Nothing
  <2> HIDE DEF e
  <2> QED BY <1>4, <2>1, <2>2, CacheStep DEF Answered, CacheOnly, ScreensInv, TypeOK
<1>5. ASSUME NEW v \in Views, FetchFails(v) PROVE ScreensInv'
  <2>1. PICK e \in {Asked(cache[v]),
                    [cache[v] EXCEPT !.failed = TRUE, !.fetch = "idle", !.saw = 0]} :
          Entry(v, e)
    BY <1>5 DEF FetchFails
  <2>2. e \in EntrySet
    <3>1. cache[v] \in EntrySet
      BY DEF ScreensInv, TypeOK
    <3>2. Asked(cache[v]) \in EntrySet
      BY <3>1 DEF Asked
    <3>3. [cache[v] EXCEPT !.failed = TRUE, !.fetch = "idle", !.saw = 0] \in EntrySet
      BY <3>1
    <3> QED BY <2>1, <3>2, <3>3
  <2>4. cache'[v] = e
    BY <2>1 DEF ScreensInv, TypeOK, Entry
  <2>3. ViewOK(v)'
    <3>1. cache[v] \in EntrySet /\ ViewOK(v)
      BY DEF ScreensInv, TypeOK
    <3>2. /\ cache'[v].data = cache[v].data /\ cache'[v].invalid = cache[v].invalid
          /\ \/ cache'[v].fetch = "asked"
             \/ cache'[v].fetch = "idle" /\ cache'[v].failed
      BY <2>1, <2>4, <3>1 DEF Asked
    <3> HIDE DEF EntrySet
    <3> QED BY <1>5, <3>1, <3>2 DEF FetchFails, CacheOnly, ViewOK, InFlight
  <2> QED BY <1>5, <2>1, <2>2, <2>3, CacheStep DEF FetchFails, CacheOnly, ScreensInv, TypeOK
<1>6. CASE Close
  <2>1. TypeOK'
    BY <1>6 DEF Close, ScreensInv, TypeOK, Commands
  <2>2. \A v \in Views : ViewOK(v)'
    BY <1>6, ScreensAssumption DEF Close, ScreensInv, ViewOK, InFlight
  <2>3. \A c \in Commands : SentOK(c)'
    BY <1>6 DEF Close, ScreensInv, SentOK, Commands
  <2> QED BY <1>6, <2>1, <2>2, <2>3 DEF Close, ScreensInv, Commands
<1>7. ASSUME NEW c \in Commands, CommandAnswered(c) PROVE ScreensInv'
  BY <1>7, AnsweredTypes, AnsweredView, AnsweredCommands
     DEF ScreensInv, Commands, CommandAnswered
<1>8. CASE UNCHANGED vars
  BY <1>8 DEF vars, ScreensInv, TypeOK, ViewOK, SentOK, InFlight, Commands
<1> QED
  BY <1>1, <1>2, <1>3, <1>4, <1>5, <1>6, <1>7, <1>8, SubmitStep, ExecutedStep, RefusedStep
     DEF Next

\* Rows at rest on the screen show every command whose answer promised it
\* (use-page-query.ts and use-command-mutation.ts, and what each screen refreshes).
THEOREM ScreensRestCurrent == Spec => []RestsCurrent
<1>1. Init => ScreensInv
  BY InitInv
<1>2. ScreensInv /\ [Next]_vars => ScreensInv'
  BY NextInv
<1>3. ScreensInv => RestsCurrent
  BY DEF ScreensInv, ViewOK, RestsCurrent
<1> QED BY <1>1, <1>2, <1>3, PTL DEF Spec

-----------------------------------------------------------------------------
(* The import page.  A preview under way keeps the page from committing, and a  *)
(* request that is remembered keeps it from another preview.                   *)

WizardTypes ==
  /\ fileVersion \in Nat /\ csv \in Int /\ preview \in Int /\ committed \in Int
  /\ previewing \in [csv : Int, version : Int]
  /\ commit \in [intent : Int, pc : {"idle", "sent"}, unknown : BOOLEAN, expired : BOOLEAN]

WizardInv ==
  /\ WizardTypes /\ ShowsTheSelectedFile
  /\ previewing.csv = previewing.version
  /\ Previewing => ~CommitLocked /\ committed = NoFile
  /\ ~CommitLocked => commit.intent = NoFile
  /\ commit.expired => commit.unknown

LEMMA WizardInitInv == WizardInit => WizardInv
BY DEF WizardInit, WizardInv, WizardTypes, ShowsTheSelectedFile, Previewing, CommitLocked,
       CommitPending, NoFile, NoPreview, NoCommit

LEMMA FileSteps ==
  ASSUME WizardInv,
         \/ \E readable \in BOOLEAN : SelectFile(readable)
         \/ \E version \in reads : FileRead(version)
         \/ ReloadWizard
  PROVE  WizardInv'
<1> USE DEF WizardInv, WizardTypes, ShowsTheSelectedFile, Previewing, CommitLocked, CommitPending,
            NoFile
<1>1. ASSUME NEW readable \in BOOLEAN, SelectFile(readable) PROVE WizardInv'
  BY <1>1 DEF SelectFile
<1>2. ASSUME NEW version \in reads, FileRead(version) PROVE WizardInv'
  BY <1>2 DEF FileRead
<1>3. CASE ReloadWizard
  <2>1. /\ fileVersion' = NoFile /\ csv' = NoFile /\ preview' = NoFile /\ committed' = NoFile
        /\ previewing' = NoPreview
    BY <1>3 DEF ReloadWizard
  <2>2. CASE commit.intent = NoFile
    <3>1. commit' = NoCommit
      BY <1>3, <2>2 DEF ReloadWizard
    <3> QED BY <2>1, <3>1 DEF NoPreview, NoCommit
  <2>3. CASE commit.intent # NoFile
    <3>1. PICK expired \in BOOLEAN :
            commit' = [intent |-> Earlier, pc |-> "idle", unknown |-> TRUE, expired |-> expired]
      BY <1>3, <2>3 DEF ReloadWizard
    <3>2. /\ commit'.intent = Earlier /\ commit'.pc = "idle" /\ commit'.unknown = TRUE
          /\ commit'.expired = expired
      BY <3>1
    <3>3. commit' \in [intent : Int, pc : {"idle", "sent"}, unknown : BOOLEAN, expired : BOOLEAN]
      BY <3>1 DEF Earlier
    <3> QED BY <2>1, <3>2, <3>3 DEF NoPreview
  <2> QED BY <2>2, <2>3
<1> QED BY <1>1, <1>2, <1>3

LEMMA PreviewSteps ==
  ASSUME WizardInv, PreviewCsv \/ PreviewAnswered \/ PreviewFails PROVE WizardInv'
<1> USE DEF WizardInv, WizardTypes, ShowsTheSelectedFile, Previewing, CommitLocked, CommitPending,
            NoFile
<1>1. CASE PreviewCsv
  BY <1>1 DEF PreviewCsv
<1>2. CASE PreviewAnswered
  BY <1>2 DEF PreviewAnswered, NoPreview
<1>3. CASE PreviewFails
  BY <1>3 DEF PreviewFails, NoPreview
<1> QED BY <1>1, <1>2, <1>3

LEMMA CommitSteps ==
  ASSUME WizardInv,
         CommitValidRows \/ RecoverCommit \/ CommitSucceeds \/ CommitFails \/ ResolveCommit
  PROVE  WizardInv'
<1> USE DEF WizardInv, WizardTypes, ShowsTheSelectedFile, Previewing, CommitLocked, CommitPending,
            NoFile
<1>1. CASE CommitValidRows
  BY <1>1 DEF CommitValidRows, CommitRun
<1>2. CASE RecoverCommit
  BY <1>2 DEF RecoverCommit, CommitRun
<1>3. CASE CommitSucceeds
  BY <1>3 DEF CommitSucceeds, NoCommit
<1>4. CASE CommitFails
  <2>1. /\ commit.pc = "sent" /\ ~Previewing
        /\ UNCHANGED <<fileVersion, csv, previewing, preview, committed>>
    BY <1>4 DEF CommitFails
  <2>2. CASE commit' = [commit EXCEPT !.pc = "idle", !.unknown = TRUE]
    BY <2>1, <2>2
  <2>3. CASE commit.unknown /\ commit' = [commit EXCEPT !.pc = "idle"]
    BY <2>1, <2>3
  <2>4. CASE commit' = NoCommit
    BY <2>1, <2>4 DEF NoCommit
  <2>5. \/ commit' = [commit EXCEPT !.pc = "idle", !.unknown = TRUE]
        \/ commit.unknown /\ commit' = [commit EXCEPT !.pc = "idle"]
        \/ commit' = NoCommit
    BY <1>4 DEF CommitFails
  <2> QED BY <2>2, <2>3, <2>4, <2>5
<1>5. CASE ResolveCommit
  BY <1>5 DEF ResolveCommit, NoCommit
<1> QED BY <1>1, <1>2, <1>3, <1>4, <1>5

\* The results on the import page are those of the selected file, and what its buttons
\* send is the run it shows (selectFile, previewMutation and commitMutation of
\* imports-workspace.tsx).
THEOREM ImportPageAgrees == WizardSpec => []ShowsTheSelectedFile
<1>1. WizardInv /\ [WizardNext]_wizardVars => WizardInv'
  <2> SUFFICES ASSUME WizardInv, [WizardNext]_wizardVars PROVE WizardInv'
    OBVIOUS
  <2>1. CASE UNCHANGED wizardVars
    BY <2>1 DEF wizardVars, WizardInv, WizardTypes, ShowsTheSelectedFile, Previewing, CommitLocked,
                CommitPending
  <2>2. CASE WizardNext
    BY <2>2, FileSteps, PreviewSteps, CommitSteps DEF WizardNext
  <2> QED BY <2>1, <2>2
<1>2. WizardInv => ShowsTheSelectedFile
  BY DEF WizardInv
<1> QED BY <1>1, <1>2, WizardInitInv, PTL DEF WizardSpec

-----------------------------------------------------------------------------
(* The search boxes.                                                        *)

LEMMA PaletteSteps ==
  ASSUME ListsWhatIsTyped, UNCHANGED registerVars,
         \/ TogglePalette \/ InputSettles \/ OpenResult \/ OpenFirst
         \/ \E t \in Texts : TypeText(t) \/ Found(t)
  PROVE  ListsWhatIsTyped'
<1>1. CASE OpenResult \/ OpenFirst
  BY <1>1 DEF OpenResult, OpenFirst, Opens, Loading, Current, ListsWhatIsTyped, registerVars
<1>2. CASE TogglePalette \/ InputSettles \/ \E t \in Texts : TypeText(t) \/ Found(t)
  BY <1>2 DEF TogglePalette, InputSettles, TypeText, Found, ListsWhatIsTyped, registerVars
<1> QED BY <1>1, <1>2

\* Enter and the links of the palette open results of the text in the box, and the order
\* register rests on the search its box shows (workspace-search.tsx and the effects of
\* orders-workspace.tsx).
THEOREM SearchesAgree == SearchSpec => []ListsWhatIsTyped
<1>1. SearchInit => ListsWhatIsTyped
  BY DEF SearchInit, ListsWhatIsTyped
<1>2. ListsWhatIsTyped /\ [SearchNext]_searchVars => ListsWhatIsTyped'
  <2> SUFFICES ASSUME ListsWhatIsTyped, [SearchNext]_searchVars PROVE ListsWhatIsTyped'
    OBVIOUS
  <2>1. CASE UNCHANGED searchVars
    BY <2>1 DEF searchVars, paletteVars, registerVars, ListsWhatIsTyped
  <2>2. CASE SearchSettles
    BY <2>2 DEF SearchSettles, paletteVars, ListsWhatIsTyped
  <2>3. ASSUME NEW t \in Texts, TypeSearch(t) \/ Navigated(t) \/ GoBack(t)
        PROVE  ListsWhatIsTyped'
    BY <2>3 DEF TypeSearch, Navigated, GoBack, UrlChanges, Effects, paletteVars, ListsWhatIsTyped
  <2>4. CASE TogglePalette \/ InputSettles \/ OpenResult \/ OpenFirst
    <3>1. UNCHANGED registerVars
      BY <2>4 DEF TogglePalette, InputSettles, OpenResult, OpenFirst, Opens, registerVars
    <3> QED BY <2>4, <3>1, PaletteSteps
  <2>5. ASSUME NEW t \in Texts, TypeText(t) \/ Found(t) PROVE ListsWhatIsTyped'
    <3>1. UNCHANGED registerVars
      BY <2>5 DEF TypeText, Found, registerVars
    <3> QED BY <2>5, <3>1, PaletteSteps
  <2> QED BY <2>1, <2>2, <2>3, <2>4, <2>5 DEF SearchNext
<1> QED BY <1>1, <1>2, PTL DEF SearchSpec

-----------------------------------------------------------------------------
(* The lines of a drawer.  What was picked is remembered, and of an order only   *)
(* its own products are looked up; an adjustment has one line.                 *)

FormLine == [product : Products \cup {NoProduct}, picked : BOOLEAN]

LineTypeOK ==
  /\ editor \in {"order", "receipt", "adjustment"}
  /\ ordered \subseteq Products \cup {NoProduct}
  /\ loaded \in [Products -> {"no", "failed", "active", "inactive"}]
  /\ results \subseteq Products /\ chosen \subseteq Products /\ selling \subseteq Products
  /\ lines \in Seq(FormLine)

PickedIsChosen == \A i \in DOMAIN lines : lines[i].picked => lines[i].product \in chosen
AskedOfOrdered == \A p \in Products : loaded[p] # "no" => p \in ordered

LineInv ==
  /\ LineTypeOK
  /\ editor = "adjustment" => Len(lines) = 1
  /\ PickedIsChosen
  /\ AskedOfOrdered
  /\ OneLineEach

\* A form can start with any products, as long as they differ.
LEMMA LineFields ==
  ASSUME NEW p \in Products \cup {NoProduct}, NEW picked \in BOOLEAN
  PROVE  Line(p, picked) \in FormLine /\ Line(p, picked).product = p
         /\ Line(p, picked).picked = picked
BY DEF Line, FormLine

LEMMA FieldsOf == ASSUME NEW l \in FormLine PROVE l.product \in Products \cup {NoProduct}
BY DEF FormLine

LEMMA EmptyFormIs ==
  /\ EmptyForm \in Seq(FormLine) /\ Len(EmptyForm) = 1 /\ DOMAIN EmptyForm = {1}
  /\ EmptyForm[1].product = NoProduct /\ ~EmptyForm[1].picked
<1> DEFINE l == Line(NoProduct, FALSE)
<1>1. l \in FormLine /\ l.product = NoProduct /\ ~l.picked
  BY LineFields
<1>2. EmptyForm = <<l>>
  BY DEF EmptyForm
<1> HIDE DEF l
<1> QED
  BY <1>1, <1>2

LEMMA StartLinesDiffer ==
  ASSUME NEW form \in StartLines
  PROVE  /\ form \in Seq(FormLine)
         /\ ProductsOf(form) \subseteq Products
         /\ editor = "adjustment" => Len(form) = 1
         /\ \A i \in DOMAIN form : ~form[i].picked
         /\ \A i, j \in DOMAIN form : form[i].product = form[j].product => i = j
<1> DEFINE Lengths == 1 .. IF editor = "adjustment" THEN 1 ELSE MaxLines
           All == UNION {[1 .. n -> Products] : n \in Lengths}
<1>1. PICK t \in All : /\ \A i, j \in DOMAIN t : t[i] = t[j] => i = j
                       /\ form = [i \in DOMAIN t |-> Line(t[i], FALSE)]
  <2>1. StartLines =
          {[i \in DOMAIN s |-> Line(s[i], FALSE)] :
             s \in {t \in All : \A i, j \in DOMAIN t : t[i] = t[j] => i = j}}
    BY DEF StartLines, IsInjective
  <2> QED
    BY <2>1
<1>2. PICK n \in Lengths : t \in [1 .. n -> Products]
  OBVIOUS
<1>3. n \in Nat /\ (editor = "adjustment" => n = 1)
  BY LineEditorAssumption
<1>4. DOMAIN t = 1 .. n
  BY <1>2
<1> HIDE DEF Lengths, All
<1>5. form = [i \in 1 .. n |-> Line(t[i], FALSE)]
  BY <1>1, <1>4
<1>6. \A i \in 1 .. n : t[i] \in Products
  BY <1>2
<1>7. \A i \in 1 .. n : /\ Line(t[i], FALSE) \in FormLine
                        /\ Line(t[i], FALSE).product = t[i]
                        /\ Line(t[i], FALSE).picked = FALSE
  BY <1>6, LineFields
<1>8. form \in Seq(FormLine) /\ Len(form) = n /\ DOMAIN form = 1 .. n
  <2> DEFINE entry(i) == Line(t[i], FALSE)
  <2>1. form = [i \in 1 .. n |-> entry(i)] /\ \A i \in 1 .. n : entry(i) \in FormLine
    BY <1>5, <1>7
  <2> HIDE DEF entry
  <2>2. form \in [1 .. n -> FormLine]
    BY <2>1
  <2> QED
    BY <1>3, <2>1, <2>2
<1>9. \A i \in DOMAIN form : form[i].product = t[i] /\ form[i].picked = FALSE
  BY <1>5, <1>7, <1>8
<1>10. ProductsOf(form) \subseteq Products
  BY <1>6, <1>8, <1>9 DEF ProductsOf
<1>11. \A i, j \in 1 .. n : t[i] = t[j] => i = j
  BY <1>1, <1>4
<1>12. \A i, j \in DOMAIN form : form[i].product = form[j].product => i = j
  BY <1>8, <1>9, <1>11
<1> QED
  BY <1>3, <1>8, <1>9, <1>10, <1>12

LEMMA LinesShown == LineInv => LinesAgree
<1> SUFFICES ASSUME LineInv, NEW i \in DOMAIN lines,
                    editor = "order" => lines[i].picked \/ LookedUp(lines[i].product),
                    lines[i].product # NoProduct
             PROVE  lines[i].product \in Options(i)
  BY DEF LinesAgree, ShownAsHeld, LineInv, OwnProduct
<1> DEFINE p == lines[i].product
<1>1. p \in Products /\ OwnProduct(i) = {p}
  <2>1. lines[i] \in FormLine
    BY DEF LineInv, LineTypeOK
  <2> QED
    BY <2>1, FieldsOf DEF OwnProduct
<1>2. CASE editor = "receipt"
  BY <1>1, <1>2 DEF Options, ReceiptChoices
<1>3. CASE editor = "adjustment"
  BY <1>1, <1>3 DEF Options, AdjustmentChoices
<1>4. CASE editor = "order"
  <2>1. Options(i) = OrderChoices(i)
    BY <1>4 DEF Options
  <2>2. \A j \in DOMAIN lines \ {i} : lines[j].product # p
    BY <1>1 DEF LineInv, OneLineEach, OwnProduct
  <2>3. CASE loaded[p] = "inactive"
    BY <1>1, <2>1, <2>3 DEF OrderChoices
  <2>4. CASE loaded[p] # "inactive"
    <3>1. KnownActive(p)
      <4>1. CASE LookedUp(p)
        BY <2>4, <4>1 DEF KnownActive, LookedUp
      <4>2. CASE ~LookedUp(p)
        BY <1>4, <4>2 DEF KnownActive, LineInv, PickedIsChosen, Items
      <4> QED
        BY <4>1, <4>2
    <3> QED
      BY <1>1, <2>1, <2>2, <3>1 DEF OrderChoices, AvailableLineProducts
  <2> QED
    BY <2>3, <2>4
<1> QED
  BY <1>2, <1>3, <1>4 DEF LineInv, LineTypeOK

LEMMA LineInitOK == LineInit => LineInv
<1> SUFFICES ASSUME LineInit PROVE LineInv
  OBVIOUS
<1>1. /\ lines \in Seq(FormLine) /\ Len(lines) = 1 /\ DOMAIN lines = {1}
      /\ lines[1].product = NoProduct /\ ~lines[1].picked
  BY EmptyFormIs DEF LineInit
<1>2. LineTypeOK
  BY <1>1 DEF LineInit, LineTypeOK, NotAsked
<1>3. PickedIsChosen /\ OneLineEach
  BY <1>1 DEF PickedIsChosen, OneLineEach, OwnProduct
<1>4. AskedOfOrdered
  BY DEF LineInit, AskedOfOrdered, NotAsked
<1> QED
  BY <1>1, <1>2, <1>3, <1>4 DEF LineInv

\* Picking puts a product on one line only, and remembers what came of a search.
LEMMA PickKeeps ==
  ASSUME LineInv, NEW i \in DOMAIN lines, NEW p \in Products \cup {NoProduct}, Pick(i, p)
  PROVE  LineInv'
<1>1. /\ lines' = [lines EXCEPT ![i] = Line(p, p \in Items)]
      /\ chosen' = chosen \cup ({p} \cap Items)
      /\ UNCHANGED <<editor, selling, ordered, loaded, results>>
      /\ p \in Options(i) \cup {NoProduct} /\ p # lines[i].product
  BY DEF Pick, Remember
<1>2. LineTypeOK
  BY DEF LineInv
<1>3. Items \subseteq Products
  BY <1>2 DEF LineTypeOK, Items
<1>4. /\ Line(p, p \in Items) \in FormLine
      /\ Line(p, p \in Items).product = p
      /\ Line(p, p \in Items).picked = (p \in Items)
  BY DEF Line, FormLine
<1>5. /\ lines' \in Seq(FormLine)
      /\ Len(lines') = Len(lines) /\ DOMAIN lines' = DOMAIN lines
      /\ lines'[i] = Line(p, p \in Items)
      /\ \A j \in DOMAIN lines \ {i} : lines'[j] = lines[j]
  BY <1>1, <1>2, <1>4 DEF LineTypeOK
<1>6. LineTypeOK'
  BY <1>1, <1>2, <1>3, <1>5 DEF LineTypeOK
<1>7. PickedIsChosen'
  BY <1>1, <1>4, <1>5 DEF LineInv, PickedIsChosen
<1>8. AskedOfOrdered'
  BY <1>1 DEF LineInv, AskedOfOrdered
<1>9. p # NoProduct => \A j \in DOMAIN lines \ {i} : lines[j].product # p
  <2> SUFFICES ASSUME p # NoProduct, NEW j \in DOMAIN lines, j # i PROVE lines[j].product # p
    OBVIOUS
  <2>1. p \in Options(i) /\ p \notin OwnProduct(i)
    BY <1>1 DEF OwnProduct
  <2>2. CASE editor = "order"
    BY <1>1, <2>1, <2>2 DEF Options, OrderChoices, AvailableLineProducts
  <2>3. CASE editor = "receipt"
    BY <1>1, <2>1, <2>3 DEF Options, ReceiptChoices, AvailableLineProducts
  <2>4. CASE editor = "adjustment"
    BY <2>4 DEF LineInv, LineTypeOK
  <2> QED
    BY <1>2, <2>2, <2>3, <2>4 DEF LineTypeOK
<1>10. OneLineEach'
  <2> SUFFICES ASSUME NEW j \in DOMAIN lines, NEW k \in DOMAIN lines, j # k,
                      lines'[j].product # NoProduct
               PROVE  lines'[j].product # lines'[k].product
    BY <1>5 DEF OneLineEach, OwnProduct
  <2>1. CASE j = i
    BY <1>4, <1>5, <1>9, <2>1
  <2>2. CASE k = i
    BY <1>4, <1>5, <1>9, <2>2
  <2>3. CASE j # i /\ k # i
    BY <1>5, <2>3 DEF LineInv, OneLineEach, OwnProduct
  <2> QED
    BY <2>1, <2>2, <2>3
<1> QED
  BY <1>1, <1>5, <1>6, <1>7, <1>8, <1>10 DEF LineInv

\* Lines come and go at the end and in the middle; those that stay are as before.
LEMMA AddKeeps == ASSUME LineInv, AddLine PROVE LineInv'
<1>1. /\ lines' = Append(lines, Line(NoProduct, FALSE))
      /\ UNCHANGED <<editor, selling, ordered, loaded, results, chosen>>
      /\ editor # "adjustment"
  BY DEF AddLine
<1>2. /\ Line(NoProduct, FALSE) \in FormLine
      /\ Line(NoProduct, FALSE).product = NoProduct /\ Line(NoProduct, FALSE).picked = FALSE
  BY LineFields
<1>3. LineTypeOK
  BY DEF LineInv
<1>4. /\ lines' \in Seq(FormLine)
      /\ DOMAIN lines' = 1 .. Len(lines) + 1 /\ DOMAIN lines = 1 .. Len(lines) /\ Len(lines) \in Nat
      /\ lines'[Len(lines) + 1] = Line(NoProduct, FALSE)
      /\ \A i \in DOMAIN lines : lines'[i] = lines[i]
  <2>1. lines \in Seq(FormLine)
    BY <1>3 DEF LineTypeOK
  <2> DEFINE l == Line(NoProduct, FALSE)
  <2>2. l \in FormLine
    BY <1>2
  <2> HIDE DEF l
  <2>3. lines' = Append(lines, l)
    BY <1>1 DEF l
  <2>4. /\ lines' \in Seq(FormLine)
        /\ DOMAIN lines' = 1 .. Len(lines) + 1 /\ DOMAIN lines = 1 .. Len(lines)
        /\ Len(lines) \in Nat /\ lines'[Len(lines) + 1] = l
        /\ \A i \in DOMAIN lines : lines'[i] = lines[i]
    BY <2>1, <2>2, <2>3
  <2> QED
    BY <2>4 DEF l
<1>5. \A i \in DOMAIN lines' : i \in DOMAIN lines \/ i = Len(lines) + 1
  BY <1>4
<1>6. LineTypeOK' /\ PickedIsChosen' /\ AskedOfOrdered'
  BY <1>1, <1>2, <1>3, <1>4, <1>5 DEF LineInv, LineTypeOK, PickedIsChosen, AskedOfOrdered
<1>7. OneLineEach'
  BY ZenonT(40), <1>2, <1>4, <1>5 DEF LineInv, OneLineEach, OwnProduct
<1> QED
  BY <1>1, <1>6, <1>7 DEF LineInv

LEMMA RemoveKeeps ==
  ASSUME LineInv, NEW i \in DOMAIN lines, RemoveLine(i)
  PROVE  LineInv'
<1>1. /\ lines' = SubSeq(lines, 1, i - 1) \o SubSeq(lines, i + 1, Len(lines))
      /\ UNCHANGED <<editor, selling, ordered, loaded, results, chosen>>
      /\ Len(lines) > 1
  BY DEF RemoveLine, RemoveAt
<1> DEFINE S == FormLine
<1>2. /\ LineTypeOK /\ lines \in Seq(S) /\ Len(lines) \in Nat
      /\ DOMAIN lines = 1 .. Len(lines) /\ i \in 1 .. Len(lines)
  BY DEF LineInv, LineTypeOK
<1> HIDE DEF S
<1>3. /\ SubSeq(lines, 1, i - 1) \in Seq(S) /\ Len(SubSeq(lines, 1, i - 1)) = i - 1
      /\ \A j \in 1 .. i - 1 : SubSeq(lines, 1, i - 1)[j] = lines[j]
  <2>1. \A j \in 1 .. i - 1 : lines[j] \in S
    BY <1>2
  <2>2. /\ SubSeq(lines, 1, i - 1) \in Seq(S)
        /\ Len(SubSeq(lines, 1, i - 1)) = IF 1 <= i - 1 THEN i - 1 - 1 + 1 ELSE 0
        /\ \A j \in 1 .. i - 1 - 1 + 1 : SubSeq(lines, 1, i - 1)[j] = lines[1 + j - 1]
    BY <1>2, <2>1, SubSeqProperties
  <2> QED
    BY <1>2, <2>2
<1>4. /\ SubSeq(lines, i + 1, Len(lines)) \in Seq(S)
      /\ Len(SubSeq(lines, i + 1, Len(lines))) = Len(lines) - i
      /\ \A j \in 1 .. Len(lines) - i : SubSeq(lines, i + 1, Len(lines))[j] = lines[i + j]
  <2>1. \A j \in i + 1 .. Len(lines) : lines[j] \in S
    BY <1>2
  <2>2. /\ SubSeq(lines, i + 1, Len(lines)) \in Seq(S)
        /\ Len(SubSeq(lines, i + 1, Len(lines))) =
             IF i + 1 <= Len(lines) THEN Len(lines) - (i + 1) + 1 ELSE 0
        /\ \A j \in 1 .. Len(lines) - (i + 1) + 1 :
             SubSeq(lines, i + 1, Len(lines))[j] = lines[i + 1 + j - 1]
    BY <1>2, <2>1, SubSeqProperties
  <2> QED
    BY <1>2, <2>2
<1>5. /\ lines' \in Seq(S) /\ Len(lines') = Len(lines) - 1 /\ DOMAIN lines' = 1 .. Len(lines) - 1
      /\ \A j \in 1 .. Len(lines) - 1 : lines'[j] = lines[IF j < i THEN j ELSE j + 1]
  <2> DEFINE before == SubSeq(lines, 1, i - 1)
             after == SubSeq(lines, i + 1, Len(lines))
  <2>1. /\ before \in Seq(S) /\ Len(before) = i - 1
        /\ after \in Seq(S) /\ Len(after) = Len(lines) - i
        /\ \A j \in 1 .. i - 1 : before[j] = lines[j]
        /\ \A j \in 1 .. Len(lines) - i : after[j] = lines[i + j]
        /\ lines' = before \o after
    BY <1>1, <1>3, <1>4
  <2> HIDE DEF before, after
  <2>2. /\ before \o after \in Seq(S) /\ Len(before \o after) = Len(lines) - 1
        /\ \A j \in 1 .. Len(before) + Len(after) :
             (before \o after)[j] = IF j <= Len(before) THEN before[j] ELSE after[j - Len(before)]
    <3>1. /\ before \o after \in Seq(S) /\ Len(before \o after) = Len(before) + Len(after)
          /\ \A j \in 1 .. Len(before) + Len(after) :
               (before \o after)[j] = IF j <= Len(before) THEN before[j] ELSE after[j - Len(before)]
      BY <2>1, ConcatProperties
    <3>2. Len(before) + Len(after) = Len(lines) - 1
      BY <1>2, <2>1
    <3> QED
      BY <3>1, <3>2
  <2>3. ASSUME NEW j \in 1 .. Len(lines) - 1
        PROVE  lines'[j] = lines[IF j < i THEN j ELSE j + 1]
    <3>1. j \in 1 .. Len(before) + Len(after)
      BY <1>2, <2>1
    <3>2. CASE j < i
      <4>1. j \in 1 .. i - 1
        BY <1>2, <3>2
      <4> QED
        BY <2>1, <2>2, <3>1, <3>2, <4>1
    <3>3. CASE ~(j < i)
      <4>1. j - (i - 1) \in 1 .. Len(lines) - i /\ i + (j - (i - 1)) = j + 1 /\ ~(j <= i - 1)
        BY <1>2, <3>3
      <4> QED
        BY ZenonT(40), <2>1, <2>2, <3>1, <3>3, <4>1
    <3> QED
      BY <3>2, <3>3
  <2>4. lines' \in Seq(S) /\ Len(lines') = Len(lines) - 1
    BY <2>1, <2>2
  <2>5. DOMAIN lines' = 1 .. Len(lines) - 1
    BY <2>4
  <2> QED
    BY <2>3, <2>4, <2>5
<1>6. LineTypeOK' /\ PickedIsChosen' /\ AskedOfOrdered'
  <2>1. \A j \in DOMAIN lines' : \E k \in DOMAIN lines : lines'[j] = lines[k]
    BY <1>2, <1>5
  <2> QED
    BY <1>1, <1>2, <1>5, <2>1 DEF LineInv, LineTypeOK, PickedIsChosen, AskedOfOrdered, S
<1>7. OneLineEach'
  <2> SUFFICES ASSUME NEW j \in DOMAIN lines', NEW k \in DOMAIN lines', j # k,
                      lines'[j].product # NoProduct
               PROVE  lines'[j].product # lines'[k].product
    BY DEF OneLineEach, OwnProduct
  <2> DEFINE a == IF j < i THEN j ELSE j + 1
             b == IF k < i THEN k ELSE k + 1
  <2>1. /\ a \in DOMAIN lines /\ b \in DOMAIN lines /\ a # b
        /\ lines'[j] = lines[a] /\ lines'[k] = lines[b]
    BY <1>2, <1>5
  <2> QED
    BY <2>1 DEF LineInv, OneLineEach, OwnProduct
<1>8. editor' # "adjustment"
  BY <1>1 DEF LineInv
<1> QED
  BY <1>6, <1>7, <1>8 DEF LineInv

\* The form starts again with lines nobody has picked.
LEMMA StartKeeps ==
  ASSUME LineInv, NEW form \in StartLines \cup {EmptyForm}, lines' = form,
         editor' = editor, LineTypeOK', AskedOfOrdered'
  PROVE  LineInv'
<1>1. CASE form = EmptyForm
  <2>1. /\ Len(lines') = 1 /\ DOMAIN lines' = {1}
        /\ lines'[1].product = NoProduct /\ ~lines'[1].picked
    BY <1>1, EmptyFormIs
  <2>2. PickedIsChosen' /\ OneLineEach'
    BY <2>1 DEF PickedIsChosen, OneLineEach, OwnProduct
  <2> QED
    BY <2>1, <2>2 DEF LineInv
<1>2. CASE form \in StartLines
  <2>1. /\ editor = "adjustment" => Len(form) = 1
        /\ \A i \in DOMAIN form : ~form[i].picked
        /\ \A i, j \in DOMAIN form : form[i].product = form[j].product => i = j
    BY <1>2, StartLinesDiffer
  <2>2. \A i \in DOMAIN lines' : ~lines'[i].picked
    BY <2>1
  <2>3. PickedIsChosen'
    BY <2>2 DEF PickedIsChosen
  <2>4. OneLineEach'
    BY <2>1 DEF OneLineEach, OwnProduct
  <2> QED
    BY <2>1, <2>3, <2>4 DEF LineInv
<1> QED
  BY <1>1, <1>2

LEMMA LineStep == LineInv /\ [LineNext]_lineVars => LineInv'
<1> SUFFICES ASSUME LineInv, [LineNext]_lineVars PROVE LineInv'
  OBVIOUS
<1>0. LineTypeOK /\ AskedOfOrdered
  BY DEF LineInv
<1>1. ASSUME NEW page \in SUBSET Products, SearchFor(page) PROVE LineInv'
  BY <1>1 DEF SearchFor, LineInv, LineTypeOK, PickedIsChosen, AskedOfOrdered, OneLineEach, OwnProduct
<1>2. ASSUME NEW i \in DOMAIN lines, NEW p \in Products \cup {NoProduct}, Pick(i, p) PROVE LineInv'
  BY <1>2, PickKeeps
<1>3. CASE AddLine
  BY <1>3, AddKeeps
<1>4. CASE EmptyLines
  <2>1. /\ lines' = EmptyForm /\ ordered' = {} /\ loaded' = NotAsked
        /\ UNCHANGED <<editor, selling, results, chosen>>
    BY <1>4 DEF EmptyLines
  <2>2. EmptyForm \in Seq(FormLine)
    BY EmptyFormIs
  <2>3. LineTypeOK' /\ AskedOfOrdered'
    BY <1>0, <2>1, <2>2 DEF LineTypeOK, AskedOfOrdered, NotAsked
  <2> QED
    BY <2>1, <2>3, StartKeeps
<1>5. ASSUME NEW i \in DOMAIN lines, RemoveLine(i) PROVE LineInv'
  BY <1>5, RemoveKeeps
<1>6. ASSUME NEW form \in StartLines, ValuesFromOrder(form) \/ RestoreLines(form) PROVE LineInv'
  <2>1. /\ lines' = form /\ ordered' \in {{}, ProductsOf(form)} /\ loaded' = NotAsked
        /\ results' \in {{}, results} /\ chosen' \in {{}, chosen} /\ UNCHANGED <<editor, selling>>
    BY <1>6 DEF ValuesFromOrder, RestoreLines
  <2>2. form \in Seq(FormLine) /\ ProductsOf(form) \subseteq Products
    BY StartLinesDiffer
  <2>3. LineTypeOK' /\ AskedOfOrdered'
    BY <1>0, <2>1, <2>2 DEF LineTypeOK, AskedOfOrdered, NotAsked
  <2> QED
    BY <2>1, <2>3, StartKeeps
<1>7. ASSUME NEW form \in StartLines, LatestOrder(form) PROVE LineInv'
  <2>1. /\ ordered' = ProductsOf(form)
        /\ loaded' = [p \in Products |-> IF p \in ordered \cap ordered' THEN loaded[p] ELSE "no"]
        /\ UNCHANGED <<editor, selling, results, chosen, lines>>
    BY <1>7 DEF LatestOrder
  <2>2. ProductsOf(form) \subseteq Products
    BY StartLinesDiffer
  <2>3. LineTypeOK' /\ AskedOfOrdered'
    BY <1>0, <2>1, <2>2 DEF LineTypeOK, AskedOfOrdered
  <2> QED
    BY <2>1, <2>3 DEF LineInv, PickedIsChosen, OneLineEach, OwnProduct
<1>8. ASSUME NEW p \in Products, ProductLoaded(p) \/ SetActive(p) PROVE LineInv'
  BY <1>8 DEF ProductLoaded, SetActive, LineInv, LineTypeOK, PickedIsChosen, AskedOfOrdered,
              OneLineEach, OwnProduct
<1>9. CASE UNCHANGED lineVars
  BY <1>9 DEF lineVars, LineInv, LineTypeOK, PickedIsChosen, AskedOfOrdered, OneLineEach, OwnProduct
<1> QED
  BY <1>1, <1>2, <1>3, <1>4, <1>5, <1>6, <1>7, <1>8, <1>9 DEF LineNext

\* order-form-drawer, receipt-drawer and adjustment-drawer: the select of a line offers
\* the product the line holds, and no product is on two lines, for any number of lines.
THEOREM LinesShowWhatTheyHold == LineSpec => []LinesAgree
BY LineInitOK, LineStep, LinesShown, PTL DEF LineSpec
-----------------------------------------------------------------------------
(* The drawers.  An entry is safe when it has been saved, or left behind by the   *)
(* user, or exposed, and held when it is safe or in the request remembered.      *)

Numbers      == 0 .. entries
Saved      == {pair[1] : pair \in written}
SavedTo(r) == {e \in 1 .. entries : <<e, r>> \in written} \cup {Theirs}
Safe       == Saved \cup givenUp \cup exposed \cup {Theirs}
Held       == hook.intent \cup Safe

\* Entries that were typed when record r was on the form, or are exposed.
BelongTo(held, r) == \A e \in held \ {Theirs} : e \in exposed \/ typedIn[e] = r

PlaceType  == [kind : {"list", "new", "detail", "edit"}, rec : Records \cup {New, None},
               copy : SUBSET Numbers]
FieldsType == [base : SUBSET Numbers, typed : SUBSET Numbers, conflict : BOOLEAN]
SaveType   == [pc : {"idle", "sent", "saved", "imageFailed", "refused", "lost"},
               to : Records \cup {New, None}, holds : SUBSET Numbers, image : SUBSET (1 .. entries),
               keyed : BOOLEAN]
HookType   == [intent : SUBSET Numbers, variables : SUBSET Numbers, restored : SUBSET Numbers,
               unknown : BOOLEAN, expired : BOOLEAN]

FormTypeOK ==
  /\ drawer \in Rows \cup ByIntent
  /\ at \in PlaceType /\ fields \in FieldsType /\ image \subseteq 1 .. entries
  /\ save \in SaveType /\ hook \in HookType
  /\ content \in [Records \cup {New} -> SUBSET Numbers]
  /\ detail \in [Records -> (SUBSET Numbers) \cup {None}]
  /\ entries \in 0 .. MaxEntries
  /\ typedIn \in [1 .. MaxEntries -> Records \cup {New, None}]
  /\ written \subseteq (1 .. entries) \X (Records \cup {New})

\* Which pages there are.
PlacesOK ==
  /\ at.kind = "new" => at.rec = New
  /\ at.kind = "edit" => at.rec \in Records \cup {New}
  /\ at.copy \subseteq SavedTo(at.rec)
  /\ drawer = "order" =>
       at.copy = {} /\ (at.kind \in {"detail", "edit"} => at.rec \in Records)
  /\ drawer # "order" => at.kind # "detail"
  /\ drawer \in {"receipt", "adjustment"} => at.kind # "edit"

\* What useCommandMutation remembers is under way or of unknown outcome.
HookOK ==
  /\ drawer \in Rows => hook = NoIntent
  /\ hook.intent # {} => hook.unknown \/ save.keyed
  /\ hook.expired => hook.unknown /\ ~save.keyed
  /\ drawer = "order" => hook.variables \subseteq Held /\ hook.restored \subseteq Held
  /\ BelongTo(hook.intent, New) /\ BelongTo(hook.variables, New) /\ BelongTo(hook.restored, New)

\* What a request carries is still on the form, or held; and it has been saved once
\* the server has answered.
SaveOK ==
  /\ ~Pending => save = NoSave
  /\ save.keyed => save.holds = hook.intent /\ save.to = New /\ drawer \in ByIntent
  /\ Pending /\ ~save.keyed =>
       /\ drawer \in Rows => save.to \in Records \cup {New}
       /\ drawer = "order" => save.to \in Records
       /\ drawer \notin {"receipt", "adjustment"}
  /\ save.holds \subseteq fields.typed \cup Held
  /\ save.image \subseteq image \cup Safe
  /\ BelongTo(save.holds, save.to) /\ BelongTo(save.image, save.to)
  /\ save.pc \in {"saved", "imageFailed"} => save.holds \subseteq SavedTo(save.to)
  /\ save.pc = "saved" => save.image \subseteq Safe
  /\ save.pc = "imageFailed" => drawer = "product"

\* What is on a form that closes, starts again or is locked is held elsewhere.
FieldsOK ==
  /\ 1 .. entries \subseteq fields.typed \cup image \cup Held
  /\ fields.base \subseteq Held
  /\ drawer \in {"receipt", "adjustment"} /\ ~hook.unknown =>
       /\ fields.base \subseteq Safe
       /\ save.keyed => hook.intent \subseteq fields.typed \cup Safe
  /\ ~FormOpen => fields.typed \subseteq Held /\ image = {}
  /\ at.kind = "new" /\ hook.unknown => fields.typed \subseteq Held
  /\ Pending => /\ fields.typed \subseteq save.holds \cup Held
                /\ image \subseteq save.image \cup exposed
  /\ drawer # "product" => image = {} /\ save.image = {}
  /\ FormOpen => BelongTo(Holds, at.rec) /\ BelongTo(image, at.rec)
  /\ drawer \in {"receipt", "adjustment"} => BelongTo(Holds, New) /\ (Pending => FormOpen)

RowsOK ==
  /\ \A r \in Records \cup {New} : content[r] \subseteq SavedTo(r)
  /\ \A r \in Records : detail[r] # None \/ drawer # "order" => detail[r] \subseteq SavedTo(r)

FormInv ==
  FormTypeOK /\ PlacesOK /\ HookOK /\ SaveOK /\ FieldsOK /\ RowsOK /\ SavedWhereTyped


-----------------------------------------------------------------------------
(* What an effect of the drawer leaves in the form.                          *)

LEMMA DepsAre ==
  /\ drawer = "order" => Deps = OrderDeps
  /\ drawer = "product" => Deps = ProductDeps
  /\ drawer = "partner" => Deps = PartnerDeps
  /\ drawer \in {"receipt", "adjustment"} => Deps = <<>>
BY DEF Deps

LEMMA DepsWillBe ==
  /\ drawer' = "order" => Deps' = OrderDeps'
  /\ drawer' = "product" => Deps' = ProductDeps'
  /\ drawer' = "partner" => Deps' = PartnerDeps'
  /\ drawer' \in {"receipt", "adjustment"} => Deps' = <<>>
BY DEF Deps

LEMMA Rebase ==
  ASSUME NEW base, NEW D, NEW f \in [base : D, typed : D, conflict : BOOLEAN], base \in D
  PROVE  [f EXCEPT !.base = base] = [base |-> base, typed |-> f.typed, conflict |-> f.conflict]
OBVIOUS

LEMMA BlankBut ==
  ASSUME NEW base
  PROVE  [Blank EXCEPT !.base = base] = [base |-> base, typed |-> {}, conflict |-> FALSE]
<1> DEFINE D == {base, {}}
<1>1. Blank \in [base : D, typed : D, conflict : BOOLEAN] /\ base \in D
  BY DEF Blank
<1>2. Blank.typed = {} /\ Blank.conflict = FALSE
  BY DEF Blank
<1> HIDE DEF D
<1>3. [Blank EXCEPT !.base = base] = [base |-> base, typed |-> Blank.typed, conflict |-> Blank.conflict]
  BY <1>1, Rebase
<1> QED
  BY <1>2, <1>3

\* A form that opens, or is another one now, is reset; one that is closed is not.
LEMMA OrderRerenders ==
  ASSUME NEW handled, drawer = "order", drawer' = drawer, Rerender(handled)
  PROVE  \/ /\ fields' = handled
            /\ FormOpen' => /\ FormOpen /\ hook'.variables = hook.variables
                            /\ at'.kind = at.kind /\ at'.rec = at.rec
         \/ /\ FormOpen'
            /\ fields'.base = IF at'.kind = "edit" THEN detail'[at'.rec] ELSE hook'.variables
            /\ fields'.typed = {} /\ fields' = [base |-> fields'.base, typed |-> {}, conflict |-> FALSE]
            /\ ~(FormOpen /\ hook'.variables = hook.variables /\ at'.kind = at.kind /\ at'.rec = at.rec)
<1>1. Deps = OrderDeps /\ Deps' = OrderDeps'
  BY DepsAre, DepsWillBe
<1>2. fields' = IF Deps' \in {Deps, <<>>} THEN handled
                ELSE [base |-> IF at'.kind = "edit" THEN detail'[at'.rec] ELSE hook'.variables,
                      typed |-> {}, conflict |-> FALSE]
  <2> DEFINE d == IF at'.kind = "edit" THEN detail'[at'.rec] ELSE hook'.variables
  <2>1. Defaults' = d
    BY DEF Defaults, OrderDefaults
  <2> HIDE DEF d
  <2>2. [Blank EXCEPT !.base = d] = [base |-> d, typed |-> {}, conflict |-> FALSE]
    BY BlankBut
  <2>3. fields' = IF Deps' \in {Deps, <<>>} THEN handled ELSE [Blank EXCEPT !.base = d]
    BY <2>1 DEF Rerender
  <2> QED
    BY <2>2, <2>3 DEF d
<1>3. CASE ~FormOpen'
  <2>1. Deps' = <<>>
    BY <1>1, <1>3 DEF OrderDeps
  <2> QED
    BY <1>2, <1>3, <2>1
<1>4. CASE FormOpen'
  <2>1. Deps' = <<at'.kind, at'.rec, hook'.variables>> /\ Deps' # <<>>
    BY <1>1, <1>4 DEF OrderDeps
  <2>2. CASE ~FormOpen
    <3>1. Deps = <<>>
      BY <1>1, <2>2 DEF OrderDeps
    <3> QED
      BY <1>2, <1>4, <2>1, <2>2, <3>1
  <2>3. CASE FormOpen
    <3>1. Deps = <<at.kind, at.rec, hook.variables>>
      BY <1>1, <2>3 DEF OrderDeps
    <3> QED
      BY <1>2, <1>4, <2>1, <2>3, <3>1
  <2> QED
    BY <2>2, <2>3
<1> QED
  BY <1>3, <1>4

LEMMA RowRerenders ==
  ASSUME NEW handled, drawer \in Rows, drawer' = drawer, Rerender(handled)
  PROVE  \/ fields' = handled /\ at'.kind = at.kind /\ at'.rec = at.rec /\ at'.copy = at.copy
         \/ /\ fields'.base = at'.copy /\ fields'.typed = {}
            /\ fields' = [base |-> at'.copy, typed |-> {}, conflict |-> FALSE]
            /\ ~(at'.kind = at.kind /\ at'.rec = at.rec /\ at'.copy = at.copy)
<1>1. Deps = <<at.kind, at.rec, at.copy>> /\ Deps' = <<at'.kind, at'.rec, at'.copy>>
  BY DepsAre, DepsWillBe DEF Rows, ProductDeps, PartnerDeps
<1>2. Deps' # <<>>
  BY <1>1
<1>3. fields' = IF Deps' \in {Deps, <<>>} THEN handled
                ELSE [base |-> at'.copy, typed |-> {}, conflict |-> FALSE]
  <2>1. Defaults' = at'.copy
    BY DEF Defaults, Rows
  <2>2. [Blank EXCEPT !.base = at'.copy] = [base |-> at'.copy, typed |-> {}, conflict |-> FALSE]
    BY BlankBut
  <2>3. fields' = IF Deps' \in {Deps, <<>>} THEN handled ELSE [Blank EXCEPT !.base = at'.copy]
    BY <2>1 DEF Rerender
  <2> QED
    BY <2>2, <2>3
<1>4. CASE Deps' = Deps
  BY <1>1, <1>3, <1>4
<1>5. CASE Deps' # Deps
  BY <1>1, <1>2, <1>3, <1>5
<1> QED
  BY <1>4, <1>5

LEMMA OtherRerenders ==
  ASSUME NEW handled, drawer \in {"receipt", "adjustment"}, drawer' = drawer, Rerender(handled)
  PROVE  fields' = handled
<1>1. Deps' = <<>>
  BY DepsWillBe
<1> QED
  BY <1>1 DEF Rerender

LEMMA Drawers ==
  FormTypeOK => drawer = "order" \/ drawer \in Rows \/ drawer \in {"receipt", "adjustment"}
BY DEF FormTypeOK, ByIntent

LEMMA TypesStay ==
  entries' = entries => /\ Numbers' = Numbers /\ PlaceType' = PlaceType /\ FieldsType' = FieldsType
                        /\ SaveType' = SaveType /\ HookType' = HookType
BY DEF Numbers, PlaceType, FieldsType, SaveType, HookType

\* The page, the form and the image are as they should be, the rest is as it was.
LEMMA MoveTypes ==
  ASSUME FormTypeOK, UNCHANGED <<drawer, save, content, detail, entries, typedIn, written>>,
         at' \in PlaceType, fields' \in FieldsType, image' \subseteq 1 .. entries, hook' \in HookType
  PROVE  FormTypeOK'
<1>1. /\ Numbers' = Numbers /\ PlaceType' = PlaceType /\ FieldsType' = FieldsType
      /\ SaveType' = SaveType /\ HookType' = HookType
  BY TypesStay
<1> QED
  BY <1>1 DEF FormTypeOK


\* What has been typed, saved and left behind stays so.
LEMMA HistoryStays ==
  ASSUME FormTypeOK, entries' = entries, typedIn' = typedIn,
         written \subseteq written', givenUp \subseteq givenUp', exposed \subseteq exposed'
  PROVE  /\ Safe \subseteq Safe'
         /\ \A r : SavedTo(r) \subseteq SavedTo(r)'
         /\ \A held, r : BelongTo(held, r) => BelongTo(held, r)'
         /\ hook'.intent = hook.intent => Held \subseteq Held'
<1>1. Saved \subseteq Saved'
  BY DEF Saved
<1>2. Safe \subseteq Safe'
  BY <1>1 DEF Safe
<1>3. \A r : SavedTo(r) \subseteq SavedTo(r)'
  BY DEF SavedTo
<1>4. \A held, r : BelongTo(held, r) => BelongTo(held, r)'
  BY DEF BelongTo
<1> QED
  BY <1>2, <1>3, <1>4 DEF Held

\* A move to another page, or a form that closes.
LEMMA MoveKeeps ==
  ASSUME FormInv, FormTypeOK', PlacesOK',
         UNCHANGED <<drawer, save, content, detail, entries, typedIn, written, exposed>>,
         hook' = hook \/ (hook' = Reset /\ drawer \in {"receipt", "adjustment"}),
         givenUp \subseteq givenUp',
         image' = image \/ (image' = {} /\ image \subseteq Safe'),
         fields'.base \subseteq Held', fields'.typed \subseteq fields.typed,
         fields.typed \subseteq fields'.typed \cup Held',
         drawer \in {"receipt", "adjustment"} =>
           /\ fields'.base \subseteq fields.base
           /\ fields'.typed = fields.typed \/ ~Pending
           /\ BelongTo(Holds, New)' /\ (Pending => FormOpen'),
         ~FormOpen' => fields'.typed \subseteq Held' /\ image' = {},
         at'.kind = "new" /\ hook.unknown => fields'.typed \subseteq Held',
         FormOpen' => BelongTo(Holds, at.rec)' /\ BelongTo(image, at.rec)'
  PROVE  FormInv'
<1>0. FormTypeOK /\ HookOK /\ SaveOK /\ FieldsOK /\ RowsOK /\ SavedWhereTyped
  BY DEF FormInv
<1>1. /\ hook'.intent = hook.intent /\ hook'.unknown = hook.unknown /\ hook'.expired = hook.expired
      /\ hook'.restored = hook.restored
      /\ \/ hook'.variables = hook.variables
         \/ drawer \in {"receipt", "adjustment"} /\ hook'.variables = hook.restored
      /\ drawer \in Rows => hook' = hook
  BY <1>0 DEF FormTypeOK, HookType, Reset, Rows
<1>2. /\ Safe \subseteq Safe' /\ Held \subseteq Held'
      /\ \A r : SavedTo(r) \subseteq SavedTo(r)'
      /\ \A held, r : BelongTo(held, r) => BelongTo(held, r)'
  BY <1>0, <1>1, HistoryStays
<1>3. HookOK'
  BY <1>0, <1>1, <1>2 DEF HookOK
<1>4. SaveOK'
  <2>1. save.holds \subseteq fields'.typed \cup Held'
    BY <1>0, <1>2 DEF SaveOK
  <2>2. save.image \subseteq image' \cup Safe'
    BY <1>0, <1>2 DEF SaveOK
  <2> QED
    BY <1>0, <1>1, <1>2, <2>1, <2>2 DEF SaveOK, Pending
<1>5. FieldsOK'
  <2>1. 1 .. entries \subseteq fields'.typed \cup image' \cup Held'
    <3>1. 1 .. entries \subseteq fields.typed \cup image \cup Held
      BY <1>0 DEF FieldsOK
    <3>2. Safe' \subseteq Held'
      BY DEF Held
    <3> QED
      BY <1>2, <3>1, <3>2
  <2>2. drawer \in {"receipt", "adjustment"} /\ ~hook.unknown =>
          /\ fields'.base \subseteq Safe'
          /\ save.keyed => hook.intent \subseteq fields'.typed \cup Safe'
    BY <1>0, <1>2 DEF FieldsOK, SaveOK, NoSave
  <2>3. Pending => fields'.typed \subseteq save.holds \cup Held' /\ image' \subseteq save.image \cup exposed'
    BY <1>0, <1>2 DEF FieldsOK
  <2>4. drawer # "product" => image' = {} /\ save.image = {}
    BY <1>0 DEF FieldsOK
  <2> QED
    BY <1>1, <2>1, <2>2, <2>3, <2>4 DEF FieldsOK, Pending
<1>6. RowsOK'
  BY <1>0, <1>2 DEF RowsOK
<1>7. SavedWhereTyped'
  BY <1>0 DEF SavedWhereTyped
<1> QED
  BY <1>3, <1>4, <1>5, <1>6, <1>7 DEF FormInv

LEMMA BelongingParts ==
  ASSUME NEW held, NEW more, NEW r
  PROVE  /\ BelongTo({}, r)
         /\ BelongTo(held, r) /\ BelongTo(more, r) => BelongTo(held \cup more, r)
         /\ BelongTo(held \cup more, r) => BelongTo(held, r) /\ BelongTo(more, r)
         /\ more \subseteq held /\ BelongTo(held, r) => BelongTo(more, r)
BY DEF BelongTo

LEMMA SavedBelongs ==
  ASSUME SavedWhereTyped, NEW r
  PROVE  BelongTo(SavedTo(r), r)
BY DEF SavedWhereTyped, BelongTo, SavedTo

LEMMA SavedIsSafe == ASSUME NEW r PROVE SavedTo(r) \subseteq Safe /\ SavedTo(r) \subseteq Held
<1>1. SavedTo(r) \subseteq Saved \cup {Theirs}
  <2> SUFFICES ASSUME NEW e \in 1 .. entries, <<e, r>> \in written PROVE e \in Saved
    BY DEF SavedTo
  <2>1. <<e, r>>[1] = e
    OBVIOUS
  <2> QED
    BY <2>1 DEF Saved
<1> QED
  BY <1>1 DEF Safe, Held


-----------------------------------------------------------------------------
(* Pages.                                                                   *)

LEMMA FormInvParts ==
  FormInv => FormTypeOK /\ PlacesOK /\ HookOK /\ SaveOK /\ FieldsOK /\ RowsOK /\ SavedWhereTyped
BY DEF FormInv

\* Of whatever a form is reset to, each entry is held and belongs to its record.
LEMMA NewDraftStarts ==
  ASSUME FormInv, drawer = "order"
  PROVE  hook.variables \subseteq Held /\ BelongTo(hook.variables, New)
BY DEF FormInv, HookOK

LEMMA RowsAreSaved ==
  ASSUME FormInv, NEW r \in Records, detail[r] # None \/ drawer # "order"
  PROVE  detail[r] \subseteq Held /\ detail[r] \subseteq SavedTo(r) /\ BelongTo(detail[r], r)
<1>1. detail[r] \subseteq SavedTo(r)
  BY DEF FormInv, RowsOK
<1>2. SavedTo(r) \subseteq Held /\ BelongTo(SavedTo(r), r)
  BY SavedIsSafe, SavedBelongs DEF FormInv
<1> QED
  BY <1>1, <1>2, BelongingParts

LEMMA OpenNewKeeps == ASSUME FormInv, OpenNew PROVE FormInv'
<1>1. /\ at.kind = "list" /\ at' = [kind |-> "new", rec |-> New, copy |-> {}] /\ image' = {}
      /\ UNCHANGED <<drawer, save, hook, content, detail, history>>
      /\ Rerender(fields)
  BY DEF OpenNew, Place
<1>2. UNCHANGED <<entries, saves, typedIn, written, givenUp, exposed>>
  BY <1>1 DEF history
<1>3. ~FormOpen /\ fields.typed \subseteq Held /\ fields.base \subseteq Held /\ image = {}
  BY <1>1 DEF FormInv, FieldsOK, FormOpen
<1>4. FormOpen' /\ PlacesOK'
  BY <1>1 DEF FormOpen, PlacesOK, FormInv
<1>5. Held' = Held /\ Safe' = Safe /\ \A held, r : BelongTo(held, r)' <=> BelongTo(held, r)
  BY <1>1, <1>2 DEF Held, Safe, Saved, BelongTo
<1>6. \/ fields' = fields /\ drawer \in {"receipt", "adjustment"}
      \/ /\ fields'.typed = {} /\ fields'.base \subseteq Held /\ BelongTo(fields'.base, New)
         /\ fields' \in FieldsType
         /\ drawer \notin {"receipt", "adjustment"}
  <2>1. CASE drawer = "order"
    <3>1. fields'.base = hook.variables /\ fields'.typed = {}
          /\ fields' = [base |-> hook.variables, typed |-> {}, conflict |-> FALSE]
      BY <1>1, <1>3, <1>4, <2>1, OrderRerenders
    <3>2. hook.variables \in SUBSET Numbers
      BY DEF FormInv, FormTypeOK, HookType
    <3>3. fields' \in FieldsType
      BY <3>1, <3>2 DEF FieldsType
    <3> QED
      BY <2>1, <3>1, <3>3, NewDraftStarts
  <2>2. CASE drawer \in Rows
    <3>1. /\ fields'.base = {} /\ fields'.typed = {}
          /\ fields' = [base |-> {}, typed |-> {}, conflict |-> FALSE]
      BY <1>1, <2>2, RowRerenders
    <3>2. fields' \in FieldsType
      BY <3>1 DEF FieldsType
    <3> QED
      BY <2>2, <3>1, <3>2, BelongingParts DEF Rows
  <2>3. CASE drawer \in {"receipt", "adjustment"}
    BY <1>1, <2>3, OtherRerenders
  <2> QED
    BY <2>1, <2>2, <2>3, Drawers DEF FormInv
<1>7. FormTypeOK'
  <2>1. at' \in PlaceType
    BY <1>1 DEF PlaceType
  <2>2. fields' \in FieldsType
    BY <1>6 DEF FormInv, FormTypeOK
  <2> QED
    BY <1>1, <1>2, <2>1, <2>2, MoveTypes DEF FormInv, FormTypeOK
<1>8. BelongTo(fields'.base \cup fields'.typed, New)
  <2>1. CASE fields' = fields /\ drawer \in {"receipt", "adjustment"}
    BY <2>1 DEF FormInv, FieldsOK, Holds
  <2>2. CASE fields'.typed = {} /\ BelongTo(fields'.base, New)
    BY <2>2, BelongingParts
  <2> QED
    BY <1>6, <2>1, <2>2
<1>9. BelongTo(Holds, New)' /\ BelongTo(image, New)'
  BY <1>1, <1>5, <1>8, BelongingParts DEF Holds
<1> QED
  BY <1>1, <1>2, <1>3, <1>4, <1>5, <1>6, <1>7, <1>9, MoveKeeps


LEMMA CopiedPlace ==
  ASSUME NEW kind, NEW rec, NEW copy
  PROVE  [Place(kind, rec) EXCEPT !.copy = copy] = [kind |-> kind, rec |-> rec, copy |-> copy]
<1> DEFINE D == {copy, {}}
<1>1. Place(kind, rec) \in [kind : {kind}, rec : {rec}, copy : D]
  BY DEF Place
<1>2. \A p \in [kind : {kind}, rec : {rec}, copy : D] :
        [p EXCEPT !.copy = copy] = [kind |-> kind, rec |-> rec, copy |-> copy]
  OBVIOUS
<1> QED
  BY <1>1, <1>2

\* An order's form is closed on its page, and opens with what it is reset to.
LEMMA OrderFormStarts ==
  ASSUME FormInv, drawer = "order", UNCHANGED <<drawer, hook, detail>>,
         at' \in PlaceType, PlacesOK', FormOpen', fields'.typed = {},
         fields'.base = IF at'.kind = "edit" THEN detail'[at'.rec] ELSE hook'.variables,
         fields' = [base |-> fields'.base, typed |-> {}, conflict |-> FALSE]
  PROVE  /\ fields' \in FieldsType /\ fields'.base \subseteq Held
         /\ BelongTo(fields'.base, at'.rec)
<1> DEFINE base == IF at'.kind = "edit" THEN detail'[at'.rec] ELSE hook'.variables
<1>1. base \subseteq Held /\ base \in SUBSET Numbers /\ BelongTo(base, at'.rec)
  <2>1. CASE at'.kind = "edit"
    <3>1. at'.rec \in Records /\ detail[at'.rec] # None
      BY <2>1 DEF PlacesOK, FormOpen
    <3>2. detail[at'.rec] \in SUBSET Numbers
      BY <3>1 DEF FormInv, FormTypeOK
    <3>3. detail[at'.rec] \subseteq Held /\ BelongTo(detail[at'.rec], at'.rec)
      BY <3>1, RowsAreSaved
    <3> QED
      BY <2>1, <3>2, <3>3
  <2>2. CASE at'.kind # "edit"
    <3>1. at'.rec = New
      BY <2>2 DEF FormOpen, PlacesOK
    <3>2. hook.variables \in SUBSET Numbers
      BY DEF FormInv, FormTypeOK, HookType
    <3> QED
      BY <2>2, <3>1, <3>2, NewDraftStarts
  <2> QED
    BY <2>1, <2>2
<1> HIDE DEF base
<1>2. fields' = [base |-> base, typed |-> {}, conflict |-> FALSE] /\ fields'.base = base
  BY DEF base
<1>3. fields' \in FieldsType
  BY <1>1, <1>2 DEF FieldsType
<1> QED
  BY <1>1, <1>2, <1>3

LEMMA OpenOrderKeeps == ASSUME FormInv, NEW r \in Records, OpenOrder(r) PROVE FormInv'
<1>1. /\ drawer = "order" /\ at.kind = "list" /\ image' = image
      /\ at' = [kind |-> "detail", rec |-> r, copy |-> {}]
      /\ UNCHANGED <<drawer, save, hook, content, detail, entries, saves, typedIn, written,
                     givenUp, exposed>>
      /\ Rerender(fields)
  BY DEF OpenOrder, Place, history
<1>2. ~FormOpen /\ ~FormOpen' /\ fields.typed \subseteq Held /\ fields.base \subseteq Held /\ image = {}
  BY <1>1 DEF FormInv, FieldsOK, FormOpen
<1>3. fields' = fields
  BY <1>1, <1>2, OrderRerenders
<1>4. PlacesOK'
  BY <1>1 DEF PlacesOK
<1>5. Held' = Held
  BY <1>1 DEF Held, Safe, Saved
<1>6. FormTypeOK'
  <2>1. at' \in PlaceType
    BY <1>1 DEF PlaceType
  <2> QED
    BY <1>1, <1>3, <2>1, MoveTypes DEF FormInv, FormTypeOK
<1> QED
  BY <1>1, <1>2, <1>3, <1>4, <1>5, <1>6, MoveKeeps

LEMMA EditOrderKeeps == ASSUME FormInv, EditOrder PROVE FormInv'
<1>1. /\ drawer = "order" /\ at.rec \in Records /\ detail[at.rec] # None
      /\ at.kind = "detail" /\ at' = [kind |-> "edit", rec |-> at.rec, copy |-> {}]
      /\ image' = image
      /\ UNCHANGED <<drawer, save, hook, content, detail, entries, saves, typedIn, written,
                     givenUp, exposed>>
      /\ Rerender(fields)
  BY DEF EditOrder, Place, history, FormInv, PlacesOK
<1>2. ~FormOpen /\ FormOpen' /\ fields.typed \subseteq Held /\ fields.base \subseteq Held /\ image = {}
  BY <1>1 DEF FormInv, FieldsOK, FormOpen
<1>3. /\ fields'.base = IF at'.kind = "edit" THEN detail'[at'.rec] ELSE hook'.variables
      /\ fields'.typed = {} /\ fields' = [base |-> fields'.base, typed |-> {}, conflict |-> FALSE]
  BY <1>1, <1>2, OrderRerenders
<1>4. PlacesOK' /\ at' \in PlaceType
  BY <1>1 DEF PlacesOK, PlaceType
<1>5. Held' = Held /\ \A held, r : BelongTo(held, r)' <=> BelongTo(held, r)
  BY <1>1 DEF Held, Safe, Saved, BelongTo
<1>6. fields' \in FieldsType /\ fields'.base \subseteq Held /\ BelongTo(fields'.base, at'.rec)
  BY <1>1, <1>2, <1>3, <1>4, OrderFormStarts
<1>7. FormTypeOK'
  BY <1>1, <1>4, <1>6, MoveTypes DEF FormInv, FormTypeOK
<1>8. BelongTo(Holds, at.rec)' /\ BelongTo(image, at.rec)'
  BY <1>1, <1>2, <1>3, <1>5, <1>6, BelongingParts DEF Holds
<1> QED
  BY <1>1, <1>2, <1>3, <1>4, <1>5, <1>6, <1>7, <1>8, MoveKeeps

LEMMA EditRowKeeps == ASSUME FormInv, NEW r \in Records, EditRow(r) PROVE FormInv'
<1>1. /\ drawer \in Rows /\ at.kind = "list" /\ image' = {}
      /\ at' = [kind |-> "edit", rec |-> r, copy |-> detail[r]]
      /\ UNCHANGED <<drawer, save, hook, content, detail, entries, saves, typedIn, written,
                     givenUp, exposed>>
      /\ Rerender(fields)
  <2>1. [Place("edit", r) EXCEPT !.copy = detail[r]] = [kind |-> "edit", rec |-> r, copy |-> detail[r]]
    BY CopiedPlace
  <2> QED
    BY <2>1 DEF EditRow, history
<1>2. /\ drawer \notin {"order", "receipt", "adjustment"}
      /\ ~FormOpen /\ FormOpen' /\ fields.typed \subseteq Held /\ image = {}
  BY <1>1 DEF FormInv, FieldsOK, FormOpen, Rows
<1>3. /\ fields'.base = detail[r] /\ fields'.typed = {}
      /\ fields' = [base |-> detail[r], typed |-> {}, conflict |-> FALSE]
  BY <1>1, RowRerenders
<1>4. /\ detail[r] \subseteq Held /\ detail[r] \subseteq SavedTo(r) /\ BelongTo(detail[r], r)
      /\ detail[r] \in SUBSET Numbers
  <2>1. detail[r] \subseteq Held /\ detail[r] \subseteq SavedTo(r) /\ BelongTo(detail[r], r)
    BY <1>2, RowsAreSaved
  <2>2. SavedTo(r) \subseteq Numbers
    BY FormsAssumption DEF SavedTo, Numbers, Theirs, FormInv, FormTypeOK
  <2> QED
    BY <2>1, <2>2
<1>5. /\ Held' = Held /\ SavedTo(r)' = SavedTo(r)
      /\ \A held, q : BelongTo(held, q)' <=> BelongTo(held, q)
  BY <1>1 DEF Held, Safe, Saved, SavedTo, BelongTo
<1>6. PlacesOK'
  BY <1>1, <1>2, <1>4, <1>5 DEF PlacesOK
<1>7. FormTypeOK'
  <2>1. at' \in PlaceType
    BY <1>1, <1>4 DEF PlaceType
  <2>2. fields' \in FieldsType
    BY <1>3, <1>4 DEF FieldsType
  <2> QED
    BY <1>1, <2>1, <2>2, MoveTypes DEF FormInv, FormTypeOK
<1>8. BelongTo(Holds, at.rec)' /\ BelongTo(image, at.rec)'
  BY <1>1, <1>3, <1>4, <1>5, BelongingParts DEF Holds
<1> QED
  BY <1>1, <1>2, <1>3, <1>4, <1>5, <1>6, <1>7, <1>8, MoveKeeps


LEMMA GoToKeeps == ASSUME FormInv, NEW url \in Urls, GoTo(url) PROVE FormInv'
<1>1. /\ drawer = "order" /\ url # at /\ at' = url /\ givenUp' = givenUp \cup fields.typed
      /\ UNCHANGED <<drawer, image, save, hook, content, detail, entries, saves, typedIn, written,
                     exposed>>
      /\ Rerender(fields)
  BY DEF GoTo
<1>2. /\ at' \in PlaceType /\ at'.copy = {}
      /\ at'.kind = "new" => at'.rec = New
      /\ at'.kind \in {"detail", "edit"} => at'.rec \in Records
  BY <1>1 DEF Urls, ListPage, Place, PlaceType
<1>3. PlacesOK'
  BY <1>1, <1>2 DEF PlacesOK
<1>4. at'.kind # at.kind \/ at'.rec # at.rec
  <2>1. at \in PlaceType /\ at.copy = {}
    BY <1>1 DEF FormInv, FormTypeOK, PlacesOK
  <2> QED
    BY <1>1, <1>2, <2>1 DEF PlaceType
<1>5. FormTypeOK /\ fields.base \subseteq Held /\ image = {}
  BY <1>1 DEF FormInv, FieldsOK
<1>6. /\ Held \subseteq Held' /\ \A held, r : BelongTo(held, r) => BelongTo(held, r)'
      /\ fields.typed \subseteq Held'
  BY <1>1, <1>5, HistoryStays DEF Held, Safe
<1>7. /\ fields' \in FieldsType
      /\ \/ fields' = fields /\ ~FormOpen'
         \/ /\ fields'.typed = {} /\ fields'.base \subseteq Held
            /\ BelongTo(fields'.base, at'.rec)
  <2>1. CASE FormOpen'
    <3>1. /\ fields'.base = IF at'.kind = "edit" THEN detail'[at'.rec] ELSE hook'.variables
          /\ fields'.typed = {} /\ fields' = [base |-> fields'.base, typed |-> {}, conflict |-> FALSE]
      BY <1>1, <1>4, <2>1, OrderRerenders
    <3> QED
      BY <1>1, <1>2, <1>3, <2>1, <3>1, OrderFormStarts
  <2>2. CASE ~FormOpen'
    <3>1. fields' = fields
      BY <1>1, <2>2, OrderRerenders
    <3> QED
      BY <1>5, <2>2, <3>1 DEF FormTypeOK
  <2> QED
    BY <2>1, <2>2
<1>8. FormTypeOK'
  BY <1>1, <1>2, <1>5, <1>7, MoveTypes DEF FormTypeOK
<1>9. FormOpen' => BelongTo(Holds, at.rec)' /\ BelongTo(image, at.rec)'
  <2> SUFFICES ASSUME FormOpen' PROVE BelongTo(Holds, at.rec)' /\ BelongTo(image, at.rec)'
    OBVIOUS
  <2>1. fields'.typed = {} /\ BelongTo(fields'.base, at'.rec) /\ BelongTo({}, at'.rec)
    BY <1>7, BelongingParts
  <2>2. BelongTo(fields'.base \cup fields'.typed, at'.rec)
    BY <2>1, BelongingParts
  <2> QED
    BY <1>1, <1>5, <1>6, <2>1, <2>2 DEF Holds, BelongTo
<1> QED
  BY <1>1, <1>2, <1>3, <1>5, <1>6, <1>7, <1>8, <1>9, MoveKeeps

LEMMA BlankIs == Blank \in FieldsType /\ Blank.base = {} /\ Blank.typed = {}
BY DEF Blank, FieldsType

\* The user agrees to lose what is typed, or nothing is.
LEMMA ClosedSafely ==
  ASSUME NEW dirty, CloseFormSafely(dirty), ~dirty => fields.typed = {} /\ image = {},
         written' = written, exposed' = exposed
  PROVE  image' = {} /\ givenUp \subseteq givenUp' /\ fields.typed \subseteq Safe' /\ image \subseteq Safe'
BY DEF CloseFormSafely, Safe

LEMMA OrderCloseKeeps == ASSUME FormInv, OrderClose PROVE FormInv'
<1> DEFINE place == IF at.kind = "edit" THEN Place("detail", at.rec) ELSE ListPage
<1>1. /\ drawer = "order" /\ FormOpen /\ at' = place
      /\ UNCHANGED <<drawer, hook, save, content, detail, entries, saves, typedIn, written, exposed>>
      /\ \/ Locked /\ UNCHANGED <<image, givenUp>> /\ Rerender(fields)
         \/ CloseFormSafely(fields.typed # {}) /\ Rerender(Blank)
  BY DEF OrderClose, CloseTo, Kept
<1>2. /\ at' \in PlaceType /\ at'.copy = {} /\ at'.kind \in {"list", "detail"}
      /\ at'.kind = "detail" => at'.rec \in Records
  BY <1>1 DEF Place, ListPage, PlaceType, FormInv, PlacesOK
<1>3. ~FormOpen' /\ PlacesOK'
  BY <1>1, <1>2 DEF FormOpen, PlacesOK
<1>4. FormTypeOK /\ fields.base \subseteq Held /\ image = {} /\ fields \in FieldsType
  BY <1>1 DEF FormInv, FormTypeOK, FieldsOK
<1>5. /\ givenUp \subseteq givenUp' /\ image' = {} /\ fields' \in FieldsType
      /\ fields'.typed \subseteq fields.typed /\ fields.typed \subseteq fields'.typed \cup Held'
      /\ fields'.typed \subseteq Held' /\ fields'.base \subseteq fields.base
  <2>1. CASE Locked /\ UNCHANGED <<image, givenUp>> /\ Rerender(fields)
    <3>1. fields' = fields
      BY <1>1, <1>3, <2>1, OrderRerenders
    <3>2. fields.typed \subseteq Held
      BY <2>1 DEF Locked, FormInv, FieldsOK
    <3>3. Held' = Held
      BY <1>1, <2>1 DEF Held, Safe, Saved
    <3> QED
      BY <1>4, <2>1, <3>1, <3>2, <3>3
  <2>2. CASE CloseFormSafely(fields.typed # {}) /\ Rerender(Blank)
    <3>1. fields' = Blank
      BY <1>1, <1>3, <2>2, OrderRerenders
    <3>2. image' = {} /\ givenUp \subseteq givenUp' /\ fields.typed \subseteq Safe'
      BY <1>1, <1>4, <2>2, ClosedSafely
    <3> QED
      BY <3>1, <3>2, BlankIs DEF Held
  <2> QED
    BY <1>1, <2>1, <2>2
<1>6. Held \subseteq Held'
  BY <1>1, <1>4, <1>5, HistoryStays
<1>7. FormTypeOK'
  BY <1>1, <1>2, <1>4, <1>5, MoveTypes DEF FormTypeOK
<1> HIDE DEF place
<1> QED
  BY <1>1, <1>2, <1>3, <1>4, <1>5, <1>6, <1>7, MoveKeeps

LEMMA ResetIs ==
  ASSUME FormTypeOK, hook' \in {hook, Reset}, UNCHANGED entries
  PROVE  hook' \in HookType /\ hook'.intent = hook.intent
BY TypesStay DEF FormTypeOK, HookType, Reset

LEMMA SimpleCloseKeeps ==
  ASSUME FormInv, ReceiptClose \/ AdjustmentClose PROVE FormInv'
<1>1. /\ drawer \in {"receipt", "adjustment"} /\ FormOpen /\ at' = ListPage /\ ~Pending
      /\ UNCHANGED <<drawer, save, content, detail, entries, saves, typedIn, written, exposed>>
      /\ \/ Locked /\ UNCHANGED <<image, givenUp, hook, fields>>
         \/ /\ CloseFormSafely(fields.typed # {}) /\ hook' = Reset
            /\ fields' = Blank \/ fields' = [fields EXCEPT !.typed = {}]
  BY DEF ReceiptClose, AdjustmentClose, CloseTo, Kept
<1>2. at' \in PlaceType /\ at'.copy = {} /\ at'.kind = "list"
  BY <1>1 DEF Place, ListPage, PlaceType
<1>3. ~FormOpen' /\ PlacesOK'
  BY <1>1, <1>2 DEF FormOpen, PlacesOK
<1>4. /\ FormTypeOK /\ fields.base \subseteq Held /\ image = {} /\ fields \in FieldsType
      /\ BelongTo(Holds, New)
  BY <1>1 DEF FormInv, FormTypeOK, FieldsOK
<1>5. [fields EXCEPT !.typed = {}] = [base |-> fields.base, typed |-> {}, conflict |-> fields.conflict]
  BY <1>4 DEF FieldsType
<1>6. /\ givenUp \subseteq givenUp' /\ image' = {} /\ fields' \in FieldsType
      /\ fields'.typed \subseteq fields.typed /\ fields.typed \subseteq fields'.typed \cup Held'
      /\ fields'.typed \subseteq Held' /\ fields'.base \subseteq fields.base
      /\ hook' \in {hook, Reset}
  <2>1. CASE Locked /\ UNCHANGED <<image, givenUp, hook, fields>>
    <3>1. fields.typed \subseteq Held
      BY <2>1 DEF Locked, FormInv, FieldsOK
    <3>2. Held' = Held
      BY <1>1, <2>1 DEF Held, Safe, Saved
    <3> QED
      BY <1>4, <2>1, <3>1, <3>2
  <2>2. CASE /\ CloseFormSafely(fields.typed # {}) /\ hook' = Reset
             /\ fields' = Blank \/ fields' = [fields EXCEPT !.typed = {}]
    <3>1. fields'.typed = {} /\ fields'.base \subseteq fields.base /\ fields' \in FieldsType
      BY <1>4, <1>5, <2>2, BlankIs DEF FieldsType
    <3>2. image' = {} /\ givenUp \subseteq givenUp' /\ fields.typed \subseteq Safe'
      BY <1>1, <1>4, <2>2, ClosedSafely
    <3> QED
      BY <2>2, <3>1, <3>2 DEF Held
  <2> QED
    BY <1>1, <2>1, <2>2
<1>7. hook' \in HookType /\ hook'.intent = hook.intent
  BY <1>1, <1>4, <1>6, ResetIs
<1>8. Held \subseteq Held' /\ \A held, r : BelongTo(held, r) => BelongTo(held, r)'
  BY <1>1, <1>4, <1>6, <1>7, HistoryStays
<1>9. FormTypeOK'
  BY <1>1, <1>2, <1>4, <1>6, <1>7, MoveTypes DEF FormTypeOK
<1>10. BelongTo(Holds, New)'
  <2>1. fields'.base \cup fields'.typed \subseteq Holds
    BY <1>6 DEF Holds
  <2>2. BelongTo(fields'.base \cup fields'.typed, New)
    BY <1>4, <2>1, BelongingParts
  <2>3. \A e \in (fields'.base \cup fields'.typed) \ {Theirs} : e \in exposed' \/ typedIn'[e] = New
    BY <1>1, <2>2 DEF BelongTo
  <2> QED
    BY <2>3 DEF Holds, BelongTo
<1> QED
  BY <1>1, <1>2, <1>3, <1>4, <1>6, <1>8, <1>9, <1>10, MoveKeeps

LEMMA RowCloseKeeps ==
  ASSUME FormInv, ProductClose \/ PartnerClose PROVE FormInv'
<1>1. /\ drawer \in Rows /\ FormOpen /\ at' = ListPage
      /\ UNCHANGED <<drawer, hook, save, content, detail, entries, saves, typedIn, written, exposed>>
      /\ \/ CloseFormSafely(ProductDirty)
         \/ CloseFormSafely(fields.typed # {}) /\ drawer = "partner"
      /\ Rerender(fields)
  BY DEF ProductClose, PartnerClose, CloseTo, Rows
<1>2. at' \in PlaceType /\ at'.copy = {} /\ at'.kind = "list"
  BY <1>1 DEF Place, ListPage, PlaceType
<1>3. ~FormOpen' /\ PlacesOK' /\ at.kind # "list"
  BY <1>1, <1>2 DEF FormOpen, PlacesOK
<1>4. FormTypeOK /\ fields.base \subseteq Held /\ (drawer = "partner" => image = {})
  BY <1>1 DEF FormInv, FieldsOK
<1>5. /\ fields'.base = {} /\ fields'.typed = {}
      /\ fields' = [base |-> {}, typed |-> {}, conflict |-> FALSE]
  BY <1>1, <1>2, <1>3, RowRerenders
<1>6. image' = {} /\ givenUp \subseteq givenUp' /\ fields.typed \subseteq Safe' /\ image \subseteq Safe'
  BY <1>1, <1>4, ClosedSafely DEF ProductDirty
<1>7. fields' \in FieldsType
  BY <1>5 DEF FieldsType
<1>8. FormTypeOK'
  BY <1>1, <1>2, <1>4, <1>6, <1>7, MoveTypes DEF FormTypeOK
<1>9. drawer \notin {"receipt", "adjustment"} /\ Safe' \subseteq Held'
  BY <1>1 DEF Rows, Held
<1> QED
  BY <1>1, <1>2, <1>3, <1>5, <1>6, <1>8, <1>9, MoveKeeps


-----------------------------------------------------------------------------
(* Typing.                                                                  *)

\* The next entry is a fresh one, and belongs to the record on the form.
LEMMA EntryIsFresh ==
  ASSUME FormInv, Entered, givenUp \subseteq givenUp'
  PROVE  /\ entries' = entries + 1 /\ entries' \in 1 .. MaxEntries
         /\ entries' \notin Numbers /\ Numbers' = Numbers \cup {entries'}
         /\ (1 .. entries)' = (1 .. entries) \cup {entries'} /\ 1 .. entries \subseteq Numbers
         /\ typedIn'[entries'] = at.rec
         /\ typedIn' \in [1 .. MaxEntries -> Records \cup {New, None}]
         /\ \A e \in 1 .. entries : typedIn'[e] = typedIn[e]
         /\ exposed \subseteq exposed' /\ (Pending => entries' \in exposed')
<1>1. entries' = entries + 1 /\ entries < MaxEntries /\ entries \in 0 .. MaxEntries /\ MaxEntries \in Nat
  BY FormsAssumption DEF Entered, FormInv, FormTypeOK
<1>2. /\ entries' \in 1 .. MaxEntries /\ entries' \notin 0 .. entries
      /\ 0 .. entries' = (0 .. entries) \cup {entries'}
      /\ 1 .. entries' = (1 .. entries) \cup {entries'} /\ 1 .. entries \subseteq 0 .. entries
      /\ 1 .. entries \subseteq 1 .. MaxEntries
  BY <1>1
<1>3. typedIn \in [1 .. MaxEntries -> Records \cup {New, None}] /\ at.rec \in Records \cup {New, None}
  BY DEF FormInv, FormTypeOK, PlaceType
<1>4. typedIn' = [typedIn EXCEPT ![entries'] = at.rec]
  BY DEF Entered
<1>5. /\ typedIn'[entries'] = at.rec
      /\ typedIn' \in [1 .. MaxEntries -> Records \cup {New, None}]
      /\ \A e \in 1 .. entries : typedIn'[e] = typedIn[e]
  BY <1>2, <1>3, <1>4
<1>6. exposed \subseteq exposed' /\ (Pending => entries' \in exposed')
  BY DEF Entered
<1> QED
  BY <1>1, <1>2, <1>5, <1>6 DEF Numbers

LEMMA TypingStays ==
  ASSUME FormInv, Entered, givenUp \subseteq givenUp'
  PROVE  /\ Safe \subseteq Safe' /\ Held \subseteq Held'
         /\ \A r : SavedTo(r) \subseteq SavedTo(r)'
         /\ \A held \in SUBSET Numbers : \A r : BelongTo(held, r) => BelongTo(held, r)'
<1>1. written' = written /\ hook' = hook
  BY DEF Entered
<1>2. /\ exposed \subseteq exposed' /\ 1 .. entries \subseteq (1 .. entries)'
      /\ \A e \in 1 .. entries : typedIn'[e] = typedIn[e]
  BY EntryIsFresh
<1>3. Safe \subseteq Safe' /\ Held \subseteq Held'
  BY <1>1, <1>2 DEF Safe, Saved, Held
<1>4. \A r : SavedTo(r) \subseteq SavedTo(r)'
  BY <1>1, <1>2 DEF SavedTo
<1>5. Numbers \ {Theirs} \subseteq 1 .. entries
  BY FormsAssumption DEF Numbers, Theirs, FormInv, FormTypeOK
<1>6. \A held \in SUBSET Numbers : \A r : BelongTo(held, r) => BelongTo(held, r)'
  BY <1>2, <1>5 DEF BelongTo
<1> QED
  BY <1>3, <1>4, <1>6

LEMMA TypesGrow ==
  ASSUME FormInv, Entered, givenUp \subseteq givenUp',
         fields' \in FieldsType', image' \subseteq (1 .. entries)'
  PROVE  FormTypeOK'
<1>1. Numbers \subseteq Numbers' /\ 1 .. entries \subseteq (1 .. entries)' /\ entries' \in 1 .. MaxEntries
      /\ typedIn' \in [1 .. MaxEntries -> Records \cup {New, None}]
  BY EntryIsFresh
<1>2. PlaceType \subseteq PlaceType' /\ SaveType \subseteq SaveType' /\ HookType \subseteq HookType'
  BY <1>1 DEF PlaceType, SaveType, HookType
<1>3. UNCHANGED <<drawer, at, save, hook, content, detail, written>>
  BY DEF Entered
<1>4. FormTypeOK
  BY DEF FormInv
<1>5. at' \in PlaceType' /\ save' \in SaveType' /\ hook' \in HookType'
  BY <1>2, <1>3, <1>4 DEF FormTypeOK
<1>6. content' \in [Records \cup {New} -> SUBSET Numbers'] /\ detail' \in [Records -> (SUBSET Numbers') \cup {None}]
  <2>1. content \in [Records \cup {New} -> SUBSET Numbers] /\ detail \in [Records -> (SUBSET Numbers) \cup {None}]
    BY <1>4 DEF FormTypeOK
  <2> QED
    BY <1>1, <1>3, <2>1
<1>7. written' \subseteq (1 .. entries)' \X (Records \cup {New})
  BY <1>1, <1>3, <1>4 DEF FormTypeOK
<1>8. entries' \in 0 .. MaxEntries
  BY <1>1
<1> QED
  BY <1>1, <1>3, <1>4, <1>5, <1>6, <1>7, <1>8 DEF FormTypeOK

\* An entry is typed into a field, or a file is dropped.
LEMMA EntryKeeps ==
  ASSUME FormInv, Entered, givenUp \subseteq givenUp',
         \/ /\ fields' = [fields EXCEPT !.typed = @ \cup {entries'}] /\ image' = image
            /\ at.kind = "new" => ~hook.unknown
         \/ /\ fields' = fields /\ image' = {entries'} /\ image \subseteq givenUp'
            /\ drawer = "product"
  PROVE  FormInv'
<1> DEFINE n == entries'
<1>0. /\ FormTypeOK /\ PlacesOK /\ HookOK /\ SaveOK /\ FieldsOK /\ RowsOK /\ SavedWhereTyped
      /\ fields \in FieldsType /\ image \subseteq 1 .. entries /\ fields.base \in SUBSET Numbers
  BY DEF FormInv, FormTypeOK, FieldsType
<1>1. /\ Numbers' = Numbers \cup {n} /\ (1 .. entries)' = (1 .. entries) \cup {n}
      /\ 1 .. entries \subseteq Numbers /\ typedIn'[n] = at.rec
      /\ \A e \in 1 .. entries : typedIn'[e] = typedIn[e]
      /\ exposed \subseteq exposed' /\ (Pending => n \in exposed')
  BY EntryIsFresh
<1>2. /\ Safe \subseteq Safe' /\ Held \subseteq Held' /\ exposed' \subseteq Held' /\ givenUp' \subseteq Safe'
      /\ \A r : SavedTo(r) \subseteq SavedTo(r)'
      /\ \A held \in SUBSET Numbers : \A r : BelongTo(held, r) => BelongTo(held, r)'
  BY TypingStays DEF Held, Safe
<1>3. /\ FormOpen /\ FormOpen' /\ UNCHANGED <<drawer, at, save, hook, content, detail, written>>
  BY DEF Entered, FormOpen
<1>4. [fields EXCEPT !.typed = @ \cup {n}]
        = [base |-> fields.base, typed |-> fields.typed \cup {n}, conflict |-> fields.conflict]
  BY <1>0 DEF FieldsType
<1>5. /\ fields'.base = fields.base /\ fields' \in FieldsType'
      /\ fields.typed \subseteq fields'.typed /\ fields'.typed \subseteq fields.typed \cup {n}
      /\ fields'.typed = fields.typed \/ (at.kind = "new" => ~hook.unknown)
      /\ n \in fields'.typed \/ fields' = fields
      /\ fields.typed \subseteq Numbers
  <2> HIDE DEF n
  <2>1. FieldsType \subseteq FieldsType'
    BY <1>1 DEF FieldsType
  <2>2. fields.typed \subseteq Numbers /\ fields.conflict \in BOOLEAN
    BY <1>0 DEF FieldsType
  <2>3. fields.typed \cup {n} \in SUBSET Numbers' /\ fields.base \in SUBSET Numbers'
    BY <1>0, <1>1, <2>2
  <2>4. CASE fields' = [fields EXCEPT !.typed = @ \cup {entries'}] /\ (at.kind = "new" => ~hook.unknown)
    <3>1. fields' = [base |-> fields.base, typed |-> fields.typed \cup {n}, conflict |-> fields.conflict]
      BY <1>4, <2>4 DEF n
    <3>2. /\ fields'.base = fields.base /\ fields'.typed = fields.typed \cup {n}
          /\ n \in fields.typed \cup {n}
      BY <3>1
    <3>3. fields' \in FieldsType'
      BY <2>2, <2>3, <3>1 DEF FieldsType
    <3>4. at.kind = "new" => ~hook.unknown
      BY <2>4
    <3> QED
      BY <2>2, <3>2, <3>3, <3>4
  <2>5. CASE fields' = fields
    BY <1>0, <2>1, <2>2, <2>5
  <2> QED
    BY <2>4, <2>5
<1>6. /\ image' = image \/ (image' = {n} /\ image \subseteq givenUp' /\ drawer = "product")
      /\ n \in fields'.typed \cup image'
  <2>1. fields' = [fields EXCEPT !.typed = @ \cup {n}] => n \in fields'.typed
    BY <1>4
  <2> QED
    BY <2>1
<1> HIDE DEF n
<1>7. FormTypeOK'
  BY <1>0, <1>1, <1>5, <1>6, TypesGrow
<1>8. PlacesOK' /\ RowsOK'
  <2>1. PlacesOK'
    BY <1>0, <1>2, <1>3 DEF PlacesOK
  <2>2. RowsOK'
    BY <1>0, <1>2, <1>3 DEF RowsOK
  <2> QED
    BY <2>1, <2>2
<1>9. HookOK'
  <2>1. hook.intent \in SUBSET Numbers /\ hook.variables \in SUBSET Numbers /\ hook.restored \in SUBSET Numbers
    BY <1>0 DEF FormTypeOK, HookType
  <2> QED
    BY <1>0, <1>2, <1>3, <2>1 DEF HookOK
<1>10. SaveOK'
  <2>1. save.holds \in SUBSET Numbers /\ save.image \in SUBSET Numbers
    BY <1>0, <1>1 DEF FormTypeOK, SaveType
  <2>2. save.holds \subseteq fields'.typed \cup Held'
    BY <1>0, <1>2, <1>5 DEF SaveOK
  <2>3. save.image \subseteq image' \cup Safe'
    BY <1>0, <1>2, <1>6 DEF SaveOK
  <2>4. BelongTo(save.holds, save.to)' /\ BelongTo(save.image, save.to)'
    BY <1>0, <1>2, <1>3, <2>1 DEF SaveOK
  <2> QED
    BY <1>0, <1>2, <1>3, <2>2, <2>3, <2>4 DEF SaveOK, Pending
<1>12. BelongTo(Holds, at.rec)' /\ BelongTo(image, at.rec)'
  <2>1. /\ BelongTo(Holds, at.rec) /\ BelongTo(image, at.rec)
        /\ Holds \in SUBSET Numbers /\ image \in SUBSET Numbers
    BY <1>0, <1>1, <1>3, <1>5 DEF FieldsOK, Holds
  <2>2. /\ \A e \in Holds \ {Theirs} : e \in exposed' \/ typedIn'[e] = at.rec
        /\ \A e \in image \ {Theirs} : e \in exposed' \/ typedIn'[e] = at.rec
    <3>1. Numbers \ {Theirs} \subseteq 1 .. entries
      BY FormsAssumption, <1>0 DEF Numbers, Theirs, FormTypeOK
    <3> QED
      BY <1>1, <2>1, <3>1 DEF BelongTo
  <2>3. fields'.base \cup fields'.typed \subseteq Holds \cup {n} /\ image' \subseteq image \cup {n}
    BY <1>5, <1>6 DEF Holds
  <2>4. /\ \A e \in (fields'.base \cup fields'.typed) \ {Theirs} : e \in exposed' \/ typedIn'[e] = at.rec
        /\ \A e \in image' \ {Theirs} : e \in exposed' \/ typedIn'[e] = at.rec
    BY <1>1, <2>2, <2>3
  <2> QED
    BY <1>3, <2>4 DEF BelongTo, Holds
<1>13. FieldsOK'
  <2>1. (1 .. entries)' \subseteq fields'.typed \cup image' \cup Held'
    <3>1. 1 .. entries \subseteq fields.typed \cup image \cup Held /\ Safe' \subseteq Held'
      BY <1>0 DEF FieldsOK, Held
    <3> QED
      BY <1>1, <1>2, <1>5, <1>6, <3>1
  <2>2. /\ fields'.base \subseteq Held'
        /\ drawer \in {"receipt", "adjustment"} /\ ~hook.unknown =>
             /\ fields'.base \subseteq Safe'
             /\ save.keyed => hook.intent \subseteq fields'.typed \cup Safe'
    BY <1>0, <1>2, <1>5 DEF FieldsOK
  <2>3. at.kind = "new" /\ hook.unknown => fields'.typed \subseteq Held'
    BY <1>0, <1>2, <1>5 DEF FieldsOK
  <2>4. Pending => fields'.typed \subseteq save.holds \cup Held' /\ image' \subseteq save.image \cup exposed'
    BY <1>0, <1>1, <1>2, <1>5, <1>6 DEF FieldsOK
  <2>5. drawer # "product" => image' = {} /\ save.image = {}
    BY <1>0, <1>6 DEF FieldsOK
  <2>6. drawer \in {"receipt", "adjustment"} => BelongTo(Holds, New)' /\ (Pending => FormOpen')
    <3> SUFFICES ASSUME drawer \in {"receipt", "adjustment"} PROVE BelongTo(Holds, New)'
      BY <1>3
    <3>1. at.rec = New
      BY <1>0, <1>3 DEF PlacesOK, FormOpen
    <3> QED
      BY <1>3, <1>12, <3>1
  <2> QED
    BY <1>3, <1>12, <2>1, <2>2, <2>3, <2>4, <2>5, <2>6 DEF FieldsOK, Pending
<1>14. SavedWhereTyped'
  <2> SUFFICES ASSUME NEW pair \in written PROVE pair[1] \in exposed' \/ typedIn'[pair[1]] = pair[2]
    BY <1>3 DEF SavedWhereTyped
  <2>1. pair[1] \in 1 .. entries
    BY <1>0 DEF FormTypeOK
  <2> QED
    BY <1>0, <1>1, <2>1 DEF SavedWhereTyped
<1> QED
  BY <1>7, <1>8, <1>9, <1>10, <1>13, <1>14 DEF FormInv

LEMMA TypeIntoKeeps == ASSUME FormInv, TypeInto PROVE FormInv'
<1>1. Entered /\ fields' = [fields EXCEPT !.typed = @ \cup {entries'}] /\ UNCHANGED <<image, givenUp>>
  BY DEF TypeInto
<1>2. at.kind = "new" => ~hook.unknown
  <2>1. CASE drawer = "order"
    BY <2>1 DEF TypeInto, Enabled, OrderFields, Locked
  <2>2. CASE drawer = "receipt"
    BY <2>2 DEF TypeInto, Enabled, ReceiptFields
  <2>3. CASE drawer = "adjustment"
    BY <2>3 DEF TypeInto, Enabled, AdjustmentFields
  <2>4. CASE drawer \in Rows
    BY <2>4 DEF FormInv, HookOK, NoIntent
  <2> QED
    BY <2>1, <2>2, <2>3, <2>4, Drawers DEF FormInv
<1> QED
  BY <1>1, <1>2, EntryKeeps

LEMMA ClearImageKeeps == ASSUME FormInv, FormOpen, drawer = "product", ClearImage PROVE FormInv'
<1>1. /\ image' = {} /\ givenUp' = givenUp \cup image
      /\ UNCHANGED <<drawer, at, fields, save, hook, content, detail, entries, saves, typedIn,
                     written, exposed>>
  BY DEF ClearImage
<1>2. /\ FormTypeOK /\ PlacesOK /\ fields.base \subseteq Held /\ FormOpen'
      /\ BelongTo(Holds, at.rec)
      /\ at.kind = "new" /\ hook.unknown => fields.typed \subseteq Held
  BY <1>1 DEF FormInv, FieldsOK, FormOpen
<1>3. FormTypeOK'
  BY <1>1, <1>2, MoveTypes DEF FormTypeOK
<1>4. /\ image \subseteq Safe' /\ Held \subseteq Held'
      /\ \A held, r : BelongTo(held, r)' <=> BelongTo(held, r)
  BY <1>1, <1>2, HistoryStays DEF Safe, BelongTo
<1>5. PlacesOK'
  BY <1>1, <1>2 DEF PlacesOK, SavedTo
<1>6. BelongTo(Holds, at.rec)' /\ BelongTo(image, at.rec)'
  BY <1>1, <1>2, <1>4 DEF BelongTo, Holds
<1> QED
  BY <1>1, <1>2, <1>3, <1>4, <1>5, <1>6, MoveKeeps

LEMMA ImageKeeps == ASSUME FormInv, DropImage \/ DiscardImage PROVE FormInv'
<1>1. CASE ClearImage
  BY <1>1, ClearImageKeeps DEF DropImage, DiscardImage
<1>2. CASE SelectImage /\ UNCHANGED fields /\ drawer = "product"
  <2>1. /\ Entered /\ fields' = fields /\ image' = {entries'} /\ image \subseteq givenUp'
        /\ givenUp \subseteq givenUp'
    BY <1>2 DEF SelectImage
  <2> QED
    BY <1>2, <2>1, EntryKeeps
<1> QED
  BY <1>1, <1>2 DEF DropImage, DiscardImage


-----------------------------------------------------------------------------
(* Saving.                                                                  *)

LEMMA RequestIs ==
  ASSUME FormTypeOK, NEW to \in Records \cup {New, None}, NEW holds \in SUBSET Numbers,
         NEW keyed \in BOOLEAN, Request(to, holds, keyed)
  PROVE  /\ save' \in SaveType /\ save'.pc = "sent" /\ save'.to = to /\ save'.holds = holds
         /\ save'.image = image /\ save'.keyed = keyed
BY DEF Request, FormTypeOK, SaveType

\* What a form holds when no save is under way.
LEMMA Unsaved ==
  ASSUME FormInv, ~Pending
  PROVE  /\ save = NoSave /\ ~save.keyed /\ save.holds = {} /\ save.image = {}
         /\ hook.intent # {} => hook.unknown
BY DEF FormInv, SaveOK, HookOK, NoSave

LEMMA SendingStays ==
  ASSUME FormInv, Sending, hook'.intent = hook.intent \/ hook.intent = {}
  PROVE  /\ UNCHANGED <<drawer, at, image, content, detail, entries, typedIn, written, givenUp, exposed>>
         /\ Safe' = Safe /\ Held \subseteq Held' /\ Safe \subseteq Held
         /\ \A r : SavedTo(r)' = SavedTo(r)
         /\ \A held, r : BelongTo(held, r)' <=> BelongTo(held, r)
         /\ FormOpen' = FormOpen /\ Numbers' = Numbers
         /\ PlacesOK' /\ RowsOK' /\ SavedWhereTyped'
<1>1. UNCHANGED <<drawer, at, image, content, detail, entries, typedIn, written, givenUp, exposed>>
  BY DEF Sending
<1>2. /\ Safe' = Safe /\ \A r : SavedTo(r)' = SavedTo(r)
      /\ \A held, r : BelongTo(held, r)' <=> BelongTo(held, r)
  BY <1>1 DEF Safe, Saved, SavedTo, BelongTo
<1>3. Held \subseteq Held' /\ Safe \subseteq Held
  BY <1>2 DEF Held
<1>4. FormOpen' = FormOpen /\ Numbers' = Numbers
  BY <1>1 DEF FormOpen, Numbers
<1>5. PlacesOK' /\ RowsOK' /\ SavedWhereTyped'
  <2>1. PlacesOK'
    BY <1>1, <1>2 DEF PlacesOK, FormInv
  <2>2. RowsOK'
    BY <1>1, <1>2 DEF RowsOK, FormInv
  <2>3. SavedWhereTyped'
    BY <1>1 DEF SavedWhereTyped, FormInv
  <2> QED
    BY <2>1, <2>2, <2>3
<1> QED
  BY <1>1, <1>2, <1>3, <1>4, <1>5

LEMMA SendingTypes ==
  ASSUME FormTypeOK, Sending, fields' \in FieldsType, save' \in SaveType, hook' \in HookType
  PROVE  FormTypeOK'
<1>1. UNCHANGED <<drawer, at, image, content, detail, entries, typedIn, written, givenUp, exposed>>
  BY DEF Sending
<1>2. /\ Numbers' = Numbers /\ PlaceType' = PlaceType /\ FieldsType' = FieldsType
      /\ SaveType' = SaveType /\ HookType' = HookType
  BY <1>1, TypesStay
<1> QED
  BY <1>1, <1>2 DEF FormTypeOK

\* The request of a record that exists, or of a product or a partner.
LEMMA PlainSubmitKeeps ==
  ASSUME FormInv, FormOpen, ~Pending, Sending, Request(at.rec, Holds, FALSE),
         hook' = hook, fields' = fields, drawer \in Rows \/ (drawer = "order" /\ at.kind = "edit")
  PROVE  FormInv'
<1>1. FormTypeOK /\ PlacesOK /\ HookOK /\ SaveOK /\ FieldsOK
  BY FormInvParts
<1>2. /\ fields \in FieldsType /\ at.rec \in Records \cup {New, None} /\ Holds \in SUBSET Numbers
      /\ hook \in HookType
  BY <1>1 DEF FormTypeOK, FieldsType, PlaceType, Holds
<1>3. /\ save' \in SaveType /\ save'.pc = "sent" /\ save'.to = at.rec /\ save'.holds = Holds
      /\ save'.image = image /\ save'.keyed = FALSE
  BY <1>1, <1>2, RequestIs
<1>4. /\ UNCHANGED <<drawer, at, image, content, detail, entries, typedIn, written, givenUp, exposed>>
      /\ Safe' = Safe /\ Held \subseteq Held' /\ Safe \subseteq Held
      /\ \A held, r : BelongTo(held, r)' <=> BelongTo(held, r)
      /\ FormOpen' = FormOpen
      /\ PlacesOK' /\ RowsOK' /\ SavedWhereTyped'
  BY SendingStays
<1>5. FormTypeOK'
  BY <1>1, <1>2, <1>3, SendingTypes
<1>6. HookOK'
  <2>1. ~save.keyed
    BY Unsaved
  <2> QED
    BY <1>1, <1>3, <1>4, <2>1 DEF HookOK
<1>7. drawer \notin {"receipt", "adjustment"}
  BY DEF Rows
<1>8. at.rec \in Records \cup {New} /\ (drawer = "order" => at.rec \in Records)
  BY <1>1 DEF PlacesOK, FormOpen, Rows
<1>9. SaveOK'
  <2>1. Holds \subseteq fields.typed \cup Held
    BY <1>1 DEF FieldsOK, Holds
  <2>2. BelongTo(Holds, at.rec) /\ BelongTo(image, at.rec)
    BY <1>1 DEF FieldsOK
  <2>3. save'.pc \notin {"saved", "imageFailed"} /\ Pending'
    BY <1>3 DEF Pending
  <2>4. BelongTo(save.holds, save.to)' /\ BelongTo(save.image, save.to)'
    BY <1>3, <1>4, <2>2 DEF BelongTo
  <2> QED
    BY <1>3, <1>4, <1>7, <1>8, <2>1, <2>3, <2>4 DEF SaveOK
<1>10. FieldsOK'
  <2>1. fields.typed \subseteq Holds
    BY DEF Holds
  <2>2. /\ BelongTo(Holds, at.rec)' /\ BelongTo(image, at.rec)'
    BY <1>1, <1>4 DEF FieldsOK, Holds, BelongTo
  <2>3. /\ 1 .. entries' \subseteq fields'.typed \cup image' \cup Held'
        /\ fields'.base \subseteq Held'
        /\ at'.kind = "new" /\ hook'.unknown => fields'.typed \subseteq Held'
    BY <1>1, <1>4 DEF FieldsOK
  <2>4. drawer # "product" => image' = {} /\ save'.image = {}
    BY <1>1, <1>3, <1>4 DEF FieldsOK
  <2> QED
    BY <1>3, <1>4, <1>7, <2>1, <2>2, <2>3, <2>4 DEF FieldsOK
<1> QED
  BY <1>4, <1>5, <1>6, <1>9, <1>10 DEF FormInv

\* What mutate leaves of the form: an order's is reset to what is sent.
LEMMA KeyedFields ==
  ASSUME FormInv, FormOpen, drawer = "order", at.kind = "new", Sending, Rerender(fields)
  PROVE  \/ fields' = fields
         \/ fields'.base = hook'.variables /\ fields'.typed = {} /\ hook'.variables # hook.variables
            /\ fields' = [base |-> hook'.variables, typed |-> {}, conflict |-> FALSE]
<1>1. UNCHANGED <<drawer, at, detail>>
  BY DEF Sending
<1> QED
  BY <1>1, OrderRerenders

LEMMA FirstSendKeeps ==
  ASSUME FormInv, FormOpen, ~Pending, Sending, at.kind = "new", drawer \in ByIntent, ~hook.expired,
         NEW intent, intent = (IF hook.intent = {} THEN Holds ELSE hook.intent), intent # {},
         Request(New, intent, TRUE),
         hook' = [hook EXCEPT !.intent = intent, !.variables = intent],
         \/ fields' = fields
         \/ drawer = "order" /\ fields'.base = intent /\ fields'.typed = {}
            /\ fields' = [base |-> intent, typed |-> {}, conflict |-> FALSE]
  PROVE  FormInv'
<1>1. FormTypeOK /\ PlacesOK /\ HookOK /\ SaveOK /\ FieldsOK
  BY FormInvParts
<1>2. /\ fields \in FieldsType /\ Holds \in SUBSET Numbers /\ hook.intent \in SUBSET Numbers
      /\ hook \in HookType /\ intent \in SUBSET Numbers
  BY <1>1 DEF FormTypeOK, FieldsType, HookType, Holds
<1>3. /\ save' \in SaveType /\ save'.pc = "sent" /\ save'.to = New /\ save'.holds = intent
      /\ save'.image = image /\ save'.keyed = TRUE
  BY <1>1, <1>2, RequestIs
<1>4. /\ hook' \in HookType /\ hook'.intent = intent /\ hook'.variables = intent
      /\ hook'.unknown = hook.unknown /\ hook'.expired = FALSE /\ hook'.restored = hook.restored
  BY <1>2 DEF HookType
<1>5. /\ UNCHANGED <<drawer, at, image, content, detail, entries, typedIn, written, givenUp, exposed>>
      /\ Safe' = Safe /\ Held \subseteq Held' /\ Safe \subseteq Held
      /\ \A held, r : BelongTo(held, r)' <=> BelongTo(held, r)
      /\ FormOpen' = FormOpen
      /\ PlacesOK' /\ RowsOK' /\ SavedWhereTyped'
  <2>1. hook'.intent = hook.intent \/ hook.intent = {}
    BY <1>4
  <2> QED
    BY <2>1, SendingStays
<1>6. hook.intent # {} => hook.unknown /\ fields.typed \subseteq Held
  BY <1>1, Unsaved DEF FieldsOK
<1>7. /\ intent \subseteq Held' /\ fields.typed \subseteq Held' /\ fields.base \subseteq Held'
  <2>1. intent \subseteq Held' /\ fields.base \subseteq Held
    BY <1>1, <1>4 DEF Held, FieldsOK
  <2>2. fields.typed \subseteq intent \/ fields.typed \subseteq Held
    BY <1>6 DEF Holds
  <2> QED
    BY <1>5, <2>1, <2>2
<1>8. at.rec = New /\ BelongTo(Holds, New) /\ BelongTo(hook.intent, New) /\ BelongTo(intent, New)
  BY <1>1 DEF PlacesOK, FieldsOK, HookOK
<1>9. image = {} /\ drawer # "product" /\ drawer \notin Rows
  BY <1>1 DEF FieldsOK, ByIntent, Rows
<1>10. FormTypeOK'
  <2>1. [base |-> intent, typed |-> {}, conflict |-> FALSE] \in FieldsType
    BY <1>2 DEF FieldsType
  <2>2. fields' \in FieldsType
    BY <1>2, <2>1
  <2> QED
    BY <1>1, <1>3, <1>4, <2>2, SendingTypes
<1>11. HookOK'
  <2>1. drawer = "order" => hook'.restored \subseteq Held'
    BY <1>1, <1>4, <1>5 DEF HookOK
  <2>2. BelongTo(hook.intent, New)' /\ BelongTo(hook.variables, New)' /\ BelongTo(hook.restored, New)'
    <3>1. BelongTo(hook.restored, New)
      BY <1>1 DEF HookOK
    <3> QED
      BY <1>4, <1>5, <1>8, <3>1 DEF BelongTo
  <2> QED
    BY <1>3, <1>4, <1>5, <1>7, <1>9, <2>1, <2>2 DEF HookOK
<1>12. SaveOK'
  <2>1. Pending' /\ save'.pc \notin {"saved", "imageFailed"}
    BY <1>3 DEF Pending
  <2>2. BelongTo(save.holds, save.to)' /\ BelongTo(save.image, save.to)'
    BY <1>3, <1>5, <1>8, <1>9 DEF BelongTo
  <2> QED
    BY <1>3, <1>4, <1>5, <1>7, <1>9, <2>1, <2>2 DEF SaveOK
<1>13. FieldsOK'
  <2>1. fields'.typed \subseteq fields.typed /\ fields'.typed \subseteq Held' /\ fields'.base \subseteq Held'
    BY <1>7
  <2>2. 1 .. entries \subseteq fields'.typed \cup image' \cup Held'
    BY <1>1, <1>5, <1>7 DEF FieldsOK
  <2>3. drawer \in {"receipt", "adjustment"} /\ ~hook.unknown =>
          fields'.base \subseteq Safe' /\ intent \subseteq fields'.typed \cup Safe'
    <3> SUFFICES ASSUME drawer \in {"receipt", "adjustment"}, ~hook.unknown
                 PROVE  fields'.base \subseteq Safe' /\ intent \subseteq fields'.typed \cup Safe'
      OBVIOUS
    <3>1. fields' = fields /\ fields.base \subseteq Safe /\ hook.intent = {}
      BY <1>1, <1>6 DEF FieldsOK
    <3> QED
      BY <1>5, <3>1 DEF Holds
  <2>4. BelongTo(Holds, New)' /\ BelongTo(image, New)'
    <3>1. \A e \in (fields'.base \cup fields'.typed) \ {Theirs} : e \in exposed \/ typedIn[e] = New
      BY <1>8 DEF BelongTo, Holds
    <3> QED
      BY <1>5, <1>9, <3>1 DEF BelongTo, Holds
  <2> QED
    BY <1>3, <1>4, <1>5, <1>8, <1>9, <2>1, <2>2, <2>3, <2>4 DEF FieldsOK
<1> QED
  BY <1>5, <1>10, <1>11, <1>12, <1>13 DEF FormInv

\* The saved request has grown too old.
LEMMA ExpiredKeeps ==
  ASSUME FormInv, FormOpen, ~Pending, Sending, at.kind = "new", drawer \in ByIntent,
         hook.intent # {}, hook' = [hook EXCEPT !.expired = TRUE, !.unknown = TRUE],
         save' = save, fields' = fields
  PROVE  FormInv'
<1>1. FormTypeOK /\ PlacesOK /\ HookOK /\ SaveOK /\ FieldsOK /\ hook \in HookType
  BY DEF FormInv, FormTypeOK
<1>2. /\ hook' \in HookType /\ hook'.intent = hook.intent /\ hook'.variables = hook.variables
      /\ hook'.unknown = TRUE /\ hook'.expired = TRUE /\ hook'.restored = hook.restored
      /\ hook.unknown /\ ~save.keyed
  BY <1>1, Unsaved DEF HookType
<1>3. /\ UNCHANGED <<drawer, at, image, content, detail, entries, typedIn, written, givenUp, exposed>>
      /\ Safe' = Safe /\ Held \subseteq Held' /\ Safe \subseteq Held
      /\ \A r : SavedTo(r)' = SavedTo(r)
      /\ \A held, r : BelongTo(held, r)' <=> BelongTo(held, r)
      /\ FormOpen' = FormOpen
      /\ PlacesOK' /\ RowsOK' /\ SavedWhereTyped'
  BY <1>2, SendingStays
<1>4. FormTypeOK'
  BY <1>1, <1>2, SendingTypes DEF FormTypeOK
<1>5. HookOK'
  <2>1. drawer \notin Rows
    BY DEF ByIntent, Rows
  <2>2. BelongTo(hook.intent, New)' /\ BelongTo(hook.variables, New)' /\ BelongTo(hook.restored, New)'
    BY <1>1, <1>2, <1>3 DEF HookOK, BelongTo
  <2>3. drawer = "order" => hook'.variables \subseteq Held' /\ hook'.restored \subseteq Held'
    BY <1>1, <1>2, <1>3 DEF HookOK
  <2> QED
    BY <1>2, <1>3, <2>1, <2>2, <2>3 DEF HookOK
<1>6. SaveOK'
  <2>1. save.pc = "idle" /\ save = NoSave /\ save.holds = {} /\ save.image = {}
    BY Unsaved DEF Pending
  <2>2. BelongTo(save.holds, save.to)' /\ BelongTo(save.image, save.to)'
    BY <2>1 DEF BelongTo
  <2> QED
    BY <1>2, <1>3, <2>1, <2>2 DEF SaveOK, Pending
<1>7. FieldsOK'
  <2>1. /\ 1 .. entries \subseteq fields'.typed \cup image' \cup Held'
        /\ fields'.base \subseteq Held' /\ fields'.typed \subseteq Held'
        /\ drawer # "product" => image' = {} /\ save'.image = {}
    BY <1>1, <1>2, <1>3 DEF FieldsOK
  <2>2. BelongTo(Holds, at.rec)' /\ BelongTo(image, at.rec)'
    BY <1>1, <1>3 DEF FieldsOK, Holds, BelongTo
  <2>3. drawer \in {"receipt", "adjustment"} => BelongTo(Holds, New)'
    BY <1>1, <1>3 DEF FieldsOK, Holds, BelongTo
  <2> QED
    BY <1>2, <1>3, <2>1, <2>2, <2>3 DEF FieldsOK, Pending
<1> QED
  BY <1>3, <1>4, <1>5, <1>6, <1>7 DEF FormInv

LEMMA MutateKeeps ==
  ASSUME FormInv, FormOpen, ~Pending, Sending, at.kind = "new", drawer \in ByIntent, ~hook.expired,
         Mutate, \/ drawer = "order" /\ Rerender(fields)
                 \/ drawer # "order" /\ fields' = fields
  PROVE  FormInv'
<1> DEFINE intent == IF hook.intent = {} THEN Holds ELSE hook.intent
<1>1. hook \in HookType
  BY DEF FormInv, FormTypeOK
<1>2. CASE /\ intent # {} /\ Request(New, intent, TRUE)
           /\ hook' = [hook EXCEPT !.intent = intent, !.variables = intent]
  <2> HIDE DEF intent
  <2>1. hook'.variables = intent
    BY <1>1, <1>2 DEF HookType
  <2>2. \/ fields' = fields
        \/ drawer = "order" /\ fields'.base = intent /\ fields'.typed = {}
           /\ fields' = [base |-> intent, typed |-> {}, conflict |-> FALSE]
    BY <2>1, KeyedFields
  <2>3. intent = IF hook.intent = {} THEN Holds ELSE hook.intent
    BY DEF intent
  <2> QED
    BY <1>2, <2>2, <2>3, FirstSendKeeps
<1>3. CASE /\ hook.intent # {}
           /\ hook' = [hook EXCEPT !.expired = TRUE, !.unknown = TRUE] /\ UNCHANGED <<save, saves>>
  <2>1. hook'.variables = hook.variables
    BY <1>1, <1>3 DEF HookType
  <2>2. fields' = fields
    BY <2>1, KeyedFields
  <2> QED
    BY <1>3, <2>2, ExpiredKeeps
<1> QED
  BY <1>2, <1>3 DEF Mutate

LEMMA SubmitKeeps ==
  ASSUME FormInv, OrderSubmit \/ OrderRetry \/ ReceiptSubmit \/ AdjustmentSubmit
                  \/ ProductSubmit \/ PartnerSubmit
  PROVE  FormInv'
<1>1. HookOK /\ PlacesOK
  BY FormInvParts
<1>2. CASE OrderSubmit
  <2>1. drawer = "order" /\ FormOpen /\ ~Pending /\ ~Locked /\ Sending /\ Rerender(fields)
    BY <1>2 DEF OrderSubmit
  <2>2. CASE at.kind = "edit"
    <3>1. Request(at.rec, Holds, FALSE) /\ hook' = hook
      BY <1>2, <2>2 DEF OrderSubmit
    <3>2. fields' = fields
      BY <2>1, <3>1, OrderRerenders DEF Sending
    <3> QED
      BY <2>1, <2>2, <3>1, <3>2, PlainSubmitKeeps
  <2>3. CASE at.kind # "edit"
    <3>1. at.kind = "new" /\ ~hook.unknown /\ ~hook.expired /\ drawer \in ByIntent
      BY <1>1, <2>1, <2>3 DEF FormOpen, Locked, HookOK, ByIntent
    <3>2. Mutate
      BY <1>2, <2>3 DEF OrderSubmit
    <3> QED
      BY <2>1, <3>1, <3>2, MutateKeeps
  <2> QED
    BY <2>2, <2>3
<1>3. CASE OrderRetry
  <2>1. /\ drawer = "order" /\ FormOpen /\ ~Pending /\ Sending /\ Rerender(fields)
        /\ at.kind = "new" /\ ~hook.expired /\ Mutate /\ drawer \in ByIntent
    BY <1>3 DEF OrderRetry, Locked, ByIntent
  <2> QED
    BY <2>1, MutateKeeps
<1>4. CASE ReceiptSubmit \/ AdjustmentSubmit
  <2>1. /\ drawer \in {"receipt", "adjustment"} /\ FormOpen /\ ~Pending /\ Sending /\ fields' = fields
        /\ ~hook.expired /\ Mutate
    BY <1>4 DEF ReceiptSubmit, AdjustmentSubmit
  <2>2. at.kind = "new" /\ drawer \in ByIntent /\ drawer # "order"
    BY <1>1, <2>1 DEF FormOpen, PlacesOK, ByIntent
  <2> QED
    BY <2>1, <2>2, MutateKeeps
<1>5. CASE ProductSubmit \/ PartnerSubmit
  BY <1>5, PlainSubmitKeeps DEF ProductSubmit, PartnerSubmit, Rows
<1> QED
  BY <1>2, <1>3, <1>4, <1>5


\* The outcome of a request, whatever it was, and nothing on the way any more.
LEMMA NoSaveIs ==
  /\ NoSave.pc = "idle" /\ NoSave.keyed = FALSE /\ NoSave.holds = {} /\ NoSave.image = {}
  /\ NoSave \in SaveType
BY DEF NoSave, SaveType

LEMMA NothingUnderWay == ASSUME save' = NoSave PROVE SaveOK' /\ ~Pending'
<1>1. save'.pc = "idle" /\ save'.keyed = FALSE /\ save'.holds = {} /\ save'.image = {}
  BY NoSaveIs
<1>2. BelongTo(save.holds, save.to)' /\ BelongTo(save.image, save.to)'
  BY <1>1 DEF BelongTo
<1> QED
  BY <1>1, <1>2 DEF SaveOK, Pending

LEMMA ResolveKeeps == ASSUME FormInv, Resolve PROVE FormInv'
<1>1. FormTypeOK /\ PlacesOK /\ HookOK /\ SaveOK /\ FieldsOK /\ RowsOK /\ SavedWhereTyped
  BY FormInvParts
<1>2. /\ FormOpen /\ at.kind = "new" /\ hook.unknown /\ hook.expired /\ ~save.keyed
      /\ givenUp' = givenUp \cup hook.intent /\ Rerender(fields)
      /\ UNCHANGED <<drawer, at, image, save, content, detail, entries, saves, typedIn, written, exposed>>
  BY <1>1 DEF Resolve, Locked, HookOK
<1>3. /\ hook.restored \in SUBSET Numbers
      /\ hook' = [intent |-> {}, variables |-> hook.restored, restored |-> hook.restored,
                  unknown |-> FALSE, expired |-> FALSE]
  <2>1. hook.restored \in SUBSET Numbers
    BY <1>1 DEF FormTypeOK, HookType
  <2> QED
    BY <2>1 DEF Resolve
<1>4. /\ hook' \in HookType /\ hook'.intent = {} /\ hook'.variables = hook.restored
      /\ hook'.restored = hook.restored /\ hook'.unknown = FALSE /\ hook'.expired = FALSE
  BY <1>3 DEF HookType
<1>5. /\ Safe' = Safe \cup hook.intent /\ Held' = Held /\ Held' = Safe'
      /\ \A held, r : BelongTo(held, r)' <=> BelongTo(held, r)
      /\ \A r : SavedTo(r)' = SavedTo(r)
      /\ FormOpen' = FormOpen
  BY <1>2, <1>4 DEF Safe, Saved, Held, BelongTo, SavedTo, FormOpen
<1>6. drawer \notin Rows
  BY <1>1, <1>2 DEF HookOK, NoIntent
<1>7. \/ fields' = fields
      \/ /\ drawer = "order" /\ fields'.base = hook.restored /\ fields'.typed = {}
         /\ fields' = [base |-> hook.restored, typed |-> {}, conflict |-> FALSE]
  <2>1. CASE drawer = "order"
    BY <1>2, <1>4, <2>1, OrderRerenders
  <2>2. CASE drawer \in {"receipt", "adjustment"}
    BY <1>2, <2>2, OtherRerenders
  <2> QED
    BY <1>1, <1>6, <2>1, <2>2, Drawers
<1>8. /\ fields.typed \subseteq Held' /\ fields.base \subseteq Held' /\ image = {}
      /\ drawer = "order" => hook.restored \subseteq Held'
      /\ save.image = {}
  BY <1>1, <1>2, <1>5, <1>6 DEF FieldsOK, HookOK, Rows
<1>9. at.rec = New /\ BelongTo(Holds, New) /\ BelongTo(hook.restored, New)
  BY <1>1, <1>2 DEF PlacesOK, FieldsOK, HookOK
<1>10. FormTypeOK'
  <2>1. [base |-> hook.restored, typed |-> {}, conflict |-> FALSE] \in FieldsType
    BY <1>3 DEF FieldsType
  <2>2. fields' \in FieldsType
    BY <1>1, <1>7, <2>1 DEF FormTypeOK
  <2> QED
    BY <1>1, <1>2, <1>4, <2>2, MoveTypes DEF FormTypeOK
<1>11. PlacesOK' /\ RowsOK' /\ SavedWhereTyped'
  <2>1. PlacesOK'
    BY <1>1, <1>2, <1>5 DEF PlacesOK
  <2>2. RowsOK'
    BY <1>1, <1>2, <1>5 DEF RowsOK
  <2>3. SavedWhereTyped'
    BY <1>1, <1>2 DEF SavedWhereTyped
  <2> QED
    BY <2>1, <2>2, <2>3
<1>12. HookOK'
  <2>1. BelongTo(hook.intent, New)' /\ BelongTo(hook.variables, New)' /\ BelongTo(hook.restored, New)'
    BY <1>2, <1>4, <1>9 DEF BelongTo
  <2> QED
    BY <1>2, <1>4, <1>6, <1>8, <2>1 DEF HookOK
<1>13. SaveOK'
  <2>1. save.holds \subseteq fields'.typed \cup Held'
    BY <1>1, <1>5, <1>8 DEF SaveOK
  <2>2. save.image \subseteq image' \cup Safe'
    BY <1>8
  <2>3. BelongTo(save.holds, save.to)' /\ BelongTo(save.image, save.to)'
    BY <1>1, <1>2 DEF SaveOK, BelongTo
  <2> QED
    BY <1>1, <1>2, <1>5, <1>8, <2>1, <2>2, <2>3 DEF SaveOK, Pending
<1>14. FieldsOK'
  <2>1. fields'.typed \subseteq fields.typed /\ fields'.base \subseteq Held'
    BY <1>7, <1>8
  <2>2. 1 .. entries \subseteq fields'.typed \cup image' \cup Held'
    BY <1>1, <1>5, <1>8 DEF FieldsOK
  <2>3. BelongTo(Holds, New)' /\ BelongTo(image, New)'
    <3>1. \A e \in (fields'.base \cup fields'.typed) \ {Theirs} : e \in exposed \/ typedIn[e] = New
      BY <1>7, <1>9 DEF BelongTo, Holds
    <3> QED
      BY <1>2, <1>8, <3>1 DEF BelongTo, Holds
  <2>4. Pending => fields'.typed \subseteq save.holds \cup Held'
    BY <1>8, <2>1
  <2> QED
    BY <1>2, <1>4, <1>5, <1>8, <1>9, <2>1, <2>2, <2>3, <2>4 DEF FieldsOK, Pending
<1> QED
  BY <1>10, <1>11, <1>12, <1>13, <1>14 DEF FormInv

LEMMA SaveGoesTo ==
  ASSUME FormInv, Pending
  PROVE  save.to \in Records \cup {New} /\ (drawer = "order" /\ ~save.keyed => save.to \in Records)
BY Drawers DEF FormInv, SaveOK

\* The server writes the record and some of the images.
LEMMA ExecuteWrites ==
  ASSUME FormInv, Pending, NEW images \in SUBSET save.image, Execute(images),
         UNCHANGED <<entries, typedIn, exposed>>
  PROVE  /\ written \subseteq written' /\ written' \subseteq (1 .. entries) \X (Records \cup {New})
         /\ content' \in [Records \cup {New} -> SUBSET Numbers]
         /\ \A r \in Records \cup {New} : content'[r] \subseteq SavedTo(r)'
         /\ \A r : r = save.to => save.holds \subseteq SavedTo(r)'
         /\ images \subseteq Safe'
         /\ SavedWhereTyped'
<1> DEFINE more == {<<e, save.to>> : e \in (save.holds \ {Theirs}) \cup images}
<1>1. FormTypeOK /\ SaveOK /\ RowsOK /\ SavedWhereTyped /\ save.to \in Records \cup {New}
  BY SaveGoesTo, FormInvParts
<1>2. /\ save.holds \in SUBSET Numbers /\ images \subseteq 1 .. entries
      /\ save.holds \ {Theirs} \subseteq 1 .. entries
  <2>1. save.holds \in SUBSET Numbers /\ save.image \subseteq 1 .. entries
    BY <1>1 DEF FormTypeOK, SaveType
  <2>2. Numbers \ {Theirs} \subseteq 1 .. entries
    BY <1>1, FormsAssumption DEF Numbers, Theirs, FormTypeOK
  <2> QED
    BY <2>1, <2>2
<1>3. written' = written \cup more
  BY DEF Execute
<1>4. more \subseteq (1 .. entries) \X (Records \cup {New})
  <2>1. ASSUME NEW e \in (save.holds \ {Theirs}) \cup images
        PROVE  <<e, save.to>> \in (1 .. entries) \X (Records \cup {New})
    BY <1>1, <1>2
  <2> QED
    BY <2>1
<1>5. /\ content \in [Records \cup {New} -> SUBSET Numbers]
      /\ content' = [content EXCEPT ![save.to] = save.holds]
  BY <1>1 DEF FormTypeOK, Execute
<1>6. \A r : SavedTo(r) \subseteq SavedTo(r)'
  BY <1>3 DEF SavedTo
<1>7. \A r : r = save.to => save.holds \subseteq SavedTo(r)'
  <2> SUFFICES ASSUME NEW r, r = save.to, NEW e \in save.holds \ {Theirs} PROVE e \in SavedTo(r)'
    BY DEF SavedTo
  <2>1. <<e, r>> \in written' /\ e \in 1 .. entries
    BY <1>2, <1>3
  <2> QED
    BY <2>1 DEF SavedTo
<1>8. images \subseteq Safe'
  <2> SUFFICES ASSUME NEW e \in images PROVE e \in Saved'
    BY DEF Safe
  <2>1. <<e, save.to>> \in written' /\ <<e, save.to>>[1] = e
    BY <1>3
  <2> QED
    BY <2>1 DEF Saved
<1>9. \A r \in Records \cup {New} : content'[r] \subseteq SavedTo(r)'
  <2> SUFFICES ASSUME NEW r \in Records \cup {New} PROVE content'[r] \subseteq SavedTo(r)'
    OBVIOUS
  <2>1. CASE r = save.to
    BY <1>5, <1>7, <2>1
  <2>2. CASE r # save.to
    <3>1. content'[r] = content[r] /\ content[r] \subseteq SavedTo(r)
      BY <1>1, <1>5, <2>2 DEF RowsOK
    <3> QED
      BY <1>6, <3>1
  <2> QED
    BY <2>1, <2>2
<1>10. SavedWhereTyped'
  <2> SUFFICES ASSUME NEW pair \in written'
               PROVE  pair[1] \in exposed \/ typedIn[pair[1]] = pair[2]
    BY DEF SavedWhereTyped
  <2>1. CASE pair \in written
    BY <1>1, <2>1 DEF SavedWhereTyped
  <2>2. CASE pair \in more
    <3>1. PICK e \in (save.holds \ {Theirs}) \cup images : pair = <<e, save.to>>
      BY <2>2
    <3>2. BelongTo(save.holds, save.to) /\ BelongTo(save.image, save.to)
      BY <1>1 DEF SaveOK
    <3>3. e \in exposed \/ typedIn[e] = save.to
      <4>1. e # Theirs
        BY <1>2, FormsAssumption DEF Theirs
      <4> QED
        BY <3>2, <4>1 DEF BelongTo
    <3> QED
      BY <3>1, <3>3
  <2> QED
    BY <1>3, <2>1, <2>2
<1> HIDE DEF more
<1>11. written \subseteq written' /\ written' \subseteq (1 .. entries) \X (Records \cup {New})
  BY <1>1, <1>3, <1>4 DEF FormTypeOK
<1>12. content' \in [Records \cup {New} -> SUBSET Numbers]
  BY <1>2, <1>5
<1> QED
  BY <1>7, <1>8, <1>9, <1>10, <1>11, <1>12


\* The request moves on, and with it perhaps the server.
LEMMA SaveMoves ==
  ASSUME FormInv, Pending, UNCHANGED <<drawer, at, fields, image, hook, detail, entries, typedIn,
                                       givenUp, exposed>>,
         written \subseteq written', written' \subseteq (1 .. entries) \X (Records \cup {New}),
         content' \in [Records \cup {New} -> SUBSET Numbers], save' \in SaveType,
         save'.to = save.to, save'.holds = save.holds, save'.image = save.image,
         save'.keyed = save.keyed, save'.pc # "idle",
         \A r \in Records \cup {New} : content'[r] \subseteq SavedTo(r)', SavedWhereTyped',
         save'.pc \in {"saved", "imageFailed"} =>
           \A r : r = save.to => save.holds \subseteq SavedTo(r)',
         save'.pc = "saved" => save.image \subseteq Safe',
         save'.pc = "imageFailed" => drawer = "product"
  PROVE  FormInv'
<1>1. FormTypeOK /\ PlacesOK /\ HookOK /\ SaveOK /\ FieldsOK /\ RowsOK
  BY FormInvParts
<1>2. /\ Safe \subseteq Safe' /\ Held \subseteq Held' /\ FormOpen' = FormOpen /\ Pending'
      /\ \A r : SavedTo(r) \subseteq SavedTo(r)'
      /\ \A held, r : BelongTo(held, r)' <=> BelongTo(held, r)
  BY <1>1, HistoryStays DEF FormOpen, Pending, BelongTo
<1>3. FormTypeOK'
  <2>1. /\ Numbers' = Numbers /\ PlaceType' = PlaceType /\ FieldsType' = FieldsType
        /\ SaveType' = SaveType /\ HookType' = HookType
    BY TypesStay
  <2> QED
    BY <1>1, <2>1 DEF FormTypeOK
<1>4. PlacesOK'
  BY <1>1, <1>2 DEF PlacesOK
<1>5. HookOK'
  <2>1. BelongTo(hook.intent, New)' /\ BelongTo(hook.variables, New)' /\ BelongTo(hook.restored, New)'
    BY <1>1 DEF HookOK, BelongTo
  <2> QED
    BY <1>1, <1>2, <2>1 DEF HookOK
<1>6. SaveOK'
  <2>1. save.holds \subseteq fields.typed \cup Held' /\ save.image \subseteq image \cup Safe'
    BY <1>1, <1>2 DEF SaveOK
  <2>2. BelongTo(save.holds, save.to)' /\ BelongTo(save.image, save.to)'
    BY <1>1 DEF SaveOK, BelongTo
  <2>3. save'.pc \in {"saved", "imageFailed"} => save'.holds \subseteq SavedTo(save.to)'
    <3>1. \A r : r = save'.to => SavedTo(r)' = SavedTo(save.to)'
      BY DEF SavedTo
    <3> QED
      BY <3>1
  <2> QED
    BY <1>1, <1>2, <2>1, <2>2, <2>3 DEF SaveOK, Pending
<1>7. FieldsOK'
  <2>1. /\ 1 .. entries' \subseteq fields'.typed \cup image' \cup Held' /\ fields'.base \subseteq Held'
        /\ drawer' \in {"receipt", "adjustment"} /\ ~hook'.unknown =>
             /\ fields'.base \subseteq Safe'
             /\ save'.keyed => hook'.intent \subseteq fields'.typed \cup Safe'
        /\ ~FormOpen' => fields'.typed \subseteq Held' /\ image' = {}
        /\ at'.kind = "new" /\ hook'.unknown => fields'.typed \subseteq Held'
        /\ fields'.typed \subseteq save'.holds \cup Held' /\ image' \subseteq save'.image \cup exposed'
        /\ drawer' # "product" => image' = {} /\ save'.image = {}
    BY <1>1, <1>2 DEF FieldsOK
  <2>2. FormOpen' => BelongTo(Holds, at.rec)' /\ BelongTo(image, at.rec)'
    BY <1>1, <1>2 DEF FieldsOK, Holds, BelongTo
  <2>3. drawer' \in {"receipt", "adjustment"} => BelongTo(Holds, New)' /\ FormOpen'
    BY <1>1, <1>2 DEF FieldsOK, Holds, BelongTo
  <2> QED
    BY <2>1, <2>2, <2>3 DEF FieldsOK
<1>8. RowsOK'
  BY <1>1, <1>2 DEF RowsOK
<1> QED
  BY <1>3, <1>4, <1>5, <1>6, <1>7, <1>8 DEF FormInv

LEMMA SaveAt ==
  ASSUME save \in SaveType, NEW pc \in {"saved", "imageFailed", "refused", "lost"},
         save' = [save EXCEPT !.pc = pc]
  PROVE  /\ save' \in SaveType /\ save'.pc = pc /\ save'.to = save.to /\ save'.holds = save.holds
         /\ save'.image = save.image /\ save'.keyed = save.keyed
BY DEF SaveType

LEMMA SaveExecutedKeeps == ASSUME FormInv, SaveExecuted PROVE FormInv'
<1>1. FormTypeOK /\ save \in SaveType /\ FieldsOK
  BY DEF FormInv, FormTypeOK
<1>2. /\ save.pc = "sent" /\ Pending
      /\ UNCHANGED <<drawer, at, fields, image, hook, detail, entries, saves, typedIn, givenUp, exposed>>
  BY DEF SaveExecuted, Pending
<1>3. CASE Execute(save.image) /\ save' = [save EXCEPT !.pc = "saved"]
  <2>1. /\ save' \in SaveType /\ save'.pc = "saved" /\ save'.to = save.to /\ save'.holds = save.holds
        /\ save'.image = save.image /\ save'.keyed = save.keyed
    BY <1>1, <1>3, SaveAt
  <2>2. /\ written \subseteq written' /\ written' \subseteq (1 .. entries) \X (Records \cup {New})
        /\ content' \in [Records \cup {New} -> SUBSET Numbers]
        /\ \A r \in Records \cup {New} : content'[r] \subseteq SavedTo(r)'
        /\ \A r : r = save.to => save.holds \subseteq SavedTo(r)'
        /\ save.image \subseteq Safe'
        /\ SavedWhereTyped'
    BY <1>2, <1>3, ExecuteWrites
  <2> QED
    BY <1>2, <2>1, <2>2, SaveMoves
<1>4. CASE save.image # {} /\ Execute({}) /\ save' = [save EXCEPT !.pc = "imageFailed"]
  <2>1. /\ save' \in SaveType /\ save'.pc = "imageFailed" /\ save'.to = save.to
        /\ save'.holds = save.holds /\ save'.image = save.image /\ save'.keyed = save.keyed
    BY <1>1, <1>4, SaveAt
  <2>2. /\ written \subseteq written' /\ written' \subseteq (1 .. entries) \X (Records \cup {New})
        /\ content' \in [Records \cup {New} -> SUBSET Numbers]
        /\ \A r \in Records \cup {New} : content'[r] \subseteq SavedTo(r)'
        /\ \A r : r = save.to => save.holds \subseteq SavedTo(r)'
        /\ SavedWhereTyped'
    BY <1>2, <1>4, ExecuteWrites
  <2>3. drawer = "product"
    BY <1>1, <1>4 DEF FieldsOK
  <2> QED
    BY <1>2, <2>1, <2>2, <2>3, SaveMoves
<1> QED
  BY <1>3, <1>4 DEF SaveExecuted

LEMMA SaveFailsKeeps == ASSUME FormInv, SaveFails PROVE FormInv'
<1>1. /\ FormTypeOK /\ save \in SaveType /\ RowsOK /\ SavedWhereTyped
  BY DEF FormInv, FormTypeOK
<1>2. /\ Pending /\ UNCHANGED <<drawer, at, fields, image, hook, content, detail, entries, saves, typedIn,
                                written, givenUp, exposed>>
  BY DEF SaveFails, history, Pending
<1>3. /\ save' \in SaveType /\ save'.pc \in {"refused", "lost"} /\ save'.to = save.to
      /\ save'.holds = save.holds /\ save'.image = save.image /\ save'.keyed = save.keyed
  BY <1>1, SaveAt DEF SaveFails
<1>4. \A r \in Records \cup {New} : content'[r] \subseteq SavedTo(r)'
  BY <1>1, <1>2 DEF RowsOK, SavedTo
<1>5. SavedWhereTyped'
  BY <1>1, <1>2 DEF SavedWhereTyped
<1>6. /\ content' \in [Records \cup {New} -> SUBSET Numbers]
      /\ written' \subseteq (1 .. entries) \X (Records \cup {New})
  BY <1>1, <1>2 DEF FormTypeOK
<1> QED
  BY <1>2, <1>3, <1>4, <1>5, <1>6, SaveMoves

-----------------------------------------------------------------------------
(* Answers.                                                                 *)

LEMMA SettledTypes ==
  ASSUME FormTypeOK, UNCHANGED <<drawer, content, entries, typedIn, written>>, save' = NoSave,
         at' \in PlaceType, fields' \in FieldsType, image' \subseteq 1 .. entries, hook' \in HookType,
         detail' \in [Records -> (SUBSET Numbers) \cup {None}]
  PROVE  FormTypeOK'
<1>1. /\ Numbers' = Numbers /\ PlaceType' = PlaceType /\ FieldsType' = FieldsType
      /\ SaveType' = SaveType /\ HookType' = HookType
  BY TypesStay
<1> QED
  BY <1>1, NoSaveIs DEF FormTypeOK

\* A request of a row or of an order that exists is answered.
LEMMA PlainAnswerKeeps ==
  ASSUME FormInv, FormTypeOK', PlacesOK', RowsOK', Pending, ~save.keyed, save' = NoSave,
         UNCHANGED <<drawer, hook, content, entries, typedIn, written, givenUp, exposed>>,
         drawer # "product" => image' = {},
         save.image \subseteq Safe \/ image \subseteq image',
         fields'.typed = {} \/ (~FormOpen' /\ fields'.typed \subseteq Held),
         save.holds \subseteq Held, ~FormOpen' => image' = {},
         fields'.base \subseteq Held,
         FormOpen' => BelongTo(fields'.base, at'.rec) /\ BelongTo(image', at'.rec)
  PROVE  FormInv'
<1>1. FormTypeOK /\ HookOK /\ SaveOK /\ FieldsOK /\ SavedWhereTyped
  BY FormInvParts
<1>2. /\ Held' = Held /\ Safe' = Safe /\ Safe \subseteq Held /\ exposed \subseteq Safe
      /\ \A held, r : BelongTo(held, r)' <=> BelongTo(held, r)
  BY DEF Held, Safe, Saved, BelongTo
<1>3. SaveOK' /\ ~Pending' /\ save'.keyed = FALSE /\ save'.image = {}
  BY NothingUnderWay, NoSaveIs
<1>4. drawer \notin {"receipt", "adjustment"}
  BY <1>1 DEF SaveOK
<1>5. HookOK'
  <2>1. BelongTo(hook.intent, New)' /\ BelongTo(hook.variables, New)' /\ BelongTo(hook.restored, New)'
    BY <1>1 DEF HookOK, BelongTo
  <2> QED
    BY <1>1, <1>2, <1>3, <2>1 DEF HookOK
<1>6. fields.typed \subseteq Held /\ image \subseteq image' \cup Held
  <2>1. fields.typed \subseteq save.holds \cup Held /\ image \subseteq save.image \cup exposed
    BY <1>1 DEF FieldsOK
  <2> QED
    BY <1>2, <2>1
<1>7. FieldsOK'
  <2>1. 1 .. entries \subseteq fields'.typed \cup image' \cup Held'
    BY <1>1, <1>2, <1>6 DEF FieldsOK
  <2>2. FormOpen' => BelongTo(Holds, at.rec)' /\ BelongTo(image, at.rec)'
    <3> SUFFICES ASSUME FormOpen' PROVE BelongTo(Holds, at.rec)' /\ BelongTo(image, at.rec)'
      OBVIOUS
    <3>1. /\ \A e \in fields'.base \ {Theirs} : e \in exposed' \/ typedIn'[e] = at'.rec
          /\ \A e \in image' \ {Theirs} : e \in exposed' \/ typedIn'[e] = at'.rec
          /\ fields'.typed = {}
      BY DEF BelongTo
    <3> QED
      BY <3>1 DEF BelongTo, Holds
  <2>3. fields'.typed \subseteq Held'
    BY <1>2
  <2> QED
    BY <1>2, <1>3, <1>4, <2>1, <2>2, <2>3 DEF FieldsOK
<1>8. SavedWhereTyped'
  BY <1>1 DEF SavedWhereTyped
<1> QED
  BY <1>3, <1>5, <1>7, <1>8 DEF FormInv

LEMMA SavedHolds ==
  ASSUME FormInv, save.pc \in {"saved", "imageFailed"}
  PROVE  /\ Pending /\ save.to \in Records \cup {New}
         /\ save.holds \subseteq SavedTo(save.to) /\ save.holds \subseteq Safe /\ save.holds \subseteq Held
         /\ BelongTo(save.holds, save.to) /\ save.holds \in SUBSET Numbers
<1>1. Pending
  BY DEF Pending
<1>2. save.to \in Records \cup {New}
  BY <1>1, SaveGoesTo
<1>3. save.holds \subseteq SavedTo(save.to) /\ BelongTo(save.holds, save.to) /\ save.holds \in SUBSET Numbers
  BY DEF FormInv, SaveOK, FormTypeOK, SaveType
<1>4. SavedTo(save.to) \subseteq Safe /\ SavedTo(save.to) \subseteq Held
  BY <1>2, SavedIsSafe
<1> QED
  BY <1>1, <1>2, <1>3, <1>4

LEMMA UpdateSucceedsKeeps == ASSUME FormInv, UpdateSucceeds PROVE FormInv'
<1>1. FormTypeOK /\ PlacesOK /\ FieldsOK /\ RowsOK /\ fields \in FieldsType /\ SaveOK
  BY DEF FormInv, FormTypeOK
<1>2. /\ save.pc = "saved" /\ drawer = "order" /\ ~save.keyed /\ save' = NoSave
      /\ detail' = [detail EXCEPT ![save.to] = save.holds]
      /\ at' = [kind |-> "detail", rec |-> IF at.kind = "edit" THEN at.rec ELSE save.to, copy |-> {}]
      /\ UNCHANGED <<drawer, image, hook, content, entries, saves, typedIn, written, givenUp, exposed>>
      /\ Rerender([fields EXCEPT !.conflict = FALSE])
  BY DEF UpdateSucceeds, AfterUpdate, Place, history
<1>3. /\ Pending /\ save.to \in Records /\ save.holds \subseteq SavedTo(save.to)
      /\ save.holds \subseteq Held /\ save.holds \in SUBSET Numbers
  BY <1>2, SavedHolds, SaveGoesTo
<1>4. /\ at' \in PlaceType /\ at'.kind = "detail" /\ at'.rec \in Records /\ at'.copy = {}
  BY <1>1, <1>2, <1>3 DEF PlaceType, PlacesOK
<1>5. ~FormOpen' /\ PlacesOK'
  BY <1>2, <1>4 DEF FormOpen, PlacesOK
<1>6. fields' = [base |-> fields.base, typed |-> fields.typed, conflict |-> FALSE]
  <2>1. fields' = [fields EXCEPT !.conflict = FALSE]
    BY <1>2, <1>5, OrderRerenders
  <2> QED
    BY <1>1, <2>1 DEF FieldsType
<1>7. fields' \in FieldsType
  BY <1>1, <1>6 DEF FieldsType
<1>8. RowsOK'
  <2>1. detail \in [Records -> (SUBSET Numbers) \cup {None}]
    BY <1>1 DEF FormTypeOK
  <2>2. \A r : SavedTo(r)' = SavedTo(r)
    BY <1>2 DEF SavedTo
  <2>3. \A r \in Records : detail'[r] = IF r = save.to THEN save.holds ELSE detail[r]
    BY <1>2, <2>1
  <2> QED
    BY <1>1, <1>2, <1>3, <2>2, <2>3 DEF RowsOK
<1>9. FormTypeOK'
  <2>1. detail' \in [Records -> (SUBSET Numbers) \cup {None}]
    BY <1>1, <1>2, <1>3 DEF FormTypeOK
  <2> QED
    BY <1>1, <1>2, <1>4, <1>7, <2>1, SettledTypes DEF FormTypeOK
<1>10. image = {} /\ fields.base \subseteq Held /\ fields.typed \subseteq save.holds \cup Held
  BY <1>1, <1>2, <1>3 DEF FieldsOK
<1> QED
  BY <1>2, <1>3, <1>5, <1>6, <1>8, <1>9, <1>10, PlainAnswerKeeps

LEMMA RowSavedKeeps == ASSUME FormInv, RowSaved PROVE FormInv'
<1>1. FormTypeOK /\ PlacesOK /\ FieldsOK /\ RowsOK /\ SaveOK /\ HookOK
  BY FormInvParts
<1>2. /\ save.pc = "saved" /\ drawer \in Rows /\ save' = NoSave
      /\ at' = [kind |-> "list", rec |-> None, copy |-> {}] /\ image' = {}
      /\ UNCHANGED <<drawer, hook, content, detail, entries, saves, typedIn, written, givenUp, exposed>>
      /\ Rerender(fields)
  BY DEF RowSaved, ListPage, Place, history
<1>3. Pending /\ save.holds \subseteq Held /\ ~save.keyed /\ save.image \subseteq Safe
  BY <1>1, <1>2, SavedHolds DEF SaveOK, ByIntent, Rows
<1>4. at' \in PlaceType /\ ~FormOpen' /\ PlacesOK'
  BY <1>2 DEF PlaceType, FormOpen, PlacesOK, Rows
<1>5. /\ fields' \in FieldsType /\ fields'.base \subseteq Held /\ fields'.typed \subseteq Held
  <2>1. \/ fields' = fields /\ at'.kind = at.kind
        \/ /\ fields'.base = {} /\ fields'.typed = {}
           /\ fields' = [base |-> {}, typed |-> {}, conflict |-> FALSE]
    BY <1>2, RowRerenders
  <2>2. CASE fields' = fields /\ at'.kind = at.kind
    <3>1. ~FormOpen
      BY <1>2, <2>2 DEF FormOpen
    <3> QED
      BY <1>1, <2>2, <3>1 DEF FieldsOK, FormTypeOK
  <2>3. CASE /\ fields'.base = {} /\ fields'.typed = {}
             /\ fields' = [base |-> {}, typed |-> {}, conflict |-> FALSE]
    BY <2>3 DEF FieldsType
  <2> QED
    BY <2>1, <2>2, <2>3
<1>6. RowsOK'
  BY <1>1, <1>2 DEF RowsOK, SavedTo
<1>7. FormTypeOK'
  BY <1>1, <1>2, <1>4, <1>5, SettledTypes DEF FormTypeOK
<1> QED
  BY <1>2, <1>3, <1>4, <1>5, <1>6, <1>7, PlainAnswerKeeps

LEMMA ImageFailsKeeps == ASSUME FormInv, ImageFails PROVE FormInv'
<1>1. FormTypeOK /\ PlacesOK /\ FieldsOK /\ RowsOK /\ SaveOK
  BY FormInvParts
<1>2. /\ save.pc = "imageFailed" /\ save' = NoSave
      /\ at' = [kind |-> "edit", rec |-> save.to, copy |-> save.holds]
      /\ fields' = [base |-> save.holds, typed |-> {}, conflict |-> FALSE]
      /\ UNCHANGED <<drawer, image, hook, content, detail, entries, saves, typedIn, written, givenUp, exposed>>
  BY CopiedPlace, BlankBut DEF ImageFails, history
<1>3. /\ Pending /\ save.to \in Records \cup {New} /\ save.holds \subseteq SavedTo(save.to)
      /\ save.holds \subseteq Held /\ BelongTo(save.holds, save.to) /\ save.holds \in SUBSET Numbers
  BY <1>2, SavedHolds
<1>4. drawer = "product" /\ ~save.keyed
  BY <1>1, <1>2 DEF SaveOK, ByIntent
<1>5. at' \in PlaceType /\ at'.rec = save.to /\ PlacesOK' /\ fields' \in FieldsType
  <2>1. \A r : SavedTo(r)' = SavedTo(r)
    BY <1>2 DEF SavedTo
  <2>2. at' \in PlaceType /\ fields' \in FieldsType
    BY <1>2, <1>3 DEF PlaceType, FieldsType
  <2> QED
    BY <1>2, <1>3, <1>4, <2>1, <2>2 DEF PlacesOK
<1>6. RowsOK'
  BY <1>1, <1>2 DEF RowsOK, SavedTo
<1>7. FormTypeOK'
  BY <1>1, <1>2, <1>5, SettledTypes DEF FormTypeOK
<1>8. BelongTo(image, save.to)
  <2>1. image \subseteq save.image \cup exposed /\ BelongTo(save.image, save.to)
    BY <1>1, <1>3 DEF FieldsOK, SaveOK
  <2> QED
    BY <2>1 DEF BelongTo
<1>9. FormOpen'
  BY <1>2, <1>4 DEF FormOpen
<1>10. fields'.base = save.holds /\ fields'.typed = {}
  BY <1>2
<1> QED
  BY <1>2, <1>3, <1>4, <1>5, <1>6, <1>7, <1>8, <1>9, <1>10, PlainAnswerKeeps


\* What useCommandMutation remembers is gone, or of unknown outcome, after an answer.
LEMMA KeyedAnswerKeeps ==
  ASSUME FormInv, FormTypeOK', PlacesOK', save' = NoSave,
         UNCHANGED <<drawer, content, detail, entries, typedIn, written, givenUp>>,
         exposed \subseteq exposed', image' = image,
         hook'.intent \in {{}, hook.intent}, hook'.intent # {} => hook'.unknown,
         hook'.expired => hook.expired /\ hook'.unknown,
         hook'.variables = hook.variables, hook'.restored = hook.restored,
         drawer \in Rows => hook' = hook,
         drawer = "order" => hook.intent \subseteq Held',
         1 .. entries \subseteq fields'.typed \cup image \cup Held',
         fields'.base \subseteq fields.base, fields'.typed \subseteq fields.typed,
         fields.base \subseteq Held',
         drawer \in {"receipt", "adjustment"} /\ ~hook'.unknown => fields.base \subseteq Safe',
         ~FormOpen' => fields'.typed \subseteq Held' /\ image = {},
         at'.kind = "new" /\ hook'.unknown => fields'.typed \subseteq Held',
         FormOpen' => FormOpen /\ at'.rec = at.rec
  PROVE  FormInv'
<1>1. FormTypeOK /\ HookOK /\ FieldsOK /\ RowsOK /\ SavedWhereTyped
  BY FormInvParts
<1>2. /\ Safe \subseteq Safe' /\ \A r : SavedTo(r) \subseteq SavedTo(r)'
      /\ \A held, r : BelongTo(held, r) => BelongTo(held, r)' /\ Safe' \subseteq Held'
  BY <1>1, HistoryStays DEF Held
<1>3. SaveOK' /\ ~Pending' /\ save'.keyed = FALSE /\ save'.image = {}
  BY NothingUnderWay, NoSaveIs
<1>4. HookOK'
  <2>1. BelongTo(hook.intent, New)' /\ BelongTo(hook.variables, New)' /\ BelongTo(hook.restored, New)'
    <3>1. BelongTo(hook.intent, New) /\ BelongTo(hook.variables, New) /\ BelongTo(hook.restored, New)
      BY <1>1 DEF HookOK
    <3>2. BelongTo(hook'.intent, New)
      BY <3>1 DEF BelongTo
    <3> QED
      BY <3>1, <3>2 DEF BelongTo
  <2>2. drawer = "order" => hook.variables \subseteq Held' /\ hook.restored \subseteq Held'
    <3>1. drawer = "order" => Held \subseteq Held'
      BY <1>2 DEF Held
    <3> QED
      BY <1>1, <3>1 DEF HookOK
  <2>3. drawer \in Rows => hook' = NoIntent
    BY <1>1 DEF HookOK
  <2> QED
    BY <1>3, <2>1, <2>2, <2>3 DEF HookOK
<1>5. FieldsOK'
  <2>1. /\ 1 .. entries' \subseteq fields'.typed \cup image' \cup Held'
        /\ fields'.base \subseteq Held'
        /\ drawer' \in {"receipt", "adjustment"} /\ ~hook'.unknown => fields'.base \subseteq Safe'
        /\ drawer' # "product" => image' = {}
    BY <1>1 DEF FieldsOK
  <2>2. FormOpen' => BelongTo(Holds, at.rec)' /\ BelongTo(image, at.rec)'
    <3> SUFFICES ASSUME FormOpen' PROVE BelongTo(Holds, at.rec)' /\ BelongTo(image, at.rec)'
      OBVIOUS
    <3>1. BelongTo(Holds, at.rec) /\ BelongTo(image, at.rec) /\ at'.rec = at.rec
      BY <1>1 DEF FieldsOK
    <3> QED
      BY <3>1 DEF BelongTo, Holds
  <2>3. drawer' \in {"receipt", "adjustment"} => BelongTo(Holds, New)'
    BY <1>1 DEF FieldsOK, BelongTo, Holds
  <2> QED
    BY <1>3, <2>1, <2>2, <2>3 DEF FieldsOK
<1>6. RowsOK'
  BY <1>1, <1>2 DEF RowsOK
<1>7. SavedWhereTyped'
  BY <1>1 DEF SavedWhereTyped
<1> QED
  BY <1>3, <1>4, <1>5, <1>6, <1>7 DEF FormInv

LEMMA AnswerTypes ==
  ASSUME FormTypeOK, UNCHANGED <<drawer, content, detail, entries, typedIn, written>>, save' = NoSave,
         at' \in PlaceType, fields' \in FieldsType, image' = image, hook' \in HookType
  PROVE  FormTypeOK'
<1>1. detail \in [Records -> (SUBSET Numbers) \cup {None}] /\ image \subseteq 1 .. entries
  BY DEF FormTypeOK
<1> QED
  BY <1>1, SettledTypes

LEMMA CreateSucceedsKeeps == ASSUME FormInv, CreateSucceeds PROVE FormInv'
<1>1. /\ FormTypeOK /\ PlacesOK /\ HookOK /\ SaveOK /\ FieldsOK
      /\ fields \in FieldsType /\ hook \in HookType
  BY DEF FormInv, FormTypeOK
<1>2. /\ save.pc = "saved" /\ save.keyed /\ save' = NoSave /\ at' = AfterCreate
      /\ UNCHANGED <<drawer, image, content, detail, entries, saves, typedIn, written, givenUp, exposed>>
      /\ Rerender(IF drawer = "adjustment" THEN [fields EXCEPT !.typed = {}] ELSE Blank)
  BY DEF CreateSucceeds, history
<1>3. /\ hook' = [intent |-> {}, variables |-> hook.variables, restored |-> hook.restored,
                  unknown |-> FALSE, expired |-> FALSE]
  BY <1>1 DEF CreateSucceeds, HookType
<1>4. /\ hook' \in HookType /\ hook'.intent = {} /\ hook'.unknown = FALSE /\ hook'.expired = FALSE
      /\ hook'.variables = hook.variables /\ hook'.restored = hook.restored
  BY <1>1, <1>3 DEF HookType
<1>5. /\ save.holds = hook.intent /\ save.holds \subseteq Safe /\ Pending
      /\ drawer \in ByIntent /\ drawer \notin Rows
  BY <1>1, <1>2, SavedHolds DEF SaveOK, ByIntent, Rows
<1>6. Held = Safe /\ Held' = Safe /\ Safe' = Safe
  BY <1>2, <1>4, <1>5 DEF Held, Safe, Saved
<1>7. /\ at' \in PlaceType /\ at'.copy = {} /\ at'.kind \in {"list", "detail"}
      /\ at'.kind = "detail" => drawer = "order" /\ at'.rec \in Records
  BY <1>1, <1>2 DEF AfterCreate, ListPage, Place, PlaceType, PlacesOK
<1>8. ~FormOpen' /\ PlacesOK'
  BY <1>2, <1>7 DEF FormOpen, PlacesOK
<1>9. [fields EXCEPT !.typed = {}] = [base |-> fields.base, typed |-> {}, conflict |-> fields.conflict]
  BY <1>1 DEF FieldsType
<1>10. fields' \in {Blank, [fields EXCEPT !.typed = {}]}
  <2>1. CASE drawer = "order"
    BY <1>2, <1>8, <2>1, OrderRerenders
  <2>2. CASE drawer \in {"receipt", "adjustment"}
    BY <1>2, <2>2, OtherRerenders
  <2> QED
    BY <1>1, <1>5, <2>1, <2>2, Drawers
<1>11. fields'.typed = {} /\ fields'.base \subseteq fields.base /\ fields' \in FieldsType
  <2>1. CASE fields' = Blank
    BY <2>1, BlankIs
  <2>2. CASE fields' = [base |-> fields.base, typed |-> {}, conflict |-> fields.conflict]
    BY <1>1, <2>2 DEF FieldsType
  <2> QED
    BY <1>9, <1>10, <2>1, <2>2
<1>12. FormTypeOK'
  BY <1>1, <1>2, <1>4, <1>7, <1>11, AnswerTypes
<1>13. /\ fields.base \subseteq Held' /\ image = {} /\ 1 .. entries \subseteq Held'
  <2>1. fields.typed \subseteq save.holds \cup Held /\ image = {}
    BY <1>1, <1>5 DEF FieldsOK, ByIntent
  <2> QED
    BY <1>1, <1>5, <1>6, <2>1 DEF FieldsOK
<1>14. hook.intent \subseteq Held'
  BY <1>5, <1>6
<1> QED
  BY <1>2, <1>4, <1>5, <1>6, <1>8, <1>11, <1>12, <1>13, <1>14, KeyedAnswerKeeps

LEMMA SaveRefusedKeeps == ASSUME FormInv, SaveRefused PROVE FormInv'
<1>1. /\ FormTypeOK /\ PlacesOK /\ HookOK /\ SaveOK /\ FieldsOK
      /\ fields \in FieldsType /\ hook \in HookType /\ at \in PlaceType
  BY DEF FormInv, FormTypeOK
<1>2. /\ save.pc = "refused" /\ Pending /\ save' = NoSave
      /\ exposed' = IF drawer = "order" /\ save.keyed THEN exposed \cup save.holds ELSE exposed
      /\ UNCHANGED <<drawer, at, image, content, detail, entries, saves, typedIn, written, givenUp>>
  BY DEF SaveRefused, Pending
<1>3. /\ fields'.base = fields.base /\ fields'.typed = fields.typed /\ fields' \in FieldsType
  <2>1. PICK conflict \in BOOLEAN : fields' = [fields EXCEPT !.conflict = @ \/ conflict]
    <3>1. fields.conflict \in BOOLEAN /\ (drawer = "order" /\ ~save.keyed) \in BOOLEAN
      BY <1>1 DEF FieldsType
    <3> QED
      BY <3>1 DEF SaveRefused
  <2> DEFINE after == fields.conflict \/ conflict
  <2>2. fields' = [fields EXCEPT !.conflict = after] /\ after \in BOOLEAN
    BY <2>1
  <2> HIDE DEF after
  <2>3. fields' = [base |-> fields.base, typed |-> fields.typed, conflict |-> after]
    BY <1>1, <2>2 DEF FieldsType
  <2> QED
    BY <1>1, <2>2, <2>3 DEF FieldsType
<1>4. /\ hook' \in HookType /\ hook'.variables = hook.variables /\ hook'.restored = hook.restored
      /\ hook'.unknown = hook.unknown /\ hook'.expired = hook.expired
      /\ hook'.intent = IF save.keyed /\ ~hook.unknown THEN {} ELSE hook.intent
      /\ ~save.keyed => hook' = hook
  <2>1. [hook EXCEPT !.intent = {}] =
          [intent |-> {}, variables |-> hook.variables, restored |-> hook.restored,
           unknown |-> hook.unknown, expired |-> hook.expired]
    BY <1>1 DEF HookType
  <2>2. CASE save.keyed /\ ~hook.unknown
    <3>1. hook' = [intent |-> {}, variables |-> hook.variables, restored |-> hook.restored,
                   unknown |-> hook.unknown, expired |-> hook.expired]
      BY <2>1, <2>2 DEF SaveRefused
    <3> QED
      BY <1>1, <2>2, <3>1 DEF HookType
  <2>3. CASE ~(save.keyed /\ ~hook.unknown)
    BY <1>1, <2>3 DEF SaveRefused
  <2> QED
    BY <2>2, <2>3
<1>5. FormTypeOK'
  BY <1>1, <1>2, <1>3, <1>4, AnswerTypes
<1>6. /\ exposed \subseteq exposed' /\ Safe \subseteq Safe' /\ Safe' \subseteq Held' /\ exposed' \subseteq Safe'
      /\ FormOpen' = FormOpen
      /\ PlacesOK'
  <2>1. exposed \subseteq exposed' /\ FormOpen' = FormOpen
    BY <1>2 DEF FormOpen
  <2>2. Safe \subseteq Safe' /\ Safe' \subseteq Held' /\ exposed' \subseteq Safe'
    BY <1>2, <2>1 DEF Safe, Saved, Held
  <2>3. PlacesOK'
    BY <1>1, <1>2 DEF PlacesOK, SavedTo
  <2> QED
    BY <2>1, <2>2, <2>3
<1>7. drawer = "order" => hook.intent \subseteq Held'
  BY <1>1, <1>2, <1>4, <1>6 DEF SaveOK, Held
<1>8. Held \subseteq Held' \/ (save.keyed /\ ~hook.unknown /\ drawer \in {"receipt", "adjustment"})
  <2>1. CASE drawer = "order"
    BY <1>6, <1>7, <2>1 DEF Held
  <2>2. CASE ~save.keyed \/ hook.unknown
    BY <1>4, <1>6, <2>2 DEF Held
  <2> QED
    BY <1>1, <2>1, <2>2 DEF SaveOK, ByIntent
<1>9. 1 .. entries \subseteq fields'.typed \cup image \cup Held'
  <2>1. CASE Held \subseteq Held'
    BY <1>1, <1>3, <2>1 DEF FieldsOK
  <2>2. CASE save.keyed /\ ~hook.unknown /\ drawer \in {"receipt", "adjustment"}
    <3>1. hook.intent \subseteq fields.typed \cup Safe
      BY <1>1, <2>2 DEF FieldsOK
    <3>2. Held \subseteq fields'.typed \cup Held'
      BY <1>3, <1>6, <3>1 DEF Held
    <3>3. 1 .. entries \subseteq fields.typed \cup image \cup Held
      BY <1>1 DEF FieldsOK
    <3> QED
      BY <1>3, <3>2, <3>3
  <2> QED
    BY <1>8, <2>1, <2>2
<1>10. fields.base \subseteq Held'
       /\ (drawer \in {"receipt", "adjustment"} /\ ~hook'.unknown => fields.base \subseteq Safe')
  <2>1. drawer \in {"receipt", "adjustment"} /\ ~hook.unknown => fields.base \subseteq Safe
    BY <1>1 DEF FieldsOK
  <2>2. fields.base \subseteq Held
    BY <1>1 DEF FieldsOK
  <2> QED
    BY <1>4, <1>6, <1>8, <2>1, <2>2
<1>11. /\ ~FormOpen' => fields'.typed \subseteq Held' /\ image = {}
       /\ at'.kind = "new" /\ hook'.unknown => fields'.typed \subseteq Held'
  <2>1. ~FormOpen => drawer \notin {"receipt", "adjustment"}
    BY <1>1, <1>2 DEF FieldsOK
  <2> QED
    BY <1>1, <1>2, <1>3, <1>4, <1>6, <1>8, <2>1 DEF FieldsOK
<1>12. /\ hook'.intent # {} => hook'.unknown
       /\ hook'.expired => hook.expired /\ hook'.unknown
       /\ drawer \in Rows => hook' = hook
       /\ hook'.intent \in {{}, hook.intent}
  BY <1>1, <1>4 DEF HookOK, SaveOK, Rows, ByIntent
<1> QED
  BY <1>2, <1>3, <1>4, <1>5, <1>6, <1>7, <1>9, <1>10, <1>11, <1>12, KeyedAnswerKeeps

LEMMA SaveLostKeeps == ASSUME FormInv, SaveLost PROVE FormInv'
<1>1. /\ FormTypeOK /\ PlacesOK /\ HookOK /\ SaveOK /\ FieldsOK
      /\ fields \in FieldsType /\ hook \in HookType /\ at \in PlaceType
  BY DEF FormInv, FormTypeOK
<1>2. /\ save.pc = "lost" /\ Pending /\ save' = NoSave
      /\ UNCHANGED <<drawer, at, fields, image, content, detail, entries, saves, typedIn, written,
                     givenUp, exposed>>
  BY DEF SaveLost, Pending, history
<1>3. /\ hook' \in HookType /\ hook'.variables = hook.variables /\ hook'.restored = hook.restored
      /\ hook'.unknown = (hook.unknown \/ save.keyed) /\ hook'.expired = hook.expired
      /\ hook'.intent = hook.intent
      /\ ~save.keyed => hook' = hook
  <2>1. save.keyed \in BOOLEAN
    BY <1>1 DEF FormTypeOK, SaveType
  <2>2. CASE save.keyed
    <3>1. hook' = [intent |-> hook.intent, variables |-> hook.variables, restored |-> hook.restored,
                   unknown |-> TRUE, expired |-> hook.expired]
      BY <1>1, <2>2 DEF SaveLost, HookType
    <3> QED
      BY <1>1, <2>2, <3>1 DEF HookType
  <2>3. CASE ~save.keyed
    BY <1>1, <2>3 DEF SaveLost, HookType
  <2> QED
    BY <2>2, <2>3
<1>4. FormTypeOK'
  BY <1>1, <1>2, <1>3, AnswerTypes DEF FormTypeOK
<1>5. Safe' = Safe /\ Held' = Held /\ FormOpen' = FormOpen /\ PlacesOK'
  <2>1. Safe' = Safe /\ Held' = Held /\ FormOpen' = FormOpen
    BY <1>2, <1>3 DEF Safe, Saved, Held, FormOpen
  <2>2. PlacesOK'
    BY <1>1, <1>2 DEF PlacesOK, SavedTo
  <2> QED
    BY <2>1, <2>2
<1>6. hook.intent \subseteq Held
  BY DEF Held
<1>7. at.kind = "new" /\ hook'.unknown => fields.typed \subseteq Held
  <2>1. fields.typed \subseteq save.holds \cup Held
    BY <1>1, <1>2 DEF FieldsOK
  <2>2. save.keyed => save.holds \subseteq Held
    BY <1>1, <1>6 DEF SaveOK
  <2> QED
    BY <1>1, <1>3, <2>1, <2>2 DEF FieldsOK
<1>8. /\ hook'.intent # {} => hook'.unknown
      /\ hook'.expired => hook.expired /\ hook'.unknown
      /\ drawer \in Rows => hook' = hook
  BY <1>1, <1>3 DEF HookOK, SaveOK, Rows, ByIntent
<1>9. /\ 1 .. entries \subseteq fields.typed \cup image \cup Held
      /\ fields.base \subseteq Held
      /\ drawer \in {"receipt", "adjustment"} /\ ~hook'.unknown => fields.base \subseteq Safe
      /\ ~FormOpen => fields.typed \subseteq Held /\ image = {}
  BY <1>1, <1>3 DEF FieldsOK
<1> QED
  BY <1>2, <1>3, <1>4, <1>5, <1>6, <1>7, <1>8, <1>9, KeyedAnswerKeeps


-----------------------------------------------------------------------------
(* Meanwhile.                                                               *)

LEMMA ElsewhereKeeps == ASSUME FormInv, NEW r \in Records, Elsewhere(r) PROVE FormInv'
<1>1. FormTypeOK /\ PlacesOK /\ HookOK /\ SaveOK /\ FieldsOK /\ RowsOK /\ SavedWhereTyped
  BY FormInvParts
<1>2. /\ content' = [content EXCEPT ![r] = @ \cup {Theirs}]
      /\ UNCHANGED <<drawer, at, fields, image, save, hook, detail, entries, saves, typedIn, written,
                     givenUp, exposed>>
  BY DEF Elsewhere, history
<1>3. content \in [Records \cup {New} -> SUBSET Numbers] /\ Theirs \in Numbers
  BY <1>1, FormsAssumption DEF FormTypeOK, Numbers, Theirs
<1>4. content' \in [Records \cup {New} -> SUBSET Numbers]
  BY <1>2, <1>3
<1>5. \A q \in Records \cup {New} : content'[q] \subseteq content[q] \cup {Theirs}
  BY <1>2, <1>3
<1>6. /\ FormOpen' = FormOpen /\ Pending' = Pending /\ Safe' = Safe /\ Held' = Held /\ Holds' = Holds
      /\ \A q : SavedTo(q)' = SavedTo(q)
      /\ \A held, q : BelongTo(held, q)' <=> BelongTo(held, q)
  BY <1>2 DEF FormOpen, Pending, Safe, Saved, Held, Holds, SavedTo, BelongTo
<1>7. FormTypeOK'
  <2>1. /\ Numbers' = Numbers /\ PlaceType' = PlaceType /\ FieldsType' = FieldsType
        /\ SaveType' = SaveType /\ HookType' = HookType
    BY <1>2, TypesStay
  <2> QED
    BY <1>1, <1>2, <1>4, <2>1 DEF FormTypeOK
<1>8. RowsOK'
  <2>1. \A q : Theirs \in SavedTo(q)
    BY DEF SavedTo
  <2> QED
    BY <1>1, <1>2, <1>5, <1>6, <2>1 DEF RowsOK
<1>9. PlacesOK'
  BY <1>1, <1>2, <1>6 DEF PlacesOK
<1>10. HookOK'
  <2>1. BelongTo(hook.intent, New)' /\ BelongTo(hook.variables, New)' /\ BelongTo(hook.restored, New)'
    BY <1>1, <1>2 DEF HookOK, BelongTo
  <2> QED
    BY <1>1, <1>2, <1>6, <2>1 DEF HookOK
<1>11. SaveOK'
  <2>1. BelongTo(save.holds, save.to)' /\ BelongTo(save.image, save.to)'
    BY <1>1, <1>2 DEF SaveOK, BelongTo
  <2>2. SavedTo(save.to)' = SavedTo(save.to)
    BY <1>2 DEF SavedTo
  <2> QED
    BY <1>1, <1>2, <1>6, <2>1, <2>2 DEF SaveOK
<1>12. FieldsOK'
  <2>1. FormOpen' => BelongTo(Holds, at.rec)' /\ BelongTo(image, at.rec)'
    BY <1>1, <1>2, <1>6 DEF FieldsOK, BelongTo
  <2>2. drawer' \in {"receipt", "adjustment"} => BelongTo(Holds, New)' /\ (Pending' => FormOpen')
    BY <1>1, <1>2, <1>6 DEF FieldsOK, BelongTo
  <2> QED
    BY <1>1, <1>2, <1>6, <2>1, <2>2 DEF FieldsOK
<1>13. SavedWhereTyped'
  BY <1>1, <1>2 DEF SavedWhereTyped
<1> QED
  BY <1>7, <1>8, <1>9, <1>10, <1>11, <1>12, <1>13 DEF FormInv

\* The form of an order that has not been fetched before opens with what it is.
LEMMA FetchRowKeeps == ASSUME FormInv, NEW r \in Records, FetchRow(r) PROVE FormInv'
<1>1. FormTypeOK /\ PlacesOK /\ HookOK /\ SaveOK /\ FieldsOK /\ RowsOK /\ SavedWhereTyped
  BY FormInvParts
<1>2. /\ detail' = [detail EXCEPT ![r] = content[r]]
      /\ UNCHANGED <<drawer, at, image, save, hook, content, entries, saves, typedIn, written,
                     givenUp, exposed>>
      /\ Rerender(fields)
  BY DEF FetchRow, history
<1>3. /\ detail \in [Records -> (SUBSET Numbers) \cup {None}]
      /\ content[r] \in SUBSET Numbers /\ content[r] # None
      /\ content[r] \subseteq SavedTo(r)
  <2>1. content[r] \in SUBSET Numbers /\ entries \in 0 .. MaxEntries
    BY <1>1 DEF FormTypeOK
  <2>2. Numbers \subseteq 0 .. MaxEntries
    BY <2>1, FormsAssumption DEF Numbers
  <2> QED
    BY <1>1, <2>1, <2>2, FormsAssumption DEF FormTypeOK, RowsOK
<1>4. /\ detail' \in [Records -> (SUBSET Numbers) \cup {None}]
      /\ \A q \in Records : detail'[q] = IF q = r THEN content[r] ELSE detail[q]
  BY <1>2, <1>3
<1>5. /\ Pending' = Pending /\ Safe' = Safe /\ Held' = Held /\ Held = hook.intent \cup Safe
      /\ \A q : SavedTo(q)' = SavedTo(q)
      /\ \A held, q : BelongTo(held, q)' <=> BelongTo(held, q)
  BY <1>2 DEF Pending, Safe, Saved, Held, SavedTo, BelongTo
<1>6. RowsOK'
  BY <1>1, <1>2, <1>3, <1>4, <1>5 DEF RowsOK
<1>7. PlacesOK'
  BY <1>1, <1>2, <1>5 DEF PlacesOK
<1>8. FormOpen => FormOpen'
  BY <1>1, <1>2, <1>3, <1>4 DEF FormOpen, PlacesOK
<1>9. \/ fields' = fields /\ FormOpen' = FormOpen
      \/ /\ fields' \in FieldsType /\ fields'.base \subseteq Held /\ fields'.typed = {}
         /\ BelongTo(fields'.base, at.rec)
         /\ ~FormOpen /\ FormOpen' /\ drawer = "order"
  <2>1. CASE drawer = "order"
    <3>1. CASE FormOpen \/ ~FormOpen'
      <4>1. fields' = fields
        BY <1>2, <2>1, <3>1, OrderRerenders
      <4>2. FormOpen' = FormOpen
        BY <1>8, <3>1 DEF FormOpen
      <4> QED
        BY <4>1, <4>2
    <3>2. CASE ~FormOpen /\ FormOpen'
      <4>1. at.kind = "edit" /\ at.rec = r
        BY <1>1, <1>2, <1>4, <3>2 DEF FormOpen, PlacesOK
      <4>2. /\ fields'.base = content[r] /\ fields'.typed = {}
            /\ fields' = [base |-> content[r], typed |-> {}, conflict |-> FALSE]
        BY <1>2, <1>4, <2>1, <3>2, <4>1, OrderRerenders
      <4>3. SavedTo(r) \subseteq Held /\ BelongTo(SavedTo(r), r)
        BY <1>1, SavedIsSafe, SavedBelongs
      <4>4. BelongTo(content[r], r)
        BY <1>3, <4>3, BelongingParts
      <4>5. fields' \in FieldsType
        BY <1>3, <4>2 DEF FieldsType
      <4> QED
        BY <1>3, <2>1, <3>2, <4>1, <4>2, <4>3, <4>4, <4>5
    <3> QED
      BY <3>1, <3>2
  <2>2. CASE drawer \in Rows
    <3>1. fields' = fields
      BY <1>2, <2>2, RowRerenders
    <3> QED
      BY <1>2, <2>2, <3>1 DEF FormOpen, Rows
  <2>3. CASE drawer \in {"receipt", "adjustment"}
    <3>1. fields' = fields
      BY <1>2, <2>3, OtherRerenders
    <3> QED
      BY <1>2, <2>3, <3>1 DEF FormOpen
  <2> QED
    BY <1>1, <2>1, <2>2, <2>3, Drawers
<1>10. FormTypeOK'
  <2>1. /\ Numbers' = Numbers /\ PlaceType' = PlaceType /\ FieldsType' = FieldsType
        /\ SaveType' = SaveType /\ HookType' = HookType
    BY <1>2, TypesStay
  <2>2. fields' \in FieldsType
    BY <1>1, <1>9 DEF FormTypeOK
  <2> QED
    BY <1>1, <1>2, <1>4, <2>1, <2>2 DEF FormTypeOK
<1>11. HookOK'
  <2>1. BelongTo(hook.intent, New)' /\ BelongTo(hook.variables, New)' /\ BelongTo(hook.restored, New)'
    BY <1>1, <1>2 DEF HookOK, BelongTo
  <2> QED
    BY <1>1, <1>2, <1>5, <2>1 DEF HookOK
<1>12. fields.typed \subseteq fields'.typed \cup Held
  BY <1>1, <1>9 DEF FieldsOK
<1>13. SaveOK'
  <2>1. BelongTo(save.holds, save.to)' /\ BelongTo(save.image, save.to)'
    BY <1>1, <1>2 DEF SaveOK, BelongTo
  <2>2. SavedTo(save.to)' = SavedTo(save.to)
    BY <1>2 DEF SavedTo
  <2>3. save.holds \subseteq fields'.typed \cup Held'
    BY <1>1, <1>5, <1>12 DEF SaveOK
  <2> QED
    BY <1>1, <1>2, <1>5, <2>1, <2>2, <2>3 DEF SaveOK
<1>14. FieldsOK'
  <2>1. FormOpen' => BelongTo(Holds, at.rec)' /\ BelongTo(image, at.rec)'
    <3>1. CASE fields' = fields /\ FormOpen' = FormOpen
      BY <1>1, <1>2, <1>5, <3>1 DEF FieldsOK, Holds, BelongTo
    <3>2. CASE /\ fields'.typed = {} /\ BelongTo(fields'.base, at.rec)
               /\ drawer = "order"
      <4>1. \A e \in (fields'.base \cup fields'.typed) \ {Theirs} : e \in exposed \/ typedIn[e] = at.rec
        BY <3>2 DEF BelongTo
      <4>2. image = {}
        BY <1>1, <3>2 DEF FieldsOK
      <4> QED
        BY <1>2, <4>1, <4>2 DEF BelongTo, Holds
    <3> QED
      BY <1>9, <3>1, <3>2
  <2>2. drawer \in {"receipt", "adjustment"} => BelongTo(Holds, New)' /\ (Pending' => FormOpen')
    <3> SUFFICES ASSUME drawer \in {"receipt", "adjustment"}
                 PROVE  BelongTo(Holds, New)' /\ (Pending' => FormOpen')
      OBVIOUS
    <3>1. fields' = fields
      BY <1>9
    <3> QED
      BY <1>1, <1>2, <1>5, <1>8, <3>1 DEF FieldsOK, Holds, BelongTo
  <2>3. /\ 1 .. entries \subseteq fields'.typed \cup image \cup Held
        /\ fields'.base \subseteq Held
        /\ drawer \in {"receipt", "adjustment"} /\ ~hook.unknown =>
             /\ fields'.base \subseteq Safe
             /\ save.keyed => hook.intent \subseteq fields'.typed \cup Safe
        /\ ~FormOpen' => fields'.typed \subseteq Held /\ image = {}
        /\ at.kind = "new" /\ hook.unknown => fields'.typed \subseteq Held
        /\ Pending => fields'.typed \subseteq save.holds \cup Held /\ image \subseteq save.image \cup exposed
        /\ drawer # "product" => image = {} /\ save.image = {}
    <3>1. CASE fields' = fields /\ FormOpen' = FormOpen
      BY <1>1, <3>1 DEF FieldsOK
    <3>2. CASE /\ fields'.base \subseteq Held /\ fields'.typed = {}
               /\ FormOpen' /\ drawer = "order"
      <4>1. 1 .. entries \subseteq fields'.typed \cup image \cup Held
        BY <1>1, <1>12 DEF FieldsOK
      <4> QED
        BY <1>1, <3>2, <4>1 DEF FieldsOK
    <3> QED
      BY <1>9, <3>1, <3>2
  <2> QED
    BY <1>2, <1>5, <2>1, <2>2, <2>3 DEF FieldsOK
<1>15. SavedWhereTyped'
  BY <1>1, <1>2 DEF SavedWhereTyped
<1> QED
  BY <1>6, <1>7, <1>10, <1>11, <1>13, <1>14, <1>15 DEF FormInv

\* What is typed and not remembered is left behind.
LEMMA ReloadKeeps == ASSUME FormInv, Reload PROVE FormInv'
<1>1. FormTypeOK /\ PlacesOK /\ HookOK /\ SaveOK /\ FieldsOK /\ RowsOK /\ SavedWhereTyped
  BY FormInvParts
<1>2. /\ save' = NoSave /\ image' = {} /\ at' = IF drawer = "order" THEN at ELSE ListPage
      /\ detail' = [r \in Records |-> IF drawer = "order" THEN None ELSE content'[r]]
      /\ UNCHANGED <<drawer, entries, saves, typedIn, exposed>>
      /\ UnsavedChangesGuard(FormOpen /\ (fields.typed # {} \/ image # {}) /\ ~Locked)
  BY DEF Reload, history
<1>3. /\ written \subseteq written' /\ written' \subseteq (1 .. entries) \X (Records \cup {New})
      /\ content' \in [Records \cup {New} -> SUBSET Numbers]
      /\ \A r \in Records \cup {New} : content'[r] \subseteq SavedTo(r)'
      /\ SavedWhereTyped'
  <2>1. CASE save.pc = "sent" /\ Execute({})
    <3>1. Pending
      BY <2>1 DEF Pending
    <3> QED
      BY <1>2, <2>1, <3>1, ExecuteWrites
  <2>2. CASE UNCHANGED <<content, written>>
    <3>1. \A r \in Records \cup {New} : content'[r] \subseteq SavedTo(r)'
      BY <1>1, <1>2, <2>2 DEF RowsOK, SavedTo
    <3> QED
      BY <1>1, <1>2, <2>2, <3>1 DEF FormTypeOK, SavedWhereTyped
  <2> QED
    BY <2>1, <2>2 DEF Reload
<1>4. /\ hook.intent \in SUBSET Numbers
      /\ hook' \in HookType /\ hook'.intent = hook.intent /\ hook'.variables = hook.intent
      /\ hook'.restored = hook.intent /\ hook'.unknown = (hook.intent # {})
      /\ hook'.expired => hook.intent # {}
  <2>1. PICK expired \in {FALSE, hook.intent # {}} : hook' = Restored(expired)
    BY DEF Reload
  <2>2. hook.intent \in SUBSET Numbers
    BY <1>1 DEF FormTypeOK, HookType
  <2> QED
    BY <2>1, <2>2 DEF Restored, HookType
<1>5. drawer \in Rows => hook.intent = {} /\ hook' = NoIntent
  <2>1. drawer \in Rows => hook.intent = {}
    BY <1>1 DEF HookOK, NoIntent
  <2>2. hook.intent = {} => hook' = NoIntent
    BY DEF Reload, Restored, NoIntent
  <2> QED
    BY <2>1, <2>2
<1>6. /\ fields'.typed = {} /\ fields' \in FieldsType
      /\ fields'.base = IF drawer = "order" /\ at.kind # "new" THEN {} ELSE hook.intent
  <2> DEFINE base == IF drawer = "order" /\ at.kind # "new" THEN {} ELSE hook.intent
  <2>1. base \in SUBSET Numbers
    BY <1>4
  <2>2. fields' = [Blank EXCEPT !.base = base]
    BY DEF Reload
  <2> HIDE DEF base
  <2>3. fields' = [base |-> base, typed |-> {}, conflict |-> FALSE]
    BY <2>2, BlankBut
  <2>4. fields'.typed = {} /\ fields'.base = base /\ fields' \in FieldsType
    BY <2>1, <2>3 DEF FieldsType
  <2> QED
    BY <2>4 DEF base
<1>7. /\ givenUp \subseteq givenUp'
      /\ FormOpen /\ ~Locked => fields.typed \cup image \subseteq givenUp'
  BY <1>2 DEF UnsavedChangesGuard
<1>8. /\ Safe \subseteq Safe' /\ Held \subseteq Held' /\ givenUp' \subseteq Held'
      /\ \A r : SavedTo(r) \subseteq SavedTo(r)'
      /\ \A held, r : BelongTo(held, r)' <=> BelongTo(held, r)
      /\ hook.intent \subseteq Held'
  <2>1. /\ Safe \subseteq Safe' /\ Held \subseteq Held' /\ \A r : SavedTo(r) \subseteq SavedTo(r)'
    BY <1>1, <1>2, <1>3, <1>4, <1>7, HistoryStays
  <2>2. \A held, r : BelongTo(held, r)' <=> BelongTo(held, r)
    BY <1>2 DEF BelongTo
  <2> QED
    BY <1>4, <2>1, <2>2 DEF Held, Safe
<1>9. 1 .. entries \subseteq Held'
  <2>1. fields.typed \cup image \subseteq Held'
    <3>1. CASE ~FormOpen
      BY <1>1, <1>8, <3>1 DEF FieldsOK
    <3>2. CASE FormOpen /\ ~Locked
      BY <1>7, <1>8, <3>2
    <3>3. CASE Locked
      <4>1. fields.typed \subseteq Held
        BY <1>1, <3>3 DEF Locked, FieldsOK
      <4>2. drawer # "product"
        BY <1>1, <3>3 DEF Locked, HookOK, Rows, NoIntent
      <4> QED
        BY <1>1, <1>8, <4>1, <4>2 DEF FieldsOK
    <3> QED
      BY <3>1, <3>2, <3>3
  <2> QED
    BY <1>1, <1>8, <2>1 DEF FieldsOK
<1>10. at' \in PlaceType /\ PlacesOK'
  <2>1. CASE drawer = "order"
    BY <1>1, <1>2, <1>8, <2>1 DEF FormTypeOK, PlacesOK
  <2>2. CASE drawer # "order"
    <3>1. at' = [kind |-> "list", rec |-> None, copy |-> {}]
      BY <1>2, <2>2 DEF ListPage, Place
    <3>2. at' \in PlaceType
      BY <3>1 DEF PlaceType
    <3> QED
      BY <1>2, <2>2, <3>1, <3>2 DEF PlacesOK
  <2> QED
    BY <2>1, <2>2
<1>11. RowsOK'
  <2>1. ASSUME NEW r \in Records PROVE drawer # "order" => detail'[r] \subseteq SavedTo(r)'
    BY <1>2, <1>3
  <2>2. ASSUME NEW r \in Records PROVE drawer = "order" => detail'[r] = None
    BY <1>2
  <2> QED
    BY <1>2, <1>3, <2>1, <2>2 DEF RowsOK
<1>12. FormTypeOK'
  <2>1. detail' \in [Records -> (SUBSET Numbers) \cup {None}]
    BY <1>2, <1>3
  <2>2. /\ Numbers' = Numbers /\ PlaceType' = PlaceType /\ FieldsType' = FieldsType
        /\ SaveType' = SaveType /\ HookType' = HookType
    BY <1>2, TypesStay
  <2>3. save' \in SaveType /\ image' \subseteq 1 .. entries
    BY <1>2, NoSaveIs
  <2> QED
    BY <1>1, <1>2, <1>3, <1>4, <1>6, <1>10, <2>1, <2>2, <2>3 DEF FormTypeOK
<1>13. SaveOK' /\ ~Pending' /\ save'.keyed = FALSE /\ save'.image = {}
  BY <1>2, NothingUnderWay, NoSaveIs
<1>14. BelongTo(hook.intent, New)
  BY <1>1 DEF HookOK
<1>15. HookOK'
  <2>1. BelongTo(hook.intent, New)' /\ BelongTo(hook.variables, New)' /\ BelongTo(hook.restored, New)'
    BY <1>2, <1>4, <1>14 DEF BelongTo
  <2> QED
    BY <1>2, <1>4, <1>5, <1>8, <1>13, <2>1 DEF HookOK
<1>16. FieldsOK'
  <2>1. fields'.base \subseteq Held' /\ (hook'.unknown = FALSE => fields'.base = {})
    BY <1>4, <1>6, <1>8
  <2>2. BelongTo(fields'.base, New)
    BY <1>6, <1>14, BelongingParts
  <2>3. BelongTo(Holds, New)'
    <3>1. \A e \in (fields'.base \cup fields'.typed) \ {Theirs} : e \in exposed \/ typedIn[e] = New
      BY <1>6, <2>2 DEF BelongTo
    <3> QED
      BY <1>2, <3>1 DEF BelongTo, Holds
  <2>4. FormOpen' => at'.rec = New
    BY <1>2, <1>10 DEF FormOpen, PlacesOK, ListPage, Place
  <2>5. FormOpen' => BelongTo(Holds, at.rec)' /\ BelongTo(image, at.rec)'
    BY <1>2, <2>3, <2>4 DEF BelongTo
  <2> QED
    BY <1>2, <1>4, <1>6, <1>9, <1>13, <2>1, <2>3, <2>5 DEF FieldsOK
<1> QED
  BY <1>3, <1>10, <1>11, <1>12, <1>13, <1>15, <1>16 DEF FormInv


-----------------------------------------------------------------------------
(* Every step, and what is proved of all of them.                            *)

LEMMA FormInvariantStays == ASSUME FormInv, UNCHANGED formVars PROVE FormInv'
<1>1. UNCHANGED <<drawer, at, fields, image, save, hook, content, detail, entries, saves, typedIn,
                  written, givenUp, exposed>>
  BY DEF formVars
<1> QED
  BY <1>1 DEF FormInv, FormTypeOK, PlacesOK, HookOK, SaveOK, FieldsOK, RowsOK, SavedWhereTyped,
              Numbers, PlaceType, FieldsType, SaveType, HookType, Saved, SavedTo, Safe, Held, BelongTo,
              Holds, FormOpen, Pending

LEMMA FormInvariantStarts == ASSUME FormInit PROVE FormInv
<1>1. /\ drawer \in Rows \cup ByIntent /\ entries = 0
      /\ at = [kind |-> "list", rec |-> None, copy |-> {}]
      /\ fields = [base |-> {}, typed |-> {}, conflict |-> FALSE]
      /\ image = {} /\ save = NoSave /\ hook = NoIntent
      /\ content = [r \in Records \cup {New} |-> {}]
      /\ detail = [r \in Records |-> IF drawer = "order" THEN None ELSE {}]
      /\ typedIn = [e \in 1 .. MaxEntries |-> None]
      /\ written = {} /\ givenUp = {} /\ exposed = {}
  BY DEF FormInit, ListPage, Place, Blank
<1>2. /\ hook = [intent |-> {}, variables |-> {}, restored |-> {}, unknown |-> FALSE, expired |-> FALSE]
      /\ save = [pc |-> "idle", to |-> None, holds |-> {}, image |-> {}, keyed |-> FALSE]
  BY <1>1 DEF NoIntent, NoSave
<1>3. ~FormOpen /\ ~Pending /\ 1 .. entries = {}
  BY <1>1, <1>2 DEF FormOpen, Pending
<1>4. FormTypeOK
  <2>1. at \in PlaceType /\ fields \in FieldsType
    BY <1>1 DEF PlaceType, FieldsType
  <2>2. save \in SaveType /\ hook \in HookType
    BY <1>2 DEF SaveType, HookType
  <2>3. entries \in 0 .. MaxEntries
    BY <1>1, FormsAssumption
  <2> QED
    BY <1>1, <2>1, <2>2, <2>3 DEF FormTypeOK
<1>5. PlacesOK
  BY <1>1 DEF PlacesOK
<1>6. BelongTo({}, New) /\ BelongTo({}, None)
  BY DEF BelongTo
<1>7. HookOK
  BY <1>1, <1>2, <1>6 DEF HookOK
<1>8. SaveOK
  BY <1>1, <1>2, <1>3, <1>6 DEF SaveOK
<1>9. FieldsOK
  <2>1. Holds = {}
    BY <1>1 DEF Holds
  <2> QED
    BY <1>1, <1>2, <1>3, <1>6, <2>1 DEF FieldsOK
<1>10. RowsOK
  BY <1>1 DEF RowsOK, SavedTo
<1>11. SavedWhereTyped
  BY <1>1 DEF SavedWhereTyped
<1> QED
  BY <1>4, <1>5, <1>7, <1>8, <1>9, <1>10, <1>11 DEF FormInv

LEMMA FormInvariantKept == ASSUME FormInv, [FormNext]_formVars PROVE FormInv'
<1>1. CASE OpenNew \/ EditOrder \/ TypeInto \/ DropImage \/ DiscardImage
  BY <1>1, OpenNewKeeps, EditOrderKeeps, TypeIntoKeeps, ImageKeeps
<1>2. CASE OrderClose \/ ReceiptClose \/ AdjustmentClose \/ ProductClose \/ PartnerClose
  BY <1>2, OrderCloseKeeps, SimpleCloseKeeps, RowCloseKeeps
<1>3. CASE OrderSubmit \/ OrderRetry \/ ReceiptSubmit \/ AdjustmentSubmit \/ ProductSubmit
           \/ PartnerSubmit
  BY <1>3, SubmitKeeps
<1>4. CASE Resolve \/ SaveExecuted \/ SaveFails
  BY <1>4, ResolveKeeps, SaveExecutedKeeps, SaveFailsKeeps
<1>5. CASE CreateSucceeds \/ UpdateSucceeds \/ RowSaved \/ ImageFails \/ SaveRefused \/ SaveLost
  BY <1>5, CreateSucceedsKeeps, UpdateSucceedsKeeps, RowSavedKeeps, ImageFailsKeeps,
     SaveRefusedKeeps, SaveLostKeeps
<1>6. CASE ReviewLatest
  <2>1. at.rec \in Records /\ FetchRow(at.rec)
    BY <1>6 DEF ReviewLatest, FormInv, PlacesOK
  <2> QED
    BY <2>1, FetchRowKeeps
<1>7. CASE Reload
  BY <1>7, ReloadKeeps
<1>8. ASSUME NEW r \in Records, OpenOrder(r) \/ EditRow(r) \/ Elsewhere(r) \/ RowFetched(r)
      PROVE  FormInv'
  BY <1>8, OpenOrderKeeps, EditRowKeeps, ElsewhereKeeps, FetchRowKeeps DEF RowFetched
<1>9. ASSUME NEW url \in Urls, GoTo(url) PROVE FormInv'
  BY <1>9, GoToKeeps
<1>10. CASE UNCHANGED formVars
  BY <1>10, FormInvariantStays
<1> QED
  BY <1>1, <1>2, <1>3, <1>4, <1>5, <1>6, <1>7, <1>8, <1>9, <1>10 DEF FormNext

\* In every behaviour of a drawer, whatever has been typed is on the form, under way,
\* remembered, saved, left behind by the user, or exposed: no fetch, answer, retry,
\* conflict, move or restored request takes it away.
THEOREM FormsLoseNothing == FormSpec => []NothingLost
<1>1. FormInv => NothingLost
  <2> SUFFICES ASSUME FormInv, NEW e \in 1 .. entries
               PROVE  e \in OnForm \cup Remembered \cup {pair[1] : pair \in written} \cup givenUp \cup exposed
    BY DEF NothingLost
  <2>1. e \in fields.typed \cup image \cup Held /\ entries \in 0 .. MaxEntries
    BY DEF FormInv, FieldsOK, FormTypeOK
  <2>2. e # Theirs
    BY <2>1, FormsAssumption DEF Theirs
  <2> QED
    BY <2>1, <2>2 DEF OnForm, Holds, Remembered, Held, Safe, Saved
<1>2. FormSpec => []FormInv
  BY FormInvariantStarts, FormInvariantKept, PTL DEF FormSpec
<1> QED
  BY <1>1, <1>2, PTL

\* What is saved goes to the record that was on the form when it was typed, however
\* the user went from record to record in between; except for what is exposed.
THEOREM SavesGoWhereTyped == FormSpec => []SavedWhereTyped
<1>1. FormInv => SavedWhereTyped
  BY DEF FormInv
<1>2. FormSpec => []FormInv
  BY FormInvariantStarts, FormInvariantKept, PTL DEF FormSpec
<1> QED
  BY <1>1, <1>2, PTL

-----------------------------------------------------------------------------
(* The tabs of a browser.                                                    *)

PageView    == [member : Members, role : Roles, session : Sessions]
PageType    == [view : PageView \cup {Nil}, token : Sessions \cup {Nil}, late : BOOLEAN,
                next : {Nil, "router", "browser"}]
Account     == {UserOf[m] : m \in Members}
SessionType == [user : Account \cup {Nil}, member : Members \cup {Nil}, live : BOOLEAN,
                maker : Tabs \cup {Nil}, known : BOOLEAN]
ReqType     == [pc : {"idle", "csrf", "sent", "answered"},
                kind : Signs \cup {"logout", "write", Nil}, arg : Account \cup Members \cup {Nil},
                tab : Tabs \cup {Nil}, cookie : Sessions \cup {Nil}, shown : PageView \cup {Nil},
                leaving : BOOLEAN, late : BOOLEAN]

TabTypeOK ==
  /\ registered \subseteq Users /\ role \in [Members -> Roles \cup {Nil}]
  /\ session \in [Sessions -> SessionType] /\ cookie \in Sessions \cup {Nil}
  /\ tab \in [Tabs -> PageType] /\ req \in [Requests -> ReqType]

\* A membership that is in use exists; those of the demo workspace are not removed.
RolesOK ==
  /\ (\A d \in DemoMembers : role[d] # Nil) \/ (\A d \in DemoMembers : role[d] = Nil)
  /\ \A s \in Sessions : session[s].live /\ session[s].member # Nil => role[session[s].member] # Nil
  /\ \A t \in Tabs : tab[t].view # Nil /\ tab[t].view.member \in DemoMembers =>
                       role[tab[t].view.member] # Nil

\* A session that has a cookie, or that a request or a page carries, has been issued.
IssuedOK ==
  /\ cookie # Nil => session[cookie].user # Nil
  /\ \A r \in Requests : req[r].cookie # Nil => session[req[r].cookie].user # Nil
  /\ \A t \in Tabs : tab[t].token # Nil => session[tab[t].token].user # Nil

ReqOK(q) ==
  /\ q.pc = "csrf" => q.tab # Nil /\ q.kind \in Signs \cup {"logout", "write"}
  /\ q.pc = "csrf" /\ q.kind = "write" => q.shown # Nil
  /\ q.pc \in {"sent", "answered"} => q.kind \in Signs \cup {"logout"}
  /\ q.pc \in {"csrf", "sent"} =>
       /\ q.kind \in {"login", "signup"} => q.arg \in Users
       /\ q.kind \in {"card", "demo"} => q.arg \in DemoMembers /\ role[q.arg] # Nil
       /\ q.kind = "switch" => q.arg \in Members

\* The cookie an answer carries is on no other request and no page, and not in the
\* browser yet.
FreshOK ==
  \A r \in Requests : req[r].pc = "answered" /\ req[r].kind # "logout" =>
    /\ req[r].cookie # Nil /\ req[r].cookie # cookie
    /\ \A q \in Requests \ {r} : req[q].cookie # req[r].cookie
    /\ \A t \in Tabs : tab[t].token # req[r].cookie

\* A page shows the workspace of the session its own tab has made, unless it is about
\* to be replaced.
ShownOK ==
  /\ \A t \in Tabs : tab[t].view # Nil /\ tab[t].next = Nil /\ cookie # Nil
                     /\ session[cookie].maker = t => tab[t].view.member = session[cookie].member
  /\ \A r \in Requests :
       req[r].pc = "csrf" /\ req[r].kind = "write" /\ ~req[r].leaving /\ req[r].cookie # Nil
       /\ session[req[r].cookie].maker = req[r].tab =>
         req[r].shown.member = session[req[r].cookie].member

\* A tab has the token of the session it has made, or is about to fetch it.
TokenOK ==
  cookie # Nil /\ session[cookie].maker # Nil /\ session[cookie].known =>
    /\ tab[session[cookie].maker].token \in {Nil, cookie}
    /\ \A r \in Requests : req[r].pc = "csrf" /\ req[r].tab = session[cookie].maker =>
                             req[r].cookie = cookie

\* What a page shows is the membership of the session it was mounted under.
Seen(view) ==
  view # Nil => session[view.session].user # Nil /\ session[view.session].member = view.member

SeenOK ==
  /\ \A t \in Tabs : Seen(tab[t].view)
  /\ \A r \in Requests : req[r].pc = "csrf" => Seen(req[r].shown)

\* Who has, or will have, the token of the cookie without having been late for it was
\* mounted under that session, or has made it and is about to be replaced.
Lands(q) ==
  q.pc = "csrf" /\ q.cookie # Nil /\ q.cookie = cookie /\ ~q.late =>
    /\ tab[q.tab].view # Nil => tab[q.tab].view.session = cookie
    /\ q.kind = "write" => q.shown.session = cookie

LandOK ==
  /\ \A t \in Tabs : tab[t].view # Nil /\ tab[t].token # Nil /\ tab[t].token = cookie
                     /\ ~tab[t].late =>
       tab[t].view.session = cookie \/ (tab[t].next # Nil /\ session[cookie].maker = t)
  /\ \A r \in Requests : Lands(req[r])

TabInv ==
  /\ TabTypeOK /\ RolesOK /\ IssuedOK /\ (\A r \in Requests : ReqOK(req[r])) /\ FreshOK
  /\ ShownOK /\ TokenOK /\ SeenOK /\ LandOK

LEMMA LeastExists ==
  ASSUME NEW S, S \subseteq Nat, S # {} PROVE \E m \in S : \A n \in S : m <= n
<1> DEFINE R == OpToRel(<, Nat)
<1>1. \A m \in S, n \in S : <<n, m>> \in R <=> n < m
  BY DEF OpToRel
<1>2. IsWellFoundedOn(R, Nat)
  BY NatLessThanWellFounded
<1> HIDE DEF R
<1>3. \E m \in S : \A n \in S : ~ (<<n, m>> \in R)
  BY <1>2, WFMin
<1>4. PICK m \in S : \A n \in S : ~ (<<n, m>> \in R)
  BY <1>3
<1>5. ASSUME NEW n \in S PROVE m <= n
  <2>1. <<n, m>> \in R <=> n < m
    BY <1>1
  <2>2. ~ (n < m)
    BY <1>4, <2>1
  <2>3. n \in Nat /\ m \in Nat
    OBVIOUS
  <2> QED BY <2>2, <2>3
<1> QED BY <1>5

-----------------------------------------------------------------------------
(* Pages that come and go, and requests that leave.                          *)

\* A request that may leave now.
Leaves(q) ==
  /\ q \in ReqType /\ ReqOK(q) /\ q.pc \in {"csrf", "sent"}
  /\ q.cookie \in {cookie, Nil} /\ (q.pc = "csrf" => q.cookie = cookie)
  /\ q.kind = "write" /\ ~q.leaving /\ q.cookie # Nil /\ session[q.cookie].maker = q.tab =>
       q.shown.member = session[q.cookie].member
  /\ Lands(q) /\ (q.pc = "csrf" => Seen(q.shown))

ReqStep(r) ==
  \/ req'[r] = req[r]
  \/ req'[r] = Idle
  \/ Leaves(req'[r])
  \/ req[r].pc \in {"idle", "sent"} /\ req'[r] = [req[r] EXCEPT !.tab = Nil]

ViewStep(t) ==
  \/ tab'[t].view = Nil
  \/ tab'[t].view = tab[t].view /\ tab'[t].next = tab[t].next
  \/ /\ cookie # Nil /\ tab'[t].view.member = session[cookie].member
     /\ tab'[t].view.session = cookie
     /\ role[session[cookie].member] # Nil

TokenStep(t) ==
  \/ tab'[t].token = Nil
  \/ tab'[t].token = tab[t].token /\ tab'[t].late = tab[t].late
  \/ \E r \in Requests : /\ req[r].pc = "csrf" /\ req[r].tab = t
                         /\ tab'[t].token = req[r].cookie /\ tab'[t].late = req[r].late

PageStep ==
  /\ UNCHANGED <<registered, role, session, cookie>>
  /\ tab' \in [Tabs -> PageType] /\ req' \in [Requests -> ReqType]
  /\ \A t \in Tabs : ViewStep(t) /\ TokenStep(t)
  /\ \A r \in Requests : ReqStep(r)

LEMMA IdleIs ==
  Idle = [pc |-> "idle", kind |-> Nil, arg |-> Nil, tab |-> Nil, cookie |-> Nil, shown |-> Nil,
          leaving |-> FALSE, late |-> FALSE]
  /\ Idle \in ReqType
BY DEF Idle, ReqType

LEMMA IdleOK == ReqOK(Idle)
BY IdleIs DEF ReqOK

LEMMA PageStepKeepsTypes ==
  ASSUME TabTypeOK, RolesOK, PageStep PROVE TabTypeOK' /\ RolesOK'
<1>1. TabTypeOK'
  BY DEF TabTypeOK, PageStep
<1>2. ASSUME NEW t \in Tabs, tab'[t].view # Nil, tab'[t].view.member \in DemoMembers
      PROVE  role'[tab'[t].view.member] # Nil
  BY <1>2 DEF PageStep, ViewStep, RolesOK
<1>3. RolesOK'
  BY <1>2 DEF RolesOK, PageStep
<1> QED BY <1>1, <1>3

LEMMA PageStepKeepsRequests ==
  ASSUME TabTypeOK, IssuedOK, \A r \in Requests : ReqOK(req[r]), FreshOK, PageStep
  PROVE  IssuedOK' /\ (\A r \in Requests : ReqOK(req[r]))' /\ FreshOK'
<1>1. ASSUME NEW r \in Requests
      PROVE  /\ req'[r].cookie \in {Nil, cookie, req[r].cookie}
             /\ req'[r].pc = "answered" => req'[r] = req[r]
             /\ ReqOK(req'[r])
  <2>1. req[r] \in ReqType
    BY DEF TabTypeOK
  <2>2. CASE req'[r] = req[r]
    BY <2>2
  <2>3. CASE req'[r] = Idle
    BY <2>3, IdleIs, IdleOK
  <2>4. CASE Leaves(req'[r])
    BY <2>4 DEF Leaves
  <2>5. CASE req[r].pc \in {"idle", "sent"} /\ req'[r] = [req[r] EXCEPT !.tab = Nil]
    <3>1. /\ req'[r].pc = req[r].pc /\ req'[r].kind = req[r].kind /\ req'[r].arg = req[r].arg
          /\ req'[r].cookie = req[r].cookie
      BY <2>1, <2>5 DEF ReqType
    <3> QED BY <2>5, <3>1 DEF ReqOK
  <2> QED BY <2>2, <2>3, <2>4, <2>5 DEF PageStep, ReqStep
<1>2. role' = role /\ session' = session /\ cookie' = cookie
  BY DEF PageStep
<1>3. IssuedOK'
  <2>1. ASSUME NEW t \in Tabs, tab'[t].token # Nil PROVE session[tab'[t].token].user # Nil
    BY <2>1 DEF PageStep, TokenStep, IssuedOK
  <2> QED BY <1>1, <1>2, <2>1 DEF IssuedOK
<1>4. (\A r \in Requests : ReqOK(req[r]))'
  BY <1>1, <1>2 DEF ReqOK
<1>5. FreshOK'
  <2> SUFFICES ASSUME NEW r \in Requests, req'[r].pc = "answered", req'[r].kind # "logout"
               PROVE  /\ req'[r].cookie # Nil /\ req'[r].cookie # cookie
                      /\ \A q \in Requests \ {r} : req'[q].cookie # req'[r].cookie
                      /\ \A t \in Tabs : tab'[t].token # req'[r].cookie
    BY <1>2 DEF FreshOK
  <2>1. req'[r] = req[r]
    BY <1>1
  <2>2. /\ req[r].cookie # Nil /\ req[r].cookie # cookie
        /\ \A q \in Requests \ {r} : req[q].cookie # req[r].cookie
        /\ \A t \in Tabs : tab[t].token # req[r].cookie
    BY <2>1 DEF FreshOK
  <2>3. ASSUME NEW t \in Tabs PROVE tab'[t].token # req[r].cookie
    <3>1. ASSUME NEW q \in Requests, req[q].pc = "csrf" PROVE req[q].cookie # req[r].cookie
      BY <2>1, <2>2, <3>1
    <3> QED BY <2>2, <3>1 DEF PageStep, TokenStep
  <2> QED BY <1>1, <2>1, <2>2, <2>3
<1> QED BY <1>3, <1>4, <1>5

LEMMA PageStepKeepsPages ==
  ASSUME TabTypeOK, ShownOK, TokenOK, PageStep, TabsAssumption
  PROVE  ShownOK' /\ TokenOK'
<1>1. role' = role /\ session' = session /\ cookie' = cookie
  BY DEF PageStep
<1>2. ASSUME NEW r \in Requests, req'[r].pc = "csrf"
      PROVE  Leaves(req'[r]) \/ req'[r] = req[r]
  <2>1. req[r] \in ReqType
    BY DEF TabTypeOK
  <2>2. CASE req'[r] = Idle
    BY <2>2, <1>2, IdleIs
  <2>3. CASE req[r].pc \in {"idle", "sent"} /\ req'[r] = [req[r] EXCEPT !.tab = Nil]
    BY <2>1, <2>3, <1>2 DEF ReqType
  <2> QED BY <2>2, <2>3, <1>2 DEF PageStep, ReqStep
<1>3. ASSUME NEW t \in Tabs, tab'[t].view # Nil, tab'[t].next = Nil, cookie # Nil,
             session[cookie].maker = t
      PROVE  tab'[t].view.member = session[cookie].member
  BY <1>3 DEF PageStep, ViewStep, ShownOK
<1>4. ASSUME NEW r \in Requests, req'[r].pc = "csrf", req'[r].kind = "write", ~req'[r].leaving,
             req'[r].cookie # Nil, session[req'[r].cookie].maker = req'[r].tab
      PROVE  req'[r].shown.member = session[req'[r].cookie].member
  <2>1. CASE req'[r] = req[r]
    BY <2>1, <1>4 DEF ShownOK
  <2>2. CASE Leaves(req'[r])
    BY <2>2, <1>4 DEF Leaves
  <2> QED BY <2>1, <2>2, <1>2, <1>4
<1>5. ShownOK'
  BY <1>1, <1>3, <1>4 DEF ShownOK
<1>6. ASSUME cookie # Nil, session[cookie].maker # Nil, session[cookie].known
      PROVE  /\ tab'[session[cookie].maker].token \in {Nil, cookie}
             /\ \A r \in Requests : req'[r].pc = "csrf" /\ req'[r].tab = session[cookie].maker =>
                                      req'[r].cookie = cookie
  <2>1. /\ session[cookie].maker \in Tabs
        /\ tab[session[cookie].maker].token \in {Nil, cookie}
        /\ \A r \in Requests : req[r].pc = "csrf" /\ req[r].tab = session[cookie].maker =>
                                 req[r].cookie = cookie
    <3>1. session[cookie] \in SessionType
      BY <1>6 DEF TabTypeOK
    <3> QED BY <1>6, <3>1 DEF TokenOK, SessionType
  <2>2. TokenStep(session[cookie].maker)
    BY <2>1 DEF PageStep
  <2>3. tab'[session[cookie].maker].token \in {Nil, cookie}
    BY <2>1, <2>2 DEF TokenStep
  <2>4. ASSUME NEW r \in Requests, req'[r].pc = "csrf", req'[r].tab = session[cookie].maker
        PROVE  req'[r].cookie = cookie
    BY <2>4, <2>1, <1>2 DEF Leaves
  <2> QED BY <2>3, <2>4
<1>7. TokenOK'
  BY <1>1, <1>6 DEF TokenOK
<1> QED BY <1>5, <1>7

\* What a page shows and which token it has still go together.
LEMMA PageStepKeepsLanding ==
  ASSUME TabTypeOK, IssuedOK, \A r \in Requests : ReqOK(req'[r]), SeenOK, LandOK, PageStep
  PROVE  SeenOK' /\ LandOK'
<1>1. session' = session /\ cookie' = cookie /\ req' \in [Requests -> ReqType]
  BY DEF PageStep
<1>2. ASSUME NEW r \in Requests, req'[r].pc = "csrf"
      PROVE  Lands(req'[r]) /\ Seen(req'[r].shown) /\ req'[r].tab \in Tabs
  <2>1. req[r] \in ReqType /\ req'[r].tab \in Tabs
    BY <1>1, <1>2 DEF TabTypeOK, ReqOK, ReqType
  <2>2. CASE req'[r] = req[r]
    BY <2>1, <2>2, <1>2 DEF SeenOK, LandOK
  <2>3. CASE req'[r] = Idle
    BY <2>3, <1>2, IdleIs
  <2>4. CASE Leaves(req'[r])
    BY <2>1, <2>4, <1>2 DEF Leaves
  <2>5. CASE req[r].pc \in {"idle", "sent"} /\ req'[r] = [req[r] EXCEPT !.tab = Nil]
    BY <2>1, <2>5, <1>2 DEF ReqType
  <2> QED BY <2>2, <2>3, <2>4, <2>5 DEF PageStep, ReqStep
<1>3. ASSUME NEW t \in Tabs
      PROVE  \/ tab'[t].view = Nil
             \/ tab'[t].view = tab[t].view /\ tab'[t].next = tab[t].next
             \/ /\ tab'[t].view.session = cookie /\ cookie # Nil
                /\ tab'[t].view.member = session[cookie].member
  BY DEF PageStep, ViewStep
<1>4. SeenOK'
  <2>1. ASSUME NEW t \in Tabs PROVE Seen(tab'[t].view)
    <3>1. Seen(tab[t].view) /\ (cookie # Nil => session[cookie].user # Nil)
      BY DEF SeenOK, IssuedOK
    <3> QED BY <1>3, <3>1 DEF Seen
  <2> QED BY <1>1, <1>2, <2>1 DEF SeenOK, Seen
<1>5. ASSUME NEW t \in Tabs, tab'[t].view # Nil, tab'[t].token # Nil, tab'[t].token = cookie,
             ~tab'[t].late
      PROVE  tab'[t].view.session = cookie \/ (tab'[t].next # Nil /\ session[cookie].maker = t)
  <2>1. CASE tab'[t].token = tab[t].token /\ tab'[t].late = tab[t].late
    BY <1>3, <1>5, <2>1 DEF LandOK
  <2>2. CASE \E r \in Requests : /\ req[r].pc = "csrf" /\ req[r].tab = t
                                /\ tab'[t].token = req[r].cookie /\ tab'[t].late = req[r].late
    <3>1. tab[t].view # Nil => tab[t].view.session = cookie
      BY <1>5, <2>2 DEF LandOK, Lands
    <3> QED BY <1>3, <1>5, <3>1
  <2> QED BY <1>5, <2>1, <2>2 DEF PageStep, TokenStep
<1>6. ASSUME NEW r \in Requests PROVE Lands(req[r])'
  BY <1>1, <1>2, <1>3 DEF Lands
<1>7. LandOK'
  BY <1>1, <1>5, <1>6 DEF LandOK
<1> QED BY <1>4, <1>7

LEMMA PageStepKeeps ==
  ASSUME TabInv, PageStep, TabsAssumption PROVE TabInv'
<1>1. TabTypeOK' /\ RolesOK'
  BY PageStepKeepsTypes DEF TabInv
<1>2. IssuedOK' /\ (\A r \in Requests : ReqOK(req[r]))' /\ FreshOK'
  BY PageStepKeepsRequests DEF TabInv
<1>3. ShownOK' /\ TokenOK'
  BY PageStepKeepsPages DEF TabInv
<1>4. \A r \in Requests : ReqOK(req'[r])
  BY <1>2 DEF PageStep, ReqOK
<1>5. SeenOK' /\ LandOK'
  BY <1>4, PageStepKeepsLanding DEF TabInv
<1> QED BY <1>1, <1>2, <1>3, <1>5 DEF TabInv

LEMMA UnreadIs ==
  ASSUME TabTypeOK, NEW t \in Tabs
  PROVE  /\ Unread(t) \in [Requests -> ReqType]
         /\ \A r \in Requests :
              \/ Unread(t)[r] \in {req[r], Idle}
              \/ req[r].pc \in {"idle", "sent"} /\ Unread(t)[r] = [req[r] EXCEPT !.tab = Nil]
<1>1. ASSUME NEW r \in Requests
      PROVE  /\ Unread(t)[r] \in ReqType
             /\ \/ Unread(t)[r] \in {req[r], Idle}
                \/ req[r].pc \in {"idle", "sent"} /\ Unread(t)[r] = [req[r] EXCEPT !.tab = Nil]
  <2>1. req[r] \in ReqType
    BY DEF TabTypeOK
  <2>2. Unread(t)[r] = IF req[r].tab # t THEN req[r]
                       ELSE IF req[r].pc \in {"csrf", "answered"} \/ req[r].shown # Nil THEN Idle
                       ELSE [req[r] EXCEPT !.tab = Nil]
    BY DEF Unread
  <2>3. [req[r] EXCEPT !.tab = Nil] \in ReqType
    BY <2>1 DEF ReqType
  <2>4. req[r].pc \in {"idle", "csrf", "sent", "answered"}
    BY <2>1 DEF ReqType
  <2> QED BY <2>1, <2>2, <2>3, <2>4, IdleIs
<1> QED BY <1>1 DEF Unread

LEMMA BlankPageIs ==
  /\ BlankPage = [view |-> Nil, token |-> Nil, late |-> FALSE, next |-> Nil]
  /\ BlankPage \in PageType
BY DEF BlankPage, PageType

\* The pages and requests after a page is left or loaded.
LEMMA LeaveSteps ==
  ASSUME TabTypeOK, NEW t \in Tabs, Leave(t)
  PROVE  /\ tab' \in [Tabs -> PageType] /\ req' \in [Requests -> ReqType]
         /\ \A u \in Tabs : ViewStep(u) /\ TokenStep(u)
         /\ \A r \in Requests : ReqStep(r)
<1>1. ASSUME NEW u \in Tabs
      PROVE  tab'[u] \in PageType /\ ViewStep(u) /\ TokenStep(u)
  <2>1. tab[u] \in PageType
    BY DEF TabTypeOK
  <2>2. CASE u # t
    <3>1. tab'[u] = tab[u]
      BY <2>2 DEF Leave, TabTypeOK
    <3> QED BY <2>1, <3>1 DEF ViewStep, TokenStep
  <2>3. CASE u = t
    <3>1. tab'[t] = [tab[t] EXCEPT !.view = Nil, !.next = Nil]
      BY DEF Leave, TabTypeOK
    <3>2. /\ tab'[t].view = Nil /\ tab'[t].next = Nil /\ tab'[t].token = tab[t].token
          /\ tab'[t] = [view |-> Nil, token |-> tab[t].token, late |-> tab[t].late, next |-> Nil]
      BY <2>1, <2>3, <3>1 DEF PageType
    <3>3. tab'[t] \in PageType
      BY <2>1, <2>3, <3>2 DEF PageType
    <3> QED BY <2>3, <3>2, <3>3 DEF ViewStep, TokenStep
  <2> QED BY <2>2, <2>3
<1>2. tab' \in [Tabs -> PageType]
  BY <1>1 DEF Leave, TabTypeOK
<1> QED BY <1>1, <1>2 DEF Leave, TabTypeOK, ReqStep

LEMMA LoadSteps ==
  ASSUME TabTypeOK, NEW t \in Tabs, Load(t)
  PROVE  /\ tab' \in [Tabs -> PageType] /\ req' \in [Requests -> ReqType]
         /\ \A u \in Tabs : ViewStep(u) /\ TokenStep(u)
         /\ \A r \in Requests : ReqStep(r)
<1>1. /\ tab' \in [Tabs -> PageType]
      /\ tab'[t] = BlankPage /\ \A u \in Tabs \ {t} : tab'[u] = tab[u]
  BY BlankPageIs DEF Load, TabTypeOK
<1>2. \A u \in Tabs : ViewStep(u) /\ TokenStep(u)
  BY <1>1, BlankPageIs DEF ViewStep, TokenStep
<1>3. req' = Unread(t)
  BY DEF Load
<1>4. \A r \in Requests : ReqStep(r)
  BY <1>3, UnreadIs DEF ReqStep
<1> QED BY <1>1, <1>2, <1>3, <1>4, UnreadIs

LEMMA MountSteps ==
  ASSUME TabTypeOK, RolesOK, TabsAssumption, NEW t \in Tabs, Mount(t)
  PROVE  /\ tab' \in [Tabs -> PageType] /\ req' \in [Requests -> ReqType]
         /\ \A u \in Tabs : ViewStep(u) /\ TokenStep(u)
         /\ \A r \in Requests : ReqStep(r)
<1> DEFINE m == session[cookie].member
           shows == [member |-> m, role |-> role[m], session |-> cookie]
<1>1. /\ tab' = [tab EXCEPT ![t].view = shows] /\ req' = req
      /\ cookie # Nil /\ session[cookie].live /\ m # Nil
  BY DEF Mount, Valid
<1>2. cookie \in Sessions /\ session[cookie] \in SessionType /\ m \in Members
  BY <1>1 DEF TabTypeOK, SessionType
<1>3. role[m] # Nil /\ role[m] \in Roles
  BY <1>1, <1>2 DEF RolesOK, TabTypeOK
<1>4. shows \in PageView /\ shows.member = m /\ shows.session = cookie
  BY <1>2, <1>3 DEF PageView
<1> HIDE DEF shows
<1>5. ASSUME NEW u \in Tabs
      PROVE  tab'[u] \in PageType /\ ViewStep(u) /\ TokenStep(u)
  <2>1. tab[u] \in PageType
    BY DEF TabTypeOK
  <2>2. CASE u # t
    <3>1. tab'[u] = tab[u]
      BY <1>1, <2>2 DEF TabTypeOK
    <3> QED BY <2>1, <3>1 DEF ViewStep, TokenStep
  <2>3. CASE u = t
    <3>1. tab'[t] = [tab[t] EXCEPT !.view = shows]
      BY <1>1 DEF TabTypeOK
    <3>2. /\ tab'[t].view = shows /\ tab'[t].token = tab[t].token /\ tab'[t].late = tab[t].late
          /\ tab'[t] \in PageType
      BY <1>4, <2>1, <2>3, <3>1 DEF PageType
    <3> QED BY <2>3, <3>2, <1>1, <1>3, <1>4 DEF ViewStep, TokenStep
  <2> QED BY <2>2, <2>3
<1>6. tab' \in [Tabs -> PageType]
  BY <1>1, <1>5 DEF TabTypeOK
<1> QED BY <1>1, <1>5, <1>6 DEF TabTypeOK, ReqStep

LEMMA ComingAndGoing ==
  ASSUME TabInv, TabsAssumption, NEW t \in Tabs, Open(t) \/ Visit(t) \/ Arrive(t) \/ Mount(t)
  PROVE  PageStep
<1>1. UNCHANGED <<registered, role, session, cookie>>
  BY DEF Open, Visit, Arrive, Mount
<1>2. Leave(t) \/ Load(t) \/ Mount(t)
  BY DEF Open, Visit, Arrive
<1> QED BY <1>1, <1>2, LeaveSteps, LoadSteps, MountSteps DEF PageStep, TabInv

LEMMA RequestLeaves ==
  ASSUME TabTypeOK, NEW r \in Requests, NEW q, q = Idle \/ Leaves(q),
         req' = [req EXCEPT ![r] = q], UNCHANGED <<registered, role, session, cookie>>,
         tab' \in [Tabs -> PageType], \A t \in Tabs : ViewStep(t) /\ TokenStep(t)
  PROVE  PageStep
<1>1. q \in ReqType
  BY IdleIs DEF Leaves
<1>2. /\ req' \in [Requests -> ReqType] /\ req'[r] = q
      /\ \A p \in Requests \ {r} : req'[p] = req[p]
  BY <1>1 DEF TabTypeOK
<1>3. ReqStep(r)
  <2>1. CASE Leaves(q)
    <3>1. Leaves(req'[r])
      BY <2>1, <1>2
    <3> QED BY <3>1 DEF ReqStep
  <2> QED BY <2>1, <1>2 DEF ReqStep
<1>4. \A p \in Requests : ReqStep(p)
  BY <1>2, <1>3 DEF ReqStep
<1> QED BY <1>2, <1>4 DEF PageStep

\* What a page asks for by a form or a button.
AsksFor(q) ==
  /\ q \in ReqType /\ q.kind \in Signs \cup {"logout"} /\ q.tab # Nil
  /\ q.kind \in {"login", "signup"} => q.arg \in Users
  /\ q.kind \in {"card", "demo"} => q.arg \in DemoMembers /\ role[q.arg] # Nil
  /\ q.kind = "switch" => q.arg \in Members

\* It first fetches the token, and is late for it if the session is not the page's.
LEMMA AskLeaves ==
  ASSUME TabTypeOK, NEW q, AsksFor(q), q.shown = Nil, NEW late \in BOOLEAN,
         ~late => (tab[q.tab].view # Nil => tab[q.tab].view.session = cookie)
  PROVE  Leaves([q EXCEPT !.pc = "csrf", !.cookie = cookie, !.late = late])
<1> DEFINE p == [q EXCEPT !.pc = "csrf", !.cookie = cookie, !.late = late]
<1>1. cookie \in Sessions \cup {Nil} /\ q \in ReqType
  BY DEF TabTypeOK, AsksFor
<1>2. /\ p \in ReqType /\ p.pc = "csrf" /\ p.cookie = cookie /\ p.late = late /\ p.shown = q.shown
      /\ p.kind = q.kind /\ p.arg = q.arg /\ p.tab = q.tab
  BY <1>1 DEF ReqType
<1> HIDE DEF p
<1>3. ReqOK(p) /\ p.kind # "write"
  BY <1>2 DEF AsksFor, ReqOK, Signs, Public
<1>4. Lands(p) /\ Seen(p.shown)
  BY <1>2, <1>3 DEF Lands, Seen
<1>5. Leaves(p)
  BY <1>2, <1>3, <1>4 DEF Leaves
<1> QED BY <1>5 DEF p

LEMMA SentLeaves ==
  ASSUME TabTypeOK, NEW q, AsksFor(q), NEW c \in {cookie, Nil}
  PROVE  Leaves([q EXCEPT !.pc = "sent", !.cookie = c])
<1> DEFINE p == [q EXCEPT !.pc = "sent", !.cookie = c]
<1>1. c \in Sessions \cup {Nil} /\ q \in ReqType
  BY DEF TabTypeOK, AsksFor
<1>2. /\ p \in ReqType /\ p.pc = "sent" /\ p.cookie = c
      /\ p.kind = q.kind /\ p.arg = q.arg /\ p.tab = q.tab
  BY <1>1 DEF ReqType
<1> HIDE DEF p
<1>3. ReqOK(p) /\ p.kind # "write" /\ Lands(p)
  BY <1>2 DEF AsksFor, ReqOK, Lands, Signs, Public
<1>4. Leaves(p)
  BY <1>2, <1>3 DEF Leaves
<1> QED BY <1>4 DEF p

LEMMA LeavingLeaves ==
  ASSUME TabTypeOK, NEW q, AsksFor(q), NEW token
  PROVE  Leaving(q, token) = Idle \/ Leaves(Leaving(q, token))
<1>1. Leaves([q EXCEPT !.pc = "sent", !.cookie = Nil]) /\ Leaves([q EXCEPT !.pc = "sent", !.cookie = cookie])
  BY SentLeaves
<1>2. Leaving(q, token) \in {[q EXCEPT !.pc = "sent", !.cookie = Nil],
                             [q EXCEPT !.pc = "sent", !.cookie = cookie], Idle}
  BY DEF Leaving
<1> QED BY <1>1, <1>2

LEMMA SameTabs ==
  ASSUME TabTypeOK, UNCHANGED tab
  PROVE  tab' \in [Tabs -> PageType] /\ \A t \in Tabs : ViewStep(t) /\ TokenStep(t)
BY DEF TabTypeOK, ViewStep, TokenStep

LEMMA Asking ==
  ASSUME TabInv, NEW t \in Tabs, NEW r \in Requests, NEW kind, NEW arg, Ask(t, r, kind, arg),
         AsksFor([Idle EXCEPT !.kind = kind, !.arg = arg, !.tab = t])
  PROVE  PageStep
<1> DEFINE q == [Idle EXCEPT !.kind = kind, !.arg = arg, !.tab = t]
           p == IF kind \notin Raw /\ tab[t].token = Nil
                THEN [q EXCEPT !.pc = "csrf", !.cookie = cookie, !.late = Late(t)]
                ELSE Leaving(q, tab[t].token)
<1>1. /\ req' = [req EXCEPT ![r] = p] /\ UNCHANGED <<registered, role, session, cookie, tab>>
  BY DEF Ask
<1>2. AsksFor(q) /\ q.tab = t /\ q.shown = Nil
  BY IdleIs
<1> HIDE DEF q
<1>3. p = Idle \/ Leaves(p)
  <2>1. CASE tab[t].token = Nil
    <3>1. Late(t) \in BOOLEAN
      BY DEF Late
    <3>2. ~Late(t) => (tab[t].view # Nil => tab[t].view.session = cookie)
      BY <2>1 DEF Late
    <3>3. Leaves([q EXCEPT !.pc = "csrf", !.cookie = cookie, !.late = Late(t)])
      BY <1>2, <3>1, <3>2, AskLeaves DEF TabInv
    <3>4. Leaving(q, tab[t].token) = Idle \/ Leaves(Leaving(q, tab[t].token))
      BY <1>2, LeavingLeaves DEF TabInv
    <3> QED BY <3>3, <3>4
  <2>2. Leaving(q, tab[t].token) = Idle \/ Leaves(Leaving(q, tab[t].token))
    BY <1>2, LeavingLeaves DEF TabInv
  <2>3. CASE tab[t].token # Nil
    BY <2>2, <2>3
  <2> QED BY <2>1, <2>3
<1> HIDE DEF p
<1> QED BY <1>1, <1>3, RequestLeaves, SameTabs DEF TabInv

LEMMA AskIs ==
  ASSUME NEW t \in Tabs, TabsAssumption, NEW kind \in Signs \cup {"logout"},
         NEW arg \in Account \cup Members \cup {Nil},
         kind \in {"login", "signup"} => arg \in Users,
         kind \in {"card", "demo"} => arg \in DemoMembers /\ role[arg] # Nil,
         kind = "switch" => arg \in Members
  PROVE  AsksFor([Idle EXCEPT !.kind = kind, !.arg = arg, !.tab = t])
<1> DEFINE q == [Idle EXCEPT !.kind = kind, !.arg = arg, !.tab = t]
<1>1. q \in ReqType /\ q.kind = kind /\ q.arg = arg /\ q.tab = t
  BY IdleIs DEF ReqType
<1>2. t # Nil
  BY DEF TabsAssumption
<1> HIDE DEF q
<1>3. AsksFor(q)
  BY <1>1, <1>2 DEF AsksFor
<1> QED BY <1>3 DEF q

\* Every form and button asks for something that makes sense.
LEMMA FormsAsk ==
  ASSUME TabInv, TabsAssumption, NEW t \in Tabs, NEW r \in Requests,
         \/ LoginForm(t, r) \/ SignupForm(t, r) \/ DemoLoginCard(t, r) \/ SetupForm(t, r)
         \/ AcceptForm(t, r)
         \/ WorkspaceSwitcher(t, r) \/ DemoRoleSwitcher(t, r) \/ SignOut(t, r)
  PROVE  PageStep
<1> USE DEF AskOnce
<1>1. Users \subseteq Account /\ DemoMembers \subseteq Members
  BY DEF Users, Account, TabsAssumption
<1>2. registered \subseteq Users
  BY DEF TabInv, TabTypeOK
<1>3. {"login", "signup", "card", "demo", "join", "switch"} \subseteq Signs
  BY DEF Signs, Public
<1>4. ASSUME LoginForm(t, r) PROVE PageStep
  <2>1. PICK u \in registered : Ask(t, r, "login", u)
    BY <1>4 DEF LoginForm
  <2> QED BY <1>1, <1>2, <1>3, <2>1, AskIs, Asking
<1>5. ASSUME SignupForm(t, r) PROVE PageStep
  <2>1. PICK u \in Users : Ask(t, r, "signup", u)
    BY <1>5 DEF SignupForm
  <2> QED BY <1>1, <1>3, <2>1, AskIs, Asking
<1>6. ASSUME DemoLoginCard(t, r) PROVE PageStep
  <2>1. PICK d \in DemoMembers : role[d] # Nil /\ Ask(t, r, "card", d)
    BY <1>6 DEF DemoLoginCard
  <2> QED BY <1>1, <1>3, <2>1, AskIs, Asking
<1>7. ASSUME SetupForm(t, r) \/ AcceptForm(t, r) PROVE PageStep
  <2>1. Ask(t, r, "join", Nil)
    BY <1>7 DEF SetupForm, AcceptForm, Joins
  <2> QED BY <1>3, <2>1, AskIs, Asking
<1>8. ASSUME WorkspaceSwitcher(t, r) PROVE PageStep
  <2>1. PICK m \in Members : Ask(t, r, "switch", m)
    BY <1>8 DEF WorkspaceSwitcher
  <2> QED BY <1>3, <2>1, AskIs, Asking
<1>9. ASSUME DemoRoleSwitcher(t, r) PROVE PageStep
  <2>1. PICK d \in DemoMembers : Ask(t, r, "demo", d)
    BY <1>9 DEF DemoRoleSwitcher
  <2>2. tab[t].view # Nil /\ tab[t].view.member \in DemoMembers
    BY <1>9 DEF DemoRoleSwitcher, Inside
  <2>3. role[d] # Nil
    BY <2>2 DEF TabInv, RolesOK
  <2> QED BY <1>1, <1>3, <2>1, <2>3, AskIs, Asking
<1>10. ASSUME SignOut(t, r) PROVE PageStep
  <2>1. Ask(t, r, "logout", Nil)
    BY <1>10 DEF SignOut
  <2> QED BY <2>1, AskIs, Asking
<1> QED BY <1>4, <1>5, <1>6, <1>7, <1>8, <1>9, <1>10

LEMMA FirstWriteSteps ==
  ASSUME TabInv, TabsAssumption, NEW t \in Tabs, NEW r \in Requests, FirstWrite(t, r)
  PROVE  PageStep
<1> DEFINE q == [Idle EXCEPT !.pc = "csrf", !.kind = "write", !.tab = t, !.cookie = cookie,
                             !.shown = tab[t].view, !.leaving = tab[t].next # Nil,
                             !.late = Late(t)]
<1>1. /\ tab[t].view # Nil /\ tab[t].token = Nil /\ UNCHANGED <<registered, role, session, cookie, tab>>
      /\ req' = [req EXCEPT ![r] = q]
  BY DEF FirstWrite
<1>2. tab[t].view \in PageView /\ cookie \in Sessions \cup {Nil}
  BY <1>1 DEF TabInv, TabTypeOK, PageType
<1>3. /\ q \in ReqType
      /\ q.pc = "csrf" /\ q.kind = "write" /\ q.tab = t /\ q.cookie = cookie
      /\ q.shown = tab[t].view /\ q.leaving = (tab[t].next # Nil) /\ q.late = Late(t)
  <2>1. Late(t) \in BOOLEAN
    BY DEF Late
  <2> QED BY <1>2, <2>1, IdleIs DEF ReqType
<1> HIDE DEF q
<1>4. ReqOK(q)
  BY <1>1, <1>3 DEF ReqOK, TabsAssumption
<1>5. ~q.leaving /\ q.cookie # Nil /\ session[q.cookie].maker = q.tab =>
        q.shown.member = session[q.cookie].member
  BY <1>1, <1>3 DEF TabInv, ShownOK
<1>6. Lands(q) /\ Seen(q.shown)
  BY <1>1, <1>3 DEF Lands, Late, TabInv, SeenOK
<1>7. Leaves(q)
  BY <1>3, <1>4, <1>5, <1>6 DEF Leaves
<1> QED BY <1>1, <1>7, RequestLeaves, SameTabs DEF TabInv

LEMMA LoseSteps ==
  ASSUME TabInv, NEW r \in Requests, Lose(r)
  PROVE  PageStep
BY RequestLeaves, SameTabs DEF Lose, TabInv

\* A request that waited for its token goes on as one that a page has just asked for.
LEMMA GotTokenSteps ==
  ASSUME TabInv, TabsAssumption, NEW r \in Requests, GotToken(r)
  PROVE  PageStep
<1> DEFINE q == req[r]
           p == IF q.kind = "write" THEN Idle ELSE Leaving([q EXCEPT !.late = FALSE], Fetched(r))
<1>1. /\ q.pc = "csrf" /\ UNCHANGED <<registered, role, session, cookie>>
      /\ tab' = IF Fetched(r) = Nil THEN tab ELSE [tab EXCEPT ![q.tab].token = Fetched(r), ![q.tab].late = q.late]
      /\ q \in ReqType /\ ReqOK(q)
  BY DEF GotToken, TabInv, TabTypeOK
<1>2. req' = [req EXCEPT ![r] = p]
  BY DEF GotToken, TabInv, TabTypeOK
<1>3. q.tab \in Tabs
  BY <1>1 DEF ReqOK, ReqType
<1>4. p = Idle \/ Leaves(p)
  <2>1. CASE q.kind = "write"
    BY <2>1
  <2>2. CASE q.kind # "write"
    <3> DEFINE q0 == [q EXCEPT !.late = FALSE]
    <3>1. /\ q0 \in ReqType /\ q0.kind = q.kind /\ q0.arg = q.arg /\ q0.tab = q.tab
      BY <1>1 DEF ReqType
    <3> HIDE DEF q0
    <3>2. q.kind \in Signs \cup {"logout"} /\ q.tab # Nil
      BY <1>1, <2>2 DEF ReqOK
    <3>3. AsksFor(q0)
      BY <1>1, <3>1, <3>2 DEF ReqOK, AsksFor
    <3>4. Leaving(q0, Fetched(r)) = Idle \/ Leaves(Leaving(q0, Fetched(r)))
      BY <3>3, LeavingLeaves DEF TabInv
    <3> QED BY <2>2, <3>4 DEF q0
  <2> QED BY <2>1, <2>2
<1>5. Fetched(r) = Nil \/ Fetched(r) = q.cookie
  BY DEF Fetched
<1>6. ASSUME NEW u \in Tabs
      PROVE  tab'[u] \in PageType /\ ViewStep(u) /\ TokenStep(u)
  <2>1. tab[u] \in PageType
    BY DEF TabInv, TabTypeOK
  <2>2. CASE tab'[u] = tab[u]
    BY <2>1, <2>2 DEF ViewStep, TokenStep
  <2>3. CASE u = q.tab /\ Fetched(r) # Nil
    <3> DEFINE page == [tab[u] EXCEPT !.token = Fetched(r), !.late = q.late]
    <3>1. /\ page.view = tab[u].view /\ page.next = tab[u].next
          /\ page.token = q.cookie /\ page.late = q.late /\ page \in PageType
      BY <2>1, <2>3, <1>5, <1>1 DEF PageType, ReqType
    <3>2. tab' = [tab EXCEPT ![u] = page]
      <4>1. tab' = [tab EXCEPT ![u].token = Fetched(r), ![u].late = q.late]
        BY <1>1, <2>3
      <4> QED BY <4>1, <2>1 DEF PageType
    <3> HIDE DEF page
    <3>3. tab'[u] = page
      BY <3>2 DEF TabInv, TabTypeOK
    <3> QED BY <3>1, <3>3, <2>3, <1>1 DEF ViewStep, TokenStep
  <2> QED BY <2>2, <2>3, <1>1 DEF TabInv, TabTypeOK
<1>7. tab' \in [Tabs -> PageType]
  BY <1>1, <1>6 DEF TabInv, TabTypeOK
<1> HIDE DEF p, q
<1> QED BY <1>1, <1>2, <1>4, <1>6, <1>7, RequestLeaves DEF TabInv

-----------------------------------------------------------------------------
(* Handlers, and what happens elsewhere.                                     *)

\* Handlers answer a request, with a session that nothing carries yet.
AnswerStep(r) ==
  /\ req[r].pc = "sent" /\ req'[r].pc = "answered" /\ req'[r].kind = req[r].kind
  /\ \A q \in Requests \ {r} : req'[q] = req[q]
  /\ IF req[r].kind = "logout" THEN req'[r].cookie = req[r].cookie
     ELSE /\ req'[r].cookie # Nil /\ session[req'[r].cookie].user = Nil
          /\ session'[req'[r].cookie].user # Nil

SameRow(s) ==
  /\ session'[s].user = session[s].user /\ session'[s].member = session[s].member
  /\ session'[s].maker = session[s].maker /\ session'[s].known = session[s].known

ServerStep ==
  /\ UNCHANGED <<cookie, tab>> /\ registered' \subseteq Users
  /\ role' \in [Members -> Roles \cup {Nil}]
  /\ \A d \in DemoMembers : role'[d] # Nil <=> role[d] # Nil
  /\ session' \in [Sessions -> SessionType]
  /\ \A s \in Sessions :
       /\ SameRow(s) \/ session[s].user = Nil
       /\ session'[s].live /\ session'[s].member # Nil => role'[session'[s].member] # Nil
  /\ req' \in [Requests -> ReqType]
  /\ \A r \in Requests : req'[r] \in {req[r], Idle} \/ AnswerStep(r)

LEMMA ServerStepKeepsRequests ==
  ASSUME TabInv, ServerStep, TabsAssumption
  PROVE  TabTypeOK' /\ RolesOK' /\ IssuedOK' /\ (\A r \in Requests : ReqOK(req[r]))' /\ FreshOK'
<1>1. TabTypeOK'
  BY DEF TabInv, TabTypeOK, ServerStep
<1>2. RolesOK'
  BY DEF TabInv, RolesOK, ServerStep
<1>3. cookie' = cookie /\ cookie \in Sessions \cup {Nil}
  BY DEF TabInv, TabTypeOK, ServerStep
<1>4. \A s \in Sessions : session[s].user # Nil => session'[s].user = session[s].user
  BY DEF ServerStep, SameRow
<1>5. ASSUME NEW r \in Requests
      PROVE  /\ req[r] \in ReqType /\ ReqOK(req[r]) /\ req[r].cookie \in Sessions \cup {Nil}
             /\ req[r].cookie # Nil => session[req[r].cookie].user # Nil
             /\ req[r].pc = "answered" /\ req[r].kind # "logout" =>
                  /\ req[r].cookie # Nil /\ req[r].cookie # cookie
                  /\ \A q \in Requests \ {r} : req[q].cookie # req[r].cookie
                  /\ \A t \in Tabs : tab[t].token # req[r].cookie
  BY DEF TabInv, TabTypeOK, IssuedOK, FreshOK, ReqType
<1>6. ASSUME NEW r \in Requests
      PROVE  /\ req'[r].cookie # Nil => session'[req'[r].cookie].user # Nil
             /\ ReqOK(req[r])'
  <2>1. CASE req'[r] = req[r]
    BY <2>1, <1>4, <1>5 DEF ReqOK, ServerStep
  <2>2. CASE req'[r] = Idle
    BY <2>2, IdleIs DEF ReqOK
  <2>3. CASE AnswerStep(r)
    BY <2>3, <1>4, <1>5 DEF AnswerStep, ReqOK
  <2> QED BY <2>1, <2>2, <2>3 DEF ServerStep
<1>7. IssuedOK'
  <2>1. ASSUME NEW t \in Tabs
        PROVE  tab'[t].token # Nil => session'[tab'[t].token].user # Nil
    <3>1. tab'[t] = tab[t] /\ tab[t].token \in Sessions \cup {Nil}
      BY DEF ServerStep, TabInv, TabTypeOK, PageType
    <3> QED BY <1>4, <3>1 DEF TabInv, IssuedOK
  <2> QED BY <1>3, <1>4, <1>6, <2>1 DEF TabInv, IssuedOK
<1>8. ASSUME NEW r \in Requests, req'[r].pc = "answered", req'[r].kind # "logout"
      PROVE  /\ req'[r].cookie # Nil /\ req'[r].cookie # cookie
             /\ \A q \in Requests \ {r} : req'[q].cookie # req'[r].cookie
             /\ \A t \in Tabs : tab[t].token # req'[r].cookie
  <2>1. CASE req'[r] = req[r]
    <3>1. ASSUME NEW q \in Requests \ {r} PROVE req'[q].cookie # req[r].cookie
      <4>1. CASE req'[q] = req[q]
        BY <4>1, <2>1, <1>5, <1>8
      <4>2. CASE req'[q] = Idle
        BY <4>2, <2>1, <1>5, <1>8, IdleIs
      <4>3. CASE AnswerStep(q)
        <5>1. req'[q].cookie = req[q].cookie \/ session[req'[q].cookie].user = Nil
          BY <4>3 DEF AnswerStep
        <5> QED BY <5>1, <2>1, <1>5, <1>8
      <4> QED BY <4>1, <4>2, <4>3 DEF ServerStep
    <3> QED BY <2>1, <3>1, <1>5, <1>8
  <2>2. CASE req'[r] = Idle
    BY <2>2, <1>8, IdleIs
  <2>3. CASE AnswerStep(r)
    <3>1. /\ req'[r].cookie # Nil /\ session[req'[r].cookie].user = Nil
          /\ \A q \in Requests \ {r} : req'[q] = req[q]
      BY <2>3, <1>8 DEF AnswerStep
    <3>2. /\ cookie # Nil => session[cookie].user # Nil
          /\ \A t \in Tabs : tab[t].token # Nil => session[tab[t].token].user # Nil
      BY DEF TabInv, IssuedOK
    <3> QED BY <3>1, <3>2, <1>5
  <2> QED BY <2>1, <2>2, <2>3 DEF ServerStep
<1>9. FreshOK'
  BY <1>3, <1>8 DEF FreshOK, ServerStep
<1> QED BY <1>1, <1>2, <1>6, <1>7, <1>9

LEMMA ServerStepKeepsPages ==
  ASSUME TabInv, ServerStep, TabsAssumption PROVE ShownOK' /\ TokenOK' /\ SeenOK' /\ LandOK'
<1>1. cookie' = cookie /\ tab' = tab /\ cookie \in Sessions \cup {Nil}
  BY DEF TabInv, TabTypeOK, ServerStep
<1>2. \A s \in Sessions : session[s].user # Nil => SameRow(s)
  BY DEF ServerStep
<1>3. cookie # Nil => SameRow(cookie)
  BY <1>1, <1>2 DEF TabInv, IssuedOK
<1>4. ASSUME NEW r \in Requests, req'[r].pc = "csrf"
      PROVE  /\ req'[r] = req[r] /\ req[r].pc = "csrf"
             /\ req[r].cookie # Nil => SameRow(req[r].cookie)
  <2>1. req'[r] = req[r]
    BY <1>4, IdleIs DEF ServerStep, AnswerStep
  <2>2. req[r].cookie \in Sessions \cup {Nil}
    BY DEF TabInv, TabTypeOK, ReqType
  <2> QED BY <1>2, <1>4, <2>1, <2>2 DEF TabInv, IssuedOK
<1>5. ASSUME NEW t \in Tabs, tab'[t].view # Nil, tab'[t].next = Nil, cookie' # Nil,
             session'[cookie'].maker = t
      PROVE  tab'[t].view.member = session'[cookie'].member
  BY <1>5, <1>1, <1>3 DEF TabInv, ShownOK, SameRow
<1>6. ASSUME NEW r \in Requests, req'[r].pc = "csrf", req'[r].kind = "write", ~req'[r].leaving,
             req'[r].cookie # Nil, session'[req'[r].cookie].maker = req'[r].tab
      PROVE  req'[r].shown.member = session'[req'[r].cookie].member
  BY <1>6, <1>4 DEF TabInv, ShownOK, SameRow
<1>7. ShownOK'
  BY <1>5, <1>6 DEF ShownOK
<1>8. TokenOK'
  BY ZenonT(40), <1>1, <1>3, <1>4 DEF TabInv, TokenOK, SameRow
<1>9. ASSUME NEW view \in PageView \cup {Nil}, Seen(view)
      PROVE  Seen(view)'
  <2>1. view # Nil => view.session \in Sessions
    BY DEF PageView
  <2> QED BY <1>2, <1>9, <2>1 DEF Seen, SameRow
<1>10. SeenOK'
  <2>1. \A t \in Tabs : tab[t].view \in PageView \cup {Nil} /\ Seen(tab[t].view)
    BY DEF TabInv, TabTypeOK, PageType, SeenOK
  <2>2. \A r \in Requests : req[r].shown \in PageView \cup {Nil}
    BY DEF TabInv, TabTypeOK, ReqType
  <2>3. \A r \in Requests : req[r].pc = "csrf" => Seen(req[r].shown)
    BY DEF TabInv, SeenOK
  <2>4. ASSUME NEW t \in Tabs PROVE Seen(tab[t].view)'
    BY <1>1, <1>9, <2>1
  <2>5. ASSUME NEW r \in Requests, req'[r].pc = "csrf" PROVE Seen(req[r].shown)'
    BY <1>4, <1>9, <2>2, <2>3, <2>5
  <2> QED BY <2>4, <2>5 DEF SeenOK
<1>11. LandOK'
  <2>1. ASSUME NEW r \in Requests PROVE Lands(req[r])'
    BY <1>1, <1>4 DEF TabInv, LandOK, Lands
  <2>2. ASSUME NEW t \in Tabs, tab[t].view # Nil, tab[t].token # Nil, tab[t].token = cookie,
               ~tab[t].late
        PROVE  tab[t].view.session = cookie \/ (tab[t].next # Nil /\ session'[cookie].maker = t)
    BY <2>2, <1>3 DEF TabInv, LandOK, SameRow
  <2> QED BY <1>1, <2>1, <2>2 DEF LandOK
<1> QED BY <1>7, <1>8, <1>10, <1>11

LEMMA ServerStepKeeps ==
  ASSUME TabInv, ServerStep, TabsAssumption PROVE TabInv'
BY ServerStepKeepsRequests, ServerStepKeepsPages DEF TabInv

LEMMA FirstMembershipIs ==
  ASSUME TabTypeOK, TabsAssumption, NEW user
  PROVE  /\ FirstMembership(user) \in Members \cup {Nil}
         /\ FirstMembership(user) # Nil => role[FirstMembership(user)] # Nil
<1> DEFINE mine == {m \in Members : UserOf[m] = user /\ role[m] # Nil}
<1>1. CASE mine = {}
  BY <1>1 DEF FirstMembership
<1>2. CASE mine # {}
  <2>1. mine \subseteq Nat
    BY DEF TabsAssumption
  <2> HIDE DEF mine
  <2>2. \E m \in mine : \A n \in mine : m <= n
    BY <1>2, <2>1, LeastExists
  <2>3. (CHOOSE m \in mine : \A n \in mine : m <= n) \in mine
    BY <2>2
  <2> USE DEF mine
  <2>4. FirstMembership(user) = CHOOSE m \in mine : \A n \in mine : m <= n
    BY <1>2 DEF FirstMembership
  <2> QED BY <2>3, <2>4
<1> QED BY <1>1, <1>2

LEMMA WithAnswerIs ==
  ASSUME TabTypeOK, NEW r \in Requests
  PROVE  /\ WithAnswer(r) \in [Requests -> ReqType]
         /\ WithAnswer(r)[r].pc = "answered" /\ WithAnswer(r)[r].kind = req[r].kind
         /\ WithAnswer(r)[r].cookie = req[r].cookie
         /\ \A q \in Requests \ {r} : WithAnswer(r)[q] = req[q]
<1> DEFINE f == [req EXCEPT ![r].pc = "answered"]
<1>1. req[r] \in ReqType /\ req \in [Requests -> ReqType]
  BY DEF TabTypeOK
<1>2. /\ f \in [Requests -> ReqType] /\ f[r] = [req[r] EXCEPT !.pc = "answered"]
      /\ \A q \in Requests \ {r} : f[q] = req[q]
  BY <1>1 DEF ReqType
<1>3. f[r].pc = "answered" /\ f[r].kind = req[r].kind /\ f[r].cookie = req[r].cookie
  BY <1>1, <1>2 DEF ReqType
<1>4. WithAnswer(r) = [f EXCEPT ![r].arg = Nil]
  BY DEF WithAnswer
<1> DEFINE q0 == [f[r] EXCEPT !.arg = Nil]
<1>5. f[r] \in ReqType
  BY <1>2
<1> HIDE DEF f
<1>6. q0 \in ReqType /\ q0.pc = f[r].pc /\ q0.kind = f[r].kind /\ q0.cookie = f[r].cookie
  BY <1>5 DEF ReqType
<1>7. WithAnswer(r) = [f EXCEPT ![r] = q0]
  BY <1>4
<1> HIDE DEF q0
<1>8. /\ WithAnswer(r) \in [Requests -> ReqType] /\ WithAnswer(r)[r] = q0
      /\ \A q \in Requests \ {r} : WithAnswer(r)[q] = f[q]
  BY <1>2, <1>6, <1>7
<1> QED BY <1>2, <1>3, <1>6, <1>8

\* What a handler may do to the roles: memberships come, the demo's are as they were.
RolesCome ==
  /\ role' \in [Members -> Roles \cup {Nil}]
  /\ \A m \in Members : role[m] # Nil => role'[m] # Nil
  /\ \A d \in DemoMembers : role'[d] # Nil <=> role[d] # Nil

LEMMA SameRowIs == ASSUME NEW s, session'[s] = session[s] PROVE SameRow(s)
BY DEF SameRow

LEMMA IssueSteps ==
  ASSUME TabInv, TabsAssumption, NEW r \in Requests, NEW user \in Account,
         NEW member \in Members \cup {Nil}, IssueSession(r, user, member),
         req[r].pc = "sent", req[r].kind # "logout", UNCHANGED <<cookie, tab>>,
         registered' \subseteq Users, RolesCome, member # Nil => role'[member] # Nil
  PROVE  ServerStep
<1> DEFINE row == [Unused EXCEPT !.user = user, !.member = member, !.live = TRUE]
<1>1. PICK s \in Sessions :
        /\ session[s].user = Nil /\ session' = [session EXCEPT ![s] = row]
        /\ req' = [WithAnswer(r) EXCEPT ![r].cookie = s]
  BY DEF IssueSession
<1>2. user # Nil
  BY DEF Account, TabsAssumption
<1>3. row \in SessionType /\ row.user = user /\ row.member = member
  BY DEF Unused, SessionType
<1> HIDE DEF row
<1>4. /\ session \in [Sessions -> SessionType]
      /\ session' \in [Sessions -> SessionType] /\ session'[s] = row
      /\ \A x \in Sessions \ {s} : session'[x] = session[x]
  BY <1>1, <1>3 DEF TabInv, TabTypeOK
<1>5. /\ req' \in [Requests -> ReqType]
      /\ req'[r].pc = "answered" /\ req'[r].kind = req[r].kind /\ req'[r].cookie = s
      /\ \A q \in Requests \ {r} : req'[q] = req[q]
  <2>1. /\ WithAnswer(r) \in [Requests -> ReqType] /\ WithAnswer(r)[r].pc = "answered"
        /\ WithAnswer(r)[r].kind = req[r].kind /\ WithAnswer(r)[r] \in ReqType
        /\ \A q \in Requests \ {r} : WithAnswer(r)[q] = req[q]
    BY WithAnswerIs DEF TabInv
  <2>2. /\ req' \in [Requests -> ReqType] /\ req'[r] = [WithAnswer(r)[r] EXCEPT !.cookie = s]
        /\ \A q \in Requests \ {r} : req'[q] = WithAnswer(r)[q]
    BY <1>1, <2>1 DEF ReqType
  <2> QED BY <2>1, <2>2 DEF ReqType
<1>6. ASSUME NEW x \in Sessions
      PROVE  /\ SameRow(x) \/ session[x].user = Nil
             /\ session'[x].live /\ session'[x].member # Nil => role'[session'[x].member] # Nil
  <2>1. CASE x = s
    BY <2>1, <1>1, <1>3, <1>4
  <2>2. CASE x # s
    <3>1. session'[x] = session[x] /\ session[x] \in SessionType
      BY <2>2, <1>4
    <3>2. session[x].live /\ session[x].member # Nil =>
            role[session[x].member] # Nil /\ session[x].member \in Members
      BY <3>1 DEF TabInv, RolesOK, SessionType
    <3> QED BY <3>1, <3>2, SameRowIs DEF RolesCome
  <2> QED BY <2>1, <2>2
<1>7. AnswerStep(r)
  <2>1. s # Nil /\ session'[s].user # Nil
    BY <1>2, <1>3, <1>4 DEF TabsAssumption, Sessions
  <2> QED BY <2>1, <1>1, <1>5 DEF AnswerStep
<1>8. \A q \in Requests : req'[q] \in {req[q], Idle} \/ AnswerStep(q)
  BY <1>5, <1>7
<1> QED BY <1>4, <1>5, <1>6, <1>8 DEF ServerStep, RolesCome

LEMMA FailSteps ==
  ASSUME TabInv, NEW r \in Requests, req' = [req EXCEPT ![r] = Idle],
         UNCHANGED <<session, cookie, tab>>, registered' \subseteq Users, RolesCome
  PROVE  ServerStep
<1>1. /\ req' \in [Requests -> ReqType] /\ req'[r] = Idle
      /\ \A q \in Requests \ {r} : req'[q] = req[q]
  BY IdleIs DEF TabInv, TabTypeOK
<1>2. session' \in [Sessions -> SessionType] /\ session' = session
  BY DEF TabInv, TabTypeOK
<1>3. ASSUME NEW x \in Sessions
      PROVE  /\ SameRow(x)
             /\ session'[x].live /\ session'[x].member # Nil => role'[session'[x].member] # Nil
  <2>1. session'[x] = session[x] /\ session[x] \in SessionType
    BY <1>2
  <2>2. session[x].live /\ session[x].member # Nil =>
          role[session[x].member] # Nil /\ session[x].member \in Members
    BY <2>1 DEF TabInv, RolesOK, SessionType
  <2> QED BY <2>1, <2>2, SameRowIs DEF RolesCome
<1> QED BY <1>1, <1>2, <1>3 DEF ServerStep, RolesCome

LEMMA RolesStay ==
  ASSUME TabTypeOK, UNCHANGED role PROVE RolesCome
BY DEF RolesCome, TabTypeOK

LEMMA SentIs ==
  ASSUME TabInv, TabsAssumption, NEW r \in Requests, req[r].pc = "sent"
  PROVE  /\ req[r].kind \in {"login", "signup"} => req[r].arg \in Account /\ req[r].arg \in Users
         /\ req[r].kind \in {"card", "demo"} => req[r].arg \in Members /\ role[req[r].arg] # Nil
         /\ req[r].kind = "switch" => req[r].arg \in Members
<1>1. ReqOK(req[r]) /\ DemoMembers \subseteq Members
  BY DEF TabInv, TabsAssumption
<1> QED BY ZenonT(40), <1>1 DEF ReqOK, Users, Account

\* A session that ends takes nothing with it, and ends with its membership.
LEMMA EndSteps ==
  ASSUME TabInv, UNCHANGED <<registered, cookie, tab>>,
         role' \in [Members -> Roles \cup {Nil}],
         \A d \in DemoMembers : role'[d] # Nil <=> role[d] # Nil,
         session' \in [Sessions -> SessionType],
         \A s \in Sessions :
           /\ SameRow(s)
           /\ session'[s].live =>
                session[s].live /\ (session[s].member # Nil /\ role[session[s].member] # Nil =>
                                      role'[session[s].member] # Nil),
         req' \in [Requests -> ReqType],
         \A r \in Requests : req'[r] = req[r] \/ AnswerStep(r)
  PROVE  ServerStep
<1>1. ASSUME NEW s \in Sessions, session'[s].live, session'[s].member # Nil
      PROVE  role'[session'[s].member] # Nil
  <2>1. session'[s].member = session[s].member /\ session[s].live
    BY <1>1 DEF SameRow
  <2> QED BY <1>1, <2>1 DEF TabInv, RolesOK
<1>2. registered' \subseteq Users
  BY DEF TabInv, TabTypeOK
<1> QED BY <1>1, <1>2 DEF ServerStep

LEMMA LogoutSteps ==
  ASSUME TabInv, TabsAssumption, NEW r \in Requests, req[r].pc = "sent", SessionPasses(req[r]),
         Logout(r), UNCHANGED <<cookie, tab>>
  PROVE  ServerStep
<1> DEFINE c == req[r].cookie
<1>1. /\ req[r].kind = "logout" /\ session' = [session EXCEPT ![c].live = FALSE]
      /\ req' = WithAnswer(r) /\ role' = role /\ registered' = registered
  BY DEF Logout
<1>2. session \in [Sessions -> SessionType] /\ role \in [Members -> Roles \cup {Nil}]
  BY DEF TabInv, TabTypeOK
<1>3. c \in Sessions
  <2>1. req[r] \in ReqType
    BY DEF TabInv, TabTypeOK
  <2>2. c # Nil
    BY <1>1 DEF SessionPasses, Valid, Public
  <2> QED BY <2>1, <2>2 DEF ReqType
<1> HIDE DEF c
<1>4. ASSUME NEW s \in Sessions
      PROVE  session'[s] \in SessionType /\ SameRow(s) /\ (session'[s].live => session[s].live)
  <2>1. session[s] \in SessionType
    BY <1>2
  <2>2. CASE s = c
    <3>1. session'[s] = [session[s] EXCEPT !.live = FALSE]
      BY <2>2, <1>1, <1>2, <1>3
    <3> QED BY <2>1, <3>1 DEF SessionType, SameRow
  <2>3. CASE s # c
    <3>1. session'[s] = session[s]
      BY <2>3, <1>1, <1>2
    <3> QED BY <2>1, <3>1, SameRowIs
  <2> QED BY <2>2, <2>3
<1>5. session' \in [Sessions -> SessionType]
  BY <1>1, <1>2, <1>4
<1>6. /\ req' \in [Requests -> ReqType] /\ AnswerStep(r)
      /\ \A q \in Requests \ {r} : req'[q] = req[q]
  BY <1>1, WithAnswerIs DEF TabInv, AnswerStep
<1> QED BY <1>1, <1>2, <1>4, <1>5, <1>6, EndSteps

LEMMA JoinSteps ==
  ASSUME TabInv, TabsAssumption, NEW r \in Requests, req[r].pc = "sent",
         Join(r), UNCHANGED <<cookie, tab>>
  PROVE  ServerStep
<1>1. PICK m \in Members \ DemoMembers :
        /\ role' = [role EXCEPT ![m] = JoinsAs[m]]
        /\ IssueSession(r, UserOf[m], m) \/ SessionFails(r)
  BY DEF Join
<1>2. JoinsAs[m] \in Roles /\ Nil \notin Roles /\ DemoMembers \subseteq Members
  BY <1>1 DEF TabsAssumption
<1>3. RolesCome /\ role'[m] # Nil
  BY <1>1, <1>2 DEF RolesCome, TabInv, TabTypeOK
<1>4. registered' \subseteq Users /\ req[r].kind # "logout" /\ UserOf[m] \in Account
  BY DEF Join, TabInv, TabTypeOK, Account
<1>5. CASE IssueSession(r, UserOf[m], m)
  BY <1>3, <1>4, <1>5, IssueSteps
<1>6. CASE SessionFails(r)
  BY <1>3, <1>4, <1>6, FailSteps DEF SessionFails
<1> QED BY <1>1, <1>5, <1>6

LEMMA SigninSteps ==
  ASSUME TabInv, TabsAssumption, NEW r \in Requests, req[r].pc = "sent",
         Login(r) \/ Signup(r) \/ DemoLogin(r) \/ SwitchWorkspace(r), UNCHANGED <<cookie, tab>>
  PROVE  ServerStep
<1>1. RolesCome /\ registered \subseteq Users
  BY RolesStay DEF TabInv, TabTypeOK, Login, Signup, DemoLogin, SwitchWorkspace
<1>2. req[r].kind # "logout"
  BY DEF Login, Signup, DemoLogin, SwitchWorkspace
<1>3. ASSUME Login(r) PROVE ServerStep
  <2>1. /\ IssueSession(r, req[r].arg, FirstMembership(req[r].arg)) /\ req[r].arg \in Account
        /\ registered' = registered /\ role' = role
    BY <1>3, SentIs DEF Login
  <2>2. /\ FirstMembership(req[r].arg) \in Members \cup {Nil}
        /\ FirstMembership(req[r].arg) # Nil => role[FirstMembership(req[r].arg)] # Nil
    BY FirstMembershipIs DEF TabInv
  <2> QED BY <1>1, <1>2, <2>1, <2>2, IssueSteps
<1>4. ASSUME Signup(r) PROVE ServerStep
  <2>1. /\ req[r].arg \in Account /\ registered' \subseteq Users
        /\ IssueSession(r, req[r].arg, Nil) \/ SessionFails(r)
    BY <1>1, <1>4, SentIs DEF Signup
  <2>2. CASE IssueSession(r, req[r].arg, Nil)
    BY <1>1, <1>2, <2>1, <2>2, IssueSteps
  <2>3. CASE SessionFails(r)
    BY <1>1, <2>1, <2>3, FailSteps DEF SessionFails
  <2> QED BY <2>1, <2>2, <2>3
<1>5. ASSUME DemoLogin(r) PROVE ServerStep
  <2>1. /\ IssueSession(r, UserOf[req[r].arg], req[r].arg) /\ req[r].arg \in Members
        /\ role[req[r].arg] # Nil /\ registered' = registered /\ role' = role
        /\ UserOf[req[r].arg] \in Account
    BY <1>5, SentIs DEF DemoLogin, Account
  <2> QED BY <1>1, <1>2, <2>1, IssueSteps
<1>6. ASSUME SwitchWorkspace(r) PROVE ServerStep
  <2>1. /\ IssueSession(r, UserOf[req[r].arg], req[r].arg) /\ req[r].arg \in Members
        /\ role[req[r].arg] # Nil /\ registered' = registered /\ role' = role
        /\ UserOf[req[r].arg] \in Account
    BY <1>6, SentIs DEF SwitchWorkspace, Account
  <2> QED BY <1>1, <1>2, <2>1, IssueSteps
<1> QED BY <1>3, <1>4, <1>5, <1>6

LEMMA ServeSteps ==
  ASSUME TabInv, TabsAssumption, NEW r \in Requests, Serve(r)
  PROVE  ServerStep
<1>1. req[r].pc = "sent" /\ UNCHANGED <<cookie, tab>>
  BY DEF Serve
<1>2. ASSUME Fail(r) PROVE ServerStep
  <2>1. RolesCome /\ registered' \subseteq Users
    BY <1>2, RolesStay DEF Fail, TabInv, TabTypeOK
  <2> QED BY <1>1, <1>2, <2>1, FailSteps DEF Fail
<1> QED BY <1>1, <1>2, SigninSteps, JoinSteps, LogoutSteps DEF Serve

LEMMA SessionEndSteps ==
  ASSUME TabInv, TabsAssumption, NEW s \in Sessions, EndSession(s)
  PROVE  ServerStep
<1>1. /\ session' = [session EXCEPT ![s].live = FALSE] /\ role' = role
      /\ UNCHANGED <<registered, cookie, tab, req>>
  BY DEF EndSession, Change
<1>2. /\ session \in [Sessions -> SessionType] /\ role \in [Members -> Roles \cup {Nil}]
      /\ req \in [Requests -> ReqType]
  BY DEF TabInv, TabTypeOK
<1>3. ASSUME NEW x \in Sessions
      PROVE  session'[x] \in SessionType /\ SameRow(x) /\ (session'[x].live => session[x].live)
  <2>1. session[x] \in SessionType
    BY <1>2
  <2>2. CASE x = s
    <3>1. session'[x] = [session[x] EXCEPT !.live = FALSE]
      BY <2>2, <1>1, <1>2
    <3> QED BY <2>1, <3>1 DEF SessionType, SameRow
  <2>3. CASE x # s
    <3>1. session'[x] = session[x]
      BY <2>3, <1>1, <1>2
    <3> QED BY <2>1, <3>1, SameRowIs
  <2> QED BY <2>2, <2>3
<1>4. session' \in [Sessions -> SessionType]
  BY <1>1, <1>2, <1>3
<1> QED BY <1>1, <1>2, <1>3, <1>4, EndSteps

LEMMA RoleChangeSteps ==
  ASSUME TabInv, TabsAssumption, NEW m \in Members \ DemoMembers, ChangeMemberRole(m)
  PROVE  ServerStep
<1>1. PICK new \in Roles \ {role[m]} : role' = [role EXCEPT ![m] = new]
  BY DEF ChangeMemberRole
<1>2. /\ UNCHANGED <<registered, cookie, tab, req, session>>
  BY DEF ChangeMemberRole, Change
<1>3. /\ session \in [Sessions -> SessionType] /\ role \in [Members -> Roles \cup {Nil}]
      /\ req \in [Requests -> ReqType] /\ new # Nil /\ DemoMembers \subseteq Members
  BY DEF TabInv, TabTypeOK, TabsAssumption
<1>4. role' \in [Members -> Roles \cup {Nil}] /\ \A n \in Members : role[n] # Nil => role'[n] # Nil
  BY <1>1, <1>3
<1>5. \A d \in DemoMembers : role'[d] = role[d]
  BY <1>1, <1>3
<1>6. ASSUME NEW x \in Sessions
      PROVE  /\ session[x] \in SessionType
             /\ session[x].member # Nil => session[x].member \in Members
  BY <1>3 DEF SessionType
<1>7. \A x \in Sessions : SameRow(x)
  BY <1>2, SameRowIs
<1> QED BY <1>2, <1>3, <1>4, <1>5, <1>6, <1>7, EndSteps

LEMMA RemovalSteps ==
  ASSUME TabInv, TabsAssumption, NEW m \in Members \ DemoMembers, MemberRemoved(m)
  PROVE  ServerStep
<1>1. /\ role' = [role EXCEPT ![m] = Nil]
      /\ session' = [s \in Sessions |-> [session[s] EXCEPT !.live = @ /\ session[s].member # m]]
      /\ UNCHANGED <<registered, cookie, tab, req>>
  BY DEF MemberRemoved, Change
<1>2. /\ session \in [Sessions -> SessionType] /\ role \in [Members -> Roles \cup {Nil}]
      /\ req \in [Requests -> ReqType] /\ DemoMembers \subseteq Members
  BY DEF TabInv, TabTypeOK, TabsAssumption
<1>3. /\ role' \in [Members -> Roles \cup {Nil}]
      /\ \A n \in Members \ {m} : role'[n] = role[n]
  BY <1>1, <1>2
<1>4. ASSUME NEW x \in Sessions
      PROVE  /\ session'[x] \in SessionType /\ SameRow(x)
             /\ session'[x].live => session[x].live /\ session[x].member # m
             /\ session[x].member # Nil => session[x].member \in Members
  <2> DEFINE lives == session[x].live /\ session[x].member # m
  <2>1. session[x] \in SessionType /\ lives \in BOOLEAN
    BY <1>2
  <2>2. session'[x] = [session[x] EXCEPT !.live = lives]
    BY <1>1
  <2> HIDE DEF lives
  <2>3. session'[x] \in SessionType /\ SameRow(x) /\ session'[x].live = lives
    BY <2>1, <2>2 DEF SessionType, SameRow
  <2>4. session[x].member # Nil => session[x].member \in Members
    BY <2>1 DEF SessionType
  <2> QED BY <2>3, <2>4 DEF lives
<1>5. session' \in [Sessions -> SessionType]
  BY <1>1, <1>4
<1> QED BY ZenonT(40), <1>1, <1>2, <1>3, <1>4, <1>5, EndSteps

-----------------------------------------------------------------------------
(* The browser takes the cookie of an answer, and the page its token.         *)

LEMMA AnswerIs ==
  ASSUME TabInv, TabsAssumption, NEW r \in Requests, Answer(r)
  PROVE  LET t == req[r].tab IN
         /\ t \in Tabs /\ req[r].pc = "answered" /\ req[r].kind \in Signs \cup {"logout"}
         /\ UNCHANGED <<registered, role>>
         /\ req' \in [Requests -> ReqType] /\ req'[r] = Idle
         /\ \A q \in Requests \ {r} : req'[q] = req[q]
         /\ tab' \in [Tabs -> PageType] /\ \A u \in Tabs \ {t} : tab'[u] = tab[u]
         /\ tab'[t].view = tab[t].view /\ (tab[t].view # Nil => tab'[t].next # Nil)
         /\ tab'[t].token \in {Nil, req[r].cookie, tab[t].token}
         /\ req[r].kind \in Signs \ Raw => tab'[t].token \in {Nil, req[r].cookie}
<1> DEFINE t == req[r].tab
<1>1. /\ req[r].pc = "answered" /\ t # Nil /\ req' = [req EXCEPT ![r] = Idle]
      /\ tab' = [tab EXCEPT ![t].token = TokenAfter(r), ![t].next = NextAfter(r),
                             ![t].late = @ /\ req[r].kind \in Raw]
      /\ UNCHANGED <<registered, role>>
  BY DEF Answer
<1>2. req[r] \in ReqType /\ ReqOK(req[r])
  BY DEF TabInv, TabTypeOK
<1>3. t \in Tabs /\ req[r].kind \in Signs \cup {"logout"} /\ req[r].cookie \in Sessions \cup {Nil}
  BY <1>1, <1>2 DEF ReqType, ReqOK
<1>4. /\ req' \in [Requests -> ReqType] /\ req'[r] = Idle
      /\ \A q \in Requests \ {r} : req'[q] = req[q]
  BY <1>1, IdleIs DEF TabInv, TabTypeOK
<1>5. tab[t] \in PageType /\ tab \in [Tabs -> PageType]
  BY <1>3 DEF TabInv, TabTypeOK
<1>6. /\ TokenAfter(r) \in {Nil, req[r].cookie, tab[t].token}
      /\ req[r].kind \in Signs \ Raw => TokenAfter(r) \in {Nil, req[r].cookie}
  BY <1>3 DEF TokenAfter
<1>7. NextAfter(r) \in {Nil, "router", "browser"} /\ (tab[t].view # Nil => NextAfter(r) # Nil)
  BY DEF NextAfter, TabsAssumption
<1>8. TokenAfter(r) \in Sessions \cup {Nil}
  BY <1>3, <1>5, <1>6 DEF PageType
<1>9. /\ tab' \in [Tabs -> PageType] /\ \A u \in Tabs \ {t} : tab'[u] = tab[u]
      /\ tab'[t].view = tab[t].view /\ tab'[t].token = TokenAfter(r) /\ tab'[t].next = NextAfter(r)
  <2> DEFINE late  == tab[t].late /\ req[r].kind \in Raw
             page1 == [tab[t] EXCEPT !.token = TokenAfter(r)]
             page2 == [page1 EXCEPT !.next = NextAfter(r)]
             page3 == [page2 EXCEPT !.late = late]
  <2>1. page1 \in PageType /\ page1.view = tab[t].view /\ page1.token = TokenAfter(r)
    BY <1>5, <1>8 DEF PageType
  <2>2. tab' = [tab EXCEPT ![t] = page3]
    BY <1>1, <1>3, <1>5 DEF PageType
  <2>3. late \in BOOLEAN
    BY <1>5 DEF PageType
  <2> HIDE DEF page1, late, t
  <2>4. /\ page2 \in PageType /\ page2.view = page1.view /\ page2.token = page1.token
        /\ page2.next = NextAfter(r)
    BY <1>7, <2>1 DEF PageType
  <2> HIDE DEF page2
  <2>5. /\ page3 \in PageType /\ page3.view = page2.view /\ page3.token = page2.token
        /\ page3.next = page2.next
    BY <2>3, <2>4 DEF PageType
  <2> HIDE DEF page3
  <2>6. tab' \in [Tabs -> PageType] /\ tab'[t] = page3 /\ \A u \in Tabs \ {t} : tab'[u] = tab[u]
    BY <1>3, <1>5, <2>2, <2>5
  <2> QED BY <2>1, <2>4, <2>5, <2>6
<1> HIDE DEF t
<1> QED BY <1>1, <1>3, <1>4, <1>6, <1>7, <1>9 DEF t

LEMMA LogoutAnswered ==
  ASSUME TabInv, TabsAssumption, NEW r \in Requests, Answer(r), req[r].kind = "logout"
  PROVE  TabInv'
<1> DEFINE t == req[r].tab
<1>1. /\ t \in Tabs /\ UNCHANGED <<registered, role>>
      /\ req' \in [Requests -> ReqType] /\ req'[r] = Idle
      /\ \A q \in Requests \ {r} : req'[q] = req[q]
      /\ tab' \in [Tabs -> PageType] /\ \A u \in Tabs \ {t} : tab'[u] = tab[u]
      /\ tab'[t].view = tab[t].view /\ tab'[t].token \in {Nil, req[r].cookie, tab[t].token}
  BY AnswerIs
<1>2. session' = session /\ cookie' = Nil
  BY DEF Answer
<1>3. TabTypeOK'
  BY <1>1, <1>2 DEF TabInv, TabTypeOK
<1>4. RolesOK'
  BY <1>1, <1>2 DEF TabInv, RolesOK
<1>5. IssuedOK'
  <2>1. ASSUME NEW u \in Tabs, tab'[u].token # Nil PROVE session[tab'[u].token].user # Nil
    BY <1>1, <2>1 DEF TabInv, IssuedOK
  <2> QED BY <1>1, <1>2, <2>1, IdleIs DEF TabInv, IssuedOK
<1>6. (\A q \in Requests : ReqOK(req[q]))'
  BY <1>1, IdleIs DEF TabInv, ReqOK
<1>7. FreshOK'
  <2> SUFFICES ASSUME NEW q \in Requests, req'[q].pc = "answered", req'[q].kind # "logout"
               PROVE  /\ req'[q].cookie # Nil
                      /\ \A x \in Requests \ {q} : req'[x].cookie # req'[q].cookie
                      /\ \A u \in Tabs : tab'[u].token # req'[q].cookie
    BY <1>2 DEF FreshOK
  <2>1. q # r /\ req'[q] = req[q]
    BY <1>1, IdleIs
  <2>2. /\ req[q].cookie # Nil /\ \A x \in Requests \ {q} : req[x].cookie # req[q].cookie
        /\ \A u \in Tabs : tab[u].token # req[q].cookie
    BY <2>1 DEF TabInv, FreshOK
  <2> QED BY <2>1, <2>2, <1>1, IdleIs
<1>8. ShownOK' /\ TokenOK'
  BY <1>1, <1>2, IdleIs DEF TabInv, ShownOK, TokenOK
<1>9. SeenOK'
  <2>1. \A u \in Tabs : tab'[u].view = tab[u].view
    BY <1>1
  <2>2. \A q \in Requests : req'[q].pc = "csrf" => req'[q] = req[q]
    BY <1>1, IdleIs
  <2> QED BY <1>2, <2>1, <2>2 DEF TabInv, SeenOK, Seen
<1>10. LandOK'
  BY <1>2 DEF LandOK, Lands
<1> QED BY <1>3, <1>4, <1>5, <1>6, <1>7, <1>8, <1>9, <1>10 DEF TabInv

LEMMA SessionAnswered ==
  ASSUME TabInv, TabsAssumption, NEW r \in Requests, Answer(r), req[r].kind # "logout"
  PROVE  TabInv'
<1> DEFINE t == req[r].tab
           s == req[r].cookie
           known == req[r].kind \notin Raw
                    /\ ~\E q \in Requests : req[q].tab = t /\ req[q].pc = "csrf"
<1>1. /\ t \in Tabs /\ req[r].pc = "answered" /\ req[r].kind \in Signs \cup {"logout"}
      /\ UNCHANGED <<registered, role>>
      /\ req' \in [Requests -> ReqType] /\ req'[r] = Idle
      /\ \A q \in Requests \ {r} : req'[q] = req[q]
      /\ tab' \in [Tabs -> PageType] /\ \A u \in Tabs \ {t} : tab'[u] = tab[u]
      /\ tab'[t].view = tab[t].view /\ (tab[t].view # Nil => tab'[t].next # Nil)
      /\ req[r].kind \in Signs \ Raw => tab'[t].token \in {Nil, s}
      /\ tab'[t].token \in {Nil, s, tab[t].token}
  BY AnswerIs
<1>2. /\ cookie' = s
      /\ session' = [session EXCEPT ![s].maker = t, ![s].known = known]
  BY DEF Answer
<1>3. /\ s # Nil /\ s # cookie /\ s \in Sessions /\ session[s].user # Nil
      /\ \A q \in Requests \ {r} : req[q].cookie # s
      /\ \A u \in Tabs : tab[u].token # s
  <2>1. req[r] \in ReqType
    BY DEF TabInv, TabTypeOK
  <2>2. /\ s # Nil /\ s # cookie /\ session[s].user # Nil
        /\ \A q \in Requests \ {r} : req[q].cookie # s
        /\ \A u \in Tabs : tab[u].token # s
    BY <1>1 DEF TabInv, FreshOK, IssuedOK
  <2> QED BY <2>1, <2>2 DEF ReqType
<1>4. /\ session' \in [Sessions -> SessionType]
      /\ \A x \in Sessions \ {s} : session'[x] = session[x]
      /\ session'[s].user = session[s].user /\ session'[s].member = session[s].member
      /\ session'[s].live = session[s].live
      /\ session'[s].maker = t /\ session'[s].known = known
  <2>1. session \in [Sessions -> SessionType] /\ session[s] \in SessionType /\ known \in BOOLEAN
    BY <1>3 DEF TabInv, TabTypeOK
  <2> HIDE DEF known, s, t
  <2>2. t \in Tabs
    BY <1>1 DEF t
  <2> DEFINE row1 == [session[s] EXCEPT !.maker = t]
             h == [session EXCEPT ![s] = row1]
             row2 == [h[s] EXCEPT !.known = known]
  <2>3. /\ row1 \in SessionType /\ row1.user = session[s].user /\ row1.member = session[s].member
        /\ row1.live = session[s].live /\ row1.maker = t
    BY <2>1, <2>2 DEF SessionType
  <2>4. session' = [h EXCEPT ![s] = row2]
    BY <1>2
  <2> HIDE DEF row1
  <2>5. /\ h \in [Sessions -> SessionType] /\ h[s] = row1
        /\ \A x \in Sessions \ {s} : h[x] = session[x]
    BY <1>3, <2>1, <2>3
  <2> HIDE DEF h
  <2>6. h[s] \in SessionType
    BY <2>3, <2>5
  <2>7. /\ row2 \in SessionType /\ row2.user = h[s].user /\ row2.member = h[s].member
        /\ row2.live = h[s].live /\ row2.maker = h[s].maker /\ row2.known = known
    BY <2>1, <2>6 DEF SessionType
  <2> HIDE DEF row2
  <2>8. /\ session' \in [Sessions -> SessionType] /\ session'[s] = row2
        /\ \A x \in Sessions \ {s} : session'[x] = h[x]
    BY <1>3, <2>4, <2>5, <2>7
  <2> QED BY <2>3, <2>5, <2>7, <2>8
<1>5. known => /\ tab'[t].token \in {Nil, s}
               /\ \A q \in Requests : ~(req'[q].pc = "csrf" /\ req'[q].tab = t)
  <2>1. ASSUME known PROVE tab'[t].token \in {Nil, s}
    BY <1>1, <2>1
  <2>2. ASSUME known, NEW q \in Requests PROVE ~(req'[q].pc = "csrf" /\ req'[q].tab = t)
    BY <1>1, <2>2, IdleIs
  <2> QED BY <2>1, <2>2
<1> HIDE DEF t, s, known
<1>6. TabTypeOK'
  BY <1>1, <1>2, <1>3, <1>4 DEF TabInv, TabTypeOK
<1>7. ASSUME NEW x \in Sessions
      PROVE  /\ session'[x].live = session[x].live /\ session'[x].member = session[x].member
             /\ session'[x].user = session[x].user
  BY <1>4
<1>8. RolesOK'
  <2>1. \A x \in Sessions : session[x].live /\ session[x].member # Nil => role[session[x].member] # Nil
    BY DEF TabInv, RolesOK
  <2>2. \A u \in Tabs : tab'[u].view = tab[u].view
    BY <1>1
  <2> QED BY <1>1, <1>7, <2>1, <2>2 DEF TabInv, RolesOK
<1>9. \A q \in Requests : req[q].cookie \in Sessions \cup {Nil}
  BY DEF TabInv, TabTypeOK, ReqType
<1>10. IssuedOK'
  <2>1. \A q \in Requests : req[q].cookie # Nil => session[req[q].cookie].user # Nil
    BY DEF TabInv, IssuedOK
  <2>2. ASSUME NEW q \in Requests, req'[q].cookie # Nil PROVE session'[req'[q].cookie].user # Nil
    BY <2>1, <2>2, <1>1, <1>7, <1>9, IdleIs
  <2>3. session'[s].user # Nil
    BY <1>3, <1>7
  <2>4. ASSUME NEW u \in Tabs, tab'[u].token # Nil PROVE session'[tab'[u].token].user # Nil
    <3>1. tab'[u].token \in {s, tab[u].token} /\ tab[u].token \in Sessions \cup {Nil}
      BY <1>1, <2>4 DEF TabInv, TabTypeOK, PageType
    <3>2. tab[u].token # Nil => session[tab[u].token].user # Nil
      BY DEF TabInv, IssuedOK
    <3> QED BY <1>7, <2>3, <2>4, <3>1, <3>2
  <2> QED BY <2>2, <2>3, <2>4, <1>2 DEF IssuedOK
<1>11. (\A q \in Requests : ReqOK(req[q]))'
  BY <1>1, IdleIs DEF TabInv, ReqOK
<1>12. FreshOK'
  <2> SUFFICES ASSUME NEW q \in Requests, req'[q].pc = "answered", req'[q].kind # "logout"
               PROVE  /\ req'[q].cookie # Nil /\ req'[q].cookie # s
                      /\ \A x \in Requests \ {q} : req'[x].cookie # req'[q].cookie
                      /\ \A u \in Tabs : tab'[u].token # req'[q].cookie
    BY <1>2 DEF FreshOK
  <2>1. q # r /\ req'[q] = req[q]
    BY <1>1, IdleIs
  <2>2. /\ req[q].cookie # Nil /\ \A x \in Requests \ {q} : req[x].cookie # req[q].cookie
        /\ \A u \in Tabs : tab[u].token # req[q].cookie
    BY <2>1 DEF TabInv, FreshOK
  <2> QED BY <2>1, <2>2, <1>1, <1>3, IdleIs
<1>13. ASSUME NEW u \in Tabs, tab'[u].view # Nil, tab'[u].next = Nil, session'[s].maker = u
       PROVE  FALSE
  BY <1>13, <1>1, <1>4
<1>14. ASSUME NEW q \in Requests, req'[q].pc = "csrf", req'[q].kind = "write", ~req'[q].leaving,
              req'[q].cookie # Nil, session'[req'[q].cookie].maker = req'[q].tab
       PROVE  req'[q].shown.member = session'[req'[q].cookie].member
  <2>1. q # r /\ req'[q] = req[q]
    BY <1>1, <1>14, IdleIs
  <2>2. session'[req[q].cookie] = session[req[q].cookie]
    BY <2>1, <1>3, <1>4, <1>9, <1>14
  <2> QED BY <2>1, <2>2, <1>14 DEF TabInv, ShownOK
<1>15. ShownOK'
  BY <1>2, <1>13, <1>14 DEF ShownOK
<1>16. TokenOK'
  BY <1>2, <1>4, <1>5 DEF TokenOK
<1>17. SeenOK'
  <2>1. ASSUME NEW view \in PageView \cup {Nil}, Seen(view) PROVE Seen(view)'
    <3>1. view # Nil => view.session \in Sessions
      BY DEF PageView
    <3> QED BY <1>7, <2>1, <3>1 DEF Seen
  <2>2. \A u \in Tabs : tab[u].view \in PageView \cup {Nil} /\ Seen(tab[u].view)
    BY DEF TabInv, TabTypeOK, PageType, SeenOK
  <2>3. \A q \in Requests : req[q].shown \in PageView \cup {Nil}
    BY DEF TabInv, TabTypeOK, ReqType
  <2>4. \A q \in Requests : req[q].pc = "csrf" => Seen(req[q].shown)
    BY DEF TabInv, SeenOK
  <2>5. ASSUME NEW u \in Tabs PROVE Seen(tab[u].view)'
    <3>1. tab'[u].view = tab[u].view
      BY <1>1
    <3> QED BY <2>1, <2>2, <3>1
  <2>6. ASSUME NEW q \in Requests, req'[q].pc = "csrf" PROVE Seen(req[q].shown)'
    <3>1. req'[q] = req[q]
      BY <1>1, <2>6, IdleIs
    <3> QED BY <2>1, <2>3, <2>4, <2>6, <3>1
  <2> QED BY <2>5, <2>6 DEF SeenOK
<1>18. LandOK'
  <2>1. ASSUME NEW u \in Tabs, tab'[u].view # Nil, tab'[u].token = s
        PROVE  tab'[u].next # Nil /\ session'[s].maker = u
    BY <1>1, <1>3, <1>4, <2>1
  <2>2. ASSUME NEW q \in Requests, req'[q].pc = "csrf" PROVE req'[q].cookie # s
    BY <1>1, <1>3, <2>2, IdleIs
  <2> QED BY <1>2, <2>1, <2>2 DEF LandOK, Lands
<1> QED BY <1>6, <1>8, <1>10, <1>11, <1>12, <1>15, <1>16, <1>17, <1>18 DEF TabInv

LEMMA TabsInitially ==
  ASSUME TabInit, TabsAssumption PROVE TabInv
<1>1. PICK b \in Beginnings :
        /\ registered = b.registered /\ role = b.role /\ cookie = b.cookie
        /\ session = [s \in Sessions |-> IF s = b.cookie
              THEN [Unused EXCEPT !.user = UserOf[b.member], !.member = b.member, !.live = TRUE]
              ELSE Unused]
  BY DEF TabInit
<1>2. tab = [t \in Tabs |-> BlankPage] /\ req = [r \in Requests |-> Idle]
  BY DEF TabInit
<1>3. /\ registered \subseteq Users /\ role \in [Members -> Roles \cup {Nil}]
      /\ (\A d \in DemoMembers : role[d] # Nil) \/ (\A d \in DemoMembers : role[d] = Nil)
  BY <1>1 DEF TabsAssumption
<1>4. cookie # Nil => cookie \in Sessions /\ b.member \in Members /\ role[b.member] # Nil
  BY <1>1 DEF TabsAssumption, Sessions
<1> DEFINE row == [Unused EXCEPT !.user = UserOf[b.member], !.member = b.member, !.live = TRUE]
<1>5. cookie # Nil => /\ row \in SessionType /\ row.user # Nil /\ row.maker = Nil
                      /\ row.member = b.member
  BY <1>4 DEF SessionType, Unused, Account, TabsAssumption
<1>6. Unused \in SessionType /\ ~Unused.live /\ Unused.maker = Nil
  BY DEF SessionType, Unused
<1> HIDE DEF row
<1>7. ASSUME NEW s \in Sessions
      PROVE  /\ session[s] \in SessionType /\ session[s].maker = Nil
             /\ session[s].live => role[session[s].member] # Nil
  <2>1. CASE s = cookie
    <3>1. s # Nil
      BY DEF Sessions, TabsAssumption
    <3> QED BY <2>1, <3>1, <1>1, <1>4, <1>5 DEF row
  <2>2. CASE s # cookie
    <3>1. session[s] = Unused
      BY <2>2, <1>1
    <3> QED BY <3>1, <1>6
  <2> QED BY <2>1, <2>2
<1>8. cookie # Nil => session[cookie].user # Nil /\ session[cookie].maker = Nil
  BY <1>1, <1>4, <1>5, <1>7 DEF row
<1>9. session \in [Sessions -> SessionType] /\ cookie \in Sessions \cup {Nil}
  BY <1>1, <1>4, <1>7
<1>10. TabTypeOK
  BY <1>2, <1>3, <1>9, IdleIs, BlankPageIs DEF TabTypeOK
<1>11. RolesOK
  BY <1>2, <1>3, <1>7, BlankPageIs DEF RolesOK
<1>12. IssuedOK /\ (\A r \in Requests : ReqOK(req[r])) /\ FreshOK
  BY <1>2, <1>8, IdleIs, IdleOK, BlankPageIs DEF IssuedOK, FreshOK
<1>13. ShownOK /\ TokenOK
  BY <1>2, <1>8, IdleIs, BlankPageIs DEF ShownOK, TokenOK
<1>14. SeenOK /\ LandOK
  BY <1>2, IdleIs, BlankPageIs DEF SeenOK, Seen, LandOK, Lands
<1> QED BY <1>10, <1>11, <1>12, <1>13, <1>14 DEF TabInv

LEMMA TabsStep ==
  ASSUME TabInv, [TabNext]_tabVars, TabsAssumption PROVE TabInv'
<1>1. ASSUME NEW t \in Tabs, Open(t) \/ Visit(t) \/ Arrive(t) \/ Mount(t) PROVE TabInv'
  BY <1>1, ComingAndGoing, PageStepKeeps
<1>2. ASSUME NEW t \in Tabs, NEW r \in Requests,
             \/ LoginForm(t, r) \/ SignupForm(t, r) \/ DemoLoginCard(t, r) \/ SetupForm(t, r)
             \/ AcceptForm(t, r)
             \/ WorkspaceSwitcher(t, r) \/ DemoRoleSwitcher(t, r) \/ SignOut(t, r)
      PROVE  TabInv'
  BY <1>2, FormsAsk, PageStepKeeps
<1>3. ASSUME NEW t \in Tabs, NEW r \in Requests, FirstWrite(t, r) PROVE TabInv'
  BY <1>3, FirstWriteSteps, PageStepKeeps
<1>4. ASSUME NEW r \in Requests, GotToken(r) \/ Lose(r) PROVE TabInv'
  BY <1>4, GotTokenSteps, LoseSteps, PageStepKeeps
<1>5. ASSUME NEW r \in Requests, Serve(r) PROVE TabInv'
  BY <1>5, ServeSteps, ServerStepKeeps
<1>6. ASSUME NEW r \in Requests, Answer(r) PROVE TabInv'
  BY <1>6, LogoutAnswered, SessionAnswered
<1>7. ASSUME NEW s \in Sessions, EndSession(s) PROVE TabInv'
  BY <1>7, SessionEndSteps, ServerStepKeeps
<1>8. ASSUME NEW m \in Members \ DemoMembers, ChangeMemberRole(m) \/ MemberRemoved(m) PROVE TabInv'
  BY <1>8, RoleChangeSteps, RemovalSteps, ServerStepKeeps
<1>9. ASSUME UNCHANGED tabVars PROVE TabInv'
  <2>1. UNCHANGED <<registered, role, session, cookie, tab, req>>
    BY <1>9 DEF tabVars
  <2> QED BY <2>1 DEF TabInv, TabTypeOK, RolesOK, IssuedOK, ReqOK, FreshOK, ShownOK, TokenOK,
                      SeenOK, Seen, LandOK, Lands
<1> QED BY <1>1, <1>2, <1>3, <1>4, <1>5, <1>6, <1>7, <1>8, <1>9 DEF TabNext

LEMMA TabsInvariance == TabSpec => []TabInv
BY TabsInitially, TabsStep, TabsAssumption, PTL DEF TabSpec

-----------------------------------------------------------------------------
(* What follows for the sections' reads and writes.                          *)

LEMMA VerdictIs ==
  ASSUME NEW q, NEW permission
  PROVE  /\ Verdict(q, permission) = "csrf" => SessionPasses(q) /\ ~CsrfPasses(q)
         /\ Verdict(q, permission) = "passed" => SessionPasses(q) /\ CsrfPasses(q)
         /\ Verdict(q, permission) = "role" => SessionPasses(q) /\ ~PermissionPasses(q, permission)
BY DEF Verdict

\* The reads and writes that can leave now, one kind after the other.
LEMMA UsesAre ==
  ASSUME TabInv, TabsAssumption, NEW use \in Uses
  PROVE  /\ use.cookie = cookie /\ use.kind \in {"read", "write"} /\ use.tab \in Tabs
         /\ use.shown \in PageView
         /\ use.kind = "write" /\ ~use.leaving /\ cookie # Nil /\ use.token = cookie
              /\ session[cookie].maker = use.tab => use.shown.member = session[cookie].member
         /\ use.kind = "write" /\ ~use.late /\ cookie # Nil /\ use.token = cookie
              /\ session[cookie].maker # use.tab => use.shown.member = session[cookie].member
         /\ use.kind = "write" /\ cookie # Nil /\ session[cookie].live
              /\ session[cookie].maker = use.tab /\ session[cookie].known => use.token = cookie
<1> DEFINE Use(kind, t, token, showing, leaving, late) ==
             [kind |-> kind, tab |-> t, cookie |-> cookie, token |-> token,
              shown |-> showing, leaving |-> leaving, late |-> late]
<1>1. \/ \E t \in Tabs : /\ tab[t].view # Nil
                         /\ use = Use("read", t, Nil, tab[t].view, tab[t].next # Nil, FALSE)
      \/ \E t \in Tabs : /\ tab[t].view # Nil /\ tab[t].token # Nil
                         /\ use = Use("write", t, tab[t].token, tab[t].view, tab[t].next # Nil,
                                    tab[t].late)
      \/ \E r \in Requests : /\ req[r].pc = "csrf" /\ req[r].kind = "write"
                             /\ use = Use("write", req[r].tab, Fetched(r), req[r].shown,
                                         req[r].leaving, req[r].late)
  BY DEF Uses
<1>2. \A t \in Tabs : tab[t].view # Nil => tab[t].view \in PageView
  BY DEF TabInv, TabTypeOK, PageType
<1>3. CASE \E t \in Tabs : /\ tab[t].view # Nil
                           /\ use = Use("read", t, Nil, tab[t].view, tab[t].next # Nil, FALSE)
  BY <1>2, <1>3
<1>4. CASE \E t \in Tabs : /\ tab[t].view # Nil /\ tab[t].token # Nil
                           /\ use = Use("write", t, tab[t].token, tab[t].view, tab[t].next # Nil,
                                    tab[t].late)
  <2>1. PICK t \in Tabs : /\ tab[t].view # Nil /\ tab[t].token # Nil
                          /\ use = Use("write", t, tab[t].token, tab[t].view, tab[t].next # Nil,
                                    tab[t].late)
    BY <1>4
  <2>2. /\ use.kind = "write" /\ use.tab = t /\ use.cookie = cookie /\ use.token = tab[t].token
        /\ use.shown = tab[t].view /\ use.leaving = (tab[t].next # Nil)
        /\ use.late = tab[t].late
    BY <2>1
  <2>3. tab[t].next = Nil /\ cookie # Nil /\ session[cookie].maker = t =>
          tab[t].view.member = session[cookie].member
    BY <2>1 DEF TabInv, ShownOK
  <2>4. cookie # Nil /\ session[cookie].maker = t /\ session[cookie].known => tab[t].token = cookie
    BY <2>1 DEF TabInv, TokenOK, TabsAssumption
  <2>5. ~tab[t].late /\ cookie # Nil /\ tab[t].token = cookie /\ session[cookie].maker # t =>
          tab[t].view.member = session[cookie].member
    BY <2>1 DEF TabInv, LandOK, SeenOK, Seen
  <2> QED BY <1>2, <2>1, <2>2, <2>3, <2>4, <2>5
<1>5. CASE \E r \in Requests :
             /\ req[r].pc = "csrf" /\ req[r].kind = "write"
             /\ use = Use("write", req[r].tab, Fetched(r), req[r].shown,
                                         req[r].leaving, req[r].late)
  <2>1. PICK r \in Requests :
               /\ req[r].pc = "csrf" /\ req[r].kind = "write"
               /\ use = Use("write", req[r].tab, Fetched(r), req[r].shown,
                                         req[r].leaving, req[r].late)
    BY <1>5
  <2>2. /\ use.kind = "write" /\ use.tab = req[r].tab /\ use.cookie = cookie
        /\ use.token = Fetched(r) /\ use.shown = req[r].shown /\ use.leaving = req[r].leaving
        /\ use.late = req[r].late
    BY <2>1
  <2>3. req[r].tab \in Tabs /\ req[r].shown \in PageView
    <3>1. req[r] \in ReqType /\ ReqOK(req[r])
      BY DEF TabInv, TabTypeOK
    <3> QED BY <2>1, <3>1 DEF ReqType, ReqOK
  <2>4. cookie # Nil /\ Fetched(r) = cookie => req[r].cookie = cookie
    BY DEF Fetched
  <2>5. ~req[r].leaving /\ req[r].cookie # Nil /\ session[req[r].cookie].maker = req[r].tab =>
          req[r].shown.member = session[req[r].cookie].member
    BY <2>1 DEF TabInv, ShownOK
  <2>6. cookie # Nil /\ session[cookie].maker = req[r].tab /\ session[cookie].known =>
          req[r].cookie = cookie
    BY <2>1, <2>3 DEF TabInv, TokenOK, TabsAssumption
  <2>7. cookie # Nil /\ req[r].cookie = cookie /\ session[cookie].live => Fetched(r) = cookie
    BY DEF Fetched, Valid
  <2>8. ~req[r].late /\ cookie # Nil /\ req[r].cookie = cookie =>
          req[r].shown.member = session[cookie].member
    <3>1. Lands(req[r]) /\ Seen(req[r].shown) /\ req[r].shown # Nil
      BY <2>1 DEF TabInv, LandOK, SeenOK, ReqOK
    <3> QED BY <2>1, <3>1 DEF Lands, Seen
  <2> QED BY <2>2, <2>3, <2>4, <2>5, <2>6, <2>7, <2>8
<1> QED BY <1>1, <1>3, <1>4, <1>5

LEMMA UseIsValid ==
  ASSUME TabInv, TabsAssumption, NEW use \in Uses, SessionPasses(use)
  PROVE  cookie # Nil /\ session[cookie].live
BY UsesAre DEF SessionPasses, Valid, Public

LEMMA OwnSessionFollows == ASSUME TabInv, TabsAssumption PROVE OwnSessionHonoured
<1> SUFFICES ASSUME NEW use \in Uses, Verdict(use, Nil) = "csrf",
                    session[use.cookie].maker = use.tab, session[use.cookie].known
             PROVE  FALSE
  BY DEF OwnSessionHonoured
<1>1. SessionPasses(use) /\ ~CsrfPasses(use)
  BY VerdictIs
<1>2. use.kind = "write" /\ use.token # cookie
  BY <1>1, UsesAre DEF CsrfPasses
<1> QED BY <1>1, <1>2, UsesAre, UseIsValid

LEMMA WritesLandFollows == ASSUME TabInv, TabsAssumption PROVE WritesLandWhereShown
<1> SUFFICES ASSUME NEW use \in Uses, use.kind = "write", Verdict(use, Nil) = "passed",
                    session[use.cookie].maker = use.tab => ~use.leaving,
                    session[use.cookie].maker # use.tab /\ use.late => use.token # use.cookie
             PROVE  /\ session[use.cookie].member # Nil
                    /\ OrgOf[session[use.cookie].member] = OrgOf[use.shown.member]
  BY DEF WritesLandWhereShown
<1>1. SessionPasses(use) /\ CsrfPasses(use)
  BY VerdictIs
<1>2. use.token = cookie /\ use.cookie = cookie
  BY <1>1, UsesAre DEF CsrfPasses, Public
<1>3. use.shown.member = session[cookie].member
  BY <1>1, <1>2, UsesAre, UseIsValid
<1>4. use.shown.member # Nil
  BY UsesAre DEF PageView, TabsAssumption
<1> QED BY <1>2, <1>3, <1>4

Permitted(calls, permissions) == calls.reads \subseteq permissions /\ calls.writes \subseteq permissions

LEMMA CallsPermitted ==
  ASSUME NEW P, NEW R \in SUBSET P, NEW W \in SUBSET P
  PROVE  Permitted(Calls(R, W), P)
BY DEF Permitted, Calls

LEMMA WhenPermitted ==
  ASSUME NEW P, NEW holds, NEW calls, holds => Permitted(calls, P)
  PROVE  Permitted(When(holds, calls), P)
BY DEF Permitted, When, NoCalls, Calls

\* What each group of routes asks for.
LEMMA StaffRoutes ==
  /\ {OrderRoutes.list, OrderRoutes.find, OrderRoutes.create, OrderRoutes.update,
      OrderRoutes.fulfill} \subseteq StaffPermissions
  /\ {InventoryRoutes.balances, InventoryRoutes.summary, InventoryRoutes.trace,
      InventoryRoutes.movements, ReceiptRoutes.list, ReceiptRoutes.find, AlertRoutes.list}
       \subseteq StaffPermissions
  /\ {ProductRoutes.exported, ProductRoutes.list, ProductRoutes.find,
      CustomerRoutes.list, CustomerRoutes.find, SupplierRoutes.list, SupplierRoutes.find,
      ImportRoutes.errors} \subseteq StaffPermissions
  /\ {DashboardRoutes.overview, AnalyticsRoutes.summary} \subseteq StaffPermissions
BY DEF StaffPermissions, OrderRoutes, InventoryRoutes, ReceiptRoutes, AlertRoutes, ProductRoutes,
       CustomerRoutes, SupplierRoutes, ImportRoutes, DashboardRoutes, AnalyticsRoutes

LEMMA ManagerRoutes ==
  /\ StaffPermissions \subseteq ManagerPermissions
  /\ {OrderRoutes.confirm, OrderRoutes.cancel, InventoryRoutes.adjust, ReceiptRoutes.create}
       \subseteq ManagerPermissions
  /\ {ProductRoutes.create, ProductRoutes.update, ProductRoutes.image, ProductRoutes.removeImage,
      CustomerRoutes.create, CustomerRoutes.update, SupplierRoutes.create, SupplierRoutes.update}
       \subseteq ManagerPermissions
  /\ {ImportRoutes.preview, ImportRoutes.commit, DeliveryRoutes.list, DeliveryRoutes.find,
      DeliveryRoutes.retry, AuditRoutes.list} \subseteq ManagerPermissions
BY DEF ManagerPermissions, OrderRoutes, InventoryRoutes, ReceiptRoutes, ProductRoutes,
       CustomerRoutes, SupplierRoutes, ImportRoutes, DeliveryRoutes, AuditRoutes

LEMMA OwnerRoutes ==
  /\ ManagerPermissions \subseteq OwnerPermissions
  /\ {OrganizationRoutes.settings, TeamRoutes.members, TeamRoutes.invitations, TeamRoutes.invite,
      TeamRoutes.revoke, TeamRoutes.changeRole, TeamRoutes.remove} \subseteq OwnerPermissions
  /\ {DemoRoutes.reset, BillingRoutes.status, BillingRoutes.checkout, BillingRoutes.portal}
       \subseteq OwnerPermissions
BY DEF OwnerPermissions, OrganizationRoutes, TeamRoutes, DemoRoutes, BillingRoutes

LEMMA RolesCan ==
  ASSUME NEW r \in Roles
  PROVE  /\ StaffPermissions \subseteq PermissionsByRole[r]
         /\ r # "STAFF" => ManagerPermissions \subseteq PermissionsByRole[r] /\ Manages(r)
         /\ Manages(r) => r # "STAFF"
         /\ r = "OWNER" => OwnerPermissions \subseteq PermissionsByRole[r]
<1>1. /\ PermissionsByRole["STAFF"] = StaffPermissions
      /\ PermissionsByRole["MANAGER"] = ManagerPermissions
      /\ PermissionsByRole["OWNER"] = OwnerPermissions
  BY DEF PermissionsByRole
<1>2. r \in {"STAFF", "MANAGER", "OWNER"}
  BY DEF Roles
<1>3. "MANAGER" # "STAFF" /\ "OWNER" # "STAFF" /\ "MANAGER" # "OWNER"
  OBVIOUS
<1> QED BY <1>1, <1>2, <1>3, ManagerRoutes, OwnerRoutes DEF Manages

LEMMA ScreensPermitted ==
  ASSUME NEW r \in Roles, NEW calls \in WorkspaceContent(r)
  PROVE  Permitted(calls, PermissionsByRole[r])
<1> DEFINE P == PermissionsByRole[r]
<1>1. /\ StaffPermissions \subseteq P
      /\ r # "STAFF" => ManagerPermissions \subseteq P
      /\ Manages(r) => ManagerPermissions \subseteq P
      /\ r = "OWNER" => OwnerPermissions \subseteq P
  BY RolesCan
<1> HIDE DEF P
<1>2. /\ Permitted(Header(r), P) /\ Permitted(OverviewPage(r), P)
      /\ Permitted(AnalyticsPanels(r), P) /\ Permitted(Worklist(r), P)
  BY <1>1, StaffRoutes, ManagerRoutes, CallsPermitted
     DEF Header, OverviewPage, AnalyticsPanels, Worklist
<1>3. /\ Permitted(OrderList(r), P) /\ Permitted(OrderForm(r), P)
      /\ Permitted(OrderPreview(r), P) /\ Permitted(OrderActions(r), P)
  BY <1>1, StaffRoutes, ManagerRoutes, CallsPermitted
     DEF OrderList, OrderForm, OrderPreview, OrderActions
<1>4. /\ Permitted(InventoryPage(r), P) /\ Permitted(AdjustmentDrawer(r), P)
      /\ Permitted(ReceiptsPage(r), P)
  BY <1>1, StaffRoutes, ManagerRoutes, CallsPermitted
     DEF InventoryPage, AdjustmentDrawer, ReceiptsPage
<1>5. Permitted(ReceiptDrawer(r), P)
  BY <1>1, StaffRoutes, ManagerRoutes, CallsPermitted, WhenPermitted DEF ReceiptDrawer
<1>6. Permitted(ProductsPage(r), P) /\ Permitted(PartnersPage(r), P)
  BY <1>1, StaffRoutes, ManagerRoutes, CallsPermitted DEF ProductsPage, PartnersPage
<1>7. /\ Permitted(ImportsPage(r), P) /\ Permitted(IntegrationsPage(r), P)
      /\ Permitted(AuditPage(r), P)
  BY ZenonT(40), <1>1, StaffRoutes, ManagerRoutes, CallsPermitted, WhenPermitted
     DEF ImportsPage, IntegrationsPage, AuditPage
<1>8. /\ Permitted(SettingsPage(r), P) /\ Permitted(OrganizationCard(r), P)
      /\ Permitted(TeamCard(r), P) /\ Permitted(InvitationsCard(r), P)
      /\ Permitted(BillingCard(r), P)
  <2>1. CASE r = "OWNER"
    <3>1. OwnerPermissions \subseteq P
      BY <1>1, <2>1
    <3>2. Permitted(SettingsPage(r), P) /\ Permitted(OrganizationCard(r), P)
      BY <2>1, <3>1, OwnerRoutes DEF SettingsPage, OrganizationCard, When, Calls, Permitted
    <3>3. Permitted(TeamCard(r), P) /\ Permitted(InvitationsCard(r), P)
      BY <2>1, <3>1, OwnerRoutes DEF TeamCard, InvitationsCard, When, Calls, Permitted
    <3>4. Permitted(BillingCard(r), P)
      BY <2>1, <3>1, OwnerRoutes DEF BillingCard, When, Calls, Permitted
    <3> QED BY <3>2, <3>3, <3>4
  <2>2. CASE r # "OWNER"
    <3>1. Permitted(NoCalls, P)
      BY DEF Permitted, NoCalls, Calls
    <3> QED BY <2>2, <3>1
        DEF SettingsPage, OrganizationCard, TeamCard, InvitationsCard, BillingCard, When
  <2> QED BY <2>1, <2>2
<1> QED BY <1>2, <1>3, <1>4, <1>5, <1>6, <1>7, <1>8 DEF WorkspaceContent, P

\* The screens of a role ask for nothing that the role may not do.
LEMMA AllPermitted ==
  ASSUME NEW r \in Roles
  PROVE  RoleReads[r] \subseteq PermissionsByRole[r] /\ RoleWrites[r] \subseteq PermissionsByRole[r]
<1>1. \A calls \in WorkspaceContent(r) :
        calls.reads \subseteq PermissionsByRole[r] /\ calls.writes \subseteq PermissionsByRole[r]
  BY ScreensPermitted DEF Permitted
<1>2. RoleReads[r] = UNION {calls.reads : calls \in WorkspaceContent(r)}
  BY DEF RoleReads
<1>3. RoleWrites[r] = UNION {calls.writes : calls \in WorkspaceContent(r)}
  BY DEF RoleWrites
<1> QED BY <1>1, <1>2, <1>3

LEMMA OfferedFollows == ASSUME TabInv, TabsAssumption PROVE OfferedIsPermitted
<1> SUFFICES ASSUME NEW use \in Uses, NEW p \in Permissions(use), Verdict(use, p) = "role",
                    session[use.cookie].member = use.shown.member,
                    role[use.shown.member] = use.shown.role
             PROVE  FALSE
  BY DEF OfferedIsPermitted
<1>1. ~PermissionPasses(use, p)
  BY VerdictIs
<1>2. use.shown.member \in Members /\ use.shown.role \in Roles
  BY UsesAre DEF PageView
<1>3. p \in PermissionsByRole[use.shown.role]
  BY <1>2, AllPermitted DEF Permissions
<1>4. use.shown.member # Nil
  BY <1>2 DEF TabsAssumption
<1> QED BY <1>1, <1>3, <1>4 DEF PermissionPasses, Can

-----------------------------------------------------------------------------
(* What is proved of the tabs.                                               *)

\* However many tabs share the cookie, sign in and out, switch workspace, fetch and
\* lose requests, and whatever happens to the session and the roles meanwhile: a page
\* is refused for its token only when the session is not its own, or when it could
\* not know its token (lib/api-client.ts).
THEOREM OwnSessionsAreHonoured == TabSpec => []OwnSessionHonoured
BY TabsInvariance, OwnSessionFollows, TabsAssumption, PTL

\* No write passes the guards into another workspace than the one its page shows, but
\* from a page about to be replaced after its own change of the session, and from one
\* that had no token and fetched its first one when the session was no longer the one
\* it was mounted under.  A page that had its token when another tab changed the
\* session writes nowhere (readCsrfToken and apiRequest in lib/api-client.ts).
THEOREM WritesStayWhereShown == TabSpec => []WritesLandWhereShown
BY TabsInvariance, WritesLandFollows, TabsAssumption, PTL

\* Every screen asks, for every role, for what the API permits to that role
\* (auth/rbac.ts and features/*.tsx).
THEOREM WhatIsOfferedIsPermitted == TabSpec => []OfferedIsPermitted
BY TabsInvariance, OfferedFollows, TabsAssumption, PTL
=============================================================================
