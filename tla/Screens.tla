-------------------------------- MODULE Screens --------------------------------
(***************************************************************************)
(* A screen of the web client and one of its queries: the query cache, the     *)
(* commands of the screen, what each invalidates or writes into the cache when *)
(* it is answered, and the fetches that are on their way meanwhile.  Queries    *)
(* of a cache do not touch each other, so the model follows any one of them.    *)
(* The cache lives as long as the section is open (the query provider is part   *)
(* of the workspace shell, which each section mounts anew).                   *)
(***************************************************************************)
EXTENDS Endpoints, Integers

CONSTANTS
  Views,      \* pages and filters of a list, or records of a detail query
  Closed,     \* no view: the drawer, the search or the form is closed
  MaxCommands \* bound: commands submitted

ASSUME ScreensAssumption == Closed \notin Views /\ MaxCommands \in Nat

Reads ==
  [orders |-> ListOrders, orderDetail |-> FindOrder, balances |-> ListBalances,
   alerts |-> ListAlerts, summary |-> Summary, trace |-> TraceProduct,
   receipts |-> ListReceipts, receiptDetail |-> FindReceipt, products |-> ListProducts,
   customers |-> ListCustomers, suppliers |-> ListSuppliers,
   orderEditCustomer |-> FindCustomer, orderEditProduct |-> FindProduct,
   deliveries |-> ListDeliveries, deliveryDetail |-> FindDelivery,
   settings |-> Settings, team |-> ListTeam, invitations |-> ListInvitations,
   billing |-> BillingStatus, overview |-> Overview, analytics |-> Analytics,
   audit |-> ListAudit]

\* Their views are the records that commands of the screen are for.
Details == {"orderDetail", "receiptDetail", "deliveryDetail"}

\* The command palette in the header shares the cache of each screen.
HeaderSearch == {"orders", "products", "customers"}

Command(writes, refreshes, sets) ==
  [writes |-> writes, refreshes |-> refreshes, sets |-> sets]
Screen(queries, commands) == [queries |-> queries \cup HeaderSearch, commands |-> commands]
NoCommand == [c \in {} |-> Command({}, {}, {})]

\* An adjustment that leaves the alerts on the screen as they are.
InventoryWithoutAlerts == Screen(
  {"balances", "alerts", "summary", "trace", "products"},
  [adjust |-> Command(Adjust, {"balances", "summary"}, {})])

\* The screens: their queries, and what each command refreshes and sets.  The form of
\* an order reads its customer and products by their ids (order-form-drawer.tsx).
OrdersWorkspace == Screen(
  {"orders", "orderDetail", "customers", "products", "orderEditCustomer", "orderEditProduct"},
  [create |-> Command(CreateOrder, {"orders"}, {"orderDetail"}),
   update |-> Command(UpdateOrder, {"orders"}, {"orderDetail"}),
   transition |-> Command(TransitionOrder,
                          {"orders", "balances", "alerts", "summary", "trace"},
                          {"orderDetail"})])
InventoryWorkspace == Screen(
  {"balances", "alerts", "summary", "trace", "products"},
  [adjust |-> Command(Adjust, {"balances", "alerts", "summary"}, {})])
ReceiptsWorkspace == Screen(
  {"receipts", "receiptDetail", "products", "suppliers"},
  [receive |-> Command(Receive,
                       {"receipts", "movements", "balances", "alerts", "summary", "trace"},
                       {})])
ProductsWorkspace == Screen({"products"}, [saveProduct |-> Command(SaveProduct, {"products"}, {})])
PartnersWorkspace == Screen(
  {"customers", "suppliers"},
  [saveCustomer |-> Command(SaveCustomer, {"customers"}, {}),
   saveSupplier |-> Command(SaveSupplier, {"suppliers"}, {})])
ImportsWorkspace == Screen({}, [commit |-> Command(CommitImport, {"products"}, {})])
IntegrationsWorkspace == Screen(
  {"deliveries", "deliveryDetail"},
  [retry |-> Command(RetryDelivery, {"deliveries", "deliveryDetail"}, {})])
SettingsWorkspace == Screen(
  {"settings", "team", "invitations", "billing"},
  [invite |-> Command(Invite, {"invitations"}, {}),
   revoke |-> Command(RevokeInvitation, {"invitations"}, {}),
   changeRole |-> Command(ChangeRole, {"team"}, {}),
   remove |-> Command(RemoveMember, {"team", "invitations"}, {})])
OverviewWorkspace == Screen({"overview", "analytics", "orders", "alerts", "deliveries"}, NoCommand)
AuditWorkspace == Screen({"audit"}, NoCommand)

Screens == {OrdersWorkspace, InventoryWorkspace, ReceiptsWorkspace, ProductsWorkspace,
            PartnersWorkspace, ImportsWorkspace, IntegrationsWorkspace, SettingsWorkspace,
            OverviewWorkspace, AuditWorkspace}

VARIABLES
  screen, query, \* the open screen and the query followed
  shown,         \* the view of it on the screen, or Closed
  cache,         \* cached entry of each view
  sent,          \* the command under way of each form
  commits,       \* number of commands the server has committed
  submitted,     \* number of commands submitted
  due            \* history: the commit each view has to show

vars == <<screen, query, shown, cache, sent, commits, submitted, due>>

Nothing == -1
\* data: the commits the rows show; fetch: "idle", "asked" (not read yet) or
\* "read" (answer on its way, showing the commits in saw).
Empty == [data |-> Nothing, invalid |-> FALSE, failed |-> FALSE, fetch |-> "idle", saw |-> 0]
Commands == DOMAIN screen.commands
NotSent == [state |-> "idle", view |-> Closed, commit |-> 0]

Init ==
  /\ screen \in Screens /\ query \in screen.queries
  /\ shown = Closed
  /\ cache = [v \in Views |-> Empty]
  /\ sent = [c \in Commands |-> NotSent]
  /\ commits = 0 /\ submitted = 0
  /\ due = [v \in Views |-> 0]

InFlight(v) == cache[v].fetch # "idle"
Asked(e) == [e EXCEPT !.fetch = "asked"]
Entry(v, e) == cache' = [cache EXCEPT ![v] = e]
CacheOnly == UNCHANGED <<screen, query, shown, sent, commits, submitted, due>>

-----------------------------------------------------------------------------
(* Queries.                                                                 *)

\* A view that comes on the screen is fetched when it has no rows, has been
\* invalidated or its rows are older than the stale time.
Fresh(v) == cache[v].data # Nothing /\ ~cache[v].invalid
Show(v) ==
  /\ shown # v
  /\ shown' = v
  /\ \E old \in {TRUE, ~Fresh(v)} :
       IF old /\ ~InFlight(v) THEN Entry(v, Asked(cache[v])) ELSE UNCHANGED cache
  /\ UNCHANGED <<screen, query, sent, commits, submitted, due>>
Close ==
  /\ shown # Closed
  /\ shown' = Closed
  /\ UNCHANGED <<screen, query, cache, sent, commits, submitted, due>>

\* The retry button, and the fetch after the connection is back.
Refetch(v) ==
  /\ v = shown /\ ~InFlight(v)
  /\ Entry(v, Asked(cache[v])) /\ CacheOnly

Read(v) ==
  /\ cache[v].fetch = "asked"
  /\ Entry(v, [cache[v] EXCEPT !.fetch = "read", !.saw = commits]) /\ CacheOnly
Answered(v) ==
  /\ cache[v].fetch = "read"
  /\ Entry(v, [Empty EXCEPT !.data = cache[v].saw]) /\ CacheOnly

\* An attempt that fails is repeated; the last one leaves an error.
FetchFails(v) ==
  /\ InFlight(v)
  /\ \/ Entry(v, Asked(cache[v]))
     \/ Entry(v, [cache[v] EXCEPT !.failed = TRUE, !.fetch = "idle", !.saw = 0])
  /\ CacheOnly

-----------------------------------------------------------------------------
(* Commands.                                                                *)

\* The record the command is for matters to a detail query only.
Submit(c, v) ==
  /\ sent[c].state = "idle" /\ submitted < MaxCommands
  /\ query \in Details <=> v # Closed
  /\ sent' = [sent EXCEPT ![c] = [NotSent EXCEPT !.state = "asked", !.view = v]]
  /\ submitted' = submitted + 1
  /\ UNCHANGED <<screen, query, shown, cache, commits, due>>
Executed(c) ==
  /\ sent[c].state = "asked"
  /\ commits' = commits + 1
  /\ sent' = [sent EXCEPT ![c].state = "done", ![c].commit = commits']
  /\ UNCHANGED <<screen, query, shown, cache, submitted, due>>
\* Refused, or lost for good.  A command that is sent again is still under way.
Refused(c) ==
  /\ sent[c].state # "idle"
  /\ sent' = [sent EXCEPT ![c] = NotSent]
  /\ UNCHANGED <<screen, query, shown, cache, commits, submitted, due>>

\* invalidateQueries: a query on the screen is fetched again.  A fetch under
\* way is cancelled for it only if the query has rows already.
Invalidated(v) ==
  LET e == [cache[v] EXCEPT !.invalid = TRUE]
  IN IF v = shown /\ (e.data # Nothing \/ ~InFlight(v)) THEN [Asked(e) EXCEPT !.saw = 0] ELSE e

\* setQueryData: fetches under way are left alone.
SetTo(v, commit) ==
  [cache[v] EXCEPT !.data = commit, !.invalid = FALSE, !.failed = FALSE]

\* The keys a command invalidates: all views, of a detail query its record.
Refreshes(c, v) ==
  /\ query \in screen.commands[c].refreshes
  /\ query \in Details => v = sent[c].view
Sets(c, v) == query \in screen.commands[c].sets /\ v = sent[c].view

\* A saved partner refreshes the kind that is selected when the answer comes.
KindMayDiffer == screen = PartnersWorkspace /\ shown = Closed

\* What the command writes of the query.  Records of its own are in no cache yet.
Creating == {"create", "receive"}
Affects(c, v) ==
  /\ screen.commands[c].writes \cap Reads[query] # {}
  /\ query \in Details => v = sent[c].view /\ c \notin Creating

\* Queries that no answer refreshes although the command affects them.
LeftStale == {<<"adjust", "trace">>, <<"remove", "billing">>,
              <<"retry", "orders">>, <<"retry", "customers">>}

\* A fetch that the answer cannot cancel may end with older rows, and so may a
\* second command whose answer is put into the cache.
Overtaken(c, v) ==
  IF query \in screen.commands[c].sets
  THEN InFlight(v) \/ \E d \in Commands \ {c} : sent[d].state # "idle"
  ELSE InFlight(v) /\ (v # shown \/ cache[v].data = Nothing)

Promised(c, v) ==
  Affects(c, v) /\ <<c, query>> \notin LeftStale /\ ~Overtaken(c, v) /\ ~KindMayDiffer

CommandAnswered(c) ==
  /\ sent[c].state = "done"
  /\ \E selected \in {TRUE, ~KindMayDiffer} :
       cache' = [v \in Views |->
                   IF Sets(c, v) THEN SetTo(v, sent[c].commit)
                   ELSE IF Refreshes(c, v) /\ selected THEN Invalidated(v) ELSE cache[v]]
  /\ sent' = [sent EXCEPT ![c] = NotSent]
  /\ due' = [v \in Views |->
               IF Promised(c, v) /\ due[v] < sent[c].commit THEN sent[c].commit ELSE due[v]]
  /\ UNCHANGED <<screen, query, shown, commits, submitted>>

-----------------------------------------------------------------------------
Next ==
  \/ \E v \in Views : Show(v) \/ Refetch(v) \/ Read(v) \/ Answered(v) \/ FetchFails(v)
  \/ Close
  \/ \E c \in Commands : Executed(c) \/ Refused(c) \/ CommandAnswered(c)
  \/ \E c \in Commands, v \in Views \cup {Closed} : Submit(c, v)

Spec == Init /\ [][Next]_vars

\* Rows that stay on the screen, with no fetch under way and no error, show every
\* command of the screen whose answer promised it: what the server wrote and the
\* query reads has been fetched again or put into the cache.
RestsCurrent ==
  \A v \in Views :
    v = shown /\ ~InFlight(v) /\ ~cache[v].failed => cache[v].data >= due[v]
=============================================================================
