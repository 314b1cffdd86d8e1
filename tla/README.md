# StockPilot: a TLA+ model of the inventory, order and tenancy core

StockPilot is a multi-tenant inventory and order system: a Next.js web client
(`src/apps/web`), a NestJS API on PostgreSQL (`src/apps/api`), and a pg-boss
worker that runs in the API process when `QUEUE_DATABASE_URL` is set. Every
domain command is one database transaction (`TenantDatabase.withTenant`, READ
COMMITTED) that takes row locks or advisory locks one statement at a time. What
is hard about it is therefore the order in which concurrent requests, jobs,
webhooks and retries take their steps, and that is what these modules model.

## Inventory of the system

| Component | State | Operations | Talks to | What is hard | What makes it correct |
|---|---|---|---|---|---|
| Inventory commands (`inventory/*-command.service.ts`, `inventory-locks.ts`, `inventory-projection.ts`) | balance rows (`on_hand`, `reserved`), the append-only stock ledger, goods receipts | receipt, adjustment | alerts, idempotency, audit | concurrent writers of one balance, several balances per command, a missing balance row, INTEGER overflow, a duplicate receipt number | reserved ≤ on-hand, the ledger replays to the balance, all lines or none |
| Low-stock alerts (`inventory-reconciliation.service.ts`) | alert rows, at most one OPEN per product | reconcile inside each stock command; cron job over every balance | products (reorder point), jobs | reorder point read before the balance is locked; a product PATCH does not reconcile | one open alert, open exactly when stock is low, stale alerts are repaired |
| Sales orders (`orders/`) | order status, order lines | create draft, edit draft, confirm, fulfill, cancel | balances, ledger, alerts, idempotency | draft edited while confirmed; cancel races fulfill; multi-line partial failure; lock cycles | the state machine, reserved stock = confirmed lines, one sale per line |
| Idempotency (`idempotency/idempotency.ts`) | idempotency records with a 24 h expiry, advisory locks | execute a command once per key, purge expired records | every command with an `Idempotency-Key` | response lost after the commit; duplicate in flight; record purged while the client still retries | a key takes effect at most once, a replay answers as the first did |
| Command intents (`web/hooks/use-command-mutation.ts`) | the pending command of a form, in memory and in `sessionStorage` | submit, retry, restore after a reload, give up after 23 h | idempotency over HTTP | unknown outcomes, reloads while a request is in flight, two mounted forms sharing one stored intent | the key and payload survive until the outcome is known |
| Storefront deliveries (`integrations/`) | delivery rows (status, attempts, order) | webhook, manual retry, queued retry, recovery | idempotency, orders, jobs | duplicate webhooks, worker against manual retry, enqueue lost after the commit, error inside a savepoint | one order per delivery, a failed delivery is retried or at its limit |
| Jobs (`jobs/job-runner.service.ts`) | pg-boss queues | enqueue, work with retries and dead letter, cron | deliveries, reconciliation | a job that fails for good, a restart between commit and enqueue | at-least-once execution, one pending retry per delivery |
| Team (`team/`) | memberships, invitations | invite, revoke, accept, change role, remove | billing (seat limit), sessions | accept racing revoke; two last Owners; last seat | never without an Owner, never over the seats, an invitation ends once |
| Billing (`billing/`, SQL `stockpilot_sync_subscription`) | subscription, processed Stripe events | checkout, portal, webhook | team (entitlements), integrations | events duplicated, reordered, for another customer | an event applied once; plan follows the subscription |
| Sessions (`auth/auth.service.ts`, `session.guard.ts`) | sessions | signup, login, demo login, switch workspace, logout | team, demo reset | the cap on active sessions is enforced by separate statements, before the new session exists | the cap is missed by no more than the requests that run at once; a login never ends the newest sessions |
| Throttle and rate limits (`auth-throttle.service.ts`, `rate-limiter.ts`) | in-memory maps | check, record, clear, sweep, evict | login, every request | check and record are separated by an `await`; window boundaries; eviction | failures inside the window block, whatever address the client claims; memory bounded |
| Product import (`imports/`) | import runs, products | preview, commit | catalog, idempotency | a run committed by two requests, or taken back by a reset; stale preview | products of a run created once, all or none |
| Demo reset (`demo/`) | every row of the demo tenant | manual reset, reset when due | all tenant tables | the two entrances take different locks; the rows come back under the same ids; foreign keys of concurrent commands | the fixture is restored as a whole |
| Organizations (`organization/`) | organizations, owner memberships | create workspace | sessions | slug collisions inside one transaction | a workspace has its Owner |
| Catalog (`catalog/`) | products, customers, suppliers, product images | create, update, image upload | alerts (reorder point), storage | image row and stored file are two systems | sku unique per tenant; a product's image is stored |
| Read side (`analytics/`, `dashboard/`, `audit/`, `health/`, `inventory-query`, `order-query`) | none | queries | the screens | what a screen shows is as old as its read | what a command wrote is read again |
| HTTP edge (`configure-application.ts`, guards, filters, `openapi/`, `observability/`) | none but the limits above | authentication, RBAC, CSRF, problem details | every route; the client's token and role checks | tabs share the cookie and not the token; the client repeats the role checks in its own words | a write lands where it was meant; what is offered is permitted |
| Rest of the web client (`web/app`, `features`, `components`) | the query cache of a section, open drawers, view state | show a list or a detail, refetch, submit, refresh after a command | API | fetches and commands of one screen answered in any order; a screen that forgets a list a command has changed | rows at rest show the commands that were reported as done |

The hazards that follow from this table are listed, each at its line, in
`PROJECT.json` under `hazards`, with the properties that would catch them.

## Modules

| Module | Models | Checked with | Proofs |
|---|---|---|---|
| `StockPromise` | the abstract promise: commands on stock and orders are atomic | as `PromiseKept` of `StockOrders` | |
| `StockOrders` | inventory commands, alerts, sales orders, with their row locks | `MCStockOrders` | `StockOrdersProofs` |
| `Idempotency` | `executeIdempotent` | `MCIdempotency` | in `CommandIntentsProofs` |
| `CommandIntents` | `useCommandMutation`, extends `Idempotency` and is shown to implement it | `MCIdempotency`; `MCCommandIntents` for the violation | `CommandIntentsProofs` |
| `Deliveries` | webhooks, retries, retry queue, recovery job | `MCDeliveries` | `IntakeProofs` |
| `Team` | memberships and invitations | `MCTeam` | `TeamProofs` |
| `Billing` | checkouts, Stripe and its webhooks | `MCBilling` | `BillingProofs` |
| `RateLimiter`, `AuthThrottle`, `ClientAddress` | the in-memory limiter and throttle and `resolveClientAddress`, as operators | in `MCLogins` | in `LoginsProofs` |
| `Logins` | every way to a session, and logout, through those three | `MCLogins` | `LoginsProofs` |
| `Tables` | what concurrent transactions see of each other's rows, with deletes and foreign keys | in `MCCatalog` | in `CatalogProofs` |
| `Catalog` | products, images, imports, adjustments and the two demo resets, on `Tables` | `MCCatalog` | `CatalogProofs` |
| `Endpoints` | which kinds of rows each endpoint reads and writes | in `MCScreens` | in `ClientProofs` |
| `Screens` | the query cache of every screen and the refreshes after its commands | `MCScreens` | `ClientProofs` |
| `Access` | the permissions of each role, of each route, and the routes each screen calls for a role | in `MCTabs` | in `ClientProofs` |
| `Tabs` | the tabs of a browser, their pages, session cookie and CSRF tokens, against the guards of the API | `MCTabs` | `ClientProofs` |
| `Forms` | the five drawers that save something, and what is typed into them | `MCForms` | `ClientProofs` |
| `LineEditor` | the product lines of orders, receipts and adjustments | `MCForms` | `ClientProofs` |
| `ImportWizard` | the import page | `MCForms` | `ClientProofs` |
| `ProductCsv` | the CSV files: export, parser and preview | `MCForms` | `IntakeProofs` |
| `SearchBoxes` | the command palette and the search box of the order register | `MCForms` | `ClientProofs` |

### How a transaction is modelled

All server modules use the same shape. Each worker `w` has a record `tx[w]`:
`pc` is the statement it will execute next, the other fields are the local
variables of the TypeScript function that survive an `await`, and what it has
written without committing. Committed rows are variables of their own. A
statement that only reads or writes is a step; a `SELECT ... FOR UPDATE` or an
advisory lock is a guard on a lock variable, so a worker that finds the lock
taken simply has no step until it is released. `Commit` publishes everything the
transaction has written at once and releases its locks; every error path is a
rollback; `Crash(w)` is a lost connection, a transaction timeout or the end of
the process, and may come between any two statements. READ COMMITTED appears as
what it is: a statement reads the rows as they are committed when it starts,
and a row that a statement has read without a lock may change before the next.

Consecutive statements are one step only where nothing between them can be
observed: the writes of a transaction to rows it holds locked, and reads that
follow in the same locked section.

### StockOrders

| Code | Model |
|---|---|
| `inventory_balances`, `stock_movements`, OPEN `low_stock_alerts`, `products.reorder_point`, `is_active` | `balance`, `rows` (which rows exist), `ledger`, `openAlerts`, `reorder`, `active` |
| `sales_orders`, `sales_order_lines`, `goods_receipts` | `status`, `lines`, `receipts` |
| row locks; the unique index on receipt numbers | `balanceLock`, `orderLock`, `receiptLock` |
| `projectInventory`, `isInventoryProjection`, `canTransition`, `reconcileLowStockTransition` | `ProjectInventory`, `IsProjection`, `CanTransition`, `ReconcileLowStockTransition` |
| `confirm`, `fulfill`, `cancel` (`OrderTransitionService`) | `RequestTransition`, `LockOrder`, `ReadLines`, then per line `AskBalance` and `ProcessLine` |
| `updateDraft` | `RequestEdit`, `LockOrder`, `ReplaceDraftLines` |
| `receiveStock`, `adjustStock` | `RequestReceipt`, `InsertReceipt`, `ProcessLine`; `RequestAdjustment`, `ProcessLine` |
| `reconcileOrganization` (cron, via the reconcile job) | `RequestReconcile`, `ProcessLine` |
| thrown errors | `RejectOrder`, `RejectReceipt`, `RejectLine` |

The order in which lines are processed is part of the model: the code sorts
product ids with `localeCompare`, and `NextProduct` takes the least product left.
`AskBalance` is a step of its own because `lockOrderBalance` reads the reorder
point in the snapshot of the statement that then waits for the row lock: the
point may be older than the balance. An INTEGER column that overflows is
`Fits`: the statement fails and the command is rolled back.

### Idempotency and CommandIntents

`Idempotency` has one record per key and one transaction per request, with the
advisory lock, the purge of all expired records (`Purge`, which waits for the
row locks of another transaction that purges), the lookup, the fingerprint
comparison, the work and the insertion of the record as separate steps. The
work is opaque: a committed effect is an entry in `effects[key]`. `Arrive` is
the request as the server accepts it, and `Send` the same restricted by what
callers are assumed to do (`RetryWindow`).

`CommandIntents` uses the server's actions as they are and adds the browser: the
pending intent in memory (`hook`) and in `sessionStorage` (`stored`), route
changes (`Unmount`), reloads, a clock that can be moved (`MoveClock`), requests
given up wherever they are (`OnNetworkError`, while the server goes on with
them), and the three ways an intent ends. The browser sends with `Arrive`, not
`Send`: that it never leaves the server's retry window is what the refinement
`ServerUse` says, and nothing in the module assumes it.

### Deliveries

A delivery is a status and an attempt counter. A webhook holds the advisory lock
of its id, a retry (manual or by a job) the row lock of the delivery.
`Attempt(w, status)` is `createStorefrontDraftOrder` inside its savepoint, with
either outcome. What follows a commit - enqueueing a retry, acknowledging the
job - is a step after it, and may be lost by a crash. The retry queue is
modelled from how the code uses pg-boss: singleton keys whose slot lasts a
while (`recent`), a bounded number of runs, expiry of a job whose worker is
gone. `StartRecovery`, `CheckPending`, `RecoverDelivery` are the recovery job,
with the check for a pending job and the enqueue as two steps, as in the code.

### Team

Every command but `revokeInvitation` takes the advisory lock
`team:<organization>`; the modelled steps are the request (with what is read
before the lock), the lock, the checks and the writes. The effective plan
(`seats`) changes at any time, because a subscription webhook takes no team
lock, and an invitation expires at any time. `joined[u]` distinguishes the
memberships a user has had one after the other, because a command names a
membership row and not a user. `highest` is history: the largest seat limit so
far.

### Billing

| Code | Model |
|---|---|
| the `organization_subscriptions` row, `billing_webhook_events`, the audit rows | `row`, `claimed`, `audit` |
| `createCheckoutSession` | `StartCheckout` (reads the row), `CreateCustomer` (Stripe, inside the transaction), `UpdateRow` or `UpsertRow`, `OpenSession` (Stripe, after the commit), `AbandonCheckout` |
| `handleWebhook`, `stockpilot_sync_subscription` | `ReceiveEvent`, `Claim` or `KnownEvent`, `CheckCustomer`, `Apply` or `Drop`, `Crash` |
| `effectivePlan` | `EffectivePlan` |

Stripe is external: `Subscribe` and `ChangeSubscription` make a new version of a
subscription, whose event carries what the subscription then was. Every
published event may be delivered at any time, by several handlers at once, and
again after it was answered. The statements of the sync function are steps of
their own, because each reads what is committed when it starts: a checkout may
commit between the comparison of the customer and the upsert. `newest` and
`overtaken` are history, to say "in order".

### Logins

| Code | Model |
|---|---|
| `FixedWindowRateLimiter.consume`, its sweep and eviction | `Consume`, `SweepBuckets`, `BucketRoom` |
| `AuthThrottleService`: `checkAttempt`, `recordFailure`, `clearFailures` | `Blocked` and `LiftBlock`, `RecordFailure`, `ClearFailures` |
| `resolveClientAddress`, CIDR matching, IPv4-mapped addresses | `ResolveClientAddress`, `Contains`, `Value` |
| `login` before and after `verifyPassword` | `Login`; `WrongPassword`, `RightPassword` |
| `signup`, `demoLogin`, `switchWorkspace` and whatever else issues a session | `Signup` and `CreateAccount`, `DemoLogin`, `SwitchWorkspace` |
| `issueSession` | `ReadActive` (with the deletion of expired rows), `RevokeExcess`, `InsertSession` |
| `SessionGuard`, `RateLimitGuard` | `Active`, `Enforce` |
| `revokeSession` | `Logout`, `RevokeSession` |

JavaScript runs to the next `await` without interruption, so the check of the
throttle and the limiter is one step and the verification, which is awaited, ends
in another. The three statements of `issueSession` share no transaction and are
three steps. A map is a function whose domain is the tracked keys; ties between
equally old entries are left open. `Seen` are the addresses the server may take
for a client that calls directly or through the proxy with a header it has begun
itself.

### Catalog

The demo workspace, because only there are rows deleted and written again under
the same identifiers, beside everything else that may run. `Tables` is the
READ COMMITTED discipline for such rows: a transaction's own deletions and
insertions (`del`, `ins`), what a statement sees (`Visible`), and a statement
that waits for a row and then finds what has become of it (`Seen`, `Versions`).

| Code | Model |
|---|---|
| `stockpilot_reset_demo_data`, table by table | `DeleteTable`, in the order of `Deleted` |
| `seedDemoFixture`, one row of each kind | `Fixture`, `Seed` |
| `reset` (manual); `resetIfDue` (a demo login) | `RequestReset`; `RequestAutomatic`, `Recheck` |
| foreign keys | `Restricted` (movements keep their product), `Referred` and `Removed` (KEY SHARE locks) |
| `preview`, `commit` of an import | `RequestPreview`; `RequestImport`, `InsertProduct`, `MarkCommitted` |
| `createProduct`; `adjustStock` | `RequestCreate`, `InsertProduct`; `RequestAdjust`, `EnsureBalance`, `LockBalance`, `WriteStock` |
| `uploadProductImage`, `deleteProductImage` | `RequestUpload`, `StoreFile`, `SetImage`, `CommitImage`, `DestroyFile` |

`CommitImage` has three outcomes: committed, rolled back, and committed but
reported as failed, which is the one in which the code deletes a file that is in
use. A deadlock of the database, where one transaction is aborted, is a `Crash`.

### Endpoints and Screens

`Endpoints` lists, for each endpoint, the kinds of rows its transaction reads or
writes. `Screens` takes a screen and one of its queries - queries of a cache do
not touch each other - and follows the cache entry of each view (a page, a
filter, a record): its rows, whether it is marked invalid, failed, being fetched,
and what the answer on its way has seen. The rows are represented by the number
of commands the server had committed when they were read.

| Code | Model |
|---|---|
| `usePage`, `useQuery` and the URL that selects the view | `Show`, `Close`, `Refetch`; `Read`, `Answered`, `FetchFails` |
| `staleTime` | `Fresh`: a view may be taken as fresh or as old, unless it is invalid |
| `invalidatePageQueries`, `invalidateQueries` | `Refreshes`, `Invalidated` |
| `setQueryData` | `Sets`, `SetTo` |
| the mutations of the ten screens and what each refreshes | `OrdersWorkspace` ... `SettingsWorkspace` |
| `useCommandMutation` and its callbacks | `Submit`, `Executed`, `Refused`, `CommandAnswered` |

TanStack Query is external and modelled from how it is used: an invalidation
fetches a view on the screen again and cancels the fetch under way only if the
view has rows; a fetch off the screen goes on.

`RestsCurrent` is about what an answer *promises*: the rows it affects
(`Affects`) are due to be shown, with three exceptions. Each was found because
the property fails without it, and each is what the code does:

* `LeftStale`: the product trace after an adjustment
  (`inventory-workspace.tsx:233`), the member count of the billing card after a
  removal (`team-card.tsx:73`), and the orders and customers of the header search
  after a delivery was retried (`integrations-workspace.tsx:62`) are refreshed by
  no one before they are stale anyway.
* `Overtaken`: the first fetch of a view, and a fetch of a view that is no longer
  on the screen, are not cancelled by an invalidation; their older rows land and
  clear the mark. An order detail put into the cache can be overwritten by a
  fetch that was under way, or by the answer of another command.
* `KindMayDiffer`: `partners-workspace.tsx:65` refreshes the kind that is selected
  when the answer comes, not the one that was saved.

### Access and Tabs

| Code | Model |
|---|---|
| `rbac.ts`; `@RequirePermission` of every controller | `StaffPermissions` ... `Can`; `OrderRoutes` ... `DemoRoutes` |
| the role checks of every screen (`canManage`, `canAdjust`, `role === 'OWNER'` ...) | `OrderActions` ... `BillingCard`, collected in `RoleReads` and `RoleWrites` |
| `SessionGuard`, `CsrfGuard`, `PermissionGuard` | `SessionPasses`, `CsrfPasses`, `PermissionPasses`, in this order in `Verdict` |
| `apiRequest`, `readCsrfToken`, `clearCsrfToken` | `Ask`, `GotToken`, `Answer`; `Fetched`; `TokenAfter` |
| sign-in, sign-up and demo forms, `/create-workspace`, `/invitations/accept` | `LoginForm`, `SignupForm`, `DemoLoginCard`, `SetupForm`, `AcceptForm` |
| `WorkspaceSwitcher`, `DemoRoleSwitcher`, `WorkspaceSignOut` | of the same names, `SignOut` |
| `WorkspaceShell`; the router and the reload after an answer | `Mount`; `Visit`, `Arrive`, `Open` |
| `AuthController` and the services behind it | `Serve` and its handlers |

A page keeps two things in memory: what `WorkspaceShell` showed when it was mounted
(`view`) and the module variable `csrfToken` (`token`). The cookie belongs to all
tabs. A request that signs in or out is followed through the network, since
answers set the cookie in any order; what the sections read and write changes
nothing here, so `Uses` is the set of such requests that could leave now, each with
what the page showed when it was asked for, and the properties judge each by the
guards. A token is the session it was derived from. Two histories say how a page came by what it
has: the session it was mounted under (`view.session`), and whether it fetched the first
token of its module when the cookie was no longer the one of that session (`late`). A
request that fetches a token carries its page's mark, and the page keeps it with the
token.

Each property has exceptions, found because it fails without them, and each is what
the code does:

* `OwnSessionHonoured` is about sessions the page itself has made. The demo login
  card (`demo-login-card.tsx:41`) uses `fetch` and neither adopts nor clears the
  token, unlike what `api-client.ts:105` says of demo logins: after a session has
  ended and the same page load has been used to enter the demo again, writes are
  refused until a reload. A token that is being fetched while the session changes
  is kept although it is of the old one. And a page whose session another tab has
  replaced keeps the stale token, so all of its writes are refused until it is
  reloaded, which is how `WritesLandWhereShown` comes about.
* `WritesLandWhereShown`: a page that has not written before has no token and fetches
  one with the cookie of the moment; if another tab has switched workspaces by then,
  its first write, and what it writes with that token afterwards, lands there
  (`late`). Between the answer to a switch of its own and the page it loads, the old
  page has the new token (`leaving`). A page that had its token, or was fetching it,
  when the other tab switched has no exception: its writes are refused, and they would
  land elsewhere if `CsrfGuard` let any token pass, which is the mutant of this
  property, or if `readCsrfToken` fetched anew for each write. Reads carry no token:
  after another tab's switch a page shows rows of the other workspace under the old
  header.

`OfferedIsPermitted` has none beyond a membership or role that has changed since the
page was mounted.

### Forms

A behaviour follows one of the five drawers. What a user types is a set of numbered
entries; an entry is on the form, in the request under way, in the request that
`useCommandMutation` remembers, saved, or left behind by the user.

| Code | Model |
|---|---|
| the URL of the orders section; `editing` and its row elsewhere | `at`: the list, a record, or the form for one |
| react-hook-form: the values it was reset to, and the dirty ones | `fields.base`, `fields.typed` |
| `imageFile` | `image` |
| the effects that reset a form, and what they depend on | `OrderDeps`, `ProductDeps`, `PartnerDeps`, `Rerender` |
| `fieldset disabled`, `createLocked`, `outcomeUnknown` | `OrderFields` ... `PartnerFields`, `Locked` |
| `close`, `closeFormSafely`, `UnsavedChangesGuard` | `OrderClose` ... `PartnerClose`, `CloseFormSafely`, `Reload` |
| `useCommandMutation.mutate` and its answers | `Mutate`, `CreateSucceeds`, `SaveRefused`, `SaveLost`, `Resolve`, `Restored` |
| the plain mutations for edits, products and partners | `Request`, `UpdateSucceeds`, `RowSaved`, `ImageFails` |
| refetches; "Review latest order" after a conflict | `RowFetched`, `ReviewLatest` |

`NothingLost` and `SavedWhereTyped` exempt what is `exposed`, which is what the code
does in two places. Products and partners let the user type, and drop a file, while
a save is pending, and its late answer closes whatever form is open by then
(`products-workspace.tsx:110`, `partners-workspace.tsx:62`) or opens the first record
again (`:98`), with an image that was dropped for the second one still selected. And
a new order that was refused is what the form was last reset to, so the form is not
dirty and a reload loses it without asking. Back, a link or the command palette
leave a dirty order form without asking as well: only `beforeunload` is guarded
(`form-controls.tsx:67`). The model counts that as the user's own doing.

### LineEditor

| Code | Model |
|---|---|
| `useCatalogSearch`: the page of results, the remembered products | `SearchFor`, `results`; `Remember`, `chosen` |
| `productQueries` of the order form | `ordered`, `loaded`, `ProductLoaded` |
| the options of each line's select | `OrderChoices`, `ReceiptChoices`, `AdjustmentChoices` |
| picking, adding and removing lines; the form starting again | `Pick`, `AddLine`, `RemoveLine`; `ValuesFromOrder`, `RestoreLines`, `EmptyLines` |

`LinesAgree` excepts products of an order line that were neither picked nor looked
up. Receipts and adjustments offer a "Saved product" for them, the order form does
not: of a restored draft, or of the lines kept when "Review latest order" has
fetched a version without them, the select says "Choose product" while the form
holds the product and would send it (`order-form-drawer.tsx:112`).

### ImportWizard and ProductCsv

`ImportWizard` is the page: a file gets a version when it is selected
(`SelectFile`, `FileRead`), a preview remembers the version it is for
(`PreviewCsv`, `PreviewAnswered`), and a commit whose outcome is unknown goes first
(`CommitValidRows`, `RecoverCommit`, `ReloadWizard`).

`ProductCsv` is the file. A text is a sequence of the symbols that the parser tells
apart. `exportProductsCsv` and `csvCell` write it; a spreadsheet may save it again
(`Spreadsheet`: all cells quoted, other line ends, a renamed column, a blank line);
it may be cut short at any symbol (`CutShort`). `Catalogs` are the lists of products
that are exported, of the form `ProductInputSchema` stores (`Stored`: a SKU of ordinary
characters, names and descriptions trimmed), and `Workspaces` the SKUs of the workspaces
that read a file. The branches of `parseCsv` are one
action each; `Refuse` and `Preview` are what `parseProductCsv` and `preview` make of
the records. `ProductsComeBack` relates the two ends: the products that come back are the
missing ones at the rows where they were, the errors are at all others; of a file cut
short every row but the last is as it would have been; and a file is refused only if it
was cut short or is too long. What it does not promise is
what the code does not do: `is_active` is exported and not read, so inactive products
come back active; row numbers count records without blank ones, so a blank line in
the middle shifts the numbers of the errors after it, although
`product-csv-parser.spec.ts:4` speaks of source row numbers; and a text with a lone
carriage return, which only another client of the API can store, is exported
unquoted and read as two rows.

### SearchBoxes

The palette searches for a text a moment after it was typed (`InputSettles`) and
opens a result by a link or by Enter (`OpenResult`, `OpenFirst`). The register's box
writes its text into the URL after a pause (`SearchSettles`) and takes it from there
when the URL changes (`UrlChanges`). What is typed while the router is on its way is
replaced by the URL's text (`orders-workspace.tsx:86`); `ListsWhatIsTyped` says only
that the two agree at rest.

## What is checked

Run a configuration with `tlc -config X.cfg MCModule.tla`.

| Run (`.cfg`) | Shows | Instance |
|---|---|---|
| `stock_orders` | no overselling, `reserved` is the sum of the confirmed lines, one sale per fulfilled line, locks are waited for in one order (no deadlock of the database), the ledger replays to the balance, an alert is open exactly when stock is low, types and column width; `PromiseKept`: the committed rows behave as if each command were atomic | 2 orders, 1 receipt, adjustments and reconcile over 2 products, one without a balance row, 2 workers, crashes anywhere |
| `stock_liveness` | no command waits for ever; once reorder points stay put and jobs are no longer lost, every alert is right for good | 1 order over 2 products, 2 workers, a reorder point edited at any time |
| `idempotency` | a key takes effect at most once; a success is answered only for the payload that was carried out; a command that took effect is still held by the browser unless its success was shown or the user resolved it; a refusal is final and a success real; the browser implements `Idempotency` | any caller: 2 keys, 2 payloads, 2 requests, clock up to 6; a form, mounted and unmounted at will: 1 command, the browser's clock moved by up to 1 |
| `intents_remount` | violation, see *Findings* | 2 instances of the form's hook |
| `deliveries` | one order per delivery that succeeded, every attempt counted once; a failed delivery is retried until it succeeds or has used its attempts | 2 webhooks, 1 manual retry, 2 jobs, 2 handlers, 1 crash, fairness |
| `team` | the workspace has an owner, seats are not outgrown, an invitation admits once, no second open invitation per email | 2 owners and a third account, 2 invitations, 2 workers, limits 2 and 3 |
| `billing` | an event changes the subscription once, only a replaced customer's events are dropped, events in order leave the row as Stripe has it, no checkout grants Pro | 2 checkouts, 2 customers, 2 subscriptions with 2 versions, an unknown price, 2 webhook handlers |
| `logins` | guesses at a password, bursts through the limiter and active sessions are bounded, whatever runs at once | 2 accounts, 1 client behind a proxy with 3 kinds of header, 2 requests at once, 4 requests, 4 ticks |
| `catalog` | the fixture comes back as a whole; stock and ledger agree; an import is in as a whole; an image in use is stored | 3 transactions, 3 requests of any kind, failures at any statement |
| `screens` | rows at rest on a screen show the commands that promised it | all 10 screens, each of their queries, 2 views, 2 commands |
| `forms` | what is typed is not lost, and is saved where it was typed; a line shows the product it holds; the import page shows the file selected; exported products come back; a search lists what is typed | one part followed at a time: 2 records, 2 entries, 2 saves; 2 products on 2 lines; 3 files; names and descriptions of 3 symbols; 3 texts |
| `tabs` | a page's own session never has its writes refused; a write lands in the workspace its page showed; what a screen offers to a role is permitted to it | 2 tabs with 2 requests, an account with two workspaces, the demo with two roles; 3 beginnings, each with 1 or 2 more sessions and a change from elsewhere |

### Why the bounds are enough to be interesting

* Two workers make every pairwise race. A lock cycle of two transactions needs
  two balances and two orders, which `stock_orders` has; longer cycles are
  excluded by the proof of `WaitsUphill`, for any number.
* Both orders want the only piece of the stocked product, so that confirmation is
  refused in one order of events and not in the other, and the other product has
  nothing before a receipt or an adjustment.
* `MaxOnHand = 1` is the width of the column, scaled down: receipts and
  adjustments reach it and the next one takes the overflow path. `MaxLedger` only
  bounds receipts and adjustments (their requests are not begun beyond it);
  `stock_liveness` sets it to 0, because its questions are about orders.
* Each of the two runs leaves something to the other. `stock_orders` has
  `ReorderPoints = {}`: that a reorder point is edited while a command evaluates the old
  one is met only in `stock_liveness`, by `AlertsCatchUp`. `stock_liveness` has no
  receipts: a receipt that waits for another of the same number is outside
  `EveryCommandEnds`, and it is `WaitsUphill` that has such waits.
* The hours of the idempotency runs are scaled: `Retention` 3 for 24 h,
  `RetryWindow` 2, `MaxDelay` 1, `Recovery` 1 for 23 h, `Skew` 1. What matters
  is `WindowAssumption`, `RetryWindow + MaxDelay <= Retention`, and
  `SkewAssumption`, `Recovery + Skew <= RetryWindow`; the instances satisfy both
  with equality, so an off-by-one in either direction would be seen. `MaxTime`
  lets a record expire, be purged and a new request of another key follow.
* `MaxAttempts = 2` and `RetryLimit = 1` are for 7 and 5: the webhook's attempt and one
  of a job, whose second run makes up for a crash in the first or finds nothing left to
  do. A crash before the enqueue, or a job that the queue loses, leaves a failed delivery
  that no job is for, which is when recovery has to take over.
* `SeatLimits = {2, 3}` with two members at first lets the last seat be invited
  for, taken, and the limit fall below the members.

* `logins`: with a limit of 1 failure, 1 active session, 1 throttle entry and 2
  buckets every limit is reached and every map overflows; 2 requests at once make
  every race between check and record, and between the statements of
  `issueSession`. The window of 3 ticks within a horizon of 4 lets failures age.
* `catalog`: two resets and a third transaction that inserts, updates or refers to
  rows between their statements. The file to import has a sku in common with the
  seeded run and one of its own; the seeded product has stock, a movement and
  room for an image.
* `screens`: two views suffice for a view on the screen and one off it, two
  commands for one that overtakes another. `Touched` leaves out the queries that
  no command of their screen affects: nothing is ever due of them.
* `tabs`: two tabs suffice for a session changed under a page that shows another.
  One beginning has no account yet, one an account with two workspaces, one a
  demo session; `left` counts the sessions and changes still allowed.
* `forms`: a lost or misplaced entry needs two records and an answer that comes
  late, and an entry for each. Three symbols put each special character at either
  end and in the middle of a text, and next to each other; the products after it
  show whether the row ends where it should; `MaxRows = 3` refuses a file of four. The
  bound on the symbols, `MaxText`, belongs to `MCForms`; the theorem about
  `ProductsComeBack` has none.
  Only one row is changed by someone else, once.
* Two checkouts make the race of two first checkouts, and one after the other the
  checkout of a workspace that has a customer. Two versions of a subscription
  are enough to be delivered out of order; two subscriptions let one replace the
  other in the row.

Deadlock is checked for in the stock runs. It is not in
those with a bound that ends every behaviour (a clock, requests, invitations or
webhooks that are used up): there a final state is an artefact of the bound.

Symmetry is used in safety runs only, over workers, orders, requests, keys and
payloads that are model values; never in a run with a liveness property.

### Fairness

* `StockOrders`: strong fairness of `Step(w)`. A statement that waits for a row
  lock is enabled whenever the lock is free; PostgreSQL queues the waiters of a
  lock, so one that can go on again and again does. The reconcile job is started
  by cron, hence fairness of `RequestReconcile`. Nothing is assumed of clients,
  nor of crashes.
* `AlertsCatchUp` is conditional: it assumes that reorder points are edited only
  finitely often and that from some time on a reconcile run, once begun,
  commits. Without the first the alert may always be overtaken by an edit;
  without the second every run may crash.
* `Deliveries`: handlers and the recovery job go on (`SF` of `Transaction(w)` and
  `Recovery`, because of locks and because the queue's slots come and go); a job
  that can again and again be fetched or expired is (`SF`, one condition per
  job: a job that is fetched need not expire); singleton slots end (`WF`).
  Crashes are bounded by `MaxCrashes`, so the process is eventually up. Neither
  the storefront nor a user has to try again.

## What is proved

TLAPS checks all proofs with SMT, Zenon and LS4. They hold for every value of
the constants that satisfies the named assumptions; no bound of the
configurations is used.

**StockOrdersProofs** (assumption `StockAssumption`). The inductive invariant
`IInv` says of every worker what it knows at its point of the transaction
(`TxShape`): a row that it has buffered is the committed row plus its own deltas,
because its lock keeps every other writer out (`BufferFresh`); the order status
it has read is still the order's; and locks are owned by the transaction that
knows of them (`LocksOwned`). None of the properties is inductive without it: a
commit overwrites the committed row by the buffered one, and only `BufferFresh`
says that the two still fit. From it follow `NeverOversold`, `LedgerReplays`,
`OneOpenAlert` (at most one open alert per product), `WaitsUphill`, `OrderHistory`
(orders move along the state machine, and only drafts change their lines) and
`TypeOK`.

Three more theorems add an invariant each. `AllCovered` says that a command past
its locks has a buffered row for each of its lines (and a receipt its number),
whatever order the rows were locked in; with it each commit is, under the
refinement mapping, the step of the same name of `StockPromise`, and every other
step leaves the committed rows alone (`AtomicCommands`), and a commit that
fulfils an order sells each of its lines once (`EachLineSoldOnce`, proved one
order and product at a time by the lemma `SoldEach`). The same lemma gives
`ReservationsAddUp`: the reserved pieces of a product are counted as a set, one
element for each piece of each confirmed line, so that a commit adds or removes
one order's elements and no sum has to be taken; that the set is finite is part
of what is proved (`UnitsCounted`). `AlertsKnown` says that an
evaluator still holds the level and the reorder point it has read; this gives
`AlertsRight`, under `ReorderPoints = {}`: a PATCH of the reorder point leaves the
alert as it is until the reconcile job comes, which is what `AlertsCatchUp` is about.

**CommandIntentsProofs** (`WindowAssumption`, `SkewAssumption`) is about the server
first, for any caller. `IdemInv` connects a request with its
key: while it is under way, the key cannot have outlived its retention
(`InTime`); what it has purged is over (`Over`); at the work, the key has had no
effect; and a key with an effect either has a record that lasts until its
retention is over, or is over (`KeyOK`). The heart is `MissKeeps`: a request that
finds no record has a key without an effect, because a record that is gone
means that the key is over, which a request in time contradicts. The theorems
are `EffectAtMostOnce` and `AnsweredWithOwnEffect`.

Then the browser. `StepSimulates` shows that each step of the browser and the server
is a step of `Idempotency` or leaves its variables alone; the one hard case is a
retry, where the browser's own check of the age of the intent, by a clock that may
have been moved since, has to imply the server's window (`RetryInTime`). So
`IntentSpec => ServerUse`, and the theorems about the server hold of the whole
(`CommandAtMostOnce`). That a reported success is real is proved for any number of
hooks, mounted at once or not, in one go with the invariant `IntentInv`.

`HeldUntilKnown` and `ReportsStayTrue` assume one hook (`Hooks = {h}`), because with
two they are false: see the first finding. `ReportInv` says of that hook that it holds
the key that is stored (`InStep`); that it awaits one request, of its own key unless
the user has resolved it (`AwaitsOne`); that as long as no outcome was unknown, all
requests of its key are the one it awaits, and an effect means that this one was
answered with success (`FirstAttempt`), which is why a 4xx may clear the intent then and
only then; that every command begun is stored or accounted for (`Accounted`); and that
a refused one has no effect and no request left that could have one
(`RefusedIsOver`).

**IntakeProofs**, deliveries (`DeliveryAssumption`). A handler writes at commit what it has
counted since it read the row, so the properties need that it is the only
writer. `DeliveryInv` says why (`WriterOK`): a webhook that is about to commit
holds the lock of the key and the delivery does not exist; a retry or a job holds
the lock of the row and the delivery exists and has failed; so the two never
meet. The rest of the invariant is what the handlers, the queue and the recovery
job know: a job, a stored reply and a recovery are about a delivery that exists
(`JobOK`, `RowOK`, `RecoveryOK`), and a job is run by one handler at a time
(`JobsApart`), also after a crash has left it for the queue to expire. The
theorems are `OneOrderEach`, `AttemptsCounted` and `JobsWithinLimit`; the last, that a
job never goes beyond the limit of automatic attempts, is only proved.

**IntakeProofs**, CSV files (`CsvAssumption`: the exported products are of the stored
form). The theorem is `CsvImport`: `ProductsComeBack` for any catalogs and workspaces,
any number of products, names and descriptions of any length and any limit on rows. Its
argument has three parts.

* Writing. `FlattenSeq` adds up its parts one by one (`Adds`), which gives the place at
  which each part lies in the whole (`LayoutOf`, `Joined`); so the text of a table has a
  place for each cell, and each ends in a comma or the end of a row (`Written`). A
  cell is as its value is, or in quotes with each quote twice (`CellAt`), whether the export
  or the spreadsheet has written it; normalizing the line ends leaves the places
  where they are. Only values are recursive here: what holds of every part is shown of
  the least one that fails (`Least`, `CountUp`).
* Reading. The invariant `CsvInv` says where the parser is: after k symbols of the value of
  one cell, with exactly those in `cell`, the cells before it in `row`, the rows before it in
  `records`, and `quoted` if and only if the cell is in quotes and has been opened but not
  closed (`Inside`, `InCell`), or past the last cell (`AllRead`). Each branch of `parseCsv`
  takes one such state to the next: what `csvCell` quotes is what would otherwise
  end a cell. `CutShort` leaves the text a prefix (`LeftOf`), of which the same is true up to where it
  ends; at its end
  the records are the rows of the table, or the first of them with the last one perhaps
  incomplete (`Read`).
* Checking. A row of a product, read whole, is the product (`Raw` finds each title in its
  column, and a stored text is its own `Trim`), and is not blank, since its SKU is not; so the
  rows that are looked at have the numbers of the products (`filled`, `Upon`), and by
  these `IsNew` compares a SKU with those `Missing` does.

**TeamProofs** (`TeamAssumption`). `TeamInv` says what the holder of the team
lock has read and nobody else can change. The owner: a role change or removal
that is about to write does not concern the last owner. The seats: an acceptance
about to write either finds its invitation still live, whose seat it takes over,
or the invitation has been revoked or has expired in between, and then its seat
is free. The theorems are `OwnerRemains`, `SeatsNeverOutgrown` and `JoinsFit`. Two
more need what an invitation can go through. `OpenApart`, that two open invitations
are of different users, is kept because an invite closes the others in the same
step (`OneOpenEach`). `AcceptanceOK` says that an acceptance about to write holds
an invitation of its own user that nobody has accepted, since only another
acceptance could and that would need the lock (`JoinedOnce`). Together they are
`InvitationsCountOnce`, the property of the run.

**BillingProofs** (`BillingAssumption`). Four invariants, each used by the next:
types, and that a handler's event was published and is known (`Typed`); a claim
under way belongs to one handler and to no committed event (`Claims`); a
customer that a checkout has not committed is known to nobody else
(`FreshCustomer`), hence what was dropped is of a customer that never becomes the
row's (`Dropped`); the row stands as the newest event left it (`Current`).
`NoEventLost` needs `FreshCustomer`: without it a later upsert might bring back a
customer whose events are spent; with `AppliedOnce` it is `EventsCountOnce`. All
properties of the run are proved.

**LoginsProofs** (`LoginsAssumption`). `SessionsBounded` is not inductive: a request
that has read an over-full list may be overtaken by others. `Budget` says what
is left if *any* set of the requests that are about to revoke did so now, plus
one for each of them and each that is about to insert, and is inductive
(`SessionsInv`, with `NewestKept` and what each request knows). That forged
headers are ignored is proved for any proxy configuration that knows the proxy
and not the client (`ForgedHopsIgnored`); the two theorems that follow assume such a
configuration, and that the claimed hops come from some set `Hops`.

`BurstsAreBounded` and `GuessesAreBounded` relate what has happened within the last
window, a list of times kept as history, to what the server remembers of it.
`BurstInv`: if the bucket of a key is running, the times fall into those of the previous
window, at most `MaxWrites - 1` and none after the bucket was opened, and those the
bucket has counted (`Fits`); if there is no bucket - it has run out, was swept or was
evicted - at most `MaxWrites - 1` times are recent (`Quiet`), since a bucket is dropped only
when it has run out or when it stopped nobody. `GuessesInv`: the failures an entry still
has in its window are a tail of the recent misses or all of them (`Remembers`); while
the block runs, the misses after it was armed and those still being verified are fewer
than the workers (`Late`), and without a block the misses are below the limit
(`Blocks`). That the tiers of the limiter share no key is an assumption on the
constants: the code has a map for each.

**CatalogProofs** (`CatalogAssumption`). `CatalogInv` is four groups of facts, each
inductive once those before it are known, and each action has one lemma
(`...Effect`) that says what it does to its transaction and one lemma per group.

* `Basic`: isolation although identifiers are used again. A row is owned by the one
  transaction that has inserted or deleted it (`TableIsolated`), a row someone has seen and
  that has since been replaced was born of another request (`Births`, `Old`), and each
  kind of transaction has done at each statement what the code does before it
  (`PlainShape`, `ResetShape`).
* `StockInv`: movements, balances and products refer to each other (`Refers`), what a
  transaction has not committed fits what it sees (`Stocked`), and no reset removes a
  product another transaction refers to (`Exclusive`), which is what the key share locks
  of the foreign keys are for.
* `ImportInv`: what the transaction of a run has inserted and what it still has to insert
  are the skus of the run (`ImportOK`), and a reset that takes a run with it has seen
  all of its products or none, and removes all (`ImportsReset`).
* `ImageInv`: a file belongs to one product (`ImagesOK`); one that is about to be set is
  stored; one that a finished request will destroy is no product's, unless its commit was
  carried out and reported as failed (`ImageOK`).

The theorems are `CatalogInvariance`, `LedgerAlwaysStands`, `NothingByHalves` and
`ImagesStayStored`: all properties of the run.

**ClientProofs** (the assumptions of the modules it extends). First, from the tables
of `Screens` and `Endpoints`: whatever a command writes of a query of its screen it
refreshes or sets, but for `LeftStale` (`AllCovered`, one lemma per screen). Then `ScreensInv`:
a view whose rows are not what is due is marked or empty, no answer on its way is
older than what is due (`ViewOK`), and a command whose answer will be put into
the cache is not older either (`SentOK`). The one hard step is the answer of a
command (`AnsweredView`), which is where the exceptions of `Promised` are needed.
`ShowsTheSelectedFile` of the import page needs `WizardInv`: while a preview is
under way no commit is pending or unknown and no final result is shown, its text is
of the version it was asked for, and a commit that is neither pending nor unknown
remembers no request. `ListsWhatIsTyped` is inductive as it stands: results are
opened only when the box and the search agree, and every effect of the register
leaves the two texts equal, a timer running or a navigation under way.

* `LinesShowWhatTheyHold`. `LineInv`: a product that was picked is remembered
  (`PickedIsChosen`), what was looked up was asked for (`AskedOfOrdered`), and no two
  lines hold one product (`OneLineEach`), so that what one line leaves out of its
  choices, because another line holds it, is never its own.
* `FormsLoseNothing`, `SavesGoWhereTyped`. `FormInv` says where an entry is held: the form
  of a closed or locked drawer holds nothing of its own (`FieldsOK`); what a request carries
  is still on the form until it is saved (`SaveOK`); the remembered request is the one under
  way or one whose outcome is unknown (`HookOK`); what is stored of a record is what was saved to
  it (`PlacesOK`, `RowsOK`); and each of these holds entries of one record only
  (`BelongTo`), but for what is exposed.
* `OwnSessionsAreHonoured`, `WritesStayWhereShown`, `WhatIsOfferedIsPermitted`. `TabInv`: an
  answer carries a session that is in no cookie, on no other request and no page's token
  (`FreshOK`), so a
  tab becomes a session's maker in the step in which it takes the token, or none, and in
  which its page starts to be replaced; from then on it has that token or is fetching it
  (`TokenOK`), and shows that session's workspace or is leaving (`ShownOK`). Any other tab whose token is of
  the cookie's session has fetched it: `LandOK` says that its page, unless late, was
  mounted under that session, also while the token is being fetched, and `SeenOK` that a
  page shows the membership of the session it was mounted under. The first two theorems
  follow. For the third the tables of `Access` are compared, screen by screen
  (`ScreensPermitted`), and a page that shows a membership shows a role (`RolesOK`).
  `FirstMembership` chooses a least element, which exists because `<` is well-founded
  (`LeastExists`).

Only model-checked, for good: liveness (`AlertsCatchUp`, `EveryCommandEnds`,
`FailedIsRetried`), which is out of the prover's reach. Every invariant and every other
action or refinement property that a passing run checks is stated by a theorem.

## Findings

1. `intents_remount` (code). `use-command-mutation.ts:19` says that the payload
   and key are kept until the outcome is known. A hook whose form was unmounted
   while its request was under way still handles a late 4xx; its own
   `outcomeUnknown` is false, so it clears the stored intent although the form,
   mounted again, has restored the same key and is sending it again. After a
   reload at that point, a command that took effect is held nowhere and its
   success was never shown.

Four more places where a text and the code disagree have no run of their own:

* `invitation.service.ts:36` says that every mutating method takes the team lock;
  `revokeInvitation` (line 205) does not, reads the invitation and stamps it by
  its id alone. An acceptance in between succeeds as well, and the invitation
  ends accepted and revoked. No seat is lost by it: `SeatsAccounted` holds with
  such interleavings, and is proved.
* `billing.integration.spec.ts:551` says that a workspace does not retain Pro after
  its subscription is canceled. An older event first delivered after the
  cancellation overwrites it: the sync function (`migration.sql:160` of the
  billing migration) recognises an event it has seen, not one that is out of
  date. `InOrderIsCurrent` shows that order is all it needs.
* `docs/operations.md:105`, `docs/deployment.md:129` and `environment.ts:28` say that
  the oldest sessions beyond the cap are revoked. The excess is computed before
  the new session is created, so one more than the cap stays active, and one
  more again for each request that runs at once: `SessionsBounded` states the
  bound the code keeps. `docs/performance.md:160` says that the demo reset clears
  sessions; the SQL function deletes none.
* `api-client.ts:105` counts demo logins among the answers whose token is adopted;
  the demo login card does not go through `apiRequest` (see *Access and Tabs*).

## Limits of the models

* One tenant. Row-level security and the tenant context are not modelled.
* `Idempotency`: what a command does is one opaque effect. That its rows and its
  record share one transaction is in the code (`withTenant` around both) and is
  built into `Commit`.
* `CommandIntents`: closing the tab, and a browser whose `sessionStorage` is
  unavailable, lose the pending intent; the code accepts that, so neither is
  modelled. `ResolveExpired` may happen while an old request of the key is still
  on its way: what the user has verified is then taken as settled, and such keys
  are exempt from `KeptUntilKnown` and `RefusalIsFinal`.
* `Deliveries`: one payload per delivery id; a manual retry carries a fresh
  idempotency key, so its own replay is the business of `Idempotency`. A job
  beyond the bound `Jobs` is lost, as a failing queue may lose any.
* `Team`: the guards read the caller's role before the transaction and are
  therefore left out, as a check that may be out of date and decides nothing.
  Emails and accounts are identified.
* `Billing`: one workspace, not the demo's, with billing configured. Unknown
  prices stand for unknown statuses as well; both end in the same early return.
  Period end and cancel-at-period-end are carried along by the code and decide
  nothing. The 5 s limit of a transaction is not a clock here: a first checkout
  may stay in its transaction while another is paid for.
* `Logins`: the limiter of anonymous reads, CSRF and permission guards are left
  out; none of them touches the state modelled. A wrong guess that was under way
  when the block was armed still counts when the block ends, which is why
  `GuessesBounded` has its second disjunct.
* `Catalog`: orders, receipts, customers and suppliers hang on the catalog as
  movements do, and are left out. A file is a set of rows (see `ProductCsv`); its images'
  bytes and their format are abstracted. A manual reset takes no demo-reset lock, so an
  automatic one may run right after it; a failed cleanup leaves an orphaned
  file; a run whose file has no new sku is COMMITTED without products: the model
  has these behaviours and the properties allow them.
* `Screens`: the preview of the stock of an order is left out (its key holds the
  order's `updatedAt`). The customer and the products that the form of an order reads by
  their ids are queries of their screen, but no command of it writes them, so that nothing
  is ever due of them and the run leaves them out with the other queries of this kind
  (`Touched`). A read is as of its first statement; `items` and `total` of
  a page are two statements and may disagree.
* `Forms`: a row that someone changes, or a field, is one entry; which customer or
  quantity it is does not matter. URLs with both `new` and `order`, the removal of a
  stored image, the forms of the settings page and the confirmation dialogs of the
  orders are left out. Reading them showed that a dialog stays open when the URL
  selects another order, that an edited draft carries no version (the last writer
  wins, which the documents accept), and that a new draft begins with the values of
  the last one that succeeded (`order-form-drawer.tsx:190` resets to the command's
  variables, which success does not clear), although
  `docs/portfolio-readiness-audit-2026-10-17.md:119` asks for a reset.
* `ProductCsv`: prices and reorder points are single symbols, and SKUs are of one letter
  and told apart by their length. The byte limit, the byte order mark and repeated
  columns are left out, as is the plan that import requires.
* `Tabs`: one browser. The network loses requests and answers; an answer whose page
  is gone is dropped, cookie and all. Owners elsewhere may change any role and
  remove anyone, also the last owner, which `Team` excludes. Sections and drawers
  are not followed: a page may ask for whatever its role can come to see.
* Not in any module: two deliveries for a new customer may create two customers
  of one email (`storefront-order-draft.ts:31`); a slug collision aborts the
  transaction in which the next candidate is tried (`organization.service.ts:80`).

## Plan

The order was by importance for the business: stock first, then what lets a
client repeat a command, then what repeats by itself, then who may do it, then
what is rebuilt or cached.

1. Done: every module of the table above, and the proofs listed.
2. Left to model: `Team` composed with `Billing` (the seat limit follows the
   subscription row instead of changing at any time); the confirmation dialogs of
   the orders.
3. Proved: every property of the passing runs but the three of liveness.

Not modelled: the contents of what the read side computes (pages, filters,
aggregates: queries over committed rows, without steps of their own), of the HTTP
edge the validation and formatting, of organizations the rows of a new workspace
(one transaction on rows nobody else can see yet), customers and suppliers beyond what `Endpoints` says of
them (single rows), the rendering of the web client, the design
prototypes under `docs/`.
