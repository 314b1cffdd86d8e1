------------------------------ MODULE Billing ------------------------------
(***************************************************************************)
(* The subscription row of one workspace.  Checkouts prepare it, each in a   *)
(* transaction that calls Stripe in the middle; webhooks synchronise it.     *)
(* Stripe delivers an event at least once and in any order.                 *)
(*                                                                         *)
(* Each transaction writes the row in its last statements, so writing and    *)
(* committing are one step; the claim of an event id, which other deliveries *)
(* wait for, is taken before.                                               *)
(***************************************************************************)
EXTENDS Integers, FiniteSets

CONSTANTS
  Checkouts,     \* requests of createCheckoutSession
  Handlers,      \* handlers of the Stripe webhook
  Customers,     \* ids Stripe gives to customers
  Subscriptions, \* ids Stripe gives to subscriptions
  None,
  Statuses,      \* Stripe's statuses
  Prices,        \* Stripe's prices, named for the plan they stand for
  MaxVersion     \* bound: changes of a subscription

Plans == {"STARTER", "PRO"}

ASSUME BillingAssumption ==
  /\ None \notin Customers \cup Subscriptions
  /\ "CANCELED" \in Statuses /\ None \notin Statuses
  /\ Plans \subseteq Prices
  /\ MaxVersion \in Nat

\* A version of a subscription is an event: its id and what it carries.
Events == Subscriptions \X (1 .. MaxVersion)

VARIABLES
  row,      \* the organization_subscriptions row; status None: there is none
  checkout, \* the checkouts
  handler,  \* the webhook handlers
  claimed,  \* billing_webhook_events
  audit,    \* BILLING_SUBSCRIPTION_UPDATED rows of each event
  issued,   \* customers Stripe has created
  sessions, \* customers of the open Stripe checkout sessions
  stripe,   \* Stripe's subscriptions: customer and number of versions
  payload,  \* what each event carries
  newest,   \* history: the newest version applied of each subscription
  overtaken \* history: subscriptions with an event applied after a newer one

database == <<row, claimed, audit>>
provider == <<issued, sessions, stripe, payload>>
history == <<newest, overtaken>>
vars == <<database, checkout, handler, provider, history>>

NoRow == [customer |-> None, plan |-> "STARTER", status |-> None, sub |-> None]
NoPayload == [price |-> "STARTER", status |-> None]
IdleCheckout == [pc |-> "idle", plan |-> "STARTER", customer |-> None]
IdleHandler == [pc |-> "idle", event |-> None]

Init ==
  /\ row = NoRow
  /\ checkout = [c \in Checkouts |-> IdleCheckout]
  /\ handler = [h \in Handlers |-> IdleHandler]
  /\ claimed = {} /\ audit = [e \in Events |-> 0]
  /\ issued = {} /\ sessions = {}
  /\ stripe = [s \in Subscriptions |-> [customer |-> None, version |-> 0]]
  /\ payload = [e \in Events |-> NoPayload]
  /\ newest = [s \in Subscriptions |-> 0] /\ overtaken = {}

EffectivePlan(r) == IF r.status \in {"ACTIVE", "TRIALING"} THEN r.plan ELSE "STARTER"

-----------------------------------------------------------------------------
(* createCheckoutSession.                                                   *)

\* The row is read; without a customer, Stripe is asked for one.
StartCheckout(c, plan) ==
  /\ checkout[c].pc = "idle"
  /\ checkout' = [checkout EXCEPT ![c] =
       [pc |-> IF row.customer = None THEN "customer" ELSE "update",
        plan |-> plan, customer |-> row.customer]]
  /\ UNCHANGED <<database, handler, provider, history>>

CreateCustomer(c, k) ==
  /\ checkout[c].pc = "customer" /\ k \notin issued
  /\ issued' = issued \cup {k}
  /\ checkout' = [checkout EXCEPT ![c].pc = "upsert", ![c].customer = k]
  /\ UNCHANGED <<database, handler, sessions, stripe, payload, history>>

RequestedKeepingStatus(r, plan, k) ==
  [r EXCEPT !.plan = plan, !.customer = k, !.status = IF @ = None THEN "INCOMPLETE" ELSE @]
Requested(r, plan, k) ==
  [r EXCEPT !.plan = plan, !.customer = k, !.status = "INCOMPLETE"]

Write(c, k) ==
  /\ row' = Requested(row, checkout[c].plan, k)
  /\ checkout' = [checkout EXCEPT ![c].pc = "session"]
  /\ UNCHANGED <<handler, claimed, audit, provider, history>>

\* The update leaves the customer alone, whoever it is by now; the upsert of a
\* new customer replaces it.
UpdateRow(c) == checkout[c].pc = "update" /\ Write(c, row.customer)
UpsertRow(c) == checkout[c].pc = "upsert" /\ Write(c, checkout[c].customer)

MayOpenSession(c) == checkout[c].pc = "session"

OpenSession(c) ==
  /\ MayOpenSession(c)
  /\ sessions' = sessions \cup {checkout[c].customer}
  /\ checkout' = [checkout EXCEPT ![c].pc = IF @ = "session" THEN "done" ELSE @]
  /\ UNCHANGED <<database, handler, issued, stripe, payload, history>>

\* Stripe fails, the transaction times out, or the process stops.
AbandonCheckout(c) ==
  /\ checkout[c].pc \in {"customer", "update", "upsert", "session"}
  /\ checkout' = [checkout EXCEPT ![c].pc = "done"]
  /\ UNCHANGED <<database, handler, provider, history>>

-----------------------------------------------------------------------------
(* Stripe.                                                                  *)

Publish(s, k, price, status) ==
  LET v == stripe[s].version + 1 IN
  /\ v <= MaxVersion
  /\ stripe' = [stripe EXCEPT ![s] = [customer |-> k, version |-> v]]
  /\ payload' = [payload EXCEPT ![<<s, v>>] = [price |-> price, status |-> status]]
  /\ UNCHANGED <<database, checkout, handler, issued, history>>

Subscribe(s, k, price, status) ==
  /\ stripe[s].version = 0 /\ k \in sessions
  /\ sessions' = sessions \ {k}
  /\ Publish(s, k, price, status)

Latest(s) == payload[<<s, stripe[s].version>>]

\* Renewals, failed payments, the billing portal.  A canceled subscription is over.
ChangeSubscription(s, price, status) ==
  /\ stripe[s].version > 0 /\ Latest(s).status # "CANCELED"
  /\ UNCHANGED sessions
  /\ Publish(s, stripe[s].customer, price, status)

Published(e) == e[2] <= stripe[e[1]].version

-----------------------------------------------------------------------------
(* handleWebhook and stockpilot_sync_subscription.                          *)

\* planForPrice and STATUS_BY_STRIPE_STATUS know what the event carries.
Synced(e) == payload[e].price \in Plans

\* Any published event may arrive, also one that was answered long ago.
ReceiveEvent(h, e) ==
  /\ handler[h].pc = "idle" /\ Published(e) /\ Synced(e)
  /\ handler' = [handler EXCEPT ![h] = [pc |-> "claim", event |-> e]]
  /\ UNCHANGED <<database, checkout, provider, history>>

\* An uncommitted claim of the same event id is waited for.
ClaimUnguarded(h) == TRUE
ClaimFree(h) ==
  \A g \in Handlers \ {h} :
    handler[g].event = handler[h].event => handler[g].pc \notin {"check", "apply", "drop"}

EndWebhook(h) == handler' = [handler EXCEPT ![h] = IdleHandler]

Claim(h) ==
  /\ handler[h].pc = "claim" /\ ClaimFree(h) /\ handler[h].event \notin claimed
  /\ handler' = [handler EXCEPT ![h].pc = "check"]
  /\ UNCHANGED <<database, checkout, provider, history>>

KnownEvent(h) ==
  /\ handler[h].pc = "claim" /\ ClaimFree(h) /\ handler[h].event \in claimed
  /\ EndWebhook(h)
  /\ UNCHANGED <<database, checkout, provider, history>>

CustomerOf(e) == stripe[e[1]].customer

CheckCustomer(h) ==
  /\ handler[h].pc = "check"
  /\ handler' = [handler EXCEPT ![h].pc =
       IF row.customer = CustomerOf(handler[h].event) THEN "apply" ELSE "drop"]
  /\ UNCHANGED <<database, checkout, provider, history>>

AppliedWithoutPlan(r, e) == [r EXCEPT !.status = payload[e].status, !.sub = e[1]]
Applied(r, e) ==
  [r EXCEPT !.plan = payload[e].price, !.status = payload[e].status, !.sub = e[1]]

Apply(h) ==
  LET e == handler[h].event IN
  /\ handler[h].pc = "apply"
  /\ row' = Applied(row, e)
  /\ claimed' = claimed \cup {e}
  /\ audit' = [audit EXCEPT ![e] = @ + 1]
  /\ newest' = [newest EXCEPT ![e[1]] = IF e[2] > @ THEN e[2] ELSE @]
  /\ overtaken' = overtaken \cup {s \in {e[1]} : e[2] < newest[s]}
  /\ EndWebhook(h)
  /\ UNCHANGED <<checkout, provider>>

\* The customer is not the workspace's: the claim alone is committed.
Drop(h) ==
  /\ handler[h].pc = "drop"
  /\ claimed' = claimed \cup {handler[h].event}
  /\ EndWebhook(h)
  /\ UNCHANGED <<row, audit, checkout, provider, history>>

\* The transaction and its claim are rolled back.
Crash(h) ==
  /\ handler[h].pc # "idle"
  /\ EndWebhook(h)
  /\ UNCHANGED <<database, checkout, provider, history>>

-----------------------------------------------------------------------------
Checkout(c) ==
  \/ \E plan \in Plans : StartCheckout(c, plan)
  \/ \E k \in Customers : CreateCustomer(c, k)
  \/ UpdateRow(c) \/ UpsertRow(c) \/ OpenSession(c) \/ AbandonCheckout(c)

Stripe(s) ==
  \E price \in Prices, status \in Statuses :
    \/ \E k \in Customers : Subscribe(s, k, price, status)
    \/ ChangeSubscription(s, price, status)

Webhook(h) ==
  \/ \E e \in Events : ReceiveEvent(h, e)
  \/ Claim(h) \/ KnownEvent(h) \/ CheckCustomer(h) \/ Apply(h) \/ Drop(h) \/ Crash(h)

Next ==
  \/ \E c \in Checkouts : Checkout(c)
  \/ \E s \in Subscriptions : Stripe(s)
  \/ \E h \in Handlers : Webhook(h)

Spec == Init /\ [][Next]_vars

-----------------------------------------------------------------------------
(* Properties.                                                              *)

RowType == [customer : Customers \cup {None}, plan : Plans,
            status : Statuses \cup {"INCOMPLETE", None}, sub : Subscriptions \cup {None}]

TypeOK ==
  /\ row \in RowType
  /\ checkout \in [Checkouts -> [pc : {"idle", "customer", "update", "upsert",
                                       "session", "done"},
                                 plan : Plans, customer : Customers \cup {None}]]
  /\ handler \in [Handlers -> [pc : {"idle", "claim", "check", "apply", "drop"},
                               event : Events \cup {None}]]
  /\ claimed \subseteq Events /\ audit \in [Events -> Nat]
  /\ issued \subseteq Customers /\ sessions \subseteq issued
  /\ stripe \in [Subscriptions -> [customer : Customers \cup {None}, version : 0 .. MaxVersion]]
  /\ payload \in [Events -> [price : Prices, status : Statuses \cup {None}]]
  /\ newest \in [Subscriptions -> 0 .. MaxVersion] /\ overtaken \subseteq Subscriptions

\* "a duplicate delivery - including Stripe's own retries - can never re-apply
\* the business mutation": an event changes the subscription once at most,
\* however its deliveries overlap and crash.
AppliedOnce == \A e \in Events : audit[e] <= 1

\* The claim of an event that is not applied is committed, so no retry brings it
\* back.  That happens only to events of a customer the workspace no longer has.
NoEventLost ==
  \A e \in claimed : audit[e] = 0 => CustomerOf(e) # row.customer

\* Each event counts once: neither twice nor, once its claim is committed, not at
\* all, but for those of a customer who is not the workspace's.
EachEventOnce == AppliedOnce /\ NoEventLost

\* A subscription whose events were applied in order, with all of those the
\* code knows the price of delivered, stands in the row as Stripe has it,
\* unless a checkout has asked for a plan since.
SyncedEvents(s) ==
  {e \in Events : e[1] = s /\ Published(e) /\ payload[e].price \in Plans}

InOrderIsCurrent ==
  LET s == row.sub
      last == payload[<<s, newest[s]>>]
  IN  /\ s # None /\ s \notin overtaken
      /\ stripe[s].customer = row.customer
      /\ SyncedEvents(s) \subseteq claimed
      => \/ row.status = "INCOMPLETE"
         \/ /\ \A e \in SyncedEvents(s) : e[2] <= newest[s]
            /\ row.plan = last.price /\ row.status = last.status

\* "only webhook synchronization can move a subscription into an eligible
\* state": a step that makes the workspace Pro applies an event of a Pro price
\* in an eligible status.
OnlyStripeGrants ==
  [][EffectivePlan(row') = "PRO" /\ EffectivePlan(row) # "PRO" =>
       \E e \in Events :
         /\ audit'[e] > audit[e]
         /\ payload[e].price = "PRO" /\ payload[e].status \in {"ACTIVE", "TRIALING"}]_vars
=============================================================================
