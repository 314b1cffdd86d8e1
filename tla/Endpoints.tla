------------------------------- MODULE Endpoints -------------------------------
(***************************************************************************)
(* What the endpoints of the API read and write, as far as a screen can tell:  *)
(* kinds of rows of one workspace.  "memberships" stands for who is a member,  *)
(* "roles" for the role each has.  Every read is a transaction of its own; a    *)
(* write is the commit of a command.                                         *)
(***************************************************************************)

\* Orders.
ListOrders  == {"orders"}
FindOrder   == {"orders", "orderLines", "transitions", "warehouses", "memberships", "users"}
CreateOrder == {"orders", "orderLines", "transitions", "audit"}
UpdateOrder == {"orders", "orderLines", "audit"}
TransitionOrder == {"orders", "transitions", "balances", "movements", "alerts", "audit"}

\* Inventory.
ListBalances  == {"balances", "products"}
ListMovements == {"movements", "products"}
ListReceipts  == {"receipts", "receiptLines", "suppliers"}
FindReceipt   == {"receipts", "receiptLines", "suppliers", "products", "movements"}
TraceProduct  == {"products", "warehouses", "balances", "orders", "orderLines"} \cup ListMovements
ListAlerts    == {"alerts", "products"}
Summary       == {"balances", "alerts"}
Adjust        == {"balances", "movements", "alerts", "audit"}
Receive       == {"receipts", "receiptLines"} \cup Adjust

\* Catalog and imports.
ListProducts  == {"products"}
FindProduct   == {"products"}
ListCustomers == {"customers"}
FindCustomer  == {"customers"}
ListSuppliers == {"suppliers"}
SaveProduct   == {"products", "audit"}
SaveCustomer  == {"customers", "audit"}
SaveSupplier  == {"suppliers", "audit"}
CommitImport  == {"products", "runs", "audit"}

\* Storefront deliveries.  A retry may turn the delivery into a draft order.
ListDeliveries == {"deliveries", "subscriptions"}
FindDelivery   == {"deliveries", "subscriptions"}
RetryDelivery  == {"deliveries", "customers"} \cup CreateOrder

\* Workspace settings.
Settings         == {"organizations", "warehouses"}
ListTeam         == {"memberships", "roles", "users"}
ListInvitations  == {"invitations"}
BillingStatus    == {"memberships", "subscriptions"}
Invite           == {"invitations", "audit"}
RevokeInvitation == {"invitations", "audit"}
ChangeRole       == {"roles", "audit"}
RemoveMember     == {"memberships", "roles", "audit"}

\* What the overview and the audit trail put together.
Overview  == {"orders", "alerts", "deliveries", "movements", "products", "subscriptions"}
Analytics == {"orders", "movements", "alerts", "products"}
ListAudit == {"audit", "users"}
=============================================================================
