-------------------------------- MODULE Access --------------------------------
(***************************************************************************)
(* Who may do what.  The API: the permissions of each role and the permission *)
(* each route asks for.  The web client: the routes each screen calls for an  *)
(* operator of a role, as far as its own checks of the role go.               *)
(***************************************************************************)

Roles == {"STAFF", "MANAGER", "OWNER"}

StaffPermissions ==
  {"analytics:read", "catalog:read", "inventory:read", "order:read",
   "order:draft:write", "order:fulfill"}
ManagerPermissions == StaffPermissions \cup
  {"audit:read", "catalog:write", "integration:retry", "inventory:adjust",
   "inventory:receive", "order:cancel", "order:confirm"}
OwnerPermissions == ManagerPermissions \cup
  {"billing:read", "billing:write", "organization:reset-demo",
   "organization:settings:read", "organization:settings:write",
   "team:invite", "team:read", "team:write"}

PermissionsByRole ==
  [STAFF |-> StaffPermissions, MANAGER |-> ManagerPermissions, OWNER |-> OwnerPermissions]
Can(role, permission) == permission \in PermissionsByRole[role]

-----------------------------------------------------------------------------
(* The permission each route of a controller asks for.                       *)

OrderRoutes ==
  [list |-> "order:read", find |-> "order:read",
   create |-> "order:draft:write", update |-> "order:draft:write",
   confirm |-> "order:confirm", fulfill |-> "order:fulfill", cancel |-> "order:cancel"]
InventoryRoutes ==
  [balances |-> "inventory:read", summary |-> "inventory:read", trace |-> "inventory:read",
   movements |-> "inventory:read", adjust |-> "inventory:adjust"]
ReceiptRoutes ==
  [list |-> "inventory:read", find |-> "inventory:read", create |-> "inventory:receive"]
AlertRoutes == [list |-> "inventory:read"]
ProductRoutes ==
  [exported |-> "catalog:read", list |-> "catalog:read", find |-> "catalog:read",
   create |-> "catalog:write", update |-> "catalog:write",
   image |-> "catalog:write", removeImage |-> "catalog:write"]
CustomerRoutes ==
  [list |-> "catalog:read", find |-> "catalog:read",
   create |-> "catalog:write", update |-> "catalog:write"]
SupplierRoutes ==
  [list |-> "catalog:read", find |-> "catalog:read",
   create |-> "catalog:write", update |-> "catalog:write"]
ImportRoutes ==
  [preview |-> "catalog:write", commit |-> "catalog:write", errors |-> "catalog:read"]
DeliveryRoutes ==
  [list |-> "integration:retry", find |-> "integration:retry", retry |-> "integration:retry"]
TeamRoutes ==  \* accepting an invitation asks for none
  [members |-> "team:read", invitations |-> "team:read", invite |-> "team:invite",
   revoke |-> "team:invite", changeRole |-> "team:write", remove |-> "team:write"]
OrganizationRoutes ==  \* creating a workspace asks for none
  [settings |-> "organization:settings:read"]
BillingRoutes ==
  [status |-> "billing:read", checkout |-> "billing:write", portal |-> "billing:write"]
AuditRoutes     == [list |-> "audit:read"]
DashboardRoutes == [overview |-> "inventory:read"]
AnalyticsRoutes == [summary |-> "analytics:read"]
DemoRoutes      == [reset |-> "organization:reset-demo"]

-----------------------------------------------------------------------------
(* What the screens ask for, as reads and as writes.                         *)

Calls(reads, writes) == [reads |-> reads, writes |-> writes]
NoCalls == Calls({}, {})
When(holds, screen) == IF holds THEN screen ELSE NoCalls

\* canManage, canAdjust, canReceive, canRead, canRetry and canWrite.
Manages(role) == role \in {"MANAGER", "OWNER"}

Header(role) == Calls({OrderRoutes.list, ProductRoutes.list, CustomerRoutes.list}, {})

OverviewPage(role) == Calls({DashboardRoutes.overview}, {})
AnalyticsPanels(role) == Calls({AnalyticsRoutes.summary}, {})
Worklist(role) ==
  Calls({OrderRoutes.list, AlertRoutes.list}
           \cup IF role # "STAFF" THEN {DeliveryRoutes.list} ELSE {}, {})

OrderList(role) == Calls({OrderRoutes.list, OrderRoutes.find}, {})
OrderForm(role) ==
  Calls({CustomerRoutes.list, ProductRoutes.list, CustomerRoutes.find, ProductRoutes.find},
         {OrderRoutes.create, OrderRoutes.update})
OrderPreview(role) == Calls({InventoryRoutes.trace}, {})
OrderActionsUnchecked(role) ==
  Calls({}, {OrderRoutes.fulfill, OrderRoutes.confirm, OrderRoutes.cancel})
OrderActions(role) ==
  Calls({}, {OrderRoutes.fulfill}
               \cup IF Manages(role) THEN {OrderRoutes.confirm, OrderRoutes.cancel} ELSE {})

InventoryPage(role) ==
  Calls({InventoryRoutes.balances, InventoryRoutes.summary, InventoryRoutes.trace,
          AlertRoutes.list}, {})
AdjustmentDrawer(role) ==
  Calls({ProductRoutes.list}, IF Manages(role) THEN {InventoryRoutes.adjust} ELSE {})

ReceiptsPage(role) == Calls({ReceiptRoutes.list, ReceiptRoutes.find}, {})
ReceiptDrawer(role) ==
  When(Manages(role), Calls({SupplierRoutes.list, ProductRoutes.list}, {ReceiptRoutes.create}))

ProductsPage(role) ==
  Calls({ProductRoutes.list},
         IF Manages(role)
         THEN {ProductRoutes.create, ProductRoutes.update,
               ProductRoutes.image, ProductRoutes.removeImage}
         ELSE {})
PartnersPage(role) ==
  Calls({CustomerRoutes.list, SupplierRoutes.list},
         IF Manages(role)
         THEN {CustomerRoutes.create, CustomerRoutes.update,
               SupplierRoutes.create, SupplierRoutes.update}
         ELSE {})
ImportsPage(role) ==
  When(role # "STAFF",
       Calls({ProductRoutes.exported, ImportRoutes.errors}, {ImportRoutes.preview, ImportRoutes.commit}))
IntegrationsPage(role) ==
  When(Manages(role), Calls({DeliveryRoutes.list, DeliveryRoutes.find}, {DeliveryRoutes.retry}))
AuditPage(role) == When(Manages(role), Calls({AuditRoutes.list}, {}))

\* The cards of the settings page.
SettingsPage(role) ==
  When(role = "OWNER",
       Calls({OrganizationRoutes.settings, TeamRoutes.members, TeamRoutes.invitations}, {}))
OrganizationCard(role) == When(role = "OWNER", Calls({}, {DemoRoutes.reset}))
TeamCard(role) ==
  When(role = "OWNER", Calls({}, {TeamRoutes.changeRole, TeamRoutes.remove}))
InvitationsCard(role) ==
  When(role = "OWNER", Calls({}, {TeamRoutes.invite, TeamRoutes.revoke}))
BillingCard(role) ==
  When(role = "OWNER",
       Calls({BillingRoutes.status}, {BillingRoutes.checkout, BillingRoutes.portal}))

\* What an operator of a role can come to ask for in some section.
WorkspaceContent(role) ==
  {Header(role), OverviewPage(role), AnalyticsPanels(role), Worklist(role),
   OrderList(role), OrderForm(role), OrderPreview(role), OrderActions(role),
   InventoryPage(role), AdjustmentDrawer(role), ReceiptsPage(role), ReceiptDrawer(role),
   ProductsPage(role), PartnersPage(role), ImportsPage(role), IntegrationsPage(role),
   AuditPage(role), SettingsPage(role), OrganizationCard(role), TeamCard(role),
   InvitationsCard(role), BillingCard(role)}
RoleReads  == [role \in Roles |-> UNION {screen.reads  : screen \in WorkspaceContent(role)}]
RoleWrites == [role \in Roles |-> UNION {screen.writes : screen \in WorkspaceContent(role)}]
=============================================================================
