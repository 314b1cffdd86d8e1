SPECIFICATION Spec
CONSTANTS
  Checkouts = {c1, c2}
  Handlers = {h1, h2}
  Customers = {k1, k2}
  Subscriptions = {s1, s2}
  None = None
  Statuses = {"ACTIVE", "CANCELED"}
  Prices = {"STARTER", "PRO", "OTHER"}
  MaxVersion = 2
SYMMETRY Symmetry
INVARIANTS EachEventOnce InOrderIsCurrent
PROPERTIES OnlyStripeGrants
CHECK_DEADLOCK FALSE
