CONSTANTS
  Records = {r1, r2}
  New = New
  None = None
  MaxEntries = 2
  MaxSaves = 2
  Products = {p1, p2}
  NoProduct = NoProduct
  MaxLines = 2
  MaxFiles = 3
  Catalogs <- MCCatalogs
  Workspaces <- MCWorkspaces
  MaxRows = 3
  Texts = {none, a, b}
  NoText = none
SPECIFICATION MCSpec
INVARIANTS NothingLost SavedWhereTyped LinesAgree ShowsTheSelectedFile ProductsComeBack ListsWhatIsTyped
SYMMETRY Alike
CHECK_DEADLOCK FALSE
