CONSTANTS
  v1 = v1
  v2 = v2
  Closed = Closed
  Views <- MCViews
  MaxCommands = 2
SPECIFICATION MCSpec
INVARIANT RestsCurrent
SYMMETRY ViewsAlike
CHECK_DEADLOCK FALSE
