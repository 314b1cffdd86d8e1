SPECIFICATION Spec
CONSTANTS
  Users = {a, b, c}
  Owners = {a, b}
  Invitations = {i1, i2}
  Workers = {w1, w2}
  None = None
  SeatLimits = {2, 3}
  FirstLimit = 2
  Roles = {"OWNER", "STAFF"}
SYMMETRY Symmetry
INVARIANTS HasOwner SeatsAccounted InvitedOnce
CHECK_DEADLOCK FALSE
