SPECIFICATION TabSpec
CONSTANTS
  Tabs = {t1, t2}
  Requests = {r1, r2}
  MaxSessions = 3
  Nil = Nil
  Members <- MCMembers
  UserOf <- MCUserOf
  OrgOf <- MCOrgOf
  DemoMembers <- MCDemoMembers
  JoinsAs <- MCJoinsAs
  Beginnings <- MCBeginnings
INVARIANTS OwnSessionHonoured WritesLandWhereShown OfferedIsPermitted
SYMMETRY Symmetry
