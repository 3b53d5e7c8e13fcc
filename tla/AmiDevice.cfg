SPECIFICATION FairSpec
CONSTANTS
  u1 = u1
  u2 = u2
  Users <- TwoUsers
  Hb = Hb
  Probe = Probe
  MissLimit = 3
  MaxVisits = 1
INVARIANTS TypeOK NoUseAfterFree HaltedIfDead NothingLeft
PROPERTIES ProbeAndRemovalEnd DeathIsNoticed
CHECK_DEADLOCK FALSE
