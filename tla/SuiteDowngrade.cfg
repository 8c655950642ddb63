SPECIFICATION moSpec
CHECK_DEADLOCK FALSE
CONSTANTS
  People = {"a", "m"}
  Honest = {"a"}
  Us = "r"
  MoteKinds = {1, 2}
  Bodies = {"x"}
  Tolerance = 0
  MaxHour = 1
  MaxPosted = 2
  MaxInbox = 2
INVARIANTS
  NoDowngrade
