SPECIFICATION identitySpec
CONSTANTS
  g1 = g1
  g2 = g2
  g3 = g3
  laptop = laptop
  words = words
  Guardians = {g1, g2, g3}
  Policies <- MCPolicies
  Window = 2
  MaxTime = 3
  MaxVersion = 4
  Rotations = {"thief", "owner"}
  Observers = {"o", "q"}
CHECK_DEADLOCK FALSE
INVARIANTS
  NoErosion
  EvictionDurable
  ForkAgreement
  InstalledLawfully
