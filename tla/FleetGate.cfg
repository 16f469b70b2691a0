SPECIFICATION Safety
CONSTANTS
  Params = {3}
  Values <- LockTimeoutValues
  Modes <- OnlySolid
  Depth <- MCDepth
  EpochMod = 4
  LegacyFlags = {TRUE, FALSE}
  MaxVersion = 6
  MaxUpsets = 2
INVARIANTS TypeOK GateFollowsVersion
PROPERTIES ImplementsRegister
CHECK_DEADLOCK FALSE
