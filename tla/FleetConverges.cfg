SPECIFICATION Spec
CONSTANTS
  Params = {1, 5}
  Values <- TwoValues
  Modes <- MCModes
  Depth <- MCDepth
  EpochMod = 4
  LegacyFlags = {FALSE}
  MaxVersion = 1
  MaxUpsets = 1
INVARIANTS DepthFollowsOverride
PROPERTIES Converges
CHECK_DEADLOCK FALSE
