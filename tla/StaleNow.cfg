SPECIFICATION Spec
CONSTANTS
  Count = 2
  Relayed = {1}
  Modes <- TwoModes
  LOCK_TIMEOUT = 1
  SEL_BLACKLIST_MS = 1
  Idlers = {"loop"}
  MaxLag <- SlowLoop
PROPERTY LiveLockKept
