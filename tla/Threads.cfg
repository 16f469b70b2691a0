SPECIFICATION Spec
CONSTANTS
  Count = 2
  Relayed = {1}
  Modes <- TwoModes
  LOCK_TIMEOUT = 1
  SEL_BLACKLIST_MS = 1
  Idlers = {"wifi", "loop"}
  MaxLag <- Prompt
INVARIANTS TypeOK RelayTestFollows RelockNotLost ViewFollows SpliceNeedsOverlap
PROPERTY LockLeftForCause
CONSTRAINT FirstOverlap
