SPECIFICATION Spec
CONSTANTS
  Capacity = 4
  WordMod = 8
  DEADBAND = 0
  Depths <- FarDepths
  FirstDepth = 2
  Batches = {1, 3}
  Blocks = {2}
  MaxChanges = 2
INVARIANTS TypeOK Accounted
PROPERTIES FifoUntilTorn PlaysAgain
