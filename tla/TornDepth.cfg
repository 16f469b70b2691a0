SPECIFICATION Safety
CONSTANTS
  Capacity = 4
  WordMod = 8
  DEADBAND = 0
  Depths <- FarDepths
  FirstDepth = 1
  Batches = {1, 3}
  Blocks = {2}
  MaxChanges = 2
PROPERTIES IndexMovesForward
