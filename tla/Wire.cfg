SPECIFICATION Spec
CONSTANTS
  MAX_FRAMES = 64
  MAX_PIGGYBACK = 3
  StreamsSent <- Streams
  Payloads <- MCPayloads
  FirstStates <- TwoStates
  MaxCopies = 4
  MaxPackets = 5
  Foreign <- Strays
INVARIANTS TypeOK WireExact WholePartsUsed WithinPacket
CHECK_DEADLOCK FALSE
