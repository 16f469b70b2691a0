SPECIFICATION Spec
CONSTANTS
  Macs = {a}
  NoMac = NoMac
  Modes = {0, 1, 2}
  Body <- Bodies
  Channels <- Shapes
  ConcealLen <- Lengths
  SeqMod = 16
  ResyncGap = 5
  RecoverCap = 3
  SilenceCap = 1
  MAX_PIGGYBACK = 2
  Backends = {TRUE, FALSE}
  MayFailReset = TRUE
  MayRefuse = TRUE
  Splices = {5}
  MaxLoss = 4
  MaxLate = 0
  MaxSplices = 1
  FirstPacket = 12
  LastPacket = 19
INVARIANTS TypeOK PlayedInOrder  LossExact
