CONSTANTS
  Receivers = {r1, r2}
  NoRx = NoRx
  Channels = {6, 2}
  Workers = {1}
  Tries = 2
  Stray = FALSE
  Blocking = TRUE
  MaxEvents = 1
  MayWedge = TRUE
SPECIFICATION Spec
INVARIANTS TypeOK OneReceiver NothingLeftBehind OnChannel
PROPERTIES TornDownUnused CallsReturn
