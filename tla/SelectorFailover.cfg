SPECIFICATION Spec
CONSTANTS
  NoMac = NoMac
  Macs = {a, b, c}
  Modes <- OneMode
  Nominal <- TwoPerWindow
  MAX_SOURCES = 2
  MaxSources = 2
  ClockMod = 1024
  CounterMod = 4
  CountMax = 1
  RSSI_HYST_DB = 8
  RSSI_HOLD_MS = 2
  SEL_WINDOW_MS = 100
  SEL_LOSS_GATE_PCT = 5
  SEL_BLACKLIST_MS = 2
  SEL_MIN_SWITCH_MS = 4
  Outcomes <- NoLoss
  Rssis <- Unranked
  RelayFlags = {FALSE}
  Timeouts = {1}
  Selections = {TRUE}
  RelayRequests = {}
  MayForce = TRUE
  StartTime = 1022
  MaxWinLost = 0
  Horizon = 1025
SYMMETRY MacSymmetry
INVARIANTS TypeOK TableOK NoSplice PacketLeavesLock
PROPERTIES LockLeftForCause
CHECK_DEADLOCK FALSE
