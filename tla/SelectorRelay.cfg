SPECIFICATION Spec
CONSTANTS
  NoMac = NoMac
  Macs = {a, b}
  Modes <- OneMode
  Nominal <- TwoPerWindow
  MAX_SOURCES = 2
  MaxSources = 2
  ClockMod = 1024
  CounterMod = 4
  CountMax = 1
  RSSI_HYST_DB = 8
  RSSI_HOLD_MS = 2
  SEL_WINDOW_MS = 100
  SEL_LOSS_GATE_PCT = 5
  SEL_BLACKLIST_MS = 2
  SEL_MIN_SWITCH_MS = 4
  Outcomes <- NoLoss
  Rssis <- Ranked
  RelayFlags = {TRUE, FALSE}
  Timeouts = {2}
  Selections = {TRUE}
  RelayRequests = {TRUE}
  MayForce = FALSE
  StartTime = 1021
  MaxWinLost = 0
  Horizon = 1026
SYMMETRY MacSymmetry
INVARIANTS NoSplice HandoffsExact
PROPERTIES HysteresisSpacing
CHECK_DEADLOCK FALSE
