SPECIFICATION Spec
CONSTANTS
  NoMac = NoMac
  Macs = {a, b}
  Modes <- OneMode
  Nominal <- TwoPerWindow
  MAX_SOURCES = 2
  MaxSources = 2
  ClockMod = 1024
  CounterMod = 4
  CountMax = 2
  RSSI_HYST_DB = 8
  RSSI_HOLD_MS = 2
  SEL_WINDOW_MS = 2
  SEL_LOSS_GATE_PCT = 5
  SEL_BLACKLIST_MS = 4
  SEL_MIN_SWITCH_MS = 4
  Outcomes <- SomeLoss
  Rssis <- Unranked
  RelayFlags = {FALSE}
  Timeouts = {2}
  Selections = {TRUE, FALSE}
  RelayRequests = {}
  MayForce = TRUE
  StartTime = 1021
  MaxWinLost = 1
  Horizon = 1025
SYMMETRY MacSymmetry
INVARIANT NoSplice
PROPERTIES LockLeftForCause CoolOffHonoured
CHECK_DEADLOCK FALSE
