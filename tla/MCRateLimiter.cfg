SPECIFICATION LimiterSpec
CONSTANTS
  MAX_REQUEST_COUNT = 4
  MAX_REQUEST_INTERVAL = 4
  MaxTime = 9
  MaxPackets = 9
INVARIANTS
  LimiterTypeOK
  RateKept
PROPERTY ImplementsWindow
