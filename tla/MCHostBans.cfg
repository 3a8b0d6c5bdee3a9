SPECIFICATION HostSpec
CONSTANTS
  Users = {mod, u1}
  Mods = {mod}
  Admins = {}
  Sockets = {s1, s2}
  Hosts = {h1, h2}
  NoHost = NoHost
  Anon = Anon
  NoEntry = NoEntry
  Unruly = {"rehello", "switch", "hangup"}
  BanTimes = {1}
  Forever = 2
  MaxTime = 1
  MaxPending = 1
SYMMETRY Symmetry
INVARIANTS
  HostTypeOK
PROPERTIES
  EvasionStopped
  BansExact
