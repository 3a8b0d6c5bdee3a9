SPECIFICATION SessionSpec
CONSTANTS
  Users = {u1, u2}
  Sockets = {s1, s2}
  Names = {n1, n2}
  Anon = Anon
  NoEntry = NoEntry
  NoName = NoName
  Unruly = {"rehello", "switch", "hangup"}
  MaxPending = 1
SYMMETRY Symmetry
INVARIANTS
  SessionTypeOK
  SocketIndexed
  RosterInSync
  OrderlyPaired
  MapOnlyLive
PROPERTY ImplementsPresence
