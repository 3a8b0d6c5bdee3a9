SPECIFICATION SessionSpec
CONSTANTS
  Users = {u1, u2}
  Sockets = {s1, s2}
  Names = {n1}
  Anon = Anon
  NoEntry = NoEntry
  NoName = NoName
  Unruly = {"hangup"}
  MaxPending = 2
PROPERTY DeletedSocketSkipped
