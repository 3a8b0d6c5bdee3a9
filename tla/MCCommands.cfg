SPECIFICATION CommandsSpec
CONSTANTS
  Names = {"help", "help+accent", "cafe", "cafe+accent", "longname"}
  Builtins = {"help"}
  Collation <- Accents
  TooLong = {"longname"}
  Replies = {p1, p2}
  None = None
  TimerNames = {t1, t2}
  DbFails = TRUE
SYMMETRY Symmetry
INVARIANTS
  CommandsTypeOK
  BuiltinsIntact
  MapsAgree
  RestartKeeps
PROPERTY ImplementsDictionary
