SPECIFICATION MessagesSpec
CONSTANTS
  Users = {u1, u2}
  Bot = Bot
  Conns = {}
  Texts = {hi, long}
  Blocked = {}
  Overlong = {long}
  Replies = {0}
  HistoryLength = 2
  DuplicateSlowMode = 1
  FollowDefault = 1
  ModeValues <- SomeModes
  BanTimes = {1}
  Forever = 7
  Fails <- SomeStatements
  OldestAccount = 5
  StartTime = 5
  MaxTime = 6
  MaxMessages = 2
  MaxDonations = 1
  IntHalf = 8
  LongHalf = 32
  Factors <- Plain
  BareUnit = "bare"
  OtherUnit = "other"
SYMMETRY Symmetry
INVARIANTS
  MessagesTypeOK
  ModesAsEntered
  BannedSilenced
  AdminsImmune
PROPERTIES ModesHonoured ImplementsLog
