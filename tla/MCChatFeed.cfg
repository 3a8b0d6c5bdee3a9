SPECIFICATION MessagesSpec
CONSTANTS
  Users = {u1}
  Bot = Bot
  Conns = {c1, c2}
  Texts = {hi, bad, long}
  Blocked = {bad}
  Overlong = {long}
  Replies = {1}
  HistoryLength = 1
  DuplicateSlowMode = 0
  FollowDefault = 0
  ModeValues = {}
  BanTimes <- LargeBans
  Forever = 99
  Fails <- AllStatements
  OldestAccount = 5
  StartTime = 5
  MaxTime = 5
  MaxMessages = 3
  MaxDonations = 0
  IntHalf = 1
  LongHalf = 32
  Factors <- OneUnit
  BareUnit = "bare"
  OtherUnit = "other"
SYMMETRY Symmetry
INVARIANTS
  FeedInSync
  BannedSilenced
  RepliesPointBack
PROPERTY ImplementsLog
