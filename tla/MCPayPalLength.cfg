SPECIFICATION PayPalSpec
CONSTANTS
  Requests = {r1}
  Users = {u1}
  i1 = i1
  i2 = i2
  o1 = o1
  o2 = o2
  Ids = {i1}
  Orders = {o1}
  Named <- MCNamed
  Sound = {o1}
  Texts = {hi, long, other}
  Blocked = {}
  Overlong = {long}
  SortsAfter = {other}
  Credentials = TRUE
  DbFails = FALSE
  MaxFaults = 1
INVARIANT LongMessagesRefused
