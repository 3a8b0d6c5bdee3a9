SPECIFICATION PayPalSpec
CONSTANTS
  Requests = {r1, r2}
  Users = {u1}
  i1 = i1
  i2 = i2
  o1 = o1
  o2 = o2
  Ids = {i1, i2, i3}
  Orders = {o1, o2}
  Named <- MCNamed
  Sound = {o1}
  Texts = {hi, bad}
  Blocked = {bad}
  Overlong = {}
  SortsAfter = {}
  Credentials = TRUE
  DbFails = TRUE
  MaxFaults = 1
INVARIANTS
  PayPalTypeOK
  PublishedOnce
PROPERTIES
  ImplementsDonations
  EveryRequestEnds
