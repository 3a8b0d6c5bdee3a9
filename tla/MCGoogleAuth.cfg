SPECIFICATION GoogleSpec
CONSTANTS
  Requests = {r1, r2, r3}
  Tokens = {t1, t2}
  Accounts = {a1, a2}
  DbFails = TRUE
INVARIANTS
  GoogleTypeOK
  OneUserPerAccount
PROPERTY ImplementsService
CHECK_DEADLOCK FALSE
