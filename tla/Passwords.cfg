SPECIFICATION FairSpec
CONSTANTS
  Accounts = {a1}
  p1 = p1
  Passwords = {p1, p2}
  ValidPasswords = {p2}
  HowManyOldPassword = 1
  Settable = {"suspended"}
  Threads = {t1, t2}
  Initial <- FirstPassword
  None = None
INVARIANTS TypeOK HistoryConsistent GateHolds
PROPERTY ChangesSettle
