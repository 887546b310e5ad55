SPECIFICATION Spec
CONSTANTS
  Accounts = {user}
  Admins = {}
  Subscribers = {user}
  Numbers = {n1}
  Codes = {c1, c2}
  Threads = {t1, t2}
  Tokens = {k1}
  Offered = {"sms", "email"}
  None = None
  MaxTime = 1
  SmsLife = 0
  MaxSms = 2
  TokenLife = 1
  MfaLife = 0
  TotpCode <- MCTotpCode
  TotpWindow = 1
  MaxSecrets = 0
SYMMETRY SmsSymmetry
INVARIANTS NoSilentBypass NumbersConfirmed
CHECK_DEADLOCK FALSE
