SPECIFICATION Spec
CONSTANTS
  Accounts = {admin, user}
  Admins = {admin}
  Subscribers = {}
  Numbers = {n1}
  Codes = {0, 1, 2}
  Threads = {t1}
  Tokens = {k1}
  Offered = {"authenticator"}
  None = None
  MaxTime = 2
  SmsLife = 0
  MaxSms = 1
  TokenLife = 2
  MfaLife = 1
  TotpCode <- MCTotpCode
  TotpWindow = 2
  MaxSecrets = 2
SYMMETRY Symmetry
INVARIANTS ChannelConfirmed PendingTokensWithheld ChallengesHaveTokens
CHECK_DEADLOCK FALSE
