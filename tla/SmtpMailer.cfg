SPECIFICATION MailerFairSpec
CONSTANTS
  Mails = {m1, m2, m3}
  MailRetry = 4
  MailAbandon = 5
  Pause = 1
  MaxSend = 1
INVARIANTS
  MailerTypeOK
  WholePass
PROPERTIES
  IsMailQueue
  MailsLeave
CHECK_DEADLOCK FALSE
