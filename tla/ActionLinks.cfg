SPECIFICATION FairSpec
CONSTANTS
  Accounts = {s1}
  Subs = {s1}
  Links = {l1}
  Threads = {t1}
  Manager = mgr
  MaxBatch = 1
  LinkLife = 0
  SignupLife = 0
  KeepLinks = 1
  MaxTime = 1
  MaxFills = 1
  MaxCrashes = 1
  None = None
  Gone = Gone
INVARIANTS SentAfterPost CancelledLinksRefused
PROPERTIES DeletionIsFinal LinksGetMailed
CHECK_DEADLOCK FALSE
