SPECIFICATION Spec
CONSTANTS
  Accounts = {u1}
  Subs = {}
  Links = {l1, l2}
  Threads = {t1}
  Manager = mgr
  MaxBatch = 1
  LinkLife = 0
  SignupLife = 0
  KeepLinks = 1
  MaxTime = 1
  MaxFills = 0
  MaxCrashes = 0
  None = None
  Gone = Gone
INVARIANT Dormant
PROPERTY WaitingEndsByLink
SYMMETRY LinkSymmetry
CHECK_DEADLOCK FALSE
