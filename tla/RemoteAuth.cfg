SPECIFICATION FairSpec
CONSTANTS
  root = root
  u1 = u1
  k1 = k1
  k2 = k2
  t1 = t1
  t2 = t2
  None = None
  Users <- MCUsers
  Root = root
  Callers = {root}
  Spellings = {"A", "a"}
  Lower <- MCLower
  Threads <- MCThreads
  MaxKeys = 1
  MaxId = 2
  MaxNow = 1
  MaxBus = 2
  Tokens <- MCTokens
  Sessions <- MCSessions
  MaxWork = 3
  TokenUser <- MCTokenUser
  TokenEnd <- MCTokenEnd
  Presented <- MCPresented
INVARIANTS KeysBounded 
PROPERTIES RevokedLeaves
