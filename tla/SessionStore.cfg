SPECIFICATION FairSpec
CONSTANTS
  u1 = u1
  k1 = k1
  k2 = k2
  t1 = t1
  t2 = t2
  None = None
  Users <- MCUsers
  Tokens <- MCTokens
  Threads <- MCThreads
  Requests = {"auth", "refresh", "logout", "login", "edit", "delete", "archive"}
INVARIANTS TypeOK CopiesAgree OneRowPerSession
PROPERTIES NoResurrection NoSessionRevival DeletedUserStaysOut RevokedTokensDie
