SPECIFICATION Spec
CONSTANTS
  r1 = r1
  r2 = r2
  c1 = c1
  t1 = t1
  t2 = t2
  None = None
  Users <- MCRootUsers
  Initial <- MCRoots
  Roles = {"root"}
  Statuses = {FALSE}
  Threads <- MCThreads
  Kinds = {"delete"}
INVARIANTS NotRootless
