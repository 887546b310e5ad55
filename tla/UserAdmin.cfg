SPECIFICATION Spec
CONSTANTS
  r1 = r1
  r2 = r2
  c1 = c1
  t1 = t1
  t2 = t2
  None = None
  Users <- MCPairUsers
  Initial <- MCPair
  Roles = {"root", "admin", "csr"}
  Statuses = {FALSE}
  Threads <- MCThreads
  Kinds = {"create", "put", "delete"}
INVARIANTS TypeOK RulesKeepARoot
PROPERTIES OnlyRootsMakeRoots CreatorScope NoRowRevival RootsFallToRootsOnly
SYMMETRY Symmetry
