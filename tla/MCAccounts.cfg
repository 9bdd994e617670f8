SPECIFICATION Spec
CONSTANTS
  u1 = u1
  u2 = u2
  n1 = n1
  n2 = n2
  e1 = e1
  e2 = e2
  g1 = g1
  g2 = g2
  f1 = f1
  f2 = f2
  q1 = q1
  q2 = q2
  None = None
  Users = {u1, u2}
  Names = {n1, n2}
  Emails = {e1, e2}
  Groups = {g1, g2}
  Factories = {f1, f2}
  Requests = {q1, q2}
  GroupOf <- MCGroupOf
  Seed <- MCSeed
  Mixes <- MCMixes
  MaxTokens = 3
  MaxSessions = 1
  MaxLinks = 2
  AccessTtl = 1
  RefreshTtl = 2
  LockTtl = 2
  LockThreshold = 2
  LinkTtl = 2
  Horizon = 2
  AskedRoles = {"ADMIN", "SALES"}
SYMMETRY RequestSymmetry
CHECK_DEADLOCK FALSE
INVARIANTS
  StaleRoleBounded
  LogoutEnds
  GuessesBounded
  LinkWorksOnce
  LatestLinkOnly
  ScopeMatchesRole
