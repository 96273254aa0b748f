\* Two requests at once, tokens of one hour, two tokens.
SPECIFICATION Spec
CONSTANTS
  p1 = p1  p2 = p2
  u1 = u1  u2 = u2
  s1 = s1  s2 = s2
  None = None
  Procs = {p1, p2}
  Users = {u1, u2}
  Seed = u1
  Secrets = {s1, s2}
  RoleLists <- FewRoles
  Called <- FewRoutes
  Expiry = 1
  RequestTime = 1
  MaxClock = 3
  MaxTokens = 2
  MaxReplaced = 1
SYMMETRY Symmetry
INVARIANT TypeOK
INVARIANT RightsExpire
INVARIANT LoginIsSnapshot
PROPERTY ChangesAreAuthorised
