\* The seeded pair, whose ids differ, and one new account, which may claim its e-mail.
SPECIFICATION Spec
CONSTANTS
  p1 = p1  p2 = p2
  u1 = u1  u2 = u2  u3 = u3
  e1 = e1  e2 = e2
  n1 = n1  n2 = n2
  s1 = s1
  patchable = patchable  wildcard = wildcard  empty = empty
  m1 = m1  m2 = m2
  None = None
  Procs = {p1, p2}
  Ids = {u1, u2, u3}
  Emails = {e1, e2}
  Names = {n1}
  Secrets = {s1}
  Roles = {patchable, wildcard}
  PatchRoles = {patchable}
  EmptyRoles = empty
  Movies = {m1}
  ContentMin = 1
  CollabMin = 2
  SeedRows <- SeedRow
  SeedNodes <- SeedNode
  SeedEmail = e1
  Faults = TRUE
  MaxWatch = 0
SYMMETRY Symmetry
INVARIANT NodesHaveRows
PROPERTY AnswersAreTrue
PROPERTY OnlySentColumnsChange
