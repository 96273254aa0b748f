\* No faults: overlapping requests alone leave the name out of step.
SPECIFICATION Spec
CONSTANTS
  p1 = p1  p2 = p2
  u1 = u1  u2 = u2  u3 = u3
  e1 = e1  e2 = e2
  n1 = n1  n2 = n2
  s1 = s1
  patchable = patchable  wildcard = wildcard  empty = empty
  m1 = m1  m2 = m2
  None = None
  Procs = {p1, p2}
  Ids = {u1}
  Emails = {e1}
  Names = {n1, n2}
  Secrets = {s1}
  Roles = {patchable}
  PatchRoles = {patchable}
  EmptyRoles = empty
  Movies = {m1}
  ContentMin = 1
  CollabMin = 2
  SeedRows <- NoIds
  SeedNodes <- NoIds
  SeedEmail = e1
  Faults = FALSE
  MaxWatch = 2
SYMMETRY Symmetry
INVARIANT NameSynchronised

