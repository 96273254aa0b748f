\* Four users on pages of two, created at three instants.
SPECIFICATION Spec
CONSTANTS
  seed = seed  u1 = u1  u2 = u2  u3 = u3
  None = None
  Users = {seed, u1, u2, u3}
  Caller = seed
  PageSize = 2
  MaxClock = 3
SYMMETRY Symmetry
INVARIANT TypeOK
INVARIANT NobodyMissed
INVARIANT RepeatsNeedLateRows
