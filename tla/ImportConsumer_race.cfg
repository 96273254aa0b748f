\* One replica, two workers, a malformed message and an unknown movie.
SPECIFICATION Spec
CONSTANTS
  m1 = m1  m2 = m2  m3 = m3
  i1 = i1  i2 = i2
  r1 = r1
  a = a  b = b
  None = None
  Malformed = Malformed
  Replicas = {r1}
  WorkerCount = 2
  MaxBatch = 2
  Msgs = {m1, m2, m3}
  ImdbIds = {i1, i2}
  Body <- RaceBody
  Unknown = {i2}
  MovieIds = {a, b}
  MaxStops = 1
SYMMETRY MovieIdSymmetry
INVARIANT TypeOK
INVARIANT DeletedMeansImported
INVARIANT ExitMeansDrained
PROPERTY MovieIdsStable
PROPERTY ImplementsPromise
