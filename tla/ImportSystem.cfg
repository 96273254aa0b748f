\* A job of one movie, two replicas of one worker.
SPECIFICATION LiveSpec
CONSTANTS
  i1 = i1
  r1 = r1  r2 = r2
  a = a  b = b
  None = None
  Malformed = Malformed
  SearchTerms <- TwoTerms
  RequestPages = 1
  Catalogue <- Omdb
  Replicas = {r1, r2}
  Home = r1
  WorkerCount = 1
  MaxBatch = 1
  ImdbIds = {i1}
  Unknown = {}
  MovieIds = {a, b}
  MaxStops = 1
INVARIANT NothingLost
PROPERTY ImportComesToRest
PROPERTY ClosedChannelEndsWorkers
