\* Distinct scores, every algorithm, a graph that changes during a walk.
SPECIFICATION Spec
CONSTANTS
  a = a  b = b  c = c  d = d  e = e  x = x  y = y  z = z
  None = None
  Movies = {a, b, c, d, e}
  GenresOf <- Genres
  Score <- Distinct
  Others = {x, y, z}
  WatchedBy <- Watchers
  LikedBy <- Likers
  MaxSimilar = 2
  Override = {None, "HYBRID", "SERENDIPITY"}
  PageLimit = 2
  MaxLimit = 4
  DefaultLimit = 2
  Weight = 50
  ContentMin = 1
  CollabMin = 2
  MaxWatch = 4
INVARIANT TypeOK
INVARIANT SlicesInBounds
INVARIANT WalkIsExact
INVARIANT RecommendedAreNew
