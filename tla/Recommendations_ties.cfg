\* Equal ratings.
SPECIFICATION Spec
CONSTANTS
  a = a  b = b  c = c  d = d  e = e  x = x  y = y  z = z
  None = None
  Movies = {a, b, c, d, e}
  GenresOf <- Genres
  Score <- Tied
  Others = {x, y, z}
  WatchedBy <- Watchers
  LikedBy <- Likers
  MaxSimilar = 2
  Override = {None}
  PageLimit = 2
  MaxLimit = 4
  DefaultLimit = 2
  Weight = 50
  ContentMin = 1
  CollabMin = 2
  MaxWatch = 0
INVARIANT StableOrder
