\* Three terms, up to two pages each.
SPECIFICATION Spec
CONSTANTS
  i1 = i1  i2 = i2  i3 = i3
  SearchTerms <- ThreeTerms
  RequestPages = 2
  ImdbIds = {i1, i2, i3}
  Catalogue <- Omdb
INVARIANT TypeOK
INVARIANT FinishedJobTriedAll
PROPERTY JobEnds
