SPECIFICATION FairSpec
CONSTANTS
  g1 = g1
  g2 = g2
  g3 = g3
  Goroutines = {g1, g2, g3}
  NoOne = NoOne
  Names = {c1, c2}
  NoName = NoName
  May <- MayLoading
INVARIANTS
  NoUseAfterFree
  AllOrNothing
PROPERTIES
  FinishedStays
  EveryCallReturns
