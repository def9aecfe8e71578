SPECIFICATION FairSpec
CONSTANTS
  Total = 2
  Width = 2
  NoRow = NoRow
  Faulty = 2
INVARIANTS
  NoTornRow
PROPERTIES
  CollectsTheRest
  IterationEnds
CHECK_DEADLOCK FALSE
