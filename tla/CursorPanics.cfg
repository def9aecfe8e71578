SPECIFICATION Spec
CONSTANTS
  Total = 1
  Width = 1
  NoRow = NoRow
  Faulty = 0
INVARIANT
  CollectAnswers
CHECK_DEADLOCK FALSE
