SPECIFICATION Spec
CONSTANTS
  Goroutines = {g1, g2}
  DBs = {d1}
  Conns = {c1, c2}
  Stmts = {s1}
  Results = {r1}
  NoConn = NoConn
SYMMETRY Symmetry
CHECK_DEADLOCK FALSE
INVARIANTS
  TypeOK
  FreedOnce
  ReachableStaysOpen
  NothingLeaks
PROPERTIES
  ImplementsHandles
