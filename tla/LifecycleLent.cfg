SPECIFICATION Spec
CONSTANTS
  Goroutines = {g1}
  DBs = {d1}
  Conns = {c1}
  Stmts = {s1}
  Results = {r1}
  NoConn = NoConn
CHECK_DEADLOCK FALSE
INVARIANTS
  LentUntilClosed
