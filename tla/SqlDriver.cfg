SPECIFICATION Spec
CONSTANTS
  Callers = {g1, g2}
  Conns = {c1, c2}
  NoConn = NoConn
CHECK_DEADLOCK FALSE
INVARIANTS
  TypeOK
  RunsOnce
  OneOpen
  NothingLeft
PROPERTIES
  NoInheritedTransaction
