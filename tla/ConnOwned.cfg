SPECIFICATION Spec
CONSTANTS
  g1 = g1
  g2 = g2
  g3 = g3
  Goroutines = {g1, g2}
  NoOne = NoOne
  Exclusive = TRUE
  NoTx = NoTx
  ByText = ByText
  Texts <- TextsBoth
  Txs = {x1, x2}
  May <- MayOwning
INVARIANTS
  NoOrphanTransaction
  TxStatementsInside
  FlagAgrees
  NameStillLent
PROPERTIES
  OwnInterruptsOnly
  CauseReported
