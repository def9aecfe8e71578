SPECIFICATION Spec
CONSTANTS
  g1 = g1
  g2 = g2
  g3 = g3
  Goroutines = {g1}
  NoOne = NoOne
  Exclusive = TRUE
  NoTx = NoTx
  ByText = ByText
  Texts <- TextsEnding
  Txs = {x1}
  May <- MayBlock
INVARIANTS
  ErrDoneOnceEnded
