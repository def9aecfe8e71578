SPECIFICATION FairSpec
CONSTANTS
  g1 = g1
  g2 = g2
  g3 = g3
  Goroutines = {g1, g2, g3}
  NoOne = NoOne
  Exclusive = FALSE
  NoTx = NoTx
  ByText = ByText
  Texts <- TextsNone
  Txs = {x1}
  May <- MaySharing
INVARIANTS
  TypeOK
  NoUseAfterFree
  WatcherContained
  OneEnder
PROPERTIES
  ImplementsHandle
  DeliveredInterruptStops
  EveryCallReturns
