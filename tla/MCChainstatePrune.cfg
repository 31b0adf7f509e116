SPECIFICATION Spec
CONSTANTS
  g = g
  f = f
  a1 = a1
  a2 = a2
  b1 = b1
  bad = bad
  o1 = o1
  o2 = o2
  o3 = o3
  o4 = o4
  Null = Null
  NoCoin = NoCoin
  Blocks <- MCBlocks
  Genesis = g
  Parent <- MCParent
  Height <- MCHeight
  Ancestors <- MCAncestors
  Txs <- MCTxs
  Outpoints = {o1, o2, o3, o4}
  Prune = TRUE
  KeepBlocks = 1
  PowerLoss = FALSE
  MaxCrashes = 1
INVARIANT StartupSucceeds
