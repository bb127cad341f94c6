SPECIFICATION Spec
CHECK_DEADLOCK FALSE
CONSTANTS
  a = a
  b = b
  c = c
  d = d
  Txs <- MCTxs
  Emits <- MCEmits
  Exprs <- Every
  MaxCalls = 2
  Faults = TRUE
INVARIANTS
  TypeOK
  AppliedInOrder
  ReceiptsMatchChain
  ResultsMatch
