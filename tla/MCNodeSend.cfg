CONSTANTS
  Tx <- MCTwo
  NoTx = NoTx
  MaxId = 2
  MaxIncluded = 2
  SendTx <- AllSend
  max_transactions = 2
  InitialMode = "Auto"
  Requests = {"anvil_dropTransaction", "anvil_dropAllTransactions"}
  MaxQueued = 1
SPECIFICATION NodeSpec
INVARIANT
  AutoMinerComplete
PROPERTIES
  PoolCalls
  ReadyMined
  LeftBehindRetried
