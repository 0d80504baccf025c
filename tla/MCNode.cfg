CONSTANTS
  Tx <- MCTwo
  NoTx = NoTx
  MaxId = 2
  MaxIncluded = 2
  SendTx <- NoSend
  max_transactions = 1
  InitialMode = "Mixed"
  Requests = {"anvil_dropTransaction", "evm_setAutomine", "evm_setIntervalMining"}
  MaxQueued = 1
SPECIFICATION NodeSpec
INVARIANTS
  AutoMinerComplete
  StuckOnlyIfStale
  BatchInOrder
