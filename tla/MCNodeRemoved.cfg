CONSTANTS
  Tx <- MCTwo
  NoTx = NoTx
  MaxId = 2
  MaxIncluded = 2
  SendTx <- NoSend
  max_transactions = 1
  InitialMode = "Auto"
  Requests = {"evm_mine"}
  MaxQueued = 1
SPECIFICATION NodeSpec
PROPERTY
  OnlyBlockedRemoved
