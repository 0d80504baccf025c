CONSTANTS
  Tx <- MCTwo
  NoTx = NoTx
  MaxId = 2
  MaxIncluded = 2
  SendTx <- AllSend
  max_transactions = 2
  InitialMode = "None"
  Requests = {}
  MaxQueued = 1
SPECIFICATION NodeSpec
INVARIANT
  RequiresPredecessor
