CONSTANTS
  Tx <- MCTwo
  NoTx = NoTx
  MaxId = 2
  MaxIncluded = 2
  SendTx <- NoSend
  max_transactions = 2
  InitialMode = "Auto"
  Requests = {}
  MaxQueued = 1
SPECIFICATION NodeSpec
PROPERTY
  ReadyAnnounced
