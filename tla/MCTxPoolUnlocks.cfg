CONSTANTS
  Tx <- MCTxSmall
  NoTx = NoTx
  MaxId = 3
  MaxIncluded = 1
SPECIFICATION Spec
INVARIANT UnlocksCurrent
