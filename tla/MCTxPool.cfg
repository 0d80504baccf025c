CONSTANTS
  Tx <- MCTx
  NoTx = NoTx
  MaxId = 3
  MaxIncluded = 2
SPECIFICATION Spec
INVARIANTS
  TypeOK
  OnePlace
  PendingIndexed
  MarkersProvided
  NoStuckPending
  AllReadyYielded
  NoCycle
  Inv
PROPERTIES
  ReplacementPays
  LossJustified
