CONSTANTS
  Client = {c1}
  U64Max = 3
  NoTime = NoTime
  Timestamps = {1, 3}
  Seconds = {1}
  MaxNow = 1
  MaxOffset = 3
SPECIFICATION Spec
PROPERTY
  AlwaysIncreasing
