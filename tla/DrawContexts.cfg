CONSTANTS
  Client = {a, b}
  Impatient = {a, b}
  Key = {k}
  Batches = 2
  NoKey = nokey
  NoSearch = nosearch
SPECIFICATION DrawSpec
INVARIANTS
  DrawsItsOwn
  FinishedIsGone
PROPERTY CreateIsAnswered
CHECK_DEADLOCK FALSE
