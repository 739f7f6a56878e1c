\* Two producers, as two runners that send requests at the same time, and two
\* consumers, one more than the manager has.
CONSTANTS
  Producers = {p1, p2}
  Consumers = {c1, c2}
  Proc = {p1, p2, c1, c2}
  Poppers = {c1, c2}
  Item = {a, b}
  Value = {a, b}
  Zero = zero
  NoValue = zero
  Free = free
  MaxPush = 4
  MaxCells = 4
SPECIFICATION ListedSpec
INVARIANTS
  SenderHasReceiver
  PopFindsItem
PROPERTIES
  ImplementsFifo
  PushCompletes
  DrainedOrLost
\* The pushes run out while the consumers wait.
CHECK_DEADLOCK FALSE
