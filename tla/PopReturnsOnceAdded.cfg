\* Two producers and one consumer, as the manager runs the routing queue.
CONSTANTS
  Producers = {p1, p2}
  Consumers = {c1}
  Proc = {p1, p2, c1}
  Item = {a}
  Zero = zero
  Free = free
  MaxPush = 3
SPECIFICATION FairSpec
PROPERTY PopReturnsOnceAdded
\* The pushes run out while the consumer waits.
CHECK_DEADLOCK FALSE
