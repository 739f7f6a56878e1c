CONSTANTS
  src = src
  mid = mid
  side = side
  dst = dst
  Key = {k}
  Node = {src, mid, side, dst}
  Tile = {1, 2}
  TileOf <- MCTileOf
  Out <- MCOut
  Queries <- MCOtherQueries
  Edge = {1, 2, 3, 4, 5}
  NodeA <- MCNodeA
  NodeB <- MCNodeB
  Weight <- MCWeight
  SkipEdges = {4}
  Unlimited = 100
  NoNode = nonode
  NoEdge = noedge
  NoKey = nokey
  NoTile = notile
  ChanCap = 4
  FirstEdge = 3
  MaxBlind = 3
  ZeroRequests = TRUE
SPECIFICATION FairSpec
INVARIANTS
  BlindOnlyAtEnd
PROPERTIES
  ReturnsOrZeroMissed
  PathIsRead
CHECK_DEADLOCK FALSE
