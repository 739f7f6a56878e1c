CONSTANTS
  na = na
  nb = nb
  nc = nc
  nd = nd
  ne = ne
  ab = ab
  ba = ba
  bc = bc
  bc2 = bc2
  cd = cd
  db = db
  ad = ad
  ed = ed
  bb = bb
  Node = {na, nb, nc, nd, ne}
  Edge = {ab, ba, bc, bc2, cd, db, ad, ed, bb}
  NodeA <- MCNodeA
  NodeB <- MCNodeB
  Weight <- MCWeight
  NoNode = nonode
  HopLimits = {2, 3, 100}
  Unlabelled = 1000
  Schemes = {"rounds", "given", "hops", "plain", "tiled", "interior", "full"}
  TileOf <- MCTileOf
  FewHops = 2
  MoreHops = 3
  AllHops = 100
  Solvers = {"dijkstra", "avoid", "phast", "range"}
  Ranges = {3, 1000}
  Requests <- MCRequests
  AvoidedEdges = {cd}
  AvoidedNodes = {na}
  Unreached = 100
  MaxCount = 1
SPECIFICATION ManySpec
INVARIANTS
  NoNodeIsForgotten
  MatrixIsRight
PROPERTIES
  HierarchyIsMade
  MatrixIsAnswered
CHECK_DEADLOCK FALSE
