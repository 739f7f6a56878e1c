CONSTANTS
  na = na
  nb = nb
  nc = nc
  nd = nd
  ne = ne
  ab = ab
  ba = ba
  bc = bc
  bc2 = bc2
  cd = cd
  db = db
  ad = ad
  ed = ed
  bb = bb
  Node = {na, nb, nc, nd, ne}
  Edge = {ab, ba, bc, bc2, cd, db, ad, ed, bb}
  NodeA <- MCNodeA
  NodeB <- MCNodeB
  Weight <- MCWeight
  NoNode = nonode
  HopLimits = {2, 100}
  Unlabelled = 1000
  FirstNode = na
  FirstLength = 100
  NoLength = 1000
SPECIFICATION Spec
INVARIANTS
  DistancesKept
  LevelsAscend
  ShortcutsUnpack
  ResultIsRight
  PathIsMade
CHECK_DEADLOCK FALSE
