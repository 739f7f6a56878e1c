CONSTANTS
  na = na
  nb = nb
  nc = nc
  nd = nd
  nu = nu
  ab = ab
  ac = ac
  bd = bd
  cd = cd
  bc = bc
  dear = dear
  loop = loop
  back = back
  out = out
  Node = {na, nb, nc, nd, nu}
  Edge = {ab, ac, bd, cd, bc, dear, loop, back, out}
  NodeA <- MCNodeA
  NodeB <- MCNodeB
  Weight <- MCWeight
  Id <- MCId
  Lambda <- MCLambda
  Air <- MCAir
  FirstNode = nc
  FirstEdge = ab
  NoNode = nonode
  Unreached = 100
  MaxRoute = 7
SPECIFICATION BidirectSpec
INVARIANTS
  SettledIsExact
  RouteIsReal
PROPERTIES
  AnswersOrRunsDry
CHECK_DEADLOCK FALSE
