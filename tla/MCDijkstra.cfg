CONSTANTS
  na = na
  nb = nb
  nc = nc
  nd = nd
  nu = nu
  ab = ab
  ac = ac
  bd = bd
  cd = cd
  bc = bc
  dear = dear
  loop = loop
  back = back
  out = out
  Node = {na, nb, nc, nd, nu}
  Edge = {ab, ac, bd, cd, bc, dear, loop, back, out}
  NodeA <- MCNodeA
  NodeB <- MCNodeB
  Weight <- MCWeight
  Lambda <- MCLambda
  FirstEdge = ab
  NoNode = nonode
  Unreached = 100
  MaxPath = 6
SPECIFICATION FairSpec
INVARIANTS
  Certified
  FailsRightly
PROPERTIES
  WalkKeepsLength
  CalcAnswers
CHECK_DEADLOCK FALSE
