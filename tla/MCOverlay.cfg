CONSTANTS
  sa = sa
  sb = sb
  ma = ma
  mb = mb
  mc = mc
  ta = ta
  tb = tb
  s1 = s1
  s2 = s2
  in1 = in1
  in2 = in2
  m1 = m1
  m2 = m2
  m3 = m3
  m4 = m4
  out1 = out1
  out2 = out2
  t1 = t1
  around = around
  home = home
  Node = {sa, sb, ma, mb, mc, ta, tb}
  Edge = {s1, s2, in1, in2, m1, m2, m3, m4, out1, out2, t1, around, home}
  NodeA <- MCNodeA
  NodeB <- MCNodeB
  Weight <- MCWeight
  Number <- MCNumber
  Tilings <- MCTilings
  NoNode = nonode
  FirstEdge = s1
  NoEdge = noedge
  Unlabelled = 12
  Limit = 9
  Spare = {0, 3}
  MaxRoute = 9
SPECIFICATION Spec
INVARIANTS
  FindsShortest
  RouteIsReal
PROPERTIES
  RequestIsAnswered
CHECK_DEADLOCK FALSE
