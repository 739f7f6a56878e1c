----------------------------- MODULE MCDijkstra -----------------------------
EXTENDS Dijkstra, TLC

\* Two ways from na to nd of the same length (over nb and nc), a shorter one that
\* takes three edges, a pair of parallel edges, a loop, a way back, and a node
\* nothing leads to.
CONSTANTS na, nb, nc, nd, nu, ab, ac, bd, cd, bc, dear, loop, back, out
Row(x, y, w) == [from |-> x, to |-> y, weight |-> w]
Table == (ab :> Row(na, nb, 1)) @@ (ac :> Row(na, nc, 2)) @@ (bd :> Row(nb, nd, 4)) @@
         (cd :> Row(nc, nd, 2)) @@ (bc :> Row(nb, nc, 0)) @@ (dear :> Row(na, nc, 3)) @@
         (loop :> Row(nb, nb, 1)) @@ (back :> Row(nd, na, 1)) @@ (out :> Row(nu, na, 1))
MCNodeA == [x \in Edge |-> Table[x].from]
MCNodeB == [x \in Edge |-> Table[x].to]
MCWeight == [x \in Edge |-> Table[x].weight]

\* To nd the estimate is consistent, to nc it is not (from nb it is more than the
\* edge to nc); to the others there is none.
MCLambda == [n \in Node |-> [m \in Node |->
  CASE n = nd -> (na :> 3 @@ nb :> 2 @@ nc :> 1 @@ nd :> 0 @@ nu :> 4)[m]
    [] n = nc -> (na :> 1 @@ nb :> 3 @@ nc :> 0 @@ nd :> 2 @@ nu :> 2)[m]
    [] OTHER -> 0]]
=============================================================================
