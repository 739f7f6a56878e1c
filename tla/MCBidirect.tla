----------------------------- MODULE MCBidirect -----------------------------
EXTENDS Bidirect, TLC

\* Two ways from na to nd of the same length, a shorter one of three edges that
\* meets in the middle, a pair of parallel edges, a loop, a way back, and a node
\* nothing leads to.
CONSTANTS na, nb, nc, nd, nu, ab, ac, bd, cd, bc, dear, loop, back, out
Row(x, y, w) == [from |-> x, to |-> y, weight |-> w]
Table == (ab :> Row(na, nb, 1)) @@ (ac :> Row(na, nc, 2)) @@ (bd :> Row(nb, nd, 4)) @@
         (cd :> Row(nc, nd, 2)) @@ (bc :> Row(nb, nc, 0)) @@ (dear :> Row(na, nc, 3)) @@
         (loop :> Row(nb, nb, 1)) @@ (back :> Row(nd, na, 1)) @@ (out :> Row(nu, na, 1))
MCNodeA == [x \in Edge |-> Table[x].from]
MCNodeB == [x \in Edge |-> Table[x].to]
MCWeight == [x \in Edge |-> Table[x].weight]

\* The sums of two numbers lie below, between and above the lengths of the paths.
MCId == na :> 1 @@ nb :> 2 @@ nc :> 0 @@ nd :> 4 @@ nu :> 3

MCLambda == [n \in Node |-> [m \in Node |->
  CASE n = nd -> (na :> 3 @@ nb :> 2 @@ nc :> 1 @@ nd :> 0 @@ nu :> 4)[m]
    [] n = na -> (na :> 0 @@ nb :> 1 @@ nc :> 1 @@ nd :> 3 @@ nu :> 1)[m]
    [] OTHER -> IF m = n THEN 0 ELSE 2]]
MCAir == [n \in Node |-> [m \in Node |-> IF m = n THEN 0 ELSE 1]]
=============================================================================
