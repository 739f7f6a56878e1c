----------------------------- MODULE MCCHQuery -----------------------------
EXTENDS CHQuery
CONSTANTS na, nb, nc, nd, ne, ab, ba, bc, bc2, cd, db, ad, ed, bb
Row(x, y, w) == [from |-> x, to |-> y, weight |-> w]
\* A street in both directions and one that leads round, parallel edges, a loop,
\* a direct edge that is longer than the way round, and a node
\* nothing leads to.
Table == (ab :> Row(na, nb, 1)) @@ (ba :> Row(nb, na, 2)) @@ (bc :> Row(nb, nc, 1)) @@
         (bc2 :> Row(nb, nc, 3)) @@ (cd :> Row(nc, nd, 1)) @@ (db :> Row(nd, nb, 2)) @@
         (ad :> Row(na, nd, 4)) @@ (ed :> Row(ne, nd, 1)) @@ (bb :> Row(nb, nb, 1))
MCNodeA == [x \in Edge |-> Table[x].from]
MCNodeB == [x \in Edge |-> Table[x].to]
MCWeight == [x \in Edge |-> Table[x].weight]
=============================================================================
