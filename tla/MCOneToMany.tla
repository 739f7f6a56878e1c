---------------------------- MODULE MCOneToMany ----------------------------
EXTENDS OneToMany
\* The graph of MCCHQuery.  Tile 1 holds na and nb, tile 2 the others.
CONSTANTS na, nb, nc, nd, ne, ab, ba, bc, bc2, cd, db, ad, ed, bb
Row(x, y, w) == [from |-> x, to |-> y, weight |-> w]
Table == (ab :> Row(na, nb, 1)) @@ (ba :> Row(nb, na, 2)) @@ (bc :> Row(nb, nc, 1)) @@
         (bc2 :> Row(nb, nc, 3)) @@ (cd :> Row(nc, nd, 1)) @@ (db :> Row(nd, nb, 2)) @@
         (ad :> Row(na, nd, 4)) @@ (ed :> Row(ne, nd, 1)) @@ (bb :> Row(nb, nb, 1))
MCNodeA == [x \in Edge |-> Table[x].from]
MCNodeB == [x \in Edge |-> Table[x].to]
MCWeight == [x \in Edge |-> Table[x].weight]
MCTileOf == [n \in Node |-> IF n \in {na, nb} THEN 1 ELSE 2]

\* All the nodes as sources, and a place near none; some of them as targets, or all.
MCRequests == {<<<<na, nb, NoNode, nc, nd, ne>>, <<na, NoNode>>>>,
               <<<<ne, nd, nc, nd, nb, na>>, <<ne, nc, na, nb, nd>>>>}
=============================================================================
