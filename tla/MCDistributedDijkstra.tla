----------------------- MODULE MCDistributedDijkstra -----------------------
EXTENDS DistributedDijkstra, TLC

\* Tile 1 holds src and dst, tile 2 mid and side; the shortest path from src to
\* dst leaves tile 1, crosses tile 2 on its skip edge and comes back.
CONSTANTS src, mid, side, dst
MCNodeA == <<src, src, mid, mid, side>>
MCNodeB == <<dst, mid, side, side, dst>>
MCWeight == <<4, 1, 2, 1, 1>>
MCTileOf == (src :> 1) @@ (dst :> 1) @@ (mid :> 2) @@ (side :> 2)
MCOut == (src :> <<1, 2>>) @@ (mid :> <<3, 4>>) @@ (side :> <<5>>) @@ (dst :> <<>>)

MCQueries == {<<src, dst>>}
MCOtherQueries == {<<src, mid>>, <<side, dst>>, <<mid, mid>>, <<dst, src>>}
=============================================================================
