------------------------------ MODULE Overlay ------------------------------
(***************************************************************************)
(* The overlay of a partitioned graph and the query that uses it:          *)
(* preproc/pre_process_tiles.go (PrepareSkeletonOverlay, PrepareOverlay),   *)
(* structs/shortcuts.go, graph/tiled_graph.go and                          *)
(* routing/binary_overlay_dijkstra.go.                                     *)
(*                                                                         *)
(* Each tile is crossed, from every node that an edge enters to every node *)
(* that an edge leaves, along a shortest path inside the tile: its edges   *)
(* are marked (the skeleton) or a shortcut stands for them (the clique).   *)
(* The query walks on all edges in the tiles of its start and its end, and *)
(* on marked edges and shortcuts in the tiles between.                     *)
(***************************************************************************)
EXTENDS Routes, SequencesExt, Distances

CONSTANTS Tilings,   \* the partitions: functions from nodes to tiles
          Number,    \* of each node
          FirstEdge, \* edge 0: what an unset variable names
          NoEdge,    \* edge -1
          Unlabelled, \* the first pathlength of a flag of the preprocessing
          Limit,     \* the first path_length of a flag of the query
          Spare,     \* how much room edges_dyn may have left: none once it was loaded
          MaxRoute   \* bound: the edges GetShortestPath collects

\* The weightings never give less than 1 (prepare.go).
ASSUME OverlayAssumption ==
  /\ Tilings # {} /\ \A t \in Tilings : DOMAIN t = Node
  /\ Number \in [Node -> Nat]
  /\ FirstEdge \in Edge /\ NoEdge \notin Edge
  /\ Spare # {} /\ Spare \subseteq Nat
  /\ Limit \in Nat /\ Unlabelled \in Nat /\ Limit <= Unlabelled /\ MaxRoute \in Nat
  /\ \A x \in Edge : Weight[x] > 0

VARIABLES tile, method,         \* the partition, "skeleton" or "clique"
          edge_types,           \* 10: crosses a border, 20: on a path of the skeleton
          shortcuts, edges_dyn, \* the shortcut store: shortcuts with their edgeref, edges
          crossing,             \* the nodes of the tile at work whose trees are still to grow
          paths,                \* the paths of the tree at work that are still to be kept
          tiles,                \* the tiles after it
          start, end,           \* the request
          room,                 \* the capacity of edges_dyn when it is made
          heap, flags,
          place, cur, path

overlay == <<tile, method, edge_types, shortcuts, edges_dyn, crossing, paths, tiles>>
request == <<start, end, room>>
vars == <<overlay, request, heap, flags, place, cur, path>>

-----------------------------------------------------------------------------
(* The overlay.                                                            *)

\* _UpdateCrossBorder
Types(t) == [x \in Edge |-> IF t[NodeA[x]] # t[NodeB[x]] THEN 10 ELSE 0]

\* _GetInOutNodes
InNodes(t) == {n \in Node : tile[n] = t /\ \E x \in Backward(n) : tile[NodeA[x]] # t}
OutNodes(t) == {n \in Node : tile[n] = t /\ \E x \in Forward(n) : tile[NodeB[x]] # t}

NoFlag == [seen |-> "no", len |-> 0, prev |-> FirstEdge, shc |-> FALSE, skip |-> FALSE]

Init ==
  /\ tile \in Tilings
  /\ method \in {"skeleton", "clique"}
  /\ edge_types = Types(tile)
  /\ shortcuts = <<>> /\ edges_dyn = <<>>
  /\ crossing = {} /\ paths = {}
  /\ tiles = {tile[n] : n \in Node}
  /\ start = NoNode /\ end = NoNode /\ room = 0
  /\ heap = {} /\ flags = [n \in Node \cup {NoNode} |-> NoFlag]
  /\ place = "prepare" /\ cur = NoNode /\ path = <<>>

NextTile ==
  /\ place = "prepare" /\ crossing = {} /\ paths = {}
  /\ \E t \in tiles : tiles' = tiles \ {t} /\ crossing' = InNodes(t)
  /\ UNCHANGED <<tile, method, edge_types, shortcuts, edges_dyn, paths, request, heap, flags, place, cur, path>>

Arcs(edges) == {[from |-> NodeA[x], to |-> NodeB[x], weight |-> Weight[x]] : x \in edges}
InnerEdges == {x \in Edge : edge_types[x] # 10}

\* The trees a search from s along inner edges can end with: of each node it
\* reaches the last edge of a shortest path.
Trees(s, dist) ==
  LET reached == {n \in Node \ {s} : dist[n] < Unlabelled}
      tight == {x \in InnerEdges : dist[NodeA[x]] + Weight[x] = dist[NodeB[x]]}
  IN {prev \in [reached -> tight] : \A n \in reached : NodeB[prev[n]] = n}

\* From the end of a path back to s.
PathBack(s, prev) ==
  LET back[n \in DOMAIN prev \cup {s}] ==
        IF n = s THEN <<>> ELSE <<prev[n]>> \o back[NodeA[prev[n]]]
  IN back

\* _CalcSkipEdges and _CalcShortcutEdges for one of the nodes the tile is entered
\* by: the tree, and the paths back from the nodes the tile is left by.  A node
\* that was seen and never labelled has edge -1, and the walk back panics.
Cross(s) ==
  /\ place = "prepare" /\ paths = {}
  /\ crossing' = crossing \ {s}
  /\ LET dist == DistancesFrom(s, Node, Arcs(InnerEdges), Unlabelled)
         seen == {n \in OutNodes(tile[s]) : dist[n] < Unlabelled
                                            \/ \E x \in InnerEdges \cap Backward(n) : dist[NodeA[x]] < Unlabelled}
     IN /\ \A n \in seen : dist[n] < Unlabelled
        /\ \E prev \in Trees(s, dist) :
             paths' = {[from |-> s, to |-> n, length |-> dist[n], edges |-> PathBack(s, prev)[n]] : n \in seen}
  /\ UNCHANGED <<tile, method, edge_types, shortcuts, edges_dyn, tiles, request, heap, flags, place, cur, path>>

MarkEdges(p) ==
  /\ method = "skeleton"
  /\ edge_types' = [x \in Edge |-> IF x \in ToSet(p.edges) THEN 20 ELSE edge_types[x]]
  /\ UNCHANGED <<shortcuts, edges_dyn>>

\* The edgeref is given where the edgerefs end, not the edges.
AddShortcut(p) ==
  /\ method = "clique"
  /\ shortcuts' = Append(shortcuts, [from |-> p.from, to |-> p.to, weight |-> p.length,
                                     ref |-> Len(shortcuts), count |-> Len(p.edges)])
  /\ edges_dyn' = edges_dyn \o p.edges
  /\ UNCHANGED edge_types

\* The paths are kept in the order of the nodes they lead to.
KeepPath(p) ==
  /\ place = "prepare"
  /\ \A q \in paths : Number[p.to] <= Number[q.to]
  /\ paths' = paths \ {p}
  /\ MarkEdges(p) \/ AddShortcut(p)
  /\ UNCHANGED <<tile, method, crossing, tiles, request, heap, flags, place, cur, path>>

-----------------------------------------------------------------------------
(* The query.                                                              *)

EdgeRef(x) == [id |-> x, type |-> edge_types[x], other |-> NodeB[x], weight |-> Weight[x]]
ShortcutRef(k) ==
  [id |-> k, type |-> 100, other |-> shortcuts[k].to, weight |-> shortcuts[k].weight]

\* TiledGraphExplorer.ForAdjacentEdges: on the skip topology or on the base graph.
Adjacent(n, skip) ==
  IF skip THEN {EdgeRef(x) : x \in {y \in Forward(n) : edge_types[y] \in {10, 20}}}
               \cup {ShortcutRef(k) : k \in {l \in DOMAIN shortcuts : shortcuts[l].from = n}}
          ELSE {EdgeRef(x) : x \in Forward(n)}

Item(n, f) == [node |-> n, flag |-> f]
Ask(s, e) ==
  /\ place = "prepare" /\ tiles = {} /\ crossing = {} /\ paths = {}
  /\ start' = s /\ end' = e
  /\ \E spare \in Spare : room' = Len(edges_dyn) + spare
  /\ heap' = {Item(s, [NoFlag EXCEPT !.seen = "open", !.prev = NoEdge])}
  /\ place' = "search"
  /\ UNCHANGED <<overlay, flags, cur, path>>

Top(i) == place = "search" /\ \A j \in heap : i.flag.len <= j.flag.len

\* CalcShortestPath fails; Steps calls an empty heap finished, as it does the end,
\* and the handler then reads a route.
Exhausted ==
  /\ place = "search" /\ heap = {}
  /\ \/ place' = "failed" /\ UNCHANGED cur
     \/ place' = "walk" /\ cur' = end
  /\ UNCHANGED <<overlay, request, heap, flags, path>>

Found(i) ==
  /\ Top(i) /\ i.node = end
  /\ heap' = heap \ {i}
  /\ place' = "walk" /\ cur' = end
  /\ UNCHANGED <<overlay, request, flags, path>>

Overtaken(i) ==
  /\ Top(i) /\ i.node # end
  /\ heap' = heap \ {i}
  /\ flags[i.node].seen # "no" /\ flags[i.node].len < i.flag.len
  /\ UNCHANGED <<overlay, request, flags, place, cur, path>>

\* Mutant: a tile is left by marked edges only, also the one that the end is in.
SkipsEverywhere(i, ref) == IF ref.type = 10 THEN TRUE ELSE i.flag.skip

\* A flag remembers how its tile is to be walked: it is decided where a border is
\* crossed.
Skips(i, ref) ==
  IF ref.type = 10 THEN tile[ref.other] \notin {tile[start], tile[end]} ELSE i.flag.skip

\* All edges of the node at once: of those to one other node the last that improves
\* its label is one of the least.
Settle(i) ==
  LET refs == Adjacent(i.node, i.flag.skip)
      others == {r.other : r \in refs} \ {i.node}
      open == {o \in others : flags[o].seen # "done"}
      label(o) == IF flags[o].seen = "no" THEN Limit ELSE flags[o].len
      new(r) == i.flag.len + r.weight
      better == {o \in open : \E r \in refs : r.other = o /\ new(r) < label(o)}
      best(o) == {r \in refs : r.other = o /\ \A q \in refs : q.other = o => r.weight <= q.weight}
      step(r) == [seen |-> "open", len |-> new(r), prev |-> r.id, shc |-> r.type = 100, skip |-> Skips(i, r)]
  IN
  /\ Top(i) /\ i.node # end
  /\ ~(flags[i.node].seen # "no" /\ flags[i.node].len < i.flag.len)
  /\ \E via \in {f \in [better -> refs] : \A o \in better : f[o] \in best(o)} :
       /\ flags' = [n \in DOMAIN flags |->
            IF n = i.node THEN [i.flag EXCEPT !.seen = "done"]
            ELSE IF n \in better THEN step(via[n])
            ELSE IF n \in open /\ flags[n].seen = "no"
              THEN [NoFlag EXCEPT !.seen = "open", !.len = Limit, !.prev = NoEdge]
            ELSE flags[n]]
       /\ heap' = (heap \ {i}) \cup {Item(o, step(via[o])) : o \in better}
  /\ UNCHANGED <<overlay, request, place, cur, path>>

\* GetEdgesFromShortcut: past the edges that were added the list holds edge 0 as
\* far as it has room, and a slice that ends past its capacity panics.
Unpacked(k) ==
  [j \in 1..shortcuts[k].count |->
     IF shortcuts[k].ref + j <= Len(edges_dyn) THEN edges_dyn[shortcuts[k].ref + j] ELSE FirstEdge]
Fits(k) == shortcuts[k].ref + shortcuts[k].count <= room

\* Steps unpacks every shortcut to a node that is not visited, CalcShortestPath none.
StepsPanic(i) ==
  /\ Top(i) /\ i.node # end
  /\ ~(flags[i.node].seen # "no" /\ flags[i.node].len < i.flag.len)
  /\ \E r \in Adjacent(i.node, i.flag.skip) :
       r.type = 100 /\ r.other # i.node /\ flags[r.other].seen # "done" /\ ~Fits(r.id)
  /\ heap' = heap \ {i}
  /\ place' = "panic"
  /\ UNCHANGED <<overlay, request, flags, cur, path>>

\* A flag that was never set says edge 0, one without a label edge -1.
NoWayOn(f) == f.prev = NoEdge \/ (f.shc /\ ~Fits(f.prev))

\* Mutant: the walk back stays at the node it is at.
WalkInPlace ==
  LET f == flags[cur] IN
  /\ place = "walk" /\ Len(path) < MaxRoute
  /\ IF cur = start THEN place' = "answered" /\ UNCHANGED <<cur, path>>
     ELSE IF NoWayOn(f) THEN place' = "panic" /\ UNCHANGED <<cur, path>>
     ELSE /\ path' = (IF f.shc THEN Reverse(Unpacked(f.prev)) ELSE <<f.prev>>) \o path
          /\ UNCHANGED <<cur, place>>
  /\ UNCHANGED <<overlay, request, heap, flags>>

\* Mutant: what the walk back collects is not turned round.
WalkBackwards ==
  LET f == flags[cur] IN
  /\ place = "walk" /\ Len(path) < MaxRoute
  /\ IF cur = start THEN place' = "answered" /\ UNCHANGED <<cur, path>>
     ELSE IF NoWayOn(f) THEN place' = "panic" /\ UNCHANGED <<cur, path>>
     ELSE /\ path' = path \o (IF f.shc THEN Unpacked(f.prev) ELSE <<f.prev>>)
          /\ cur' = IF f.shc THEN shortcuts[f.prev].from ELSE GetOtherNode(f.prev, cur)
          /\ UNCHANGED place
  /\ UNCHANGED <<overlay, request, heap, flags>>

Walk ==
  LET f == flags[cur] IN
  /\ place = "walk" /\ Len(path) < MaxRoute
  /\ IF cur = start THEN place' = "answered" /\ UNCHANGED <<cur, path>>
     ELSE IF NoWayOn(f) THEN place' = "panic" /\ UNCHANGED <<cur, path>>
     ELSE /\ path' = (IF f.shc THEN Reverse(Unpacked(f.prev)) ELSE <<f.prev>>) \o path
          /\ cur' = IF f.shc THEN shortcuts[f.prev].from ELSE GetOtherNode(f.prev, cur)
          /\ UNCHANGED place
  /\ UNCHANGED <<overlay, request, heap, flags>>

Query ==
  \/ Exhausted
  \/ \E i \in heap : Found(i) \/ Overtaken(i) \/ Settle(i) \/ StepsPanic(i)
  \/ Walk

Next ==
  \/ NextTile
  \/ \E s \in crossing : Cross(s)
  \/ \E p \in paths : KeepPath(p)
  \/ \E s, e \in Node : Ask(s, e)
  \/ Query

\* The handler's goroutine is run.
Spec == Init /\ [][Next]_vars /\ WF_vars(Query)

-----------------------------------------------------------------------------
Reached == end = start \/ (end # NoNode /\ flags[end].seen = "open" /\ flags[end].len < Limit)
TrueLength == DistancesFrom(start, Node, Arcs(Edge), Limit)[end]

(***************************************************************************)
(* Whatever the partition, with marked edges as with shortcuts, the query  *)
(* finds the shortest way from every node to every other: the tiles left   *)
(* out between start and end lose nothing.  And it fails only if there is  *)
(* no way, or none below the first value of a label.                       *)
(***************************************************************************)
FindsShortest ==
  /\ place \in {"walk", "answered"} /\ Reached => flags[end].len = TrueLength
  /\ place = "failed" \/ (place = "walk" /\ ~Reached) => TrueLength >= Limit

Unpacks(k) ==
  RealRoute(Reverse(Unpacked(k)), shortcuts[k].from, shortcuts[k].to, shortcuts[k].weight)

(***************************************************************************)
(* The route that is read back joins the start to the end and is as long   *)
(* as the label says, provided that the shortcut store gives for the       *)
(* shortcuts in use the edges they stand for.  (For a skeleton, always.)   *)
(***************************************************************************)
RouteIsReal ==
  place = "answered" /\ Reached
  /\ (\A n \in Node : flags[n].shc => Unpacks(flags[n].prev))
  => RealRoute(path, start, end, flags[end].len)

(***************************************************************************)
(* A request is answered with a route or a failure.  Two things alone can  *)
(* go wrong: the walk back from an end that Steps took an empty heap for,  *)
(* and a shortcut whose part of edges_dyn ends past the room that is left. *)
(***************************************************************************)
RequestIsAnswered ==
  place = "search" ~>
    \/ place \in {"answered", "failed"}
    \/ place \in {"walk", "panic"} /\ ~Reached
    \/ place = "panic" /\ \E k \in DOMAIN shortcuts : ~Fits(k)
=============================================================================
