----------------------------- MODULE GraphData -----------------------------
(***************************************************************************)
(* What a profile is made of and how it is prepared, as operators:          *)
(* structs/adjacency.go, structs/id_mapping.go, comps/, prepare.go,         *)
(* algorithm/bfs_bidirect.go, preproc/prepare_ordering.go, and what the     *)
(* modules Contraction and Overlay show step by step.                      *)
(* Arrays begin with 1 here and with 0 in the code.                        *)
(***************************************************************************)
EXTENDS OsmGraph, Distances

CONSTANTS Infinite,   \* longer than any way
          StopReach   \* how far a stop may be from the node it is put to

\* The same array: TLC evaluates its elements when it is made, not each time they are read.
Made(arr) == SubSeq(arr, 1, Len(arr))

Sorted(S) ==
  LET top == CHOOSE t \in S \cup {0} : \A s \in S : s <= t IN SelectSeq([i \in 1..top |-> i], LAMBDA i : i \in S)
Ids(arr) == [i \in DOMAIN arr |-> i]
Without(arr, gone) ==
  LET kept == SelectSeq(Ids(arr), LAMBDA i : i \notin gone) IN Made([i \in DOMAIN kept |-> arr[kept[i]]])

Reorder(arr, m) == Made([new \in DOMAIN arr |-> arr[CHOOSE old \in DOMAIN m : m[old] = new]])

-----------------------------------------------------------------------------
(* Adjacency: the entries of all nodes in one array, and for each node     *)
(* where its part starts and how long it is.                               *)

\* AdjacencyListToArray
Flat(lists) ==
  [entries |-> FlattenSeq(lists),
   refs |-> Made([n \in DOMAIN lists |->
               [start |-> FoldLeft(LAMBDA s, l : s + Len(l), 0, SubSeq(lists, 1, n - 1)),
                count |-> Len(lists[n])]])]

\* AdjArrayAccessor
Entries(flat, n) == SubSeq(flat.entries, flat.refs[n].start + 1, flat.refs[n].start + flat.refs[n].count)

\* Of arcs [a, b, id, type], added in turn to n nodes.
AdjacencyArray(n, arcs) ==
  LET entries(own, other) ==
        Made([v \in 1..n |-> LET of == SelectSeq(arcs, LAMBDA r : r[own] = v) IN
                        [i \in DOMAIN of |-> [id |-> of[i].id, other |-> of[i][other], type |-> of[i].type]]])
  IN [fwd |-> Flat(entries("a", "b")), bwd |-> Flat(entries("b", "a"))]

\* Mutant: the entries move with their node but still name the old neighbour.
ReorderTopologyOnly(top, m) ==
  LET turn(flat) ==
        LET moved == [flat EXCEPT !.refs = Reorder(@, m)] IN
        Flat(Made([n \in DOMAIN moved.refs |-> Entries(moved, n)]))
  IN [fwd |-> turn(top.fwd), bwd |-> turn(top.bwd)]

ReorderTopology(top, m) ==
  LET turn(flat) ==
        LET moved == [flat EXCEPT !.refs = Reorder(@, m)] IN
        Flat(Made([n \in DOMAIN moved.refs |->
                LET of == Entries(moved, n) IN [i \in DOMAIN of |-> [of[i] EXCEPT !.other = m[@]]]]))
  IN [fwd |-> turn(top.fwd), bwd |-> turn(top.bwd)]

-----------------------------------------------------------------------------
(* The graph base and its attributes.                                      *)

Arc(edges, i) == [a |-> edges[i].a, b |-> edges[i].b, id |-> i, type |-> 0]

NewGraphBase(nodes, edges) ==
  [nodes |-> nodes, edges |-> edges,
   topology |-> AdjacencyArray(Len(nodes), [i \in DOMAIN edges |-> Arc(edges, i)])]

ReorderBase(base, m) ==
  [nodes |-> Reorder(base.nodes, m),
   edges |-> Made([i \in DOMAIN base.edges |-> [a |-> m[base.edges[i].a], b |-> m[base.edges[i].b]]]),
   topology |-> ReorderTopology(base.topology, m)]

RemoveNodes(base, gone) ==
  LET kept == Without(Ids(base.nodes), gone)
      new(n) == SelectInSeq(kept, LAMBDA o : o = n)
      inside == SelectSeq(base.edges, LAMBDA e : e.a \notin gone /\ e.b \notin gone)
  IN NewGraphBase(Without(base.nodes, gone),
                  Made([i \in DOMAIN inside |-> [a |-> new(inside[i].a), b |-> new(inside[i].b)]]))

\* GetClosestNode of attributes, by the places of the nodes.
GetClosestNode(geoms, p) ==
  CHOOSE n \in DOMAIN geoms : \A o \in DOMAIN geoms : Gap(geoms[n], p) <= Gap(geoms[o], p)

\* IDMapping: [target, source] at each index.
IdentityMapping(n) == [i \in 1..n |-> [target |-> i, source |-> i]]

\* Mutant: the ids the target is given are the old ones.
ReorderTargetsBackwards(mapping, m) ==
  [i \in DOMAIN mapping |->
     [target |-> CHOOSE t \in DOMAIN m : m[t] = mapping[i].target, source |-> mapping[m[i]].source]]
ReorderTargets(mapping, m) ==
  [i \in DOMAIN mapping |->
     [target |-> m[mapping[i].target],
      source |-> mapping[CHOOSE t \in DOMAIN m : m[t] = i].source]]

-----------------------------------------------------------------------------
(* CalcBidirectBFS: two searches in turn, each with a queue; one does not   *)
(* go on to nodes that the other, once it has finished, has not seen.      *)

Turn(flat, own, other) ==
  IF own.finished THEN own
  ELSE IF own.queue = <<>> THEN [own EXCEPT !.finished = TRUE]
  ELSE LET n == Head(own.queue)
           next == [i \in DOMAIN Entries(flat, n) |-> Entries(flat, n)[i].other]
           pushed == SelectSeq(next, LAMBDA m : /\ m \notin own.visited \cup {n}
                                                /\ m \in other.visited \/ ~other.finished)
       IN IF n \in own.visited
            THEN [own EXCEPT !.queue = Tail(@)]
            ELSE [own EXCEPT !.queue = Tail(@) \o pushed, !.visited = @ \cup {n}]

\* Mutant: one direction is enough.
ForwardOnly(base, s) ==
  LET from == DistancesFrom(s, DOMAIN base.nodes,
                {[from |-> base.edges[i].a, to |-> base.edges[i].b, weight |-> 1] : i \in DOMAIN base.edges}, Infinite)
  IN {n \in DOMAIN base.nodes : from[n] < Infinite}

CalcBidirectBFS(base, s) ==
  LET begin == [queue |-> <<s>>, visited |-> {}, finished |-> FALSE]
      round[k \in 0..Len(base.edges) + 2] ==
        IF k = 0 THEN [fwd |-> begin, bwd |-> begin]
        ELSE LET last == round[k - 1]
                 fwd == Turn(base.topology.fwd, last.fwd, last.bwd)
             IN [fwd |-> fwd, bwd |-> Turn(base.topology.bwd, last.bwd, fwd)]
      met(end) == end.fwd.visited \cap end.bwd.visited
  IN met(round[Len(base.edges) + 2])

\* A search from the first node without a group makes the next one.
Group(g, hit) ==
  [next |-> g.next + 1, of |-> Made([m \in DOMAIN g.of |-> IF m \in hit THEN g.next ELSE g.of[m]])]
ConnectedComponents(base) ==
  FoldLeft(LAMBDA g, n : IF g.of[n] # 0 THEN g ELSE Group(g, CalcBidirectBFS(base, n)),
           [next |-> 1, of |-> [n \in DOMAIN base.nodes |-> 0]], Ids(base.nodes)).of

\* The value that is the first to be counted most often.
GetMostCommon(arr) ==
  LET count(i) == Cardinality({j \in 1..i : arr[j] = arr[i]})
      pass(m, i) == IF count(i) > m.count THEN [count |-> count(i), val |-> arr[i]] ELSE m
  IN FoldLeft(pass, [count |-> 0, val |-> 0], Ids(arr)).val

Others(groups, common) == {n \in DOMAIN groups : groups[n] # common}
WithEdges(base, gone) ==
  LET ids(flat) == {e.id : e \in UNION {ToSet(Entries(flat, n)) : n \in gone}}
  IN [nodes |-> gone, edges |-> ids(base.topology.fwd) \cup ids(base.topology.bwd)]
RemoveConnectedComponents(base) ==
  LET outside(groups) == Others(groups, GetMostCommon(groups)) IN
  WithEdges(base, outside(ConnectedComponents(base)))

\* What the Build functions put into the prep_cache.
Remaining(graph, base, gone) ==
  [base |-> RemoveNodes(base, gone.nodes),
   attributes |-> [geoms |-> Without(graph.nodes, gone.nodes), edges |-> Without(graph.attribs, gone.edges)]]
MainPart(graph, base) == Remaining(graph, base, RemoveConnectedComponents(base))
WithBase(graph) == MainPart(graph, NewGraphBase(graph.nodes, graph.edges))
Parsed(osm) == WithBase(ParseGraph(osm))

-----------------------------------------------------------------------------
(* Weightings: metres, or seconds at a speed in km/h, cut and at least 1.  *)

AtLeastOne(w) == IF w < 1 THEN 1 ELSE w
BuildShortestWeighting(edges) == Made([i \in DOMAIN edges |-> AtLeastOne(edges[i].length)])
BuildCarWeighting(edges) == Made([i \in DOMAIN edges |-> AtLeastOne((edges[i].length * 36) \div (10 * edges[i].speed))])
BuildSteadyWeighting(edges, speed) == Made([i \in DOMAIN edges |-> AtLeastOne((edges[i].length * 36) \div (10 * speed))])
BuildFootWeighting(edges) == BuildSteadyWeighting(edges, 3)
BuildBikeWeighting(edges) == BuildSteadyWeighting(edges, 18)

WeightedArcs(edges, weights) ==
  {[from |-> edges[i].a, to |-> edges[i].b, weight |-> weights[i]] : i \in DOMAIN edges}

-----------------------------------------------------------------------------
(* Orderings: old id -> new id, by a stable sort.                          *)

SortedBy(key) ==
  Made([n \in DOMAIN key |-> 1 + Cardinality({o \in DOMAIN key : key[o] < key[n] \/ (key[o] = key[n] /\ o < n)})])

ComputeLevelOrdering(levels) == SortedBy([n \in DOMAIN levels |-> -levels[n]])

IsBorderNode(base, tiles, n) ==
  \E e \in ToSet(Entries(base.topology.fwd, n)) \cup ToSet(Entries(base.topology.bwd, n)) :
     tiles[e.other] # tiles[n]

ComputeTileOrdering(base, tiles) ==
  SortedBy(Made([n \in DOMAIN tiles |-> IF IsBorderNode(base, tiles, n) THEN -10000 ELSE tiles[n]]))

-----------------------------------------------------------------------------
(* The contraction, by what it leaves: the node "first" goes before the    *)
(* others, and a way over a node gets a shortcut when it is shorter than   *)
(* every other.  A part is [id, shc]: an edge or a shortcut.               *)

Pairs(starts, ends) == FlattenSeq([i \in DOMAIN starts |-> [j \in DOMAIN ends |-> <<starts[i], ends[j]>>]])
Mapped(Op(_), seq) == [i \in DOMAIN seq |-> Op(seq[i])]
ShortcutArcs(shcs) == [i \in DOMAIN shcs |-> [a |-> shcs[i].from, b |-> shcs[i].to, id |-> i, type |-> 100]]

CalcContraction6(base, weights, first) ==
  LET nodes == DOMAIN base.nodes
      edge(i) == [from |-> base.edges[i].a, to |-> base.edges[i].b, weight |-> weights[i],
                  part |-> [id |-> i, shc |-> FALSE]]
      shc(c, i) == [from |-> c.shortcuts[i].from, to |-> c.shortcuts[i].to, weight |-> c.shortcuts[i].weight,
                    part |-> [id |-> i, shc |-> TRUE]]
      refs(c) == {r \in {edge(i) : i \in DOMAIN base.edges} \cup {shc(c, i) : i \in DOMAIN c.shortcuts} :
                    r.from \notin c.gone /\ r.to \notin c.gone}
      contract(c, v) ==
        LET in == {r \in refs(c) : r.to = v /\ r.from # v}
            out == {r \in refs(c) : r.from = v /\ r.to # v}
            around(a) == DistancesFrom(a, nodes, {r \in refs(c) : v \notin {r.from, r.to}}, Infinite)
            short(S, n, m) == CHOOSE r \in S : /\ r.from = n /\ r.to = m
                                               /\ \A q \in S : q.from = n /\ q.to = m => r.weight <= q.weight
            made(p) == LET x == short(in, p[1], v) y == short(out, v, p[2]) IN
                       [from |-> p[1], to |-> p[2], weight |-> x.weight + y.weight, parts |-> <<x.part, y.part>>]
            needed == SelectSeq(Pairs(Sorted({r.from : r \in in}), Sorted({r.to : r \in out})),
                                LAMBDA p : p[1] # p[2] /\ made(p).weight < around(p[1])[p[2]])
        IN [shortcuts |-> c.shortcuts \o Mapped(made, needed),
            gone |-> c.gone \cup {v},
            levels |-> Made([n \in nodes |->
               IF (n \in {r.from : r \in in} \cup {r.to : r \in out}) /\ c.levels[n] <= c.levels[v]
                 THEN c.levels[v] + 1 ELSE c.levels[n]])]
      contracted(end) ==
        [shortcuts |-> end.shortcuts, levels |-> end.levels,
         topology |-> AdjacencyArray(Len(base.nodes), ShortcutArcs(end.shortcuts))]
  IN contracted(FoldLeft(contract, [shortcuts |-> <<>>, gone |-> {}, levels |-> [n \in nodes |-> 0]],
                         <<first>> \o Without(Ids(base.nodes), {first})))

\* ShortcutStore.ReorderNodes
ReorderShortcuts(shcs, m) == [i \in DOMAIN shcs |-> [shcs[i] EXCEPT !.from = m[@], !.to = m[@]]]

ReorderCH(ch, m) ==
  [shortcuts |-> ReorderShortcuts(ch.shortcuts, m), topology |-> ReorderTopology(ch.topology, m),
   levels |-> Reorder(ch.levels, m)]

OrderedCH(base, ch, m) == [base |-> ReorderBase(base, m), ch |-> ReorderCH(ch, m), ordering |-> m]
CreateCH(base, weights, first) ==
  LET ordered(ch) == OrderedCH(base, ch, ComputeLevelOrdering(ch.levels)) IN
  ordered(CalcContraction6(base, weights, first))

-----------------------------------------------------------------------------
(* The overlay and the cell index of a partition.                          *)

InnerArcs(base, weights, tiles, t) ==
  {r \in WeightedArcs(base.edges, weights) : tiles[r.from] = t /\ tiles[r.to] = t}

\* The nodes of t that are entered from another tile; those that are left to one.
Entered(base, tiles, t) ==
  {n \in DOMAIN tiles : tiles[n] = t /\ \E e \in ToSet(Entries(base.topology.bwd, n)) : tiles[e.other] # t}
Exited(base, tiles, t) ==
  {n \in DOMAIN tiles : tiles[n] = t /\ \E e \in ToSet(Entries(base.topology.fwd, n)) : tiles[e.other] # t}

DistancesInside(base, weights, tiles, t, a) ==
  DistancesFrom(a, DOMAIN tiles, InnerArcs(base, weights, tiles, t), Infinite)
Ways(a, ends, dist) == [i \in DOMAIN ends |-> [from |-> a, to |-> ends[i], weight |-> dist[ends[i]]]]
AllOf(Op(_), seq) == FlattenSeq([i \in DOMAIN seq |-> Op(seq[i])])

\* PrepareOverlay, the variant with shortcuts, and its skip topology.
PrepareOverlay(base, weights, tiles) ==
  LET crossing(t, a, dist) == Ways(a, Sorted({b \in Exited(base, tiles, t) : dist[b] < Infinite}), dist)
      tile(t) == AllOf(LAMBDA a : crossing(t, a, DistancesInside(base, weights, tiles, t, a)), Sorted(Entered(base, tiles, t)))
      border(types) == SelectSeq(Ids(types), LAMBDA i : types[i] = 10)
      overlay(types, shcs) ==
        [shortcuts |-> shcs, types |-> types,
         topology |-> AdjacencyArray(Len(base.nodes),
           Mapped(LAMBDA i : [Arc(base.edges, i) EXCEPT !.type = 10], border(types)) \o ShortcutArcs(shcs))]
  IN overlay([i \in DOMAIN base.edges |-> IF tiles[base.edges[i].a] # tiles[base.edges[i].b] THEN 10 ELSE 0],
             AllOf(tile, Sorted(ToSet(tiles))))

ReorderOverlay(overlay, m) ==
  [overlay EXCEPT !.shortcuts = ReorderShortcuts(@, m), !.topology = ReorderTopology(@, m)]

\* From each node a tile is entered by to each of its others: the way inside it.
PrepareGRASPCellIndex(base, weights, tiles) ==
  LET inner(t) == {n \in DOMAIN tiles : tiles[n] = t} \ Entered(base, tiles, t)
      cell(t, a, dist) == Ways(a, Sorted({b \in inner(t) : dist[b] < Infinite}), dist)
  IN [t \in ToSet(tiles) |->
        AllOf(LAMBDA a : cell(t, a, DistancesInside(base, weights, tiles, t, a)), Sorted(Entered(base, tiles, t)))]

\* CreateGRASP.  The cell index is computed on the new graph with the old partition.
CreateGRASP(base, weights, tiles) ==
  LET ordered(m, new) ==
        [base |-> new, overlay |-> ReorderOverlay(PrepareOverlay(base, weights, tiles), m),
         partition |-> Reorder(tiles, m), cell_index |-> PrepareGRASPCellIndex(new, weights, tiles), ordering |-> m]
      by(m) == ordered(m, ReorderBase(base, m))
  IN by(ComputeTileOrdering(base, tiles))

-----------------------------------------------------------------------------
(* Public transit: stops [at], connections [a, b] between them, and the     *)
(* ways on foot (or by car) from stop to stop that are within max_range.    *)

PrepareTransit(base, weights, timetable, max_range) ==
  LET stops == DOMAIN timetable.stops
      closest(i) == LET n == GetClosestNode(base.nodes, timetable.stops[i]) IN
                    IF Gap(base.nodes[n], timetable.stops[i]) <= StopReach THEN n ELSE 0
      \* the last of the stops at a node
      at(n) == LET S == {i \in stops : closest(i) = n} IN
               IF S = {} THEN 0 ELSE CHOOSE i \in S : \A j \in S : j <= i
      within(mapping, i, dist) == SelectSeq(Ids(timetable.stops), LAMBDA j :
        i # j /\ mapping[j].source # 0 /\ dist[mapping[j].source] <= max_range)
      to_stops(mapping, i, dist) ==
        Mapped(LAMBDA j : [from |-> i, to |-> j, weight |-> dist[mapping[j].source]], within(mapping, i, dist))
      transfers(mapping, i) ==
        IF mapping[i].source = 0 THEN <<>>
        ELSE to_stops(mapping, i, DistancesFrom(mapping[i].source, DOMAIN base.nodes, WeightedArcs(base.edges, weights), Infinite))
      lines == timetable.connections
      transit(mapping, shcs) ==
        [mapping |-> mapping, shortcuts |-> shcs,
         topology |-> AdjacencyArray(Len(timetable.stops),
           [i \in DOMAIN lines |-> [a |-> lines[i].a, b |-> lines[i].b, id |-> i, type |-> 30]] \o ShortcutArcs(shcs))]
      by(mapping) == transit(mapping, AllOf(LAMBDA i : transfers(mapping, i), Ids(timetable.stops)))
  IN by(Made([n \in DOMAIN base.nodes |-> [target |-> at(n), source |-> IF n \in stops THEN closest(n) ELSE 0]]))
=============================================================================
