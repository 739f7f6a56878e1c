---------------------------- MODULE OverlayProofs ----------------------------
(***************************************************************************)
(* The overlay and the query on it, for every graph, every partition, both *)
(* kinds of overlay and every pair of nodes: the length is the distance,   *)
(* and the route that is read back is as long, if the shortcut store gives *)
(* what was put into it.                                                   *)
(***************************************************************************)
EXTENDS Overlay, DistancesProofs

-----------------------------------------------------------------------------
(* Edges as arcs. *)

LEMMA ArcsAreOnNodes ==
  ASSUME NEW S \in SUBSET Edge
  PROVE  Arcs(S) \in SUBSET ArcsOn(Node)
<1> SUFFICES ASSUME NEW x \in S
             PROVE  [from |-> NodeA[x], to |-> NodeB[x], weight |-> Weight[x]] \in ArcsOn(Node)
  BY DEF Arcs
<1>1. NodeA[x] \in Node /\ NodeB[x] \in Node /\ Weight[x] \in Nat
  BY GraphAssumption
<1> QED
  BY <1>1 DEF ArcsOn

LEMMA ArcsBound ==
  ASSUME NEW S \in SUBSET Edge, NEW f
  PROVE  Bounds(f, Arcs(S)) <=> \A x \in S : f[NodeB[x]] <= f[NodeA[x]] + Weight[x]
<1> DEFINE arc(x) == [from |-> NodeA[x], to |-> NodeB[x], weight |-> Weight[x]]
<1>1. Arcs(S) = {arc(x) : x \in S}
  BY DEF Arcs
<1>2. \A x \in S : arc(x).from = NodeA[x] /\ arc(x).to = NodeB[x] /\ arc(x).weight = Weight[x]
  OBVIOUS
<1> HIDE DEF arc
<1>3. Bounds(f, Arcs(S)) <=> \A x \in S : f[arc(x).to] <= f[arc(x).from] + arc(x).weight
  BY <1>1 DEF Bounds
<1> QED
  BY <1>2, <1>3

LEMMA FewerArcs ==
  ASSUME NEW f, NEW A, NEW B, A \subseteq B, Bounds(f, B)
  PROVE  Bounds(f, A)
BY DEF Bounds

-----------------------------------------------------------------------------
(* The paths back of a tree. *)

\* prev has for each node of R the last edge of a way that gets from s to it by
\* edges that lose nothing and stay in a tile of t.
IsTree(s, dist, most, prev, R, t) ==
  /\ most \in Nat /\ dist \in [Node -> 0..most]
  /\ s \in Node /\ R \in SUBSET Node /\ s \notin R
  /\ prev \in [R -> Edge]
  /\ dist[s] = 0
  /\ \A n \in R : /\ NodeB[prev[n]] = n /\ NodeA[prev[n]] \in R \cup {s}
                  /\ dist[NodeA[prev[n]]] + Weight[prev[n]] = dist[n]
                  /\ t[NodeA[prev[n]]] = t[n]

LastEdges(prev, R) == {prev[m] : m \in R}

\* What edges do not let rise by more than they weigh does not rise by more than
\* length between the two nodes.
Bridges(edges, a, b, length) ==
  \A f \in [Node -> Int] : Bounds(f, Arcs(ToSet(edges))) => f[b] <= f[a] + length

\* There is a function with the recursive definition of PathBack.
LEMMA PathBackDef ==
  ASSUME NEW s, NEW dist, NEW most, NEW prev, NEW R, NEW t,
         IsTree(s, dist, most, prev, R, t)
  PROVE  /\ PathBack(s, prev)[s] = <<>>
         /\ \A n \in R : PathBack(s, prev)[n] = <<prev[n]>> \o PathBack(s, prev)[NodeA[prev[n]]]
<1> DEFINE T(k) == {n \in R \cup {s} : dist[n] <= k}
           Grows(g, D) == g = [n \in D |-> IF n = s THEN <<>> ELSE <<prev[n]>> \o g[NodeA[prev[n]]]]
           S == {k \in Nat : \E g : Grows(g, T(k))}
<1>0. most \in Nat /\ dist \in [Node -> 0..most]
  BY DEF IsTree
<1>1. \A n \in R : /\ NodeA[prev[n]] \in R \cup {s} /\ dist[n] \in Nat /\ dist[NodeA[prev[n]]] \in Nat
                   /\ dist[NodeA[prev[n]]] < dist[n] /\ n # s
  <2> TAKE n \in R
  <2>1. prev[n] \in Edge /\ NodeA[prev[n]] \in R \cup {s} /\ n # s /\ n \in Node /\ s \in Node /\ R \subseteq Node
    BY DEF IsTree
  <2>2. dist[NodeA[prev[n]]] + Weight[prev[n]] = dist[n]
    BY DEF IsTree
  <2>3. Weight[prev[n]] \in Nat /\ Weight[prev[n]] > 0
    BY <2>1, GraphAssumption, OverlayAssumption
  <2>4. dist[n] \in Nat /\ dist[NodeA[prev[n]]] \in Nat
    BY <1>0, <2>1
  <2> QED
    BY <2>1, <2>2, <2>3, <2>4
<1>2. 0 \in S
  <2> DEFINE g == [n \in T(0) |-> <<>>]
  <2>1. \A n \in T(0) : n = s
    BY <1>1
  <2>2. Grows(g, T(0))
    BY <2>1
  <2> HIDE DEF g, T, Grows
  <2> QED
    BY <2>2
<1>3. \A k \in S : k + 1 \in S
  <2> TAKE k \in S
  <2>1. PICK g : Grows(g, T(k))
    OBVIOUS
  <2> DEFINE h == [n \in T(k + 1) |-> IF n = s THEN <<>> ELSE <<prev[n]>> \o g[NodeA[prev[n]]]]
  <2>0. k \in Nat
    OBVIOUS
  <2>2. \A n \in T(k + 1) : n # s => NodeA[prev[n]] \in T(k)
    BY <1>1, <2>0
  <2>3. \A n \in T(k) : n \in T(k + 1)
    <3>1. \A n \in R \cup {s} : dist[n] \in Nat
      BY <1>0 DEF IsTree
    <3> QED
      BY <2>0, <3>1
  <2> HIDE DEF T
  <2>4. \A n \in T(k) : h[n] = g[n]
    BY <2>1, <2>3
  <2>5. Grows(h, T(k + 1))
    BY <2>2, <2>3, <2>4
  <2> HIDE DEF h, Grows
  <2> QED
    BY <2>0, <2>5
<1>4. most \in S
  <2> HIDE DEF S
  <2>1. S \in SUBSET Nat
    BY DEF S
  <2> QED
    BY <1>0, <1>2, <1>3, <2>1, Counting
<1>5. T(most) = R \cup {s} /\ DOMAIN prev = R
  BY DEF IsTree
<1>6. PICK g : Grows(g, R \cup {s})
  BY <1>4, <1>5
<1>7. PathBack(s, prev) = CHOOSE f : Grows(f, R \cup {s})
  BY <1>5 DEF PathBack
<1>8. Grows(PathBack(s, prev), R \cup {s})
  BY <1>6, <1>7
<1> HIDE DEF S, T
<1> QED
  BY <1>1, <1>8

LEMMA SetOfJoined ==
  ASSUME NEW x \in Edge, NEW q \in Seq(Edge)
  PROVE  <<x>> \o q \in Seq(Edge) /\ ToSet(<<x>> \o q) = {x} \cup ToSet(q)
<1> DEFINE r == <<x>> \o q
<1>1. r \in Seq(Edge) /\ Len(r) = Len(q) + 1 /\ Len(q) \in Nat
  OBVIOUS
<1>2. r[1] = x /\ \A i \in 1..Len(q) : r[i + 1] = q[i]
  OBVIOUS
<1>3. DOMAIN r = 1..(Len(q) + 1) /\ DOMAIN q = 1..Len(q)
  BY <1>1
<1> HIDE DEF r
<1>4. \A i \in DOMAIN r : r[i] \in {x} \cup ToSet(q)
  <2> TAKE i \in DOMAIN r
  <2>1. CASE i = 1
    BY <1>2, <2>1
  <2>2. CASE i # 1
    <3>1. i - 1 \in 1..Len(q) /\ (i - 1) + 1 = i
      BY <1>1, <1>3, <2>2
    <3> QED
      BY <1>2, <1>3, <3>1 DEF ToSet
  <2> QED
    BY <2>1, <2>2
<1>5. \A y \in {x} \cup ToSet(q) : \E i \in DOMAIN r : r[i] = y
  <2> TAKE y \in {x} \cup ToSet(q)
  <2>1. CASE y = x
    BY <1>1, <1>2, <1>3, <2>1
  <2>2. CASE y \in ToSet(q)
    <3>1. PICK i \in DOMAIN q : y = q[i]
      BY <2>2 DEF ToSet
    <3> QED
      BY <1>1, <1>2, <1>3, <3>1
  <2> QED
    BY <2>1, <2>2
<1>6. ToSet(r) = {x} \cup ToSet(q)
  BY <1>4, <1>5 DEF ToSet
<1> QED
  BY <1>1, <1>6 DEF r

\* A path back is made of edges of the tree, and is as long as dist says.
LEMMA PathsLead ==
  ASSUME NEW s, NEW dist, NEW most, NEW prev, NEW R, NEW t,
         IsTree(s, dist, most, prev, R, t), NEW n \in R \cup {s}
  PROVE  /\ PathBack(s, prev)[n] \in Seq(Edge)
         /\ t[n] = t[s]
         /\ ToSet(PathBack(s, prev)[n]) \subseteq LastEdges(prev, R)
         /\ Bridges(PathBack(s, prev)[n], s, n, dist[n])
<1> DEFINE back == PathBack(s, prev)
           Good(m) == /\ back[m] \in Seq(Edge)
                      /\ t[m] = t[s]
                      /\ ToSet(back[m]) \subseteq LastEdges(prev, R)
                      /\ Bridges(back[m], s, m, dist[m])
           S == {k \in Nat : \A m \in R \cup {s} : dist[m] <= k => Good(m)}
<1>0. most \in Nat /\ dist \in [Node -> 0..most] /\ s \in Node /\ R \in SUBSET Node /\ dist[s] = 0 /\ s \notin R /\ prev \in [R -> Edge]
  BY DEF IsTree
<1>1. back[s] = <<>> /\ \A m \in R : back[m] = <<prev[m]>> \o back[NodeA[prev[m]]]
  BY PathBackDef
<1> HIDE DEF back
<1>2. Good(s)
  <2>1. back[s] \in Seq(Edge) /\ ToSet(back[s]) = {}
    BY <1>1 DEF ToSet
  <2>2. \A f \in [Node -> Int] : f[s] <= f[s] + dist[s]
    BY <1>0
  <2> QED
    BY <2>1, <2>2 DEF Bridges
<1>3. ASSUME NEW m \in R, Good(NodeA[prev[m]]) PROVE Good(m)
  <2> DEFINE o == NodeA[prev[m]]
             x == prev[m]
  <2>1. x \in Edge /\ NodeB[x] = m /\ o \in R \cup {s} /\ dist[o] + Weight[x] = dist[m] /\ t[o] = t[m]
    BY DEF IsTree
  <2>2. back[m] = <<x>> \o back[o]
    BY <1>1
  <2>3. back[m] \in Seq(Edge) /\ ToSet(back[m]) = {x} \cup ToSet(back[o])
    BY <1>3, <2>1, <2>2, SetOfJoined
  <2>4. ToSet(back[m]) \subseteq LastEdges(prev, R)
    BY <1>3, <2>3 DEF LastEdges
  <2>5. ASSUME NEW f \in [Node -> Int], Bounds(f, Arcs(ToSet(back[m]))) PROVE f[m] <= f[s] + dist[m]
    <3>1. ToSet(back[m]) \in SUBSET Edge
      BY <2>3 DEF ToSet
    <3>2. \A y \in ToSet(back[m]) : f[NodeB[y]] <= f[NodeA[y]] + Weight[y]
      BY <2>5, <3>1, ArcsBound
    <3>3. f[m] <= f[o] + Weight[x]
      BY <2>1, <2>3, <3>2
    <3>4. Bounds(f, Arcs(ToSet(back[o])))
      BY <2>3, <3>1, <3>2, ArcsBound
    <3>5. f[o] <= f[s] + dist[o]
      BY <1>3, <3>4 DEF Bridges
    <3>6. f[m] \in Int /\ f[o] \in Int /\ f[s] \in Int /\ dist[o] \in Nat /\ dist[m] \in Nat /\ Weight[x] \in Nat
      BY <1>0, <2>1, GraphAssumption
    <3> HIDE DEF o, x
    <3> QED
      BY <2>1, <3>3, <3>5, <3>6
  <2> QED
    BY <1>3, <2>1, <2>3, <2>4, <2>5 DEF Bridges
<1>4. \A m \in R : /\ NodeA[prev[m]] \in R \cup {s} /\ dist[m] \in Nat /\ dist[NodeA[prev[m]]] \in Nat
                   /\ dist[NodeA[prev[m]]] < dist[m]
  <2> TAKE m \in R
  <2>1. prev[m] \in Edge /\ NodeA[prev[m]] \in R \cup {s} /\ dist[NodeA[prev[m]]] + Weight[prev[m]] = dist[m]
    BY DEF IsTree
  <2>2. Weight[prev[m]] \in Nat /\ Weight[prev[m]] > 0
    BY <2>1, GraphAssumption, OverlayAssumption
  <2>3. dist[m] \in Nat /\ dist[NodeA[prev[m]]] \in Nat
    BY <1>0, <2>1
  <2> QED
    BY <2>1, <2>2, <2>3
<1> HIDE DEF Good
<1>5. 0 \in S
  BY <1>2, <1>4
<1>6. \A k \in S : k + 1 \in S
  <2> SUFFICES ASSUME NEW k \in S, NEW m \in R, dist[m] <= k + 1 PROVE Good(m)
    BY <1>2
  <2>1. dist[NodeA[prev[m]]] <= k
    BY <1>4
  <2> QED
    BY <1>3, <1>4, <2>1
<1>7. most \in S
  <2> HIDE DEF S
  <2>1. S \in SUBSET Nat
    BY DEF S
  <2> QED
    BY <1>0, <1>5, <1>6, <2>1, Counting
<1>8. Good(n)
  BY <1>0, <1>7
<1> QED
  BY <1>8 DEF Good, back

-----------------------------------------------------------------------------
(* What holds of the overlay while it is made, and of the overlay made.    *)

SkipArcs ==
  Arcs({x \in Edge : edge_types[x] \in {10, 20}})
  \cup {[from |-> shortcuts[k].from, to |-> shortcuts[k].to, weight |-> shortcuts[k].weight] : k \in DOMAIN shortcuts}
SkipArcsIn(t) == {r \in SkipArcs : tile[r.from] = t}

Inside(s) == DistancesFrom(s, Node, Arcs(InnerEdges), Unlabelled)

\* The marked edges and the shortcuts of its tile lead from s to n by the
\* shortest way inside the tile.
Crossed(s, n) ==
  \A f \in [Node -> Int] : Bounds(f, SkipArcsIn(tile[s])) => f[n] <= f[s] + Inside(s)[n]

Leads(p) ==
  /\ p.from \in Node /\ p.to \in Node /\ p.length \in Nat /\ p.edges \in Seq(Edge)
  /\ tile[p.to] = tile[p.from]
  /\ \A x \in ToSet(p.edges) : edge_types[x] # 10 /\ tile[NodeA[x]] = tile[p.from]
  /\ Bridges(p.edges, p.from, p.to, p.length)

Shortcut == [from : Node, to : Node, weight : Nat, ref : Nat, count : Nat]

StoreOK ==
  /\ tile \in Tilings
  /\ edge_types \in [Edge -> {0, 10, 20}]
  /\ \A x \in Edge : edge_types[x] = 10 <=> tile[NodeA[x]] # tile[NodeB[x]]
  /\ shortcuts \in Seq(Shortcut) /\ edges_dyn \in Seq(Edge)

\* A shortcut stays in its tile and is no shorter than the roads.
ShortcutsLead ==
  \A k \in DOMAIN shortcuts :
    /\ tile[shortcuts[k].to] = tile[shortcuts[k].from]
    /\ \A f \in [Node -> Int] :
         Bounds(f, Arcs(Edge)) => f[shortcuts[k].to] <= f[shortcuts[k].from] + shortcuts[k].weight

ToCross(s, n) == s \in InNodes(tile[s]) /\ n \in OutNodes(tile[s]) /\ Inside(s)[n] < Unlabelled
Waits(s, n) ==
  \/ tile[s] \in tiles
  \/ s \in crossing
  \/ \E p \in paths : p.from = s /\ p.to = n /\ p.length = Inside(s)[n]
TilesCrossed == \A s \in Node : \A n \in Node : ToCross(s, n) => Waits(s, n) \/ Crossed(s, n)

OverlayInv ==
  /\ StoreOK /\ ShortcutsLead
  /\ \A p \in paths : Leads(p)
  /\ crossing \subseteq Node
  /\ TilesCrossed
  /\ place # "prepare" => tiles = {} /\ crossing = {} /\ paths = {}

LEMMA InnerIs == StoreOK => InnerEdges = {x \in Edge : tile[NodeA[x]] = tile[NodeB[x]]}
BY DEF StoreOK, InnerEdges

LEMMA InsideIs ==
  ASSUME StoreOK, NEW s \in Node
  PROVE  /\ Inside(s) \in [Node -> 0..Unlabelled] /\ Inside(s)[s] = 0
         /\ \A x \in InnerEdges : Inside(s)[NodeB[x]] <= Inside(s)[NodeA[x]] + Weight[x]
<1>1. InnerEdges \in SUBSET Edge
  BY DEF InnerEdges
<1>2. Arcs(InnerEdges) \in SUBSET ArcsOn(Node)
  BY <1>1, ArcsAreOnNodes
<1>3. Unlabelled \in Nat
  BY OverlayAssumption
<1>4. /\ Inside(s) \in [Node -> 0..Unlabelled] /\ Inside(s)[s] = 0
      /\ Bounds(Inside(s), Arcs(InnerEdges))
  BY <1>2, <1>3, NodesAssumption, DistancesArePotential DEF Inside
<1> QED
  BY <1>1, <1>4, ArcsBound

LEMMA OverlayInit == Init => OverlayInv
<1> SUFFICES ASSUME Init PROVE OverlayInv
  OBVIOUS
<1>1. edge_types = [x \in Edge |-> IF tile[NodeA[x]] # tile[NodeB[x]] THEN 10 ELSE 0]
  BY DEF Init, Types
<1>2. StoreOK
  BY <1>1 DEF Init, StoreOK
<1>3. ShortcutsLead
  BY DEF Init, ShortcutsLead
<1>4. TilesCrossed
  <2> SUFFICES ASSUME NEW s \in Node PROVE tile[s] \in tiles
    BY DEF TilesCrossed, Waits
  <2> QED
    BY DEF Init
<1>5. paths = {} /\ crossing \subseteq Node /\ place = "prepare"
  BY DEF Init
<1> QED
  BY <1>2, <1>3, <1>4, <1>5 DEF OverlayInv

\* The next tile: what has to be crossed of it is in crossing.
LEMMA NextTileKeeps == OverlayInv /\ NextTile => OverlayInv'
<1> SUFFICES ASSUME OverlayInv, NextTile PROVE OverlayInv'
  OBVIOUS
<1>1. PICK t \in tiles : tiles' = tiles \ {t} /\ crossing' = InNodes(t)
  BY DEF NextTile
<1>2. /\ crossing = {} /\ paths = {} /\ place = "prepare" /\ place' = place /\ paths' = paths
      /\ tile' = tile /\ edge_types' = edge_types /\ shortcuts' = shortcuts /\ edges_dyn' = edges_dyn
  BY DEF NextTile
<1>3. StoreOK' /\ ShortcutsLead'
  BY <1>2 DEF OverlayInv, StoreOK, ShortcutsLead
<1>4. \A s \in Node : Inside(s)' = Inside(s)
  BY <1>2 DEF Inside, InnerEdges
<1>5. \A s \in Node : \A n \in Node : Crossed(s, n)' = Crossed(s, n)
  BY <1>2 DEF Crossed, Inside, InnerEdges, SkipArcsIn, SkipArcs
<1>6. TilesCrossed'
  <2> SUFFICES ASSUME NEW s \in Node, NEW n \in Node, ToCross(s, n)', ~Waits(s, n)'
               PROVE  Crossed(s, n)
    BY <1>5 DEF TilesCrossed
  <2>1. ToCross(s, n) /\ s \in InNodes(tile[s])
    BY <1>2 DEF ToCross, Inside, InnerEdges, InNodes, OutNodes
  <2>2. tile[s] \notin tiles' /\ s \notin crossing'
    BY <1>2 DEF Waits
  <2>3. tile[s] # t
    BY <1>1, <2>1, <2>2
  <2>4. ~Waits(s, n)
    BY <1>1, <1>2, <2>2, <2>3 DEF Waits
  <2> QED
    BY <2>1, <2>4 DEF OverlayInv, TilesCrossed
<1>7. crossing' \subseteq Node
  BY <1>1 DEF InNodes
<1> QED
  BY <1>2, <1>3, <1>6, <1>7 DEF OverlayInv

\* One node the tile is entered by: from there each node the tile is left by has
\* a path among those to be kept.
LEMMA CrossKeeps == ASSUME OverlayInv, NEW s \in crossing, Cross(s) PROVE OverlayInv'
<1> DEFINE dist == Inside(s)
           seen == {n \in OutNodes(tile[s]) : dist[n] < Unlabelled
                                              \/ \E x \in InnerEdges \cap Backward(n) : dist[NodeA[x]] < Unlabelled}
           R == {n \in Node \ {s} : dist[n] < Unlabelled}
<1>0. StoreOK /\ s \in Node /\ crossing \subseteq Node
  BY DEF OverlayInv
<1>1. /\ paths = {} /\ place = "prepare" /\ place' = place /\ crossing' = crossing \ {s} /\ tiles' = tiles
      /\ tile' = tile /\ edge_types' = edge_types /\ shortcuts' = shortcuts /\ edges_dyn' = edges_dyn
  BY DEF Cross
<1>2. /\ \A n \in seen : dist[n] < Unlabelled
      /\ \E prev \in Trees(s, dist) :
           paths' = {[from |-> s, to |-> n, length |-> dist[n], edges |-> PathBack(s, prev)[n]] : n \in seen}
  BY DEF Cross, Inside
<1>3. PICK prev \in Trees(s, dist) :
        paths' = {[from |-> s, to |-> n, length |-> dist[n], edges |-> PathBack(s, prev)[n]] : n \in seen}
  BY <1>2
<1>4. PICK d : d = Inside(s)
  OBVIOUS
<1>5. /\ d \in [Node -> 0..Unlabelled] /\ d[s] = 0 /\ Unlabelled \in Nat
      /\ \A x \in InnerEdges : d[NodeB[x]] <= d[NodeA[x]] + Weight[x]
  BY <1>0, <1>4, InsideIs, OverlayAssumption
<1>6. /\ prev \in [R -> {x \in InnerEdges : d[NodeA[x]] + Weight[x] = d[NodeB[x]]}]
      /\ \A n \in R : NodeB[prev[n]] = n
  BY <1>3, <1>4 DEF Trees
<1>7. PICK Q, t : Q = R /\ t = tile
  OBVIOUS
<1>8. IsTree(s, d, Unlabelled, prev, Q, t) /\ \A n \in Q : prev[n] \in InnerEdges
  <2>1. prev \in [R -> Edge]
    BY <1>6 DEF InnerEdges
  <2>2. ASSUME NEW n \in R
        PROVE  /\ NodeB[prev[n]] = n /\ NodeA[prev[n]] \in R \cup {s} /\ d[NodeA[prev[n]]] + Weight[prev[n]] = d[n]
               /\ prev[n] \in InnerEdges /\ tile[NodeA[prev[n]]] = tile[n]
    <3>1. prev[n] \in InnerEdges /\ d[NodeA[prev[n]]] + Weight[prev[n]] = d[NodeB[prev[n]]] /\ NodeB[prev[n]] = n
      BY <1>6
    <3>2. prev[n] \in Edge /\ tile[NodeA[prev[n]]] = tile[n]
      BY <1>0, <3>1, InnerIs
    <3>3. NodeA[prev[n]] \in Node /\ Weight[prev[n]] \in Nat
      BY <3>2, GraphAssumption
    <3>4. d[NodeA[prev[n]]] \in Nat /\ d[n] \in Nat /\ d[n] < Unlabelled
      BY <1>4, <1>5, <3>3
    <3>5. d[NodeA[prev[n]]] < Unlabelled
      BY <1>5, <3>1, <3>3, <3>4
    <3> QED
      BY <1>4, <3>1, <3>2, <3>3, <3>5
  <2>3. R \in SUBSET Node /\ s \notin R
    OBVIOUS
  <2> HIDE DEF R
  <2> QED
    BY <1>0, <1>5, <1>7, <2>1, <2>2, <2>3 DEF IsTree
<1>9. \A n \in seen : n \in Q \cup {s} /\ n \in Node
  BY <1>2, <1>7 DEF OutNodes
<1>10. ASSUME NEW n \in seen
       PROVE  Leads([from |-> s, to |-> n, length |-> d[n], edges |-> PathBack(s, prev)[n]])
  <2>1. n \in Q \cup {s} /\ n \in Node
    BY <1>9
  <2> HIDE DEF R, seen
  <2>2. /\ PathBack(s, prev)[n] \in Seq(Edge)
        /\ t[n] = t[s]
        /\ ToSet(PathBack(s, prev)[n]) \subseteq LastEdges(prev, Q)
        /\ Bridges(PathBack(s, prev)[n], s, n, d[n])
    BY <1>8, <2>1, PathsLead
  <2>3. d[n] \in Nat
    BY <1>5, <2>1
  <2>4. ASSUME NEW m \in Q PROVE edge_types[prev[m]] # 10 /\ tile[NodeA[prev[m]]] = tile[s]
    <3>1. m \in Q \cup {s}
      OBVIOUS
    <3>2. t[m] = t[s]
      BY <1>8, <3>1, PathsLead
    <3>3. t[NodeA[prev[m]]] = t[m]
      BY <1>8 DEF IsTree
    <3> QED
      BY <1>7, <1>8, <3>2, <3>3 DEF InnerEdges
  <2>5. \A x \in ToSet(PathBack(s, prev)[n]) : edge_types[x] # 10 /\ tile[NodeA[x]] = tile[s]
    BY <2>2, <2>4 DEF LastEdges
  <2> QED
    BY <1>0, <1>7, <2>1, <2>2, <2>3, <2>5 DEF Leads
<1>11. \A p \in paths' : Leads(p)'
  <2>1. \A p \in paths' : Leads(p)
    BY <1>3, <1>4, <1>10
  <2> QED
    BY <1>1, <2>1 DEF Leads
<1>12. StoreOK' /\ ShortcutsLead'
  BY <1>1 DEF OverlayInv, StoreOK, ShortcutsLead
<1>13. TilesCrossed'
  <2> SUFFICES ASSUME NEW u \in Node, NEW n \in Node, ToCross(u, n)', ~Waits(u, n)'
               PROVE  Crossed(u, n)'
    BY DEF TilesCrossed
  <2>1. ToCross(u, n)
    BY <1>1 DEF ToCross, Inside, InnerEdges, InNodes, OutNodes
  <2>2. Inside(u)' = Inside(u)
    BY <1>1 DEF Inside, InnerEdges
  <2>3. u # s
    <3> SUFFICES ASSUME u = s PROVE FALSE
      OBVIOUS
    <3>1. n \in OutNodes(tile[s]) /\ dist[n] < Unlabelled
      BY <2>1 DEF ToCross
    <3>2. n \in seen
      BY <3>1
    <3> DEFINE p == [from |-> s, to |-> n, length |-> dist[n], edges |-> PathBack(s, prev)[n]]
    <3>3. p \in paths' /\ p.from = u /\ p.to = n /\ p.length = Inside(u)[n]
      BY <1>3, <3>2
    <3> HIDE DEF p
    <3> QED
      BY <2>2, <3>3 DEF Waits
  <2>4. ~Waits(u, n)
    BY <1>1, <2>3 DEF Waits
  <2>5. Crossed(u, n)
    BY <2>1, <2>4 DEF OverlayInv, TilesCrossed
  <2> QED
    BY <1>1, <2>5 DEF Crossed, Inside, InnerEdges, SkipArcsIn, SkipArcs
<1> QED
  BY <1>0, <1>1, <1>11, <1>12, <1>13 DEF OverlayInv

\* When a path is kept, by marks or by a shortcut, the tile is crossed along it
\* by arcs of the overlay, and no arc of the overlay is lost.
LEMMA KeptPathCrosses ==
  ASSUME OverlayInv, NEW p \in paths, KeepPath(p)
  PROVE  /\ StoreOK' /\ ShortcutsLead'
         /\ InnerEdges' = InnerEdges
         /\ \A q : Leads(q) => Leads(q)'
         /\ \A f \in [Node -> Int] : \A t : Bounds(f, SkipArcsIn(t)') => Bounds(f, SkipArcsIn(t))
         /\ \A f \in [Node -> Int] : \A t :
              t = tile[p.from] /\ Bounds(f, SkipArcsIn(t)') => f[p.to] <= f[p.from] + p.length
<1>1. /\ StoreOK /\ ShortcutsLead /\ Leads(p) /\ tile' = tile
  BY DEF OverlayInv, KeepPath
<1>2. CASE MarkEdges(p)
  <2>1. /\ edge_types' = [x \in Edge |-> IF x \in ToSet(p.edges) THEN 20 ELSE edge_types[x]]
        /\ shortcuts' = shortcuts /\ edges_dyn' = edges_dyn
    BY <1>2 DEF MarkEdges
  <2>2. \A x \in Edge : (edge_types'[x] = 10 <=> edge_types[x] = 10) /\ edge_types'[x] \in {0, 10, 20}
                        /\ (edge_types[x] \in {10, 20} => edge_types'[x] \in {10, 20})
    <3> TAKE x \in Edge
    <3>1. edge_types[x] \in {0, 10, 20} /\ (x \in ToSet(p.edges) => edge_types[x] # 10)
      BY <1>1 DEF StoreOK, Leads
    <3>2. edge_types'[x] = IF x \in ToSet(p.edges) THEN 20 ELSE edge_types[x]
      BY <2>1
    <3> QED
      BY <3>1, <3>2
  <2>3. StoreOK'
    <3>1. edge_types' \in [Edge -> {0, 10, 20}]
      BY <2>1, <2>2
    <3> QED
      BY <1>1, <2>1, <2>2, <3>1 DEF StoreOK
  <2>4. ShortcutsLead'
    BY <1>1, <2>1 DEF ShortcutsLead
  <2>5. InnerEdges' = InnerEdges
    BY <2>2 DEF InnerEdges
  <2>6. ASSUME NEW q, Leads(q) PROVE Leads(q)'
    <3>1. \A x \in ToSet(q.edges) : x \in Edge
      BY <2>6 DEF Leads, ToSet
    <3> QED
      BY <1>1, <2>2, <2>6, <3>1 DEF Leads
  <2>7. SkipArcs \subseteq SkipArcs'
    BY <2>1, <2>2 DEF SkipArcs, Arcs
  <2>8. \A t : SkipArcsIn(t) \subseteq SkipArcsIn(t)'
    BY <1>1, <2>7 DEF SkipArcsIn
  <2>9. ASSUME NEW f \in [Node -> Int], NEW t, t = tile[p.from], Bounds(f, SkipArcsIn(t)')
        PROVE  f[p.to] <= f[p.from] + p.length
    <3>1. ToSet(p.edges) \in SUBSET Edge
      BY <1>1 DEF Leads, ToSet
    <3>2. \A x \in ToSet(p.edges) : edge_types'[x] = 20 /\ tile[NodeA[x]] = tile[p.from]
      BY <1>1, <2>1, <3>1 DEF Leads
    <3>3. Arcs(ToSet(p.edges)) \subseteq SkipArcsIn(t)'
      BY <1>1, <2>9, <3>1, <3>2 DEF SkipArcsIn, SkipArcs, Arcs
    <3>4. Bounds(f, Arcs(ToSet(p.edges)))
      BY <2>9, <3>3 DEF Bounds
    <3> QED
      BY <1>1, <3>4 DEF Leads, Bridges
  <2> QED
    BY <2>3, <2>4, <2>5, <2>6, <2>8, <2>9 DEF Bounds
<1>3. CASE AddShortcut(p)
  <2> DEFINE new == [from |-> p.from, to |-> p.to, weight |-> p.length, ref |-> Len(shortcuts), count |-> Len(p.edges)]
  <2>1. /\ shortcuts' = Append(shortcuts, new)
        /\ edges_dyn' = edges_dyn \o p.edges /\ edge_types' = edge_types
    BY <1>3 DEF AddShortcut
  <2>2. shortcuts \in Seq(Shortcut) /\ edges_dyn \in Seq(Edge) /\ p.edges \in Seq(Edge)
    BY <1>1 DEF StoreOK, Leads
  <2>3. new \in Shortcut
    BY <1>1, <2>2 DEF Leads, Shortcut
  <2>4. new.from = p.from /\ new.to = p.to /\ new.weight = p.length
    OBVIOUS
  <2> HIDE DEF new
  <2>5. /\ shortcuts' \in Seq(Shortcut) /\ DOMAIN shortcuts' = DOMAIN shortcuts \cup {Len(shortcuts) + 1}
        /\ \A k \in DOMAIN shortcuts : shortcuts'[k] = shortcuts[k]
        /\ shortcuts'[Len(shortcuts) + 1] = new
    BY <2>1, <2>2, <2>3
  <2>6. StoreOK'
    BY <1>1, <2>1, <2>2, <2>5 DEF StoreOK
  <2>7. InnerEdges' = InnerEdges
    BY <2>1 DEF InnerEdges
  <2>8. ASSUME NEW f \in [Node -> Int], Bounds(f, Arcs(Edge)) PROVE f[p.to] <= f[p.from] + p.length
    <3>1. ToSet(p.edges) \in SUBSET Edge
      BY <2>2 DEF ToSet
    <3>2. Bounds(f, Arcs(ToSet(p.edges)))
      BY <2>8, <3>1, ArcsBound
    <3> QED
      BY <1>1, <3>2 DEF Leads, Bridges
  <2>9. ShortcutsLead'
    <3> SUFFICES ASSUME NEW k \in DOMAIN shortcuts'
                 PROVE  /\ tile[shortcuts'[k].to] = tile[shortcuts'[k].from]
                        /\ \A f \in [Node -> Int] :
                             Bounds(f, Arcs(Edge)) => f[shortcuts'[k].to] <= f[shortcuts'[k].from] + shortcuts'[k].weight
      BY <1>1 DEF ShortcutsLead
    <3>1. CASE k \in DOMAIN shortcuts
      BY <1>1, <2>5, <3>1 DEF ShortcutsLead
    <3>2. CASE k = Len(shortcuts) + 1
      <4>1. tile[p.to] = tile[p.from]
        BY <1>1 DEF Leads
      <4> QED
        BY <2>4, <2>5, <2>8, <3>2, <4>1
    <3> QED
      BY <2>5, <3>1, <3>2
  <2>10. \A q : Leads(q) => Leads(q)'
    BY <1>1, <2>1 DEF Leads
  <2>11. SkipArcs \subseteq SkipArcs'
    BY <2>1, <2>5 DEF SkipArcs
  <2>12. [from |-> p.from, to |-> p.to, weight |-> p.length] \in SkipArcs'
    BY <2>4, <2>5 DEF SkipArcs
  <2>13. \A t : SkipArcsIn(t) \subseteq SkipArcsIn(t)'
    BY <1>1, <2>11 DEF SkipArcsIn
  <2>14. ASSUME NEW f \in [Node -> Int], NEW t, t = tile[p.from], Bounds(f, SkipArcsIn(t)')
         PROVE  f[p.to] <= f[p.from] + p.length
    <3>1. [from |-> p.from, to |-> p.to, weight |-> p.length] \in SkipArcsIn(t)'
      BY <1>1, <2>12, <2>14 DEF SkipArcsIn
    <3> QED
      BY <2>14, <3>1 DEF Bounds
  <2> QED
    BY <2>6, <2>7, <2>9, <2>10, <2>13, <2>14 DEF Bounds
<1> QED
  BY <1>2, <1>3 DEF KeepPath

LEMMA KeepPathKeeps == ASSUME OverlayInv, NEW p \in paths, KeepPath(p) PROVE OverlayInv'
<1>1. /\ StoreOK' /\ ShortcutsLead'
      /\ InnerEdges' = InnerEdges
      /\ \A q : Leads(q) => Leads(q)'
      /\ \A f \in [Node -> Int] : \A t : Bounds(f, SkipArcsIn(t)') => Bounds(f, SkipArcsIn(t))
      /\ \A f \in [Node -> Int] : \A t :
           t = tile[p.from] /\ Bounds(f, SkipArcsIn(t)') => f[p.to] <= f[p.from] + p.length
  BY KeptPathCrosses
<1>2. /\ place = "prepare" /\ place' = place /\ paths' = paths \ {p}
      /\ tile' = tile /\ crossing' = crossing /\ tiles' = tiles
  BY DEF KeepPath
<1>3. \A u \in Node : Inside(u)' = Inside(u)
  BY <1>1 DEF Inside
<1>4. TilesCrossed'
  <2> SUFFICES ASSUME NEW u \in Node, NEW n \in Node, ToCross(u, n)', ~Waits(u, n)'
               PROVE  Crossed(u, n)'
    BY DEF TilesCrossed
  <2> DEFINE d == Inside(u)[n]
  <2>1. ToCross(u, n)
    BY <1>2, <1>3 DEF ToCross, InNodes, OutNodes
  <2>2. CASE Waits(u, n)
    <3>1. PICK q \in paths : q.from = u /\ q.to = n /\ q.length = d
      BY <1>2, <2>2 DEF Waits
    <3>2. q \notin paths'
      BY <1>3, <3>1 DEF Waits
    <3>3. q = p
      BY <1>2, <3>2
    <3>4. PICK t : t = tile[u]
      OBVIOUS
    <3>5. \A f \in [Node -> Int] : Bounds(f, SkipArcsIn(t)') => f[n] <= f[u] + d
      BY <1>1, <3>1, <3>3, <3>4
    <3>6. SkipArcsIn(tile[u])' = SkipArcsIn(t)'
      BY <1>2, <3>4 DEF SkipArcsIn
    <3> QED
      BY <1>2, <1>3, <3>5, <3>6 DEF Crossed
  <2>3. CASE Crossed(u, n)
    <3>1. PICK t : t = tile[u]
      OBVIOUS
    <3>2. \A f \in [Node -> Int] : Bounds(f, SkipArcsIn(t)') => f[n] <= f[u] + d
      BY <1>1, <2>3, <3>1 DEF Crossed
    <3>3. SkipArcsIn(tile[u])' = SkipArcsIn(t)'
      BY <1>2, <3>1 DEF SkipArcsIn
    <3> QED
      BY <1>2, <1>3, <3>2, <3>3 DEF Crossed
  <2> QED
    BY <2>1, <2>2, <2>3 DEF OverlayInv, TilesCrossed
<1>5. \A q \in paths' : Leads(q)'
  BY <1>1, <1>2 DEF OverlayInv
<1>6. crossing' \subseteq Node
  BY <1>2 DEF OverlayInv
<1> QED
  BY <1>1, <1>2, <1>4, <1>5, <1>6 DEF OverlayInv

\* The query changes nothing of the overlay.
LEMMA OverlayStays ==
  ASSUME OverlayInv, overlay' = overlay,
         place # "prepare" => place' # "prepare",
         place' # "prepare" => place # "prepare" \/ (tiles = {} /\ crossing = {} /\ paths = {})
  PROVE  OverlayInv'
<1>1. /\ tile' = tile /\ edge_types' = edge_types /\ shortcuts' = shortcuts /\ edges_dyn' = edges_dyn
      /\ crossing' = crossing /\ paths' = paths /\ tiles' = tiles
  BY DEF overlay
<1>2. StoreOK' /\ ShortcutsLead' /\ \A p \in paths' : Leads(p)'
  BY <1>1 DEF OverlayInv, StoreOK, ShortcutsLead, Leads
<1>3. TilesCrossed'
  BY <1>1 DEF OverlayInv, TilesCrossed, ToCross, Waits, Crossed, Inside, InnerEdges, InNodes, OutNodes, SkipArcsIn, SkipArcs
<1> QED
  BY <1>1, <1>2, <1>3 DEF OverlayInv

-----------------------------------------------------------------------------
(* What the query may leave out.                                           *)

Near(n) == tile[n] \in {tile[start], tile[end]}

\* What the query looks at from a node.
Refs(n) == Adjacent(n, ~Near(n))

Roads == DistancesFrom(start, Node, Arcs(Edge), Limit)

LEMMA LeastIs ==
  ASSUME NEW S \in SUBSET Nat, S # {}
  PROVE  Least(S) \in S /\ \A o \in S : Least(S) <= o
<1>1. \E l \in S : \A o \in S : l <= o
  BY LeastNumber
<1> QED
  BY <1>1 DEF Least

\* A bound on what the query looks at, with labels up to c, is no more than the
\* distance: inside a tile that is left out it goes on as from the nodes the tile
\* is entered by.
LEMMA TilesLoseNothing ==
  ASSUME OverlayInv, place # "prepare", start \in Node, end \in Node,
         NEW f \in [Node -> Nat], NEW c \in Nat, c <= Limit, \A n \in Node : f[n] <= c,
         f[start] = 0, f[end] = c,
         \A n \in Node : \A r \in Refs(n) : f[r.other] <= f[n] + r.weight
  PROVE  c <= Roads[end]
<1> DEFINE Ways(v) == {c} \cup {f[s] + Inside(s)[v] : s \in InNodes(tile[v])}
           q == [v \in Node |-> IF Near(v) THEN f[v] ELSE Least(Ways(v))]
<1>1. /\ StoreOK /\ ShortcutsLead /\ TilesCrossed
      /\ tiles = {} /\ crossing = {} /\ paths = {}
  BY DEF OverlayInv
<1>2. \A x \in Edge : /\ NodeA[x] \in Node /\ NodeB[x] \in Node /\ Weight[x] \in Nat
                      /\ f[NodeA[x]] \in Nat /\ f[NodeB[x]] \in Nat
  BY GraphAssumption
<1>3. ASSUME NEW x \in Edge, Near(NodeA[x]) \/ edge_types[x] \in {10, 20}
      PROVE  f[NodeB[x]] <= f[NodeA[x]] + Weight[x]
  <2>1. EdgeRef(x) \in Refs(NodeA[x])
    BY <1>3 DEF Refs, Adjacent, Forward
  <2>2. EdgeRef(x).other = NodeB[x] /\ EdgeRef(x).weight = Weight[x]
    BY DEF EdgeRef
  <2> QED
    BY <1>2, <2>1, <2>2
<1>4. ASSUME NEW k \in DOMAIN shortcuts, ~Near(shortcuts[k].from)
      PROVE  f[shortcuts[k].to] <= f[shortcuts[k].from] + shortcuts[k].weight
  <2>1. ShortcutRef(k) \in Refs(shortcuts[k].from)
    BY <1>4 DEF Refs, Adjacent
  <2>2. ShortcutRef(k).other = shortcuts[k].to /\ ShortcutRef(k).weight = shortcuts[k].weight
    BY DEF ShortcutRef
  <2>3. shortcuts[k] \in Shortcut
    BY <1>1 DEF StoreOK
  <2>4. shortcuts[k].from \in Node
    BY <2>3 DEF Shortcut
  <2> QED
    BY <2>1, <2>2, <2>4
<1>5. ASSUME NEW v \in Node, ~Near(v) PROVE Bounds(f, SkipArcsIn(tile[v]))
  <2> SUFFICES ASSUME NEW r \in SkipArcs, tile[r.from] = tile[v] PROVE f[r.to] <= f[r.from] + r.weight
    BY DEF Bounds, SkipArcsIn
  <2>1. CASE r \in Arcs({x \in Edge : edge_types[x] \in {10, 20}})
    <3>1. PICK x \in Edge : /\ edge_types[x] \in {10, 20}
                            /\ r = [from |-> NodeA[x], to |-> NodeB[x], weight |-> Weight[x]]
      BY <2>1 DEF Arcs
    <3> QED
      BY <1>3, <3>1
  <2>2. CASE r \in {[from |-> shortcuts[k].from, to |-> shortcuts[k].to, weight |-> shortcuts[k].weight] :
                      k \in DOMAIN shortcuts}
    <3>1. PICK k \in DOMAIN shortcuts :
            r = [from |-> shortcuts[k].from, to |-> shortcuts[k].to, weight |-> shortcuts[k].weight]
      BY <2>2
    <3>2. ~Near(shortcuts[k].from)
      BY <1>5, <3>1 DEF Near
    <3> QED
      BY <1>4, <3>1, <3>2
  <2> QED
    BY <2>1, <2>2 DEF SkipArcs
<1>6. \A s \in Node : /\ Inside(s) \in [Node -> 0..Unlabelled] /\ Inside(s)[s] = 0
                      /\ \A x \in InnerEdges : Inside(s)[NodeB[x]] <= Inside(s)[NodeA[x]] + Weight[x]
  BY <1>1, InsideIs
<1>7. Limit \in Nat /\ Unlabelled \in Nat /\ Limit <= Unlabelled
  BY OverlayAssumption
<1>8. ASSUME NEW v \in Node
      PROVE  /\ Ways(v) \in SUBSET Nat /\ Ways(v) # {}
             /\ Least(Ways(v)) \in Ways(v) /\ \A o \in Ways(v) : Least(Ways(v)) <= o
  <2>1. ASSUME NEW s \in InNodes(tile[v]) PROVE f[s] + Inside(s)[v] \in Nat
    <3>1. s \in Node
      BY DEF InNodes
    <3>2. Inside(s)[v] \in Nat /\ f[s] \in Nat
      BY <1>6, <1>7, <3>1
    <3> QED
      BY <3>2
  <2>2. Ways(v) \in SUBSET Nat /\ Ways(v) # {}
    BY <2>1
  <2>3. PICK W : W = Ways(v)
    OBVIOUS
  <2>4. Least(W) \in W /\ \A o \in W : Least(W) <= o
    BY <2>2, <2>3, LeastIs
  <2> QED
    BY <2>2, <2>3, <2>4
<1>9. \A v \in Node : q[v] = IF Near(v) THEN f[v] ELSE Least(Ways(v))
  OBVIOUS
<1>10. ASSUME NEW v \in Node PROVE q[v] \in Nat /\ q[v] <= c
  <2>1. CASE Near(v)
    BY <2>1
  <2>2. CASE ~Near(v)
    <3>1. q[v] = Least(Ways(v)) /\ c \in Ways(v)
      BY <2>2
    <3> HIDE DEF q, Ways
    <3> QED
      BY <1>8, <3>1
  <2> QED
    BY <2>1, <2>2
<1>11. q \in [Node -> Nat]
  <2>1. q = [v \in Node |-> q[v]]
    OBVIOUS
  <2> HIDE DEF q
  <2> QED
    BY <1>10, <2>1
\* Where a tile is left, the bound is not more than what it goes on as.
<1>12. ASSUME NEW x \in Edge, tile[NodeA[x]] # tile[NodeB[x]] PROVE f[NodeA[x]] <= q[NodeA[x]]
  <2> DEFINE a == NodeA[x]
  <2>0. a \in Node /\ f[a] \in Nat
    BY <1>2
  <2>1. CASE Near(a)
    BY <1>9, <2>0, <2>1
  <2>2. CASE ~Near(a)
    <3>1. a \in OutNodes(tile[a])
      BY <1>12, <2>0 DEF OutNodes, Forward
    <3>2. ASSUME NEW s \in InNodes(tile[a]) PROVE f[a] <= f[s] + Inside(s)[a]
      <4>1. s \in Node /\ tile[s] = tile[a] /\ s \in InNodes(tile[s])
        BY <3>2 DEF InNodes
      <4>2. Inside(s)[a] \in 0..Unlabelled /\ f[s] \in Nat /\ f[a] <= c
        BY <1>6, <2>0, <4>1
      <4>3. CASE Inside(s)[a] < Unlabelled
        <5>1. ToCross(s, a)
          BY <3>1, <4>1, <4>3 DEF ToCross
        <5>2. ~Waits(s, a)
          BY <1>1 DEF Waits
        <5>3. Crossed(s, a)
          BY <1>1, <2>0, <4>1, <5>1, <5>2 DEF TilesCrossed
        <5>4. Bounds(f, SkipArcsIn(tile[s]))
          BY <1>5, <2>0, <2>2, <4>1
        <5>5. f \in [Node -> Int]
          OBVIOUS
        <5> QED
          BY <5>3, <5>4, <5>5 DEF Crossed
      <4>4. CASE Inside(s)[a] = Unlabelled
        BY <1>7, <2>0, <4>2, <4>4
      <4> QED
        BY <1>7, <4>2, <4>3, <4>4
    <3>3. \A w \in Ways(a) : f[a] <= w
      BY <2>0, <3>2
    <3>4. q[a] = Least(Ways(a))
      BY <1>9, <2>0, <2>2
    <3> HIDE DEF q, Ways
    <3> QED
      BY <1>8, <2>0, <3>3, <3>4
  <2> QED
    BY <2>1, <2>2
\* Where a tile is entered, it goes on as no more than the bound.
<1>13. ASSUME NEW x \in Edge, tile[NodeA[x]] # tile[NodeB[x]] PROVE q[NodeB[x]] <= f[NodeB[x]]
  <2> DEFINE b == NodeB[x]
  <2>0. b \in Node /\ f[b] \in Nat
    BY <1>2
  <2>1. CASE Near(b)
    BY <1>9, <2>0, <2>1
  <2>2. CASE ~Near(b)
    <3>1. b \in InNodes(tile[b])
      BY <1>13, <2>0 DEF InNodes, Backward
    <3>2. Inside(b)[b] = 0
      BY <1>6, <2>0
    <3>3. f[b] + Inside(b)[b] \in Ways(b) /\ f[b] + Inside(b)[b] = f[b]
      BY <2>0, <3>1, <3>2
    <3>4. q[b] = Least(Ways(b))
      BY <1>9, <2>0, <2>2
    <3> HIDE DEF q, Ways
    <3> QED
      BY <1>8, <2>0, <3>3, <3>4
  <2> QED
    BY <2>1, <2>2
<1>14. ASSUME NEW x \in Edge PROVE q[NodeB[x]] <= q[NodeA[x]] + Weight[x]
  <2> DEFINE a == NodeA[x]
             b == NodeB[x]
  <2>0. /\ a \in Node /\ b \in Node /\ Weight[x] \in Nat /\ f[a] \in Nat /\ f[b] \in Nat
        /\ q[a] \in Nat /\ q[b] \in Nat
    BY <1>2, <1>10
  <2>1. CASE tile[a] # tile[b]
    <3>1. edge_types[x] = 10
      BY <1>1, <2>1 DEF StoreOK
    <3>2. f[b] <= f[a] + Weight[x]
      BY <1>3, <3>1
    <3>3. f[a] <= q[a] /\ q[b] <= f[b]
      BY <1>12, <1>13, <2>1
    <3> HIDE DEF q
    <3> QED
      BY <2>0, <3>2, <3>3
  <2>2. CASE tile[a] = tile[b] /\ Near(a)
    <3>1. Near(b)
      BY <2>2 DEF Near
    <3>2. q[a] = f[a] /\ q[b] = f[b]
      BY <1>9, <2>0, <2>2, <3>1
    <3> HIDE DEF q
    <3> QED
      BY <1>3, <2>2, <3>2
  <2>3. CASE tile[a] = tile[b] /\ ~Near(a)
    <3>1. ~Near(b)
      BY <2>3 DEF Near
    <3>2. q[a] = Least(Ways(a)) /\ q[b] = Least(Ways(b))
      BY <1>9, <2>0, <2>3, <3>1
    <3>3. x \in InnerEdges
      BY <1>1, <2>3, InnerIs
    <3>4. q[a] \in Ways(a)
      BY <1>8, <2>0, <3>2
    <3>5. CASE q[a] = c
      <4>1. q[b] <= c
        BY <1>10, <2>0
      <4> HIDE DEF q
      <4> QED
        BY <2>0, <3>5, <4>1
    <3>6. ASSUME NEW s \in InNodes(tile[a]), q[a] = f[s] + Inside(s)[a] PROVE q[b] <= q[a] + Weight[x]
      <4>1. s \in InNodes(tile[b]) /\ s \in Node
        BY <2>3 DEF InNodes
      <4>2. f[s] + Inside(s)[b] \in Ways(b)
        BY <4>1
      <4>3. q[b] <= f[s] + Inside(s)[b]
        BY <1>8, <2>0, <3>2, <4>2
      <4>4. Inside(s)[b] <= Inside(s)[a] + Weight[x]
        BY <1>6, <3>3, <4>1
      <4>5. f[s] \in Nat /\ Inside(s)[a] \in Nat /\ Inside(s)[b] \in Nat
        BY <1>6, <1>7, <2>0, <4>1
      <4> HIDE DEF q
      <4> QED
        BY <2>0, <3>6, <4>3, <4>4, <4>5
    <3> QED
      BY <3>4, <3>5, <3>6
  <2> QED
    BY <2>1, <2>2, <2>3
<1>15. q[start] = 0 /\ q[end] = c
  BY <1>9 DEF Near
<1> HIDE DEF q
<1>16. PICK p, s, e : p = q /\ s = start /\ e = end
  OBVIOUS
<1>17. /\ Edge \in SUBSET Edge /\ Arcs(Edge) \in SUBSET ArcsOn(Node)
       /\ Bounds(p, Arcs(Edge))
  BY <1>14, <1>16, ArcsAreOnNodes, ArcsBound
<1>18. p \in [Node -> Int] /\ p[s] <= 0 /\ s \in Node /\ e \in Node /\ p[e] = c
  BY <1>11, <1>15, <1>16
<1>19. p[e] <= DistancesFrom(s, Node, Arcs(Edge), Limit)[e]
  BY <1>7, <1>17, <1>18, NodesAssumption, DistancesAreGreatest
<1> QED
  BY <1>16, <1>18, <1>19 DEF Roads

-----------------------------------------------------------------------------
(* What holds while the query runs.                                        *)

FlagState == [seen : {"no", "open", "done"}, len : Nat, prev : Edge \cup {NoEdge} \cup Nat,
              shc : BOOLEAN, skip : BOOLEAN]

StartItem == Item(start, [NoFlag EXCEPT !.seen = "open", !.prev = NoEdge])
Label(n) == IF flags[n].seen = "no" THEN Limit ELSE flags[n].len
Done(n) == flags[n].seen = "done"
Labelled(n) == Done(n) \/ (flags[n].seen = "open" /\ flags[n].len < Limit)

\* The label f of n was reached from another node, whose label stays.
Hangs(n, f) ==
  \E m \in Node : \E r \in Refs(m) :
    /\ m # n /\ Done(m)
    /\ r.other = n /\ f.len = flags[m].len + r.weight
    /\ f.prev = r.id /\ f.shc = (r.type = 100)

FlagsOK ==
  /\ flags \in [Node \cup {NoNode} -> FlagState]
  /\ \A n \in Node : /\ flags[n].len <= Limit
                     /\ flags[n].seen # "no" => Roads[n] <= flags[n].len
                     /\ Labelled(n) /\ n # start => Hangs(n, flags[n])
  /\ ~Done(end)

\* An item tells how its tile is to be walked, and is not better than its node.
HeapOK ==
  /\ heap \subseteq [node : Node, flag : FlagState]
  /\ \A i \in heap :
       /\ i.flag.seen = "open" /\ i.flag.skip = ~Near(i.node) /\ Roads[i.node] <= i.flag.len
       /\ i.node # start => /\ flags[i.node].seen # "no" /\ flags[i.node].len <= i.flag.len
                            /\ i.flag.len < Limit /\ Hangs(i.node, i.flag)
  /\ \A i \in heap : \A j \in heap : i.node = j.node /\ i.flag.len = j.flag.len => i = j

\* What is done is nearer than what is not, and its neighbours are labelled.
Settled ==
  \A n \in Node : Done(n) =>
    /\ \A r \in Refs(n) : Label(r.other) <= flags[n].len + r.weight
    /\ \A i \in heap : flags[n].len <= i.flag.len /\ (i.node = n => flags[n].len < i.flag.len)

Queued ==
  place = "search" =>
    \A n \in Node : flags[n].seen = "open" /\ flags[n].len < Limit => Item(n, flags[n]) \in heap

Begins ==
  IF Done(start)
    THEN flags[start].len = 0 /\ \A i \in heap : i.node # start
    ELSE /\ \A n \in Node : flags[n] = NoFlag
         /\ heap \subseteq {StartItem} /\ (place = "search" => heap = {StartItem})

QueryInv == start \in Node /\ end \in Node /\ FlagsOK /\ HeapOK /\ Settled /\ Queued /\ Begins

\* Before the walk back.
Unwalked == place \in {"prepare", "search"} => path = <<>>
Unasked == place = "prepare" => heap = {} /\ flags = [n \in Node \cup {NoNode} |-> NoFlag]

\* What the walk back has collected leads from where it is to the end.
Walked ==
  place \in {"walk", "answered"} /\ Reached /\ (\A n \in Node : flags[n].shc => Unpacks(flags[n].prev)) =>
    /\ cur \in Node /\ path \in Seq(Edge)
    /\ cur = end \/ cur = start \/ Done(cur)
    /\ flags[cur].len <= flags[end].len
    /\ RealRoute(path, cur, end, flags[end].len - flags[cur].len)

IInv ==
  /\ OverlayInv
  /\ place # "prepare" => QueryInv
  /\ Unwalked /\ Unasked
  /\ FindsShortest
  /\ Walked
  /\ place = "answered" => cur = start

LEMMA RoadsAre ==
  ASSUME start \in Node
  PROVE  /\ Roads \in [Node -> 0..Limit] /\ Roads[start] = 0
         /\ Bounds(Roads, Arcs(Edge))
<1>1. PICK s, D : s = start /\ D = Roads
  OBVIOUS
<1>2. Arcs(Edge) \in SUBSET ArcsOn(Node) /\ Limit \in Nat
  BY ArcsAreOnNodes, OverlayAssumption
<1>3. D = DistancesFrom(s, Node, Arcs(Edge), Limit) /\ s \in Node
  BY <1>1 DEF Roads
<1>4. D \in [Node -> 0..Limit] /\ D[s] = 0 /\ Bounds(D, Arcs(Edge))
  BY <1>2, <1>3, NodesAssumption, DistancesArePotential
<1> QED
  BY <1>1, <1>4

LEMMA RefsAre ==
  ASSUME StoreOK, ShortcutsLead, start \in Node, NEW m \in Node, NEW r \in Refs(m)
  PROVE  /\ r.other \in Node /\ r.weight \in Nat /\ r.id \in Edge \cup Nat
         /\ Roads[r.other] <= Roads[m] + r.weight
         /\ r.type # 10 => tile[r.other] = tile[m]
         /\ \/ r.type # 100 /\ r.id \in Edge /\ NodeA[r.id] = m /\ NodeB[r.id] = r.other /\ r.weight = Weight[r.id]
            \/ /\ r.type = 100 /\ r.id \in DOMAIN shortcuts
               /\ shortcuts[r.id].from = m /\ shortcuts[r.id].to = r.other /\ shortcuts[r.id].weight = r.weight
<1>1. /\ Roads \in [Node -> 0..Limit] /\ Limit \in Nat /\ Bounds(Roads, Arcs(Edge))
  BY RoadsAre, OverlayAssumption
<1>2. CASE \E x \in Forward(m) : r = EdgeRef(x)
  <2>1. PICK x \in Forward(m) : r = EdgeRef(x)
    BY <1>2
  <2>2. x \in Edge /\ NodeA[x] = m /\ NodeB[x] \in Node /\ Weight[x] \in Nat
    BY GraphAssumption DEF Forward
  <2>3. r.id = x /\ r.type = edge_types[x] /\ r.other = NodeB[x] /\ r.weight = Weight[x]
    BY <2>1 DEF EdgeRef
  <2>4. Roads[NodeB[x]] <= Roads[NodeA[x]] + Weight[x]
    BY <1>1, <2>2, ArcsBound
  <2>5. edge_types[x] \in {0, 10, 20} /\ (edge_types[x] = 10 <=> tile[NodeA[x]] # tile[NodeB[x]])
    BY <2>2 DEF StoreOK
  <2> QED
    BY <2>2, <2>3, <2>4, <2>5
<1>3. CASE \E k \in DOMAIN shortcuts : shortcuts[k].from = m /\ r = ShortcutRef(k)
  <2>1. PICK k \in DOMAIN shortcuts : shortcuts[k].from = m /\ r = ShortcutRef(k)
    BY <1>3
  <2>2. r.id = k /\ r.type = 100 /\ r.other = shortcuts[k].to /\ r.weight = shortcuts[k].weight
    BY <2>1 DEF ShortcutRef
  <2>3. shortcuts[k] \in Shortcut /\ k \in Nat
    BY DEF StoreOK
  <2>4. shortcuts[k].to \in Node /\ shortcuts[k].weight \in Nat
    BY <2>3 DEF Shortcut
  <2>5. PICK D : D = Roads
    OBVIOUS
  <2>6. D \in [Node -> Int] /\ Bounds(D, Arcs(Edge))
    BY <1>1, <2>5
  <2>7. D[shortcuts[k].to] <= D[shortcuts[k].from] + shortcuts[k].weight
    BY <2>6 DEF ShortcutsLead
  <2>8. tile[shortcuts[k].to] = tile[shortcuts[k].from]
    BY DEF ShortcutsLead
  <2> QED
    BY <2>1, <2>2, <2>3, <2>4, <2>5, <2>7, <2>8
<1> QED
  BY <1>2, <1>3 DEF Refs, Adjacent

\* When nothing that is still to be done is nearer than c, the end is not.
LEMMA DoneIsEnough ==
  ASSUME OverlayInv, QueryInv, place # "prepare", NEW c \in Nat, c <= Limit,
         \A n \in Node : ~Done(n) => c <= Label(n), c = 0 \/ Done(start)
  PROVE  c <= Roads[end]
<1>1. start \in Node /\ end \in Node /\ FlagsOK /\ Settled /\ Begins /\ StoreOK /\ ShortcutsLead
  BY DEF QueryInv, OverlayInv
<1>2. Limit \in Nat /\ Roads \in [Node -> 0..Limit]
  BY <1>1, RoadsAre, OverlayAssumption
<1>3. CASE c = 0
  BY <1>1, <1>2, <1>3
<1>4. CASE Done(start)
  <2> DEFINE f == [n \in Node |-> IF Label(n) < c THEN Label(n) ELSE c]
  <2>1. \A n \in Node : Label(n) \in Nat /\ (Done(n) => Label(n) = flags[n].len)
    <3> TAKE n \in Node
    <3>1. flags[n] \in FlagState
      BY <1>1 DEF FlagsOK
    <3> QED
      BY <1>2, <3>1 DEF Label, Done, FlagState
  <2>2. \A n \in Node : f[n] = IF Label(n) < c THEN Label(n) ELSE c
    OBVIOUS
  <2>3. \A n \in Node : f[n] \in Nat /\ f[n] <= c /\ f[n] <= Label(n)
    <3> HIDE DEF f
    <3> QED
      BY <2>1, <2>2
  <2>4. f \in [Node -> Nat]
    BY <2>1
  <2>5. f[start] = 0 /\ f[end] = c
    <3>1. Label(start) = 0
      BY <1>1, <1>4, <2>1 DEF Begins
    <3>2. c <= Label(end)
      BY <1>1 DEF FlagsOK
    <3> HIDE DEF f
    <3> QED
      BY <1>1, <2>1, <2>2, <3>1, <3>2
  <2>6. ASSUME NEW n \in Node, NEW r \in Refs(n) PROVE f[r.other] <= f[n] + r.weight
    <3>1. r.other \in Node /\ r.weight \in Nat
      BY <1>1, RefsAre
    <3>2. CASE Done(n)
      <4>1. Label(r.other) <= Label(n) + r.weight
        BY <1>1, <2>1, <3>2 DEF Settled
      <4> HIDE DEF f
      <4> QED
        BY <2>1, <2>2, <3>1, <4>1
    <3>3. CASE ~Done(n)
      <4>1. f[n] = c
        BY <2>1, <2>2, <3>3
      <4> HIDE DEF f
      <4> QED
        BY <2>3, <3>1, <4>1
    <3> QED
      BY <3>2, <3>3
  <2> HIDE DEF f
  <2>7. PICK g : g = f
    OBVIOUS
  <2>8. /\ g \in [Node -> Nat] /\ \A n \in Node : g[n] <= c
        /\ g[start] = 0 /\ g[end] = c
        /\ \A n \in Node : \A r \in Refs(n) : g[r.other] <= g[n] + r.weight
    BY <2>3, <2>4, <2>5, <2>6, <2>7
  <2> QED
    BY <1>1, <2>8, TilesLoseNothing
<1> QED
  BY <1>3, <1>4

LEMMA InvInit == Init => IInv
<1> SUFFICES ASSUME Init PROVE IInv
  OBVIOUS
<1>1. /\ place = "prepare" /\ path = <<>> /\ heap = {} /\ flags = [n \in Node \cup {NoNode} |-> NoFlag]
  BY DEF Init
<1>2. OverlayInv
  BY OverlayInit
<1>3. Unwalked /\ Unasked
  BY <1>1 DEF Unwalked, Unasked
<1>4. FindsShortest /\ Walked
  BY <1>1 DEF FindsShortest, Walked
<1> QED
  BY <1>1, <1>2, <1>3, <1>4 DEF IInv

\* While the overlay is made there is no query.
LEMMA Prepared ==
  ASSUME IInv, place = "prepare", OverlayInv', UNCHANGED <<heap, flags, place, path>>
  PROVE  IInv'
<1>1. Unwalked' /\ Unasked'
  BY DEF IInv, Unwalked, Unasked
<1>2. FindsShortest' /\ Walked'
  BY DEF FindsShortest, Walked
<1> QED
  BY <1>1, <1>2 DEF IInv

LEMMA PreparationKeeps ==
  ASSUME IInv, NextTile \/ (\E s \in crossing : Cross(s)) \/ (\E p \in paths : KeepPath(p))
  PROVE  IInv'
<1>1. OverlayInv
  BY DEF IInv
<1>2. CASE NextTile
  <2>1. place = "prepare" /\ UNCHANGED <<heap, flags, place, path>>
    BY <1>2 DEF NextTile
  <2> QED
    BY <1>1, <1>2, <2>1, NextTileKeeps, Prepared
<1>3. CASE \E s \in crossing : Cross(s)
  <2>1. PICK s \in crossing : Cross(s)
    BY <1>3
  <2>2. place = "prepare" /\ UNCHANGED <<heap, flags, place, path>>
    BY <2>1 DEF Cross
  <2> QED
    BY <1>1, <2>1, <2>2, CrossKeeps, Prepared
<1>4. CASE \E p \in paths : KeepPath(p)
  <2>1. PICK p \in paths : KeepPath(p)
    BY <1>4
  <2>2. place = "prepare" /\ UNCHANGED <<heap, flags, place, path>>
    BY <2>1 DEF KeepPath
  <2> QED
    BY <1>1, <2>1, <2>2, KeepPathKeeps, Prepared
<1> QED
  BY <1>2, <1>3, <1>4

\* The query changes neither the overlay nor the request.
LEMMA RequestStays ==
  ASSUME overlay' = overlay, request' = request
  PROVE  /\ start' = start /\ end' = end /\ tile' = tile /\ Roads' = Roads
         /\ \A n \in Node : Near(n)' = Near(n) /\ Refs(n)' = Refs(n)
         /\ \A r : \A n \in Node : (r \in Refs(n))' = (r \in Refs(n))
<1>1. /\ start' = start /\ end' = end /\ tile' = tile /\ edge_types' = edge_types
      /\ shortcuts' = shortcuts /\ edges_dyn' = edges_dyn
  BY DEF overlay, request
<1>2. Roads' = Roads
  BY <1>1 DEF Roads
<1>3. \A n \in Node : Near(n)' = Near(n)
  BY <1>1 DEF Near
<1>4. \A n \in Node : Refs(n)' = Refs(n)
  BY <1>1, <1>3 DEF Refs, Adjacent, EdgeRef, ShortcutRef, Near
<1> QED
  BY <1>1, <1>2, <1>3, <1>4

LEMMA AskKeeps ==
  ASSUME IInv, NEW s \in Node, NEW e \in Node, Ask(s, e)
  PROVE  IInv'
<1>1. /\ place = "prepare" /\ tiles = {} /\ crossing = {} /\ paths = {}
      /\ start' = s /\ end' = e /\ place' = "search" /\ heap' = {StartItem'}
      /\ overlay' = overlay /\ flags' = flags /\ path' = path
  BY DEF Ask, StartItem
<1>2. OverlayInv'
  BY <1>1, OverlayStays DEF IInv
<1>3. flags' = [n \in Node \cup {NoNode} |-> NoFlag] /\ path' = <<>>
  BY <1>1 DEF IInv, Unasked, Unwalked
<1>4. \A n \in Node : flags'[n] = NoFlag
  BY <1>3
<1>5. NoFlag \in FlagState /\ NoFlag.seen = "no" /\ NoFlag.len = 0 /\ Limit \in Nat
  BY OverlayAssumption DEF NoFlag, FlagState
<1>6. (start \in Node)' /\ (end \in Node)'
  BY <1>1
<1>7. Roads'[s] = 0
  <2>1. Arcs(Edge) \in SUBSET ArcsOn(Node)
    BY ArcsAreOnNodes
  <2>2. DistancesFrom(s, Node, Arcs(Edge), Limit)[s] = 0
    BY <1>5, <2>1, NodesAssumption, DistancesArePotential
  <2>3. Roads' = DistancesFrom(s, Node, Arcs(Edge), Limit)
    BY <1>1 DEF Roads
  <2> QED
    BY <2>2, <2>3
<1>8. FlagsOK'
  <2>1. flags' \in [Node \cup {NoNode} -> FlagState]
    BY <1>3, <1>5
  <2>2. \A n \in Node : ~Labelled(n)' /\ ~Done(n)' /\ flags'[n].len <= Limit /\ flags'[n].seen = "no"
    BY <1>4, <1>5 DEF Labelled, Done
  <2> QED
    BY <1>6, <2>1, <2>2 DEF FlagsOK
<1>9. HeapOK'
  <2>1. StartItem'.node = s /\ StartItem'.flag = [NoFlag EXCEPT !.seen = "open", !.prev = NoEdge]
    BY <1>1 DEF StartItem, Item
  <2>2. /\ StartItem'.flag \in FlagState /\ StartItem'.flag.seen = "open" /\ StartItem'.flag.skip = FALSE
        /\ StartItem'.flag.len = 0
    <3>1. PICK f : f = [NoFlag EXCEPT !.seen = "open", !.prev = NoEdge]
      OBVIOUS
    <3>2. f = [seen |-> "open", len |-> 0, prev |-> NoEdge, shc |-> FALSE, skip |-> FALSE]
      BY <3>1 DEF NoFlag
    <3>3. f \in FlagState /\ f.seen = "open" /\ f.skip = FALSE /\ f.len = 0
      BY <3>2 DEF FlagState
    <3> QED
      BY <2>1, <3>1, <3>3
  <2>3. StartItem' \in [node : Node, flag : FlagState]
    BY <2>1, <2>2 DEF StartItem, Item
  <2>4. Near(s)'
    BY <1>1 DEF Near
  <2>5. Roads'[s] <= 0
    BY <1>1, <1>7
  <2> QED
    BY <1>1, <2>1, <2>2, <2>3, <2>4, <2>5 DEF HeapOK
<1>10. Settled' /\ Queued' /\ Begins'
  <2>1. \A n \in Node : ~Done(n)' /\ flags'[n].seen = "no"
    BY <1>4, <1>5 DEF Done
  <2> QED
    BY <1>1, <1>4, <1>6, <2>1 DEF Settled, Queued, Begins
<1>11. Unwalked' /\ Unasked' /\ FindsShortest' /\ Walked'
  BY <1>1, <1>3 DEF Unwalked, Unasked, FindsShortest, Walked
<1> QED
  BY <1>1, <1>2, <1>6, <1>8, <1>9, <1>10, <1>11 DEF IInv, QueryInv

-----------------------------------------------------------------------------
(* A node that is settled. *)

StepTo(i, r) == [seen |-> "open", len |-> i.flag.len + r.weight, prev |-> r.id, shc |-> r.type = 100, skip |-> Skips(i, r)]
Touched == [NoFlag EXCEPT !.seen = "open", !.len = Limit, !.prev = NoEdge]

\* The neighbours that get a better label, and over which edges.
Settles(i, better, via) ==
  /\ \A o \in better : ~Done(o) /\ via[o].other = o /\ i.flag.len + via[o].weight < Label(o)
  /\ \A r \in Refs(i.node) : r.other \in better => via[r.other].weight <= r.weight
  /\ \A r \in Refs(i.node) : \/ r.other = i.node \/ r.other \in better
                             \/ Done(r.other) \/ Label(r.other) <= i.flag.len + r.weight
  /\ DOMAIN flags' = DOMAIN flags /\ flags' = [n \in DOMAIN flags' |-> flags'[n]]
  /\ flags'[NoNode] = flags[NoNode]
  /\ flags'[i.node] = [i.flag EXCEPT !.seen = "done"]
  /\ \A o \in better : flags'[o] = StepTo(i, via[o])
  /\ \A n \in Node \ {i.node} :
       n \notin better => flags'[n] = flags[n] \/ (flags[n].seen = "no" /\ flags'[n] = Touched)
  /\ heap' = (heap \ {i}) \cup {Item(o, StepTo(i, via[o])) : o \in better}

LEMMA SettleIs ==
  ASSUME OverlayInv, QueryInv, NEW i \in heap, Settle(i)
  PROVE  \E better \in SUBSET (Node \ {i.node}) : \E via \in [better -> Refs(i.node)] : Settles(i, better, via)
<1> DEFINE refs == Adjacent(i.node, i.flag.skip)
           others == {r.other : r \in refs} \ {i.node}
           open == {o \in others : flags[o].seen # "done"}
           label(o) == IF flags[o].seen = "no" THEN Limit ELSE flags[o].len
           new(r) == i.flag.len + r.weight
           better == {o \in open : \E r \in refs : r.other = o /\ new(r) < label(o)}
           best(o) == {r \in refs : r.other = o /\ \A q \in refs : q.other = o => r.weight <= q.weight}
           step(r) == [seen |-> "open", len |-> new(r), prev |-> r.id, shc |-> r.type = 100, skip |-> Skips(i, r)]
<1>1. /\ StoreOK /\ ShortcutsLead /\ start \in Node /\ FlagsOK /\ HeapOK
  BY DEF OverlayInv, QueryInv
<1>2. i.node \in Node /\ i.flag \in FlagState /\ i.flag.skip = ~Near(i.node)
  BY <1>1 DEF HeapOK
<1>3. refs = Refs(i.node)
  BY <1>2 DEF Refs
<1>4. PICK via \in {f \in [better -> refs] : \A o \in better : f[o] \in best(o)} :
       /\ flags' = [n \in DOMAIN flags |->
            IF n = i.node THEN [i.flag EXCEPT !.seen = "done"]
            ELSE IF n \in better THEN step(via[n])
            ELSE IF n \in open /\ flags[n].seen = "no"
              THEN [NoFlag EXCEPT !.seen = "open", !.len = Limit, !.prev = NoEdge]
            ELSE flags[n]]
       /\ heap' = (heap \ {i}) \cup {Item(o, step(via[o])) : o \in better}
  BY DEF Settle
<1>5. \A r : step(r) = StepTo(i, r)
  BY DEF StepTo
<1>6. \A o : label(o) = Label(o)
  BY DEF Label
<1>7. \A r \in refs : r.other \in Node /\ r.weight \in Nat
  BY <1>1, <1>2, <1>3, RefsAre
<1>8. DOMAIN flags = Node \cup {NoNode} /\ \A n \in Node : flags[n].seen = "done" <=> Done(n)
  BY <1>1 DEF FlagsOK, Done
<1>9. better \in SUBSET (Node \ {i.node}) /\ via \in [better -> Refs(i.node)]
  BY <1>3, <1>4, <1>7
<1>10. \A o \in better : via[o] \in refs /\ via[o].other = o /\ \A q \in refs : q.other = o => via[o].weight <= q.weight
  BY <1>4
<1>11. \A o \in better : ~Done(o) /\ i.flag.len + via[o].weight < Label(o)
  <2> TAKE o \in better
  <2>1. ~Done(o)
    BY <1>8, <1>9
  <2>2. PICK r \in refs : r.other = o /\ i.flag.len + r.weight < label(o)
    OBVIOUS
  <2>3. via[o].weight <= r.weight /\ via[o].weight \in Nat /\ r.weight \in Nat
    BY <1>7, <1>10, <2>2
  <2>4. label(o) \in Nat /\ i.flag.len \in Nat
    <3>1. flags[o] \in FlagState /\ Limit \in Nat
      BY <1>1, <1>9, OverlayAssumption DEF FlagsOK
    <3> QED
      BY <1>2, <3>1 DEF FlagState
  <2> HIDE DEF label, better
  <2> QED
    BY <1>6, <2>1, <2>2, <2>3, <2>4
<1>12. ASSUME NEW r \in Refs(i.node), r.other # i.node, r.other \notin better, ~Done(r.other)
       PROVE  Label(r.other) <= i.flag.len + r.weight
  <2>1. r \in refs /\ r.other \in open
    BY <1>3, <1>7, <1>8, <1>12
  <2>2. ~(i.flag.len + r.weight < label(r.other))
    BY <1>12, <2>1
  <2>3. label(r.other) \in Nat /\ i.flag.len \in Nat /\ r.weight \in Nat
    <3>1. flags[r.other] \in FlagState /\ Limit \in Nat /\ r.weight \in Nat
      BY <1>1, <1>7, <2>1, OverlayAssumption DEF FlagsOK
    <3> QED
      BY <1>2, <3>1 DEF FlagState
  <2> HIDE DEF label, better, open, refs
  <2> QED
    BY <1>6, <2>2, <2>3
<1>13. flags'[NoNode] = flags[NoNode]
  <2>1. NoNode \notin better /\ NoNode \notin open /\ NoNode # i.node
    BY <1>2, <1>7, <1>9, GraphAssumption
  <2> HIDE DEF better, open, step
  <2> QED
    BY <1>4, <1>8, <2>1
<1>14. /\ DOMAIN flags' = DOMAIN flags /\ flags' = [n \in DOMAIN flags' |-> flags'[n]]
       /\ flags'[i.node] = [i.flag EXCEPT !.seen = "done"]
       /\ \A o \in better : flags'[o] = StepTo(i, via[o])
       /\ \A n \in Node \ {i.node} :
            n \notin better => flags'[n] = flags[n] \/ (flags[n].seen = "no" /\ flags'[n] = Touched)
  <2> HIDE DEF better, open, step
  <2> QED
    BY <1>2, <1>4, <1>5, <1>8, <1>9 DEF Touched
<1>15. heap' = (heap \ {i}) \cup {Item(o, StepTo(i, via[o])) : o \in better}
  <2> HIDE DEF better, step
  <2> QED
    BY <1>4, <1>5
<1> HIDE DEF better, refs
<1>16. Settles(i, better, via)
  <2>1. \A r \in Refs(i.node) : r.other \in better => via[r.other].weight <= r.weight
    BY <1>3, <1>10
  <2>2. \A o \in better : ~Done(o) /\ via[o].other = o /\ i.flag.len + via[o].weight < Label(o)
    BY <1>10, <1>11
  <2>3. \A r \in Refs(i.node) : \/ r.other = i.node \/ r.other \in better
                                \/ Done(r.other) \/ Label(r.other) <= i.flag.len + r.weight
    BY <1>12
  <2> QED
    BY <1>13, <1>14, <1>15, <2>1, <2>2, <2>3 DEF Settles
<1> QED
  BY <1>9, <1>16

\* The item on top of the heap and its node.
LEMMA TopIs ==
  ASSUME OverlayInv, QueryInv, NEW i \in heap, Top(i), i.node # end,
         ~(flags[i.node].seen # "no" /\ flags[i.node].len < i.flag.len)
  PROVE  /\ i.node \in Node /\ i.flag \in FlagState /\ i.flag.len \in Nat /\ ~Done(i.node)
         /\ i.node # start => Done(start) /\ i.flag.len < Limit /\ flags[i.node].len = i.flag.len
         /\ i.node = start => ~Done(start) /\ heap = {i} /\ i.flag.len = 0
         /\ i.flag.len <= Label(i.node)
<1>1. /\ start \in Node /\ FlagsOK /\ HeapOK /\ Settled /\ Begins /\ place = "search"
  BY DEF QueryInv, Top
<1>2. i.node \in Node /\ i.flag \in FlagState /\ Limit \in Nat /\ flags[i.node] \in FlagState
  BY <1>1, OverlayAssumption DEF HeapOK, FlagsOK
<1>3. i.flag.len \in Nat /\ flags[i.node].len \in Nat
  BY <1>2 DEF FlagState
<1>4. ~Done(i.node)
  <2> SUFFICES ASSUME Done(i.node) PROVE FALSE
    OBVIOUS
  <2>1. flags[i.node].len < i.flag.len
    BY <1>1, <1>2 DEF Settled
  <2> QED
    BY <2>1 DEF Done
<1>5. i.node # start => Done(start) /\ i.flag.len < Limit /\ flags[i.node].len = i.flag.len /\ flags[i.node].seen # "no"
  <2> HAVE i.node # start
  <2>1. flags[i.node].seen # "no" /\ flags[i.node].len <= i.flag.len /\ i.flag.len < Limit
    BY <1>1 DEF HeapOK
  <2>2. Done(start)
    BY <1>1 DEF Begins, StartItem, Item
  <2> QED
    BY <1>3, <2>1, <2>2
<1>6. i.node = start => ~Done(start) /\ heap = {i} /\ i.flag.len = 0
  <2> HAVE i.node = start
  <2>1. heap = {StartItem}
    BY <1>1, <1>4 DEF Begins
  <2>2. i.flag = [NoFlag EXCEPT !.seen = "open", !.prev = NoEdge]
    BY <2>1 DEF StartItem, Item
  <2>3. i.flag.len = 0
    BY <2>2 DEF NoFlag
  <2> QED
    BY <1>4, <2>1, <2>3
<1>7. i.flag.len <= Label(i.node)
  <2>1. CASE i.node = start
    <3>1. Label(i.node) \in Nat
      BY <1>2, <1>3 DEF Label
    <3> QED
      BY <1>6, <2>1, <3>1
  <2>2. CASE i.node # start
    BY <1>3, <1>5, <2>2 DEF Label
  <2> QED
    BY <2>1, <2>2
<1> QED
  BY <1>2, <1>3, <1>4, <1>5, <1>6, <1>7

\* What a step may rely on: the item, and what holds of the labels after it.
Stepped(i, better, via) ==
  /\ i \in heap /\ i.node \in Node /\ i.flag \in FlagState /\ i.flag.len \in Nat
  /\ better \in SUBSET (Node \ {i.node}) /\ via \in [better -> Refs(i.node)]
  /\ \A n \in Node : flags[n] \in FlagState /\ flags[n].len \in Nat /\ Label(n) \in Nat
  /\ \A o \in better : /\ via[o].weight \in Nat /\ i.flag.len + via[o].weight < Limit /\ ~Done(o)
                       /\ StepTo(i, via[o]) \in FlagState
  /\ ~Done(i.node)
  /\ \A n \in Node : Done(n)' <=> Done(n) \/ n = i.node
  /\ \A n \in Node : Done(n) => flags'[n] = flags[n]
  /\ flags'[i.node].len = i.flag.len /\ flags'[i.node].seen = "done"
  /\ \A n \in Node : Label(n)' \in Nat /\ Label(n)' <= Label(n) /\ (flags[n].seen # "no" => flags'[n].seen # "no")
  /\ \A r \in Refs(i.node) : Label(r.other)' <= i.flag.len + r.weight

LEMMA SteppedIs ==
  ASSUME OverlayInv, QueryInv, NEW i \in heap, Top(i), i.node # end,
         ~(flags[i.node].seen # "no" /\ flags[i.node].len < i.flag.len),
         NEW better \in SUBSET (Node \ {i.node}), NEW via \in [better -> Refs(i.node)], Settles(i, better, via)
  PROVE  Stepped(i, better, via)
<1>1. /\ StoreOK /\ ShortcutsLead /\ start \in Node /\ FlagsOK /\ HeapOK /\ Settled
  BY DEF OverlayInv, QueryInv
<1>2. i.node \in Node /\ i.flag \in FlagState /\ i.flag.len \in Nat /\ ~Done(i.node) /\ i.flag.len <= Label(i.node)
  BY TopIs
<1>3. Limit \in Nat
  BY OverlayAssumption
<1>4. \A n \in Node : flags[n] \in FlagState /\ flags[n].len \in Nat /\ Label(n) \in Nat /\ flags[n].len <= Limit
  <2> TAKE n \in Node
  <2>1. flags[n] \in FlagState /\ flags[n].len <= Limit
    BY <1>1 DEF FlagsOK
  <2>2. flags[n].len \in Nat
    BY <2>1 DEF FlagState
  <2> QED
    BY <1>3, <2>1, <2>2 DEF Label
<1>5. \A r \in Refs(i.node) : r.other \in Node /\ r.weight \in Nat /\ r.id \in Edge \cup Nat
  BY <1>1, <1>2, RefsAre
<1>6. \A o \in better : via[o] \in Refs(i.node)
  OBVIOUS
<1>7. \A o \in better : /\ via[o].weight \in Nat /\ i.flag.len + via[o].weight < Label(o)
                        /\ i.flag.len + via[o].weight < Limit /\ ~Done(o)
                        /\ StepTo(i, via[o]) \in FlagState
  <2> TAKE o \in better
  <2>1. i.flag.len + via[o].weight < Label(o) /\ ~Done(o)
    BY DEF Settles
  <2>2. via[o].weight \in Nat /\ via[o].id \in Edge \cup Nat
    BY <1>5, <1>6
  <2>3. Label(o) <= Limit
    BY <1>3, <1>4 DEF Label
  <2>4. i.flag.len + via[o].weight \in Nat
    BY <1>2, <2>2
  <2>5. Skips(i, via[o]) \in BOOLEAN
    <3>1. i.flag.skip \in BOOLEAN
      BY <1>2 DEF FlagState
    <3> QED
      BY <3>1 DEF Skips
  <2>6. StepTo(i, via[o]) \in FlagState
    BY <2>2, <2>4, <2>5 DEF StepTo, FlagState
  <2>7. Label(o) \in Nat
    BY <1>4
  <2> QED
    BY <1>3, <2>1, <2>2, <2>3, <2>4, <2>6, <2>7
<1>8. /\ \A o \in better : flags'[o] = StepTo(i, via[o])
      /\ flags'[i.node] = [i.flag EXCEPT !.seen = "done"]
      /\ \A n \in Node \ {i.node} :
           n \notin better => flags'[n] = flags[n] \/ (flags[n].seen = "no" /\ flags'[n] = Touched)
  BY DEF Settles
<1>9. flags'[i.node].len = i.flag.len /\ flags'[i.node].seen = "done"
  <2>1. PICK f : f = [i.flag EXCEPT !.seen = "done"]
    OBVIOUS
  <2>2. f.len = i.flag.len /\ f.seen = "done"
    BY <1>2, <2>1 DEF FlagState
  <2> QED
    BY <1>8, <2>1, <2>2
<1>10. \A o \in better : flags'[o].seen = "open" /\ flags'[o].len = i.flag.len + via[o].weight
  <2> TAKE o \in better
  <2>1. StepTo(i, via[o]).seen = "open" /\ StepTo(i, via[o]).len = i.flag.len + via[o].weight
    BY DEF StepTo
  <2> QED
    BY <1>8, <2>1
<1>11. Touched.seen = "open" /\ Touched.len = Limit
  BY DEF Touched, NoFlag
<1>12. \A n \in Node : /\ Done(n)' <=> Done(n) \/ n = i.node
                       /\ Done(n) => flags'[n] = flags[n]
  <2> TAKE n \in Node
  <2>1. CASE n = i.node
    BY <1>2, <1>9, <2>1 DEF Done
  <2>2. CASE n \in better
    BY <1>7, <1>10, <2>2 DEF Done
  <2>3. CASE n # i.node /\ n \notin better
    BY <1>8, <1>11, <2>3 DEF Done
  <2> QED
    BY <2>1, <2>2, <2>3
<1>13. \A n \in Node : /\ Label(n)' \in Nat /\ Label(n)' <= Label(n)
                       /\ flags[n].seen # "no" => flags'[n].seen # "no"
  <2> TAKE n \in Node
  <2>1. CASE n = i.node
    <3>1. Label(n)' = i.flag.len
      BY <1>9, <2>1 DEF Label
    <3> QED
      BY <1>2, <1>9, <2>1, <3>1
  <2>2. CASE n \in better
    <3>1. Label(n)' = i.flag.len + via[n].weight /\ flags'[n].seen # "no"
      BY <1>10, <2>2 DEF Label
    <3> QED
      BY <1>2, <1>4, <1>7, <2>2, <3>1
  <2>3. CASE n # i.node /\ n \notin better
    <3>1. CASE flags'[n] = flags[n]
      BY <1>4, <3>1 DEF Label
    <3>2. CASE flags[n].seen = "no" /\ flags'[n] = Touched
      BY <1>3, <1>11, <3>2 DEF Label
    <3> QED
      BY <1>8, <2>3, <3>1, <3>2
  <2> QED
    BY <2>1, <2>2, <2>3
<1>14. \A r \in Refs(i.node) : Label(r.other)' <= i.flag.len + r.weight
  <2> TAKE r \in Refs(i.node)
  <2>1. r.other \in Node /\ r.weight \in Nat
    BY <1>5
  <2>2. CASE r.other = i.node
    <3>1. Label(r.other)' = i.flag.len
      BY <1>9, <2>2 DEF Label
    <3> QED
      BY <1>2, <2>1, <3>1
  <2>3. CASE r.other \in better
    <3>1. Label(r.other)' = i.flag.len + via[r.other].weight
      BY <1>10, <2>3 DEF Label
    <3>2. via[r.other].weight <= r.weight
      BY <2>3 DEF Settles
    <3> QED
      BY <1>2, <1>7, <2>1, <2>3, <3>1, <3>2
  <2>4. CASE Done(r.other)
    <3>1. flags[r.other].len <= i.flag.len
      BY <1>1, <2>1, <2>4 DEF Settled
    <3>2. Label(r.other) = flags[r.other].len
      BY <2>4 DEF Label, Done
    <3> QED
      BY <1>2, <1>4, <1>13, <2>1, <3>1, <3>2
  <2>5. CASE Label(r.other) <= i.flag.len + r.weight
    BY <1>2, <1>4, <1>13, <2>1, <2>5
  <2> QED
    BY <2>2, <2>3, <2>4, <2>5 DEF Settles
<1> QED
  BY <1>2, <1>4, <1>7, <1>9, <1>12, <1>13, <1>14 DEF Stepped

\* What hangs on a settled node goes on doing so.
LEMMA HangsOn ==
  ASSUME OverlayInv, QueryInv, NEW i, NEW better, NEW via, Stepped(i, better, via),
         overlay' = overlay, request' = request, NEW n \in Node, NEW f, Hangs(n, f)
  PROVE  Hangs(n, f)'
<1>1. PICK m \in Node : \E r \in Refs(m) :
         /\ m # n /\ Done(m)
         /\ r.other = n /\ f.len = flags[m].len + r.weight
         /\ f.prev = r.id /\ f.shc = (r.type = 100)
  BY DEF Hangs
<1>2. PICK r \in Refs(m) :
         /\ m # n /\ Done(m)
         /\ r.other = n /\ f.len = flags[m].len + r.weight
         /\ f.prev = r.id /\ f.shc = (r.type = 100)
  BY <1>1
<1>3. Refs(m)' = Refs(m)
  BY RequestStays
<1>4. Done(m)' /\ flags'[m] = flags[m]
  BY <1>2 DEF Stepped
<1>5. r \in Refs(m)'
  BY <1>2, <1>3
<1> QED
  BY <1>2, <1>4, <1>5 DEF Hangs

\* So do the nodes with a better label on the node that is settled.
LEMMA HangsOnTop ==
  ASSUME OverlayInv, QueryInv, NEW i, NEW better, NEW via, Stepped(i, better, via), Settles(i, better, via),
         overlay' = overlay, request' = request, NEW o \in better, NEW f, f = StepTo(i, via[o])
  PROVE  Hangs(o, f)'
<1>1. i.node \in Node /\ o \in Node /\ i.node # o /\ via[o] \in Refs(i.node) /\ via[o].other = o
  BY DEF Stepped, Settles
<1>2. PICK m, r : m = i.node /\ r = via[o]
  OBVIOUS
<1>3. f.len = i.flag.len + r.weight /\ f.prev = r.id /\ f.shc = (r.type = 100)
  BY <1>2 DEF StepTo
<1>4. Done(m)' /\ flags'[m].len = i.flag.len
  BY <1>2 DEF Stepped
<1>5. Refs(m)' = Refs(m)
  BY <1>1, <1>2, RequestStays
<1>6. r \in Refs(m)' /\ m \in Node /\ m # o /\ r.other = o
  BY <1>1, <1>2, <1>5
<1> QED
  BY <1>3, <1>4, <1>6 DEF Hangs

LEMMA SettleFlags ==
  ASSUME OverlayInv, QueryInv, NEW i, NEW better, NEW via, Stepped(i, better, via), Settles(i, better, via),
         overlay' = overlay, request' = request, i.node # end,
         i.node # start => i.flag.len < Limit, i.node = start => i.flag.len = 0
  PROVE  FlagsOK'
<1>1. /\ StoreOK /\ ShortcutsLead /\ start \in Node /\ end \in Node /\ FlagsOK /\ HeapOK
  BY DEF OverlayInv, QueryInv
<1>2. /\ i \in heap /\ i.node \in Node /\ i.flag \in FlagState /\ i.flag.len \in Nat
      /\ better \in SUBSET (Node \ {i.node}) /\ via \in [better -> Refs(i.node)]
  BY DEF Stepped
<1>3. Limit \in Nat /\ Roads \in [Node -> 0..Limit]
  BY <1>1, RoadsAre, OverlayAssumption
<1>4. Roads' = Roads /\ start' = start /\ end' = end
  BY RequestStays
<1>5. /\ \A o \in better : flags'[o] = StepTo(i, via[o])
      /\ flags'[i.node] = [i.flag EXCEPT !.seen = "done"]
      /\ DOMAIN flags' = DOMAIN flags /\ flags'[NoNode] = flags[NoNode]
      /\ \A n \in Node \ {i.node} :
           n \notin better => flags'[n] = flags[n] \/ (flags[n].seen = "no" /\ flags'[n] = Touched)
  BY DEF Settles
<1>6. Roads[i.node] <= i.flag.len
  BY <1>1, <1>2 DEF HeapOK
<1>7. ASSUME NEW n \in Node
      PROVE  /\ flags'[n] \in FlagState /\ flags'[n].len <= Limit
             /\ flags'[n].seen # "no" => Roads[n] <= flags'[n].len
             /\ Labelled(n)' /\ n # start => Hangs(n, flags[n])'
  <2>1. CASE n = i.node
    <3>1. PICK f : f = [i.flag EXCEPT !.seen = "done"]
      OBVIOUS
    <3>2. f \in FlagState /\ f.len = i.flag.len /\ f.prev = i.flag.prev /\ f.shc = i.flag.shc
      BY <1>2, <3>1 DEF FlagState
    <3>3. flags'[n] = f
      BY <1>5, <2>1, <3>1
    <3>4. ASSUME n # start PROVE Hangs(n, f)'
      <4>1. Hangs(n, i.flag)
        BY <1>1, <1>2, <2>1, <3>4 DEF HeapOK
      <4>2. Hangs(n, f)
        BY <3>2, <4>1 DEF Hangs
      <4> QED
        BY <4>2, HangsOn
    <3>5. Hangs(n, f)' => Hangs(n, flags[n])'
      BY <3>3 DEF Hangs
    <3> QED
      BY <1>2, <1>3, <1>6, <2>1, <3>2, <3>3, <3>4, <3>5
  <2>2. CASE n \in better
    <3>1. PICK f : f = StepTo(i, via[n])
      OBVIOUS
    <3>2. f \in FlagState /\ f.len = i.flag.len + via[n].weight
      <4>1. f \in FlagState
        BY <2>2, <3>1 DEF Stepped
      <4>2. f.len = i.flag.len + via[n].weight
        BY <3>1 DEF StepTo
      <4> QED
        BY <4>1, <4>2
    <3>3. flags'[n] = f
      BY <1>5, <2>2, <3>1
    <3>4. Hangs(n, f)'
      BY <2>2, <3>1, HangsOnTop
    <3>5. Hangs(n, flags[n])'
      BY <3>3, <3>4 DEF Hangs
    <3>6. via[n].weight \in Nat /\ i.flag.len + via[n].weight < Limit
      BY <2>2 DEF Stepped
    <3>7. Roads[n] <= Roads[i.node] + via[n].weight
      <4>1. via[n] \in Refs(i.node) /\ via[n].other = n
        BY <1>2, <2>2 DEF Settles
      <4> QED
        BY <1>1, <1>2, <4>1, RefsAre
    <3> QED
      BY <1>2, <1>3, <1>6, <3>2, <3>3, <3>5, <3>6, <3>7
  <2>3. CASE n # i.node /\ flags'[n] = Touched
    <3>1. PICK f : f = [NoFlag EXCEPT !.seen = "open", !.len = Limit, !.prev = NoEdge]
      OBVIOUS
    <3>2. f = [seen |-> "open", len |-> Limit, prev |-> NoEdge, shc |-> FALSE, skip |-> FALSE]
      BY <3>1 DEF NoFlag
    <3>3. f \in FlagState /\ f.len = Limit /\ f.seen = "open"
      BY <1>3, <3>2 DEF FlagState
    <3>4. flags'[n] = f
      BY <2>3, <3>1 DEF Touched
    <3>5. ~Labelled(n)'
      BY <1>3, <3>3, <3>4 DEF Labelled, Done
    <3> QED
      BY <1>3, <3>3, <3>4, <3>5
  <2>4. CASE flags'[n] = flags[n]
    <3>1. PICK f : f = flags[n]
      OBVIOUS
    <3>2. /\ f \in FlagState /\ f.len <= Limit
          /\ f.seen # "no" => Roads[n] <= f.len
          /\ Labelled(n) /\ n # start => Hangs(n, f)
      BY <1>1, <3>1 DEF FlagsOK
    <3>3. Labelled(n)' => Labelled(n)
      BY <2>4 DEF Labelled, Done
    <3>4. Hangs(n, f) => Hangs(n, f)'
      BY HangsOn
    <3>5. Hangs(n, f)' => Hangs(n, flags[n])'
      BY <2>4, <3>1 DEF Hangs
    <3> QED
      BY <2>4, <3>1, <3>2, <3>3, <3>4, <3>5
  <2> QED
    BY <1>5, <2>1, <2>2, <2>3, <2>4
<1>8. flags' \in [Node \cup {NoNode} -> FlagState]
  <2>1. flags'[NoNode] \in FlagState /\ DOMAIN flags' = Node \cup {NoNode}
    BY <1>1, <1>5 DEF FlagsOK
  <2>2. flags' = [n \in DOMAIN flags' |-> flags'[n]]
    BY DEF Settles
  <2> QED
    BY <1>7, <2>1, <2>2
<1>9. ~Done(end)'
  <2>1. ~Done(end)
    BY <1>1 DEF FlagsOK
  <2> QED
    BY <1>1, <1>4, <2>1 DEF Stepped, Done
<1> QED
  BY <1>4, <1>7, <1>8, <1>9 DEF FlagsOK, Hangs

\* The items after the step: old ones, and one for each better label.
LEMMA ItemsAre ==
  ASSUME NEW i, NEW better, NEW via, Settles(i, better, via), NEW j \in heap'
  PROVE  \/ j \in heap /\ j # i
         \/ j.node \in better /\ j.flag = StepTo(i, via[j.node]) /\ j = Item(j.node, StepTo(i, via[j.node]))
            /\ j.flag.seen = "open" /\ j.flag.len = i.flag.len + via[j.node].weight
            /\ j.flag.skip = Skips(i, via[j.node])
<1>1. heap' = (heap \ {i}) \cup {Item(o, StepTo(i, via[o])) : o \in better}
  BY DEF Settles
<1>2. CASE j \in heap \ {i}
  BY <1>2
<1>3. CASE \E o \in better : j = Item(o, StepTo(i, via[o]))
  <2>1. PICK o \in better : j = Item(o, StepTo(i, via[o]))
    BY <1>3
  <2>2. j.node = o /\ j.flag = StepTo(i, via[o])
    BY <2>1 DEF Item
  <2>3. /\ StepTo(i, via[o]).seen = "open" /\ StepTo(i, via[o]).len = i.flag.len + via[o].weight
        /\ StepTo(i, via[o]).skip = Skips(i, via[o])
    BY DEF StepTo
  <2> QED
    BY <2>1, <2>2, <2>3
<1> QED
  BY <1>1, <1>2, <1>3

LEMMA SettleHeap ==
  ASSUME OverlayInv, QueryInv, NEW i, NEW better, NEW via, Stepped(i, better, via), Settles(i, better, via),
         overlay' = overlay, request' = request, i.node = start \/ Done(start)
  PROVE  HeapOK'
<1>1. /\ StoreOK /\ ShortcutsLead /\ start \in Node /\ end \in Node /\ HeapOK
  BY DEF OverlayInv, QueryInv
<1>2. /\ i \in heap /\ i.node \in Node /\ i.flag \in FlagState /\ i.flag.len \in Nat
      /\ better \in SUBSET (Node \ {i.node}) /\ via \in [better -> Refs(i.node)]
  BY DEF Stepped
<1>3. Limit \in Nat /\ Roads \in [Node -> 0..Limit]
  BY <1>1, RoadsAre, OverlayAssumption
<1>4. Roads' = Roads /\ start' = start /\ \A n \in Node : Near(n)' = Near(n)
  BY RequestStays
<1>5. Roads[i.node] <= i.flag.len /\ i.flag.skip = ~Near(i.node)
  BY <1>1, <1>2 DEF HeapOK
<1>6. ASSUME NEW j \in heap', j \in heap
      PROVE  /\ j \in [node : Node, flag : FlagState] /\ j.flag.seen = "open" /\ j.flag.skip = ~Near(j.node)'
             /\ Roads[j.node] <= j.flag.len
             /\ j.node # start => /\ flags'[j.node].seen # "no" /\ flags'[j.node].len <= j.flag.len
                                  /\ j.flag.len < Limit /\ Hangs(j.node, j.flag)'
  <2>1. /\ j \in [node : Node, flag : FlagState] /\ j.flag.seen = "open" /\ j.flag.skip = ~Near(j.node)
        /\ Roads[j.node] <= j.flag.len
        /\ j.node # start => /\ flags[j.node].seen # "no" /\ flags[j.node].len <= j.flag.len
                             /\ j.flag.len < Limit /\ Hangs(j.node, j.flag)
    BY <1>1, <1>6 DEF HeapOK
  <2>2. j.node \in Node /\ j.flag \in FlagState
    BY <2>1
  <2>3. j.flag.len \in Nat
    BY <2>2 DEF FlagState
  <2>4. Near(j.node)' = Near(j.node)
    BY <1>4, <2>2
  <2>5. ASSUME j.node # start
        PROVE  /\ flags'[j.node].seen # "no" /\ flags'[j.node].len <= j.flag.len
               /\ Hangs(j.node, j.flag)'
    <3>1. flags[j.node].seen # "no" /\ flags[j.node].len <= j.flag.len /\ Hangs(j.node, j.flag)
      BY <2>1, <2>5
    <3>2. /\ Label(j.node)' \in Nat /\ Label(j.node)' <= Label(j.node) /\ flags'[j.node].seen # "no"
          /\ Label(j.node) \in Nat
      BY <2>2, <3>1 DEF Stepped
    <3>3. flags'[j.node].len = Label(j.node)' /\ flags[j.node].len = Label(j.node)
      BY <3>1, <3>2 DEF Label
    <3>4. Hangs(j.node, j.flag)'
      BY <2>2, <3>1, HangsOn
    <3> QED
      BY <2>3, <3>1, <3>2, <3>3, <3>4
  <2> QED
    BY <2>1, <2>4, <2>5
<1>7. ASSUME NEW j \in heap', j.node \in better, j.flag = StepTo(i, via[j.node]),
             j = Item(j.node, StepTo(i, via[j.node])),
             j.flag.seen = "open", j.flag.len = i.flag.len + via[j.node].weight, j.flag.skip = Skips(i, via[j.node])
      PROVE  /\ j \in [node : Node, flag : FlagState] /\ j.flag.skip = ~Near(j.node)'
             /\ Roads[j.node] <= j.flag.len
             /\ flags'[j.node].seen # "no" /\ flags'[j.node].len <= j.flag.len
             /\ j.flag.len < Limit /\ Hangs(j.node, j.flag)'
  <2>1. PICK o, r : o = j.node /\ r = via[o]
    OBVIOUS
  <2>2. o \in better /\ o \in Node /\ r \in Refs(i.node) /\ r.other = o
    BY <1>2, <1>7, <2>1 DEF Settles
  <2>3. /\ r.weight \in Nat /\ Roads[o] <= Roads[i.node] + r.weight
        /\ r.type # 10 => tile[o] = tile[i.node]
    BY <1>1, <1>2, <2>2, RefsAre
  <2>4. j.flag \in FlagState /\ j.flag.len < Limit /\ j.flag.len = i.flag.len + r.weight
    BY <1>7, <2>1, <2>2 DEF Stepped
  <2>5. j \in [node : Node, flag : FlagState]
    BY <1>7, <2>1, <2>2, <2>4 DEF Item
  <2>6. Skips(i, r) = ~Near(o)
    BY <1>5, <2>2, <2>3 DEF Skips, Near
  <2>7. j.flag.skip = ~Near(j.node)'
    BY <1>4, <1>7, <2>1, <2>2, <2>6
  <2>8. flags'[o] = j.flag
    BY <1>7, <2>1, <2>2 DEF Settles
  <2>9. Hangs(j.node, j.flag)'
    BY <1>7, HangsOnTop
  <2>10. Roads[o] \in Nat /\ Roads[i.node] \in Nat
    BY <1>2, <1>3, <2>2
  <2> QED
    BY <1>2, <1>5, <1>7, <2>1, <2>3, <2>4, <2>5, <2>7, <2>8, <2>9, <2>10
<1>8. ASSUME NEW j \in heap', NEW k \in heap', j.node = k.node, j.flag.len = k.flag.len,
             j \in heap, k.node \in better, k.flag.len = i.flag.len + via[k.node].weight
      PROVE  FALSE
  <2>1. i.flag.len + via[k.node].weight < Label(k.node) /\ ~Done(k.node) /\ k.node \in Node /\ k.node # i.node
    BY <1>2, <1>8 DEF Settles
  <2>2. k.node # start
    BY <2>1
  <2>3. flags[j.node].seen # "no" /\ flags[j.node].len <= j.flag.len
    BY <1>1, <1>8, <2>2 DEF HeapOK
  <2>4. Label(k.node) = flags[k.node].len /\ flags[k.node].len \in Nat
    BY <1>8, <2>1, <2>3 DEF Label, Stepped
  <2>5. via[k.node].weight \in Nat
    BY <1>8 DEF Stepped
  <2> QED
    BY <1>2, <1>8, <2>1, <2>3, <2>4, <2>5
<1>9. ASSUME NEW j \in heap', NEW k \in heap', j.node = k.node, j.flag.len = k.flag.len PROVE j = k
  <2>1. CASE j \in heap /\ k \in heap
    BY <1>1, <1>9, <2>1 DEF HeapOK
  <2>2. CASE j \in heap /\ k \notin heap
    BY <1>8, <1>9, <2>2, ItemsAre
  <2>3. CASE j \notin heap /\ k \in heap
    BY <1>8, <1>9, <2>3, ItemsAre
  <2>4. CASE j \notin heap /\ k \notin heap
    <3>1. j = Item(j.node, StepTo(i, via[j.node])) /\ k = Item(k.node, StepTo(i, via[k.node]))
      BY <2>4, ItemsAre
    <3> QED
      BY <1>9, <3>1
  <2> QED
    BY <2>1, <2>2, <2>3, <2>4
<1>10. ASSUME NEW j \in heap'
       PROVE  /\ j \in [node : Node, flag : FlagState] /\ j.flag.seen = "open" /\ j.flag.skip = ~Near(j.node)'
              /\ Roads[j.node] <= j.flag.len
              /\ j.node # start => /\ flags'[j.node].seen # "no" /\ flags'[j.node].len <= j.flag.len
                                   /\ j.flag.len < Limit /\ Hangs(j.node, j.flag)'
  <2>1. CASE j \in heap
    BY <1>6, <2>1
  <2>2. CASE j \notin heap
    <3>1. /\ j.node \in better /\ j.flag = StepTo(i, via[j.node])
          /\ j = Item(j.node, StepTo(i, via[j.node]))
          /\ j.flag.seen = "open" /\ j.flag.len = i.flag.len + via[j.node].weight
          /\ j.flag.skip = Skips(i, via[j.node])
      BY <2>2, ItemsAre
    <3> QED
      BY <1>7, <3>1
  <2> QED
    BY <2>1, <2>2
<1> QED
  BY <1>4, <1>9, <1>10 DEF HeapOK, Hangs

LEMMA SettleSettled ==
  ASSUME OverlayInv, QueryInv, NEW i, NEW better, NEW via, Stepped(i, better, via), Settles(i, better, via),
         overlay' = overlay, request' = request, Top(i)
  PROVE  Settled'
<1>1. StoreOK /\ ShortcutsLead /\ start \in Node /\ HeapOK /\ Settled
  BY DEF OverlayInv, QueryInv
<1>2. /\ i \in heap /\ i.node \in Node /\ i.flag.len \in Nat /\ better \in SUBSET (Node \ {i.node})
      /\ flags'[i.node].len = i.flag.len
  BY DEF Stepped
<1>3. \A j \in heap : j.flag.len \in Nat
  <2> TAKE j \in heap
  <2>1. j.flag \in FlagState
    BY <1>1 DEF HeapOK
  <2> QED
    BY <2>1 DEF FlagState
<1>4. ASSUME NEW n \in Node, Done(n)'
      PROVE  /\ \A r \in Refs(n) : Label(r.other)' <= flags'[n].len + r.weight
             /\ \A j \in heap' : flags'[n].len <= j.flag.len /\ (j.node = n => flags'[n].len < j.flag.len)
  <2>1. CASE n = i.node
    <3>1. \A r \in Refs(n) : Label(r.other)' <= flags'[n].len + r.weight
      BY <1>2, <2>1 DEF Stepped
    <3>2. ASSUME NEW j \in heap'
          PROVE  i.flag.len <= j.flag.len /\ (j.node = n => i.flag.len < j.flag.len)
      <4>1. CASE j \in heap /\ j # i
        <5>1. i.flag.len <= j.flag.len
          BY <4>1 DEF Top
        <5>2. j.node = n => i.flag.len # j.flag.len
          BY <1>1, <1>2, <2>1, <4>1 DEF HeapOK
        <5> QED
          BY <1>2, <1>3, <4>1, <5>1, <5>2
      <4>2. CASE j.node \in better /\ j.flag.len = i.flag.len + via[j.node].weight
        <5>1. via[j.node].weight \in Nat
          BY <4>2 DEF Stepped
        <5> QED
          BY <1>2, <2>1, <4>2, <5>1
      <4> QED
        BY <4>1, <4>2, ItemsAre
    <3> QED
      BY <1>2, <2>1, <3>1, <3>2
  <2>2. CASE n # i.node
    <3>1. Done(n) /\ flags'[n] = flags[n] /\ flags[n].len \in Nat
      BY <1>4, <2>2 DEF Stepped
    <3>2. ASSUME NEW r \in Refs(n) PROVE Label(r.other)' <= flags'[n].len + r.weight
      <4>1. r.other \in Node /\ r.weight \in Nat
        BY <1>1, RefsAre
      <4>2. Label(r.other) <= flags[n].len + r.weight
        BY <1>1, <3>1 DEF Settled
      <4>3. Label(r.other)' <= Label(r.other) /\ Label(r.other)' \in Nat /\ Label(r.other) \in Nat
        BY <4>1 DEF Stepped
      <4> QED
        BY <3>1, <4>1, <4>2, <4>3
    <3>3. ASSUME NEW j \in heap'
          PROVE  flags[n].len <= j.flag.len /\ (j.node = n => flags[n].len < j.flag.len)
      <4>1. CASE j \in heap /\ j # i
        BY <1>1, <3>1, <4>1 DEF Settled
      <4>2. CASE j.node \in better /\ j.flag.len = i.flag.len + via[j.node].weight
        <5>1. via[j.node].weight \in Nat /\ ~Done(j.node)
          BY <4>2 DEF Stepped
        <5>2. flags[n].len <= i.flag.len
          BY <1>1, <1>2, <3>1 DEF Settled
        <5>3. j.node # n
          BY <3>1, <5>1
        <5> QED
          BY <1>2, <3>1, <4>2, <5>1, <5>2, <5>3
      <4> QED
        BY <4>1, <4>2, ItemsAre
    <3> QED
      BY <3>1, <3>2, <3>3
  <2> QED
    BY <2>1, <2>2
<1>5. \A n \in Node : Refs(n)' = Refs(n)
  BY RequestStays
<1> QED
  BY <1>4, <1>5 DEF Settled

LEMMA SettleRest ==
  ASSUME OverlayInv, QueryInv, NEW i, NEW better, NEW via, Stepped(i, better, via), Settles(i, better, via),
         overlay' = overlay, request' = request, place = "search",
         i.node = start => heap = {i} /\ i.flag.len = 0,
         i.node # start => Done(start)
  PROVE  Queued' /\ Begins'
<1>1. start \in Node /\ Queued /\ Begins
  BY DEF QueryInv
<1>2. /\ i \in heap /\ i.node \in Node /\ better \in SUBSET (Node \ {i.node}) /\ Limit \in Nat
      /\ flags'[i.node].len = i.flag.len /\ flags'[i.node].seen = "done"
  BY OverlayAssumption DEF Stepped
<1>3. start' = start
  BY RequestStays
<1>4. ASSUME NEW n \in Node, flags'[n].seen = "open", flags'[n].len < Limit
      PROVE  Item(n, flags'[n]) \in heap'
  <2>1. n # i.node
    BY <1>2, <1>4
  <2>2. CASE n \in better
    BY <2>2 DEF Settles
  <2>3. CASE flags'[n] = flags[n]
    <3>1. Item(n, flags[n]) \in heap
      BY <1>1, <1>4, <2>3 DEF Queued
    <3>2. Item(n, flags[n]) # i
      BY <2>1 DEF Item
    <3>3. Item(n, flags[n]) \in heap'
      BY <3>1, <3>2 DEF Settles
    <3> QED
      BY <2>3, <3>3
  <2>4. CASE flags'[n] = Touched
    <3>1. PICK f : f = [NoFlag EXCEPT !.seen = "open", !.len = Limit, !.prev = NoEdge]
      OBVIOUS
    <3>2. f = [seen |-> "open", len |-> Limit, prev |-> NoEdge, shc |-> FALSE, skip |-> FALSE]
      BY <3>1 DEF NoFlag
    <3>3. flags'[n] = f
      BY <2>4, <3>1 DEF Touched
    <3> QED
      BY <1>2, <1>4, <3>2, <3>3
  <2> QED
    BY <2>1, <2>2, <2>3, <2>4 DEF Settles
<1>5. Queued'
  BY <1>4 DEF Queued, Item
<1>6. flags'[start].seen = "done" /\ flags'[start].len = 0
  <2>1. CASE i.node = start
    BY <1>2, <2>1
  <2>2. CASE i.node # start
    <3>1. Done(start) /\ flags'[start] = flags[start]
      BY <1>1, <2>2 DEF Stepped
    <3> QED
      BY <1>1, <3>1 DEF Begins, Done
  <2> QED
    BY <2>1, <2>2
<1>7. ASSUME NEW j \in heap' PROVE j.node # start
  <2>1. CASE j \in heap /\ j # i
    BY <1>1, <2>1 DEF Begins
  <2>2. CASE j.node \in better
    <3>1. j.node # i.node /\ ~Done(j.node)
      BY <1>2, <2>2 DEF Settles
    <3> QED
      BY <3>1
  <2> QED
    BY <2>1, <2>2, ItemsAre
<1>8. Begins'
  BY <1>3, <1>6, <1>7 DEF Begins, Done
<1> QED
  BY <1>5, <1>8

LEMMA SettleKeeps ==
  ASSUME IInv, NEW i \in heap, Settle(i)
  PROVE  IInv'
<1>1. /\ Top(i) /\ place = "search" /\ i.node # end
      /\ ~(flags[i.node].seen # "no" /\ flags[i.node].len < i.flag.len)
      /\ overlay' = overlay /\ request' = request /\ place' = place /\ path' = path
  BY DEF Settle, Top
<1>2. OverlayInv /\ QueryInv /\ Unwalked /\ start' = start /\ end' = end
  BY <1>1, RequestStays DEF IInv
<1>3. PICK better \in SUBSET (Node \ {i.node}) : \E via \in [better -> Refs(i.node)] : Settles(i, better, via)
  BY <1>2, SettleIs
<1>4. PICK via \in [better -> Refs(i.node)] : Settles(i, better, via)
  BY <1>3
<1>5. Stepped(i, better, via)
  BY <1>1, <1>2, <1>4, SteppedIs
<1>6. /\ i.node # start => Done(start) /\ i.flag.len < Limit
      /\ i.node = start => heap = {i} /\ i.flag.len = 0
  BY <1>1, <1>2, TopIs
<1>7. FlagsOK'
  BY <1>1, <1>2, <1>4, <1>5, <1>6, SettleFlags
<1>8. HeapOK'
  BY <1>1, <1>2, <1>4, <1>5, <1>6, SettleHeap
<1>9. Settled'
  BY <1>1, <1>2, <1>4, <1>5, SettleSettled
<1>10. Queued' /\ Begins'
  BY <1>1, <1>2, <1>4, <1>5, <1>6, SettleRest
<1>11. QueryInv'
  BY <1>2, <1>7, <1>8, <1>9, <1>10 DEF QueryInv
<1>12. OverlayInv'
  BY <1>1, <1>2, OverlayStays
<1>13. Unwalked' /\ Unasked' /\ FindsShortest' /\ Walked'
  BY <1>1, <1>2 DEF Unwalked, Unasked, FindsShortest, Walked
<1> QED
  BY <1>1, <1>11, <1>12, <1>13 DEF IInv

-----------------------------------------------------------------------------
(* The end of the search, and the walk back. *)

\* No label changes, and items only go.
LEMMA QueryStays ==
  ASSUME QueryInv, overlay' = overlay, request' = request, flags' = flags, heap' \subseteq heap,
         place' = "search" => Queued' /\ Done(start)
  PROVE  QueryInv'
<1>1. start \in Node /\ end \in Node /\ FlagsOK /\ HeapOK /\ Settled /\ Begins
  BY DEF QueryInv
<1>2. /\ start' = start /\ end' = end /\ Roads' = Roads
      /\ \A n \in Node : Near(n)' = Near(n) /\ Refs(n)' = Refs(n)
  BY RequestStays
<1>3. \A n \in Node : Done(n)' = Done(n) /\ Label(n)' = Label(n) /\ Labelled(n)' = Labelled(n)
  BY DEF Done, Label, Labelled
<1>4. ASSUME NEW n \in Node, NEW f, Hangs(n, f) PROVE Hangs(n, f)'
  BY <1>2, <1>3, <1>4 DEF Hangs
<1>5. FlagsOK'
  <2>1. ASSUME NEW n \in Node, Labelled(n)', n # start PROVE Hangs(n, flags[n])'
    <3>1. PICK f : f = flags[n]
      OBVIOUS
    <3>2. Hangs(n, f)
      BY <1>1, <1>3, <2>1, <3>1 DEF FlagsOK
    <3> QED
      BY <1>4, <3>1, <3>2
  <2>2. /\ flags' \in [Node \cup {NoNode} -> FlagState]
        /\ \A n \in Node : flags'[n].len <= Limit /\ (flags'[n].seen # "no" => Roads'[n] <= flags'[n].len)
        /\ ~Done(end)'
    BY <1>1, <1>2 DEF FlagsOK, Done
  <2> QED
    BY <1>2, <2>1, <2>2 DEF FlagsOK
<1>6. HeapOK'
  <2>1. ASSUME NEW j \in heap'
        PROVE  /\ j \in [node : Node, flag : FlagState] /\ j.flag.seen = "open" /\ j.flag.skip = ~Near(j.node)'
               /\ Roads[j.node] <= j.flag.len
               /\ j.node # start => /\ flags[j.node].seen # "no" /\ flags[j.node].len <= j.flag.len
                                    /\ j.flag.len < Limit /\ Hangs(j.node, j.flag)'
    <3>1. /\ j \in [node : Node, flag : FlagState] /\ j.flag.seen = "open" /\ j.flag.skip = ~Near(j.node)
          /\ Roads[j.node] <= j.flag.len
          /\ j.node # start => /\ flags[j.node].seen # "no" /\ flags[j.node].len <= j.flag.len
                               /\ j.flag.len < Limit /\ Hangs(j.node, j.flag)
      BY <1>1 DEF HeapOK
    <3>2. j.node \in Node
      BY <3>1
    <3> QED
      BY <1>2, <1>4, <3>1, <3>2
  <2>2. \A j \in heap' : \A k \in heap' : j.node = k.node /\ j.flag.len = k.flag.len => j = k
    BY <1>1 DEF HeapOK
  <2> QED
    BY <1>2, <2>1, <2>2 DEF HeapOK, Hangs
<1>7. Settled'
  BY <1>1, <1>2, <1>3 DEF Settled, Done, Label
<1>8. Begins'
  <2>1. StartItem' = StartItem
    BY <1>2 DEF StartItem, Item
  <2>2. Done(start)' = Done(start)
    BY <1>2 DEF Done
  <2> QED
    BY <1>1, <1>2, <2>1, <2>2 DEF Begins
<1>9. Queued'
  BY DEF Queued
<1> QED
  BY <1>1, <1>2, <1>5, <1>6, <1>7, <1>8, <1>9 DEF QueryInv

LEMMA OvertakenKeeps ==
  ASSUME IInv, NEW i \in heap, Overtaken(i)
  PROVE  IInv'
<1>1. /\ place = "search" /\ heap' = heap \ {i} /\ flags[i.node].seen # "no" /\ flags[i.node].len < i.flag.len
      /\ overlay' = overlay /\ request' = request /\ flags' = flags /\ place' = place /\ path' = path
  BY DEF Overtaken, Top
<1>2. OverlayInv /\ QueryInv /\ Unwalked
  BY <1>1 DEF IInv
<1>3. HeapOK /\ FlagsOK /\ Queued /\ Begins
  BY <1>2 DEF QueryInv
<1>4. Done(start)
  <2>1. i.node \in Node /\ NoFlag.seen = "no"
    BY <1>3 DEF HeapOK, NoFlag
  <2> QED
    BY <1>1, <1>3, <2>1 DEF Begins
<1>5. Queued'
  <2>1. ASSUME NEW n \in Node, flags[n].seen = "open", flags[n].len < Limit PROVE Item(n, flags[n]) \in heap'
    <3>1. Item(n, flags[n]) \in heap
      BY <1>1, <1>3, <2>1 DEF Queued
    <3>2. Item(n, flags[n]).node = n /\ Item(n, flags[n]).flag = flags[n]
      BY DEF Item
    <3>3. Item(n, flags[n]) # i
      <4>1. flags[n].len \in Nat
        <5>1. flags[n] \in FlagState
          BY <1>3 DEF FlagsOK
        <5> QED
          BY <5>1 DEF FlagState
      <4>2. ~(flags[n].len < flags[n].len)
        BY <4>1
      <4> QED
        BY <1>1, <3>2, <4>2
    <3> QED
      BY <1>1, <3>1, <3>3
  <2> QED
    BY <1>1, <2>1 DEF Queued, Item
<1>6. QueryInv'
  BY <1>1, <1>2, <1>4, <1>5, QueryStays
<1>7. OverlayInv'
  BY <1>1, <1>2, OverlayStays
<1>8. Unwalked' /\ Unasked' /\ FindsShortest' /\ Walked'
  BY <1>1, <1>2 DEF Unwalked, Unasked, FindsShortest, Walked
<1> QED
  BY <1>1, <1>6, <1>7, <1>8 DEF IInv

\* A shortcut that does not fit ends the request before a label changes.
LEMMA StepsPanicKeeps ==
  ASSUME IInv, NEW i \in heap, StepsPanic(i)
  PROVE  IInv'
<1>1. /\ place = "search" /\ place' = "panic" /\ heap' \subseteq heap
      /\ overlay' = overlay /\ request' = request /\ flags' = flags
  BY DEF StepsPanic, Top
<1>2. OverlayInv' /\ QueryInv'
  BY <1>1, OverlayStays, QueryStays DEF IInv
<1>3. Unwalked' /\ Unasked' /\ FindsShortest' /\ Walked'
  BY <1>1 DEF Unwalked, Unasked, FindsShortest, Walked
<1> QED
  BY <1>1, <1>2, <1>3 DEF IInv

LEMMA FoundIsShortest ==
  ASSUME OverlayInv, QueryInv, NEW i \in heap, Found(i)
  PROVE  Reached /\ flags[end].len = Roads[end]
<1>1. place = "search" /\ (\A j \in heap : i.flag.len <= j.flag.len) /\ i.node = end
  BY DEF Found, Top
<1>2. start \in Node /\ end \in Node /\ FlagsOK /\ HeapOK /\ Queued /\ Begins
  BY DEF QueryInv
<1>3. Limit \in Nat /\ Roads \in [Node -> 0..Limit] /\ Roads[start] = 0
  BY <1>2, RoadsAre, OverlayAssumption
<1>4. CASE end = start
  <2>1. flags[start] = NoFlag
    BY <1>2, <1>4 DEF FlagsOK, Begins
  <2>2. flags[end].len = 0
    BY <1>4, <2>1 DEF NoFlag
  <2> QED
    BY <1>3, <1>4, <2>2 DEF Reached
<1>5. CASE end # start
  <2>1. \A n \in Node : flags[n] \in FlagState /\ flags[n].len \in Nat
    <3> TAKE n \in Node
    <3>1. flags[n] \in FlagState
      BY <1>2 DEF FlagsOK
    <3> QED
      BY <3>1 DEF FlagState
  <2>2. i.flag.len \in Nat
    <3>1. i.flag \in FlagState
      BY <1>2 DEF HeapOK
    <3> QED
      BY <3>1 DEF FlagState
  <2>3. flags[end].seen # "no" /\ flags[end].len <= i.flag.len /\ i.flag.len < Limit
    BY <1>1, <1>2, <1>5 DEF HeapOK
  <2>4. flags[end].seen = "open" /\ flags[end].len < Limit
    <3>1. flags[end].seen \in {"no", "open", "done"} /\ flags[end].seen # "done"
      BY <1>2, <2>1 DEF FlagsOK, FlagState, Done
    <3> QED
      BY <1>2, <1>3, <2>1, <2>2, <2>3, <3>1
  <2>5. ASSUME NEW n \in Node, flags[n].seen = "open", flags[n].len < Limit PROVE i.flag.len <= flags[n].len
    <3>1. Item(n, flags[n]) \in heap /\ Item(n, flags[n]).flag = flags[n]
      BY <1>1, <1>2, <2>5 DEF Queued, Item
    <3> QED
      BY <1>1, <3>1
  <2>6. flags[end].len = i.flag.len
    <3>1. i.flag.len <= flags[end].len
      BY <1>2, <2>4, <2>5
    <3> QED
      BY <1>2, <2>1, <2>2, <2>3, <3>1
  <2>7. Done(start)
    BY <1>1, <1>2, <1>5 DEF Begins, StartItem, Item
  <2>8. \A n \in Node : ~Done(n) => i.flag.len <= Label(n)
    <3> TAKE n \in Node
    <3> HAVE ~Done(n)
    <3>1. CASE flags[n].seen = "no"
      BY <1>3, <2>2, <2>3, <3>1 DEF Label
    <3>2. CASE flags[n].seen = "open"
      <4>1. Label(n) = flags[n].len
        BY <3>2 DEF Label
      <4>2. CASE flags[n].len < Limit
        BY <2>5, <3>2, <4>1, <4>2
      <4>3. CASE ~(flags[n].len < Limit)
        BY <1>3, <2>1, <2>2, <2>3, <4>1, <4>3
      <4> QED
        BY <4>2, <4>3
    <3>3. flags[n].seen \in {"no", "open"}
      BY <2>1 DEF FlagState, Done
    <3> QED
      BY <3>1, <3>2, <3>3
  <2>9. i.flag.len <= Roads[end]
    <3>1. PICK c \in Nat : c = i.flag.len
      BY <2>2
    <3>2. c <= Limit /\ \A n \in Node : ~Done(n) => c <= Label(n)
      BY <1>3, <2>3, <2>8, <3>1
    <3>3. place # "prepare"
      BY <1>1
    <3>4. c <= Roads[end]
      BY <2>7, <3>2, <3>3, DoneIsEnough
    <3> QED
      BY <3>1, <3>4
  <2>10. Roads[end] <= flags[end].len
    BY <1>2, <2>4 DEF FlagsOK
  <2>11. Roads[end] \in Nat /\ end # NoNode
    BY <1>2, <1>3, GraphAssumption
  <2> QED
    BY <1>2, <2>1, <2>4, <2>6, <2>9, <2>10, <2>11 DEF Reached
<1> QED
  BY <1>4, <1>5

LEMMA ExhaustedIsNoWay ==
  ASSUME OverlayInv, QueryInv, place = "search", heap = {}
  PROVE  ~Reached /\ Roads[end] >= Limit
<1>1. start \in Node /\ end \in Node /\ FlagsOK /\ HeapOK /\ Queued /\ Begins
  BY DEF QueryInv
<1>2. Limit \in Nat /\ Roads \in [Node -> 0..Limit] /\ end # NoNode
  BY <1>1, RoadsAre, OverlayAssumption, GraphAssumption
<1>3. Done(start)
  BY <1>1 DEF Begins
<1>4. \A n \in Node : ~(flags[n].seen = "open" /\ flags[n].len < Limit)
  BY <1>1 DEF Queued
<1>5. ~Reached
  <2>1. end # start
    BY <1>1, <1>3 DEF FlagsOK
  <2> QED
    BY <1>1, <1>4, <2>1 DEF Reached
<1>6. \A n \in Node : ~Done(n) => Limit <= Label(n)
  <2> TAKE n \in Node
  <2> HAVE ~Done(n)
  <2>1. flags[n] \in FlagState
    BY <1>1 DEF FlagsOK
  <2>2. flags[n].len \in Nat /\ flags[n].seen \in {"no", "open"}
    BY <2>1 DEF FlagState, Done
  <2>3. CASE flags[n].seen = "no"
    BY <1>2, <2>3 DEF Label
  <2>4. CASE flags[n].seen = "open"
    <3>1. Label(n) = flags[n].len /\ ~(flags[n].len < Limit)
      BY <1>4, <2>4 DEF Label
    <3> QED
      BY <1>2, <2>2, <3>1
  <2> QED
    BY <2>2, <2>3, <2>4
<1>7. Limit <= Roads[end]
  <2>1. place # "prepare" /\ Limit <= Limit
    BY <1>2
  <2> QED
    BY <1>2, <1>3, <1>6, <2>1, DoneIsEnough
<1> QED
  BY <1>1, <1>2, <1>5, <1>7

LEMMA SearchEnds ==
  ASSUME IInv, (\E i \in heap : Found(i)) \/ Exhausted
  PROVE  IInv'
<1>1. /\ place = "search" /\ heap' \subseteq heap /\ place' \in {"walk", "failed"}
      /\ overlay' = overlay /\ request' = request /\ flags' = flags /\ path' = path
  BY DEF Found, Exhausted, Top
<1>2. OverlayInv /\ QueryInv /\ path = <<>> /\ start' = start /\ end' = end /\ Roads' = Roads
  BY <1>1, RequestStays DEF IInv, Unwalked
<1>3. start \in Node /\ end \in Node /\ FlagsOK
  BY <1>2 DEF QueryInv
<1>4. OverlayInv' /\ QueryInv'
  BY <1>1, <1>2, OverlayStays, QueryStays
<1>5. Unwalked' /\ Unasked'
  BY <1>1 DEF Unwalked, Unasked
<1>6. Reached' = Reached /\ TrueLength' = Roads[end]
  BY <1>1, <1>2 DEF Reached, TrueLength, Roads
<1>7. CASE \E i \in heap : Found(i)
  <2>1. PICK i \in heap : Found(i)
    BY <1>7
  <2>2. place' = "walk" /\ cur' = end
    BY <2>1 DEF Found
  <2>3. Reached /\ flags[end].len = Roads[end]
    BY <1>2, <2>1, FoundIsShortest
  <2>4. FindsShortest'
    BY <1>1, <1>2, <1>6, <2>2, <2>3 DEF FindsShortest
  <2>5. Walked'
    <3>1. flags[end].len \in Nat
      <4>1. flags[end] \in FlagState
        BY <1>3 DEF FlagsOK
      <4> QED
        BY <4>1 DEF FlagState
    <3>2. flags[end].len - flags[end].len = 0 /\ flags[end].len <= flags[end].len
      BY <3>1
    <3>3. RealRoute(<<>>, end, end, flags[end].len - flags[end].len) /\ <<>> \in Seq(Edge)
      BY <3>2, EmptyRoute
    <3>4. /\ (cur \in Node)' /\ (path \in Seq(Edge))' /\ (cur = end)'
          /\ (flags[cur].len <= flags[end].len)'
          /\ RealRoute(path, cur, end, flags[end].len - flags[cur].len)'
      BY <1>1, <1>2, <1>3, <2>2, <3>2, <3>3
    <3> QED
      BY <3>4 DEF Walked
  <2> QED
    BY <1>4, <1>5, <2>2, <2>4, <2>5 DEF IInv
<1>8. CASE Exhausted
  <2>1. ~Reached /\ Roads[end] >= Limit
    BY <1>1, <1>2, <1>8, ExhaustedIsNoWay DEF Exhausted
  <2>2. FindsShortest' /\ Walked'
    BY <1>1, <1>6, <2>1 DEF FindsShortest, Walked
  <2>3. place' # "answered"
    BY <1>1
  <2> QED
    BY <1>1, <1>4, <1>5, <2>2, <2>3 DEF IInv
<1> QED
  BY <1>7, <1>8

\* What a shortcut is unpacked to, turned round, are edges.
LEMMA UnpackedIs ==
  ASSUME StoreOK, NEW k \in DOMAIN shortcuts
  PROVE  Reverse(Unpacked(k)) \in Seq(Edge)
<1>1. shortcuts[k] \in Shortcut
  BY DEF StoreOK
<1>2. shortcuts[k].count \in Nat /\ shortcuts[k].ref \in Nat
  BY <1>1 DEF Shortcut
<1>3. PICK c, b, es : c = shortcuts[k].count /\ b = shortcuts[k].ref /\ es = edges_dyn
  OBVIOUS
<1>4. c \in Nat /\ b \in Nat /\ es \in Seq(Edge) /\ FirstEdge \in Edge
  BY <1>2, <1>3, OverlayAssumption DEF StoreOK
<1>5. PICK u : u = [j \in 1..c |-> IF b + j <= Len(es) THEN es[b + j] ELSE FirstEdge]
  OBVIOUS
<1>6. u = Unpacked(k)
  BY <1>3, <1>5 DEF Unpacked
<1>7. \A j \in 1..c : u[j] \in Edge
  <2> TAKE j \in 1..c
  <2>1. j \in Nat /\ j >= 1
    BY <1>4
  <2>2. b + j <= Len(es) => b + j \in 1..Len(es)
    BY <1>4, <2>1
  <2>3. b + j <= Len(es) => es[b + j] \in Edge
    BY <1>4, <2>2
  <2> QED
    BY <1>4, <1>5, <2>3
<1>8. u \in [1..c -> Edge]
  BY <1>5, <1>7
<1>9. u \in Seq(Edge) /\ Len(u) = c
  BY <1>4, <1>8
<1>10. Reverse(u) \in [1..c -> Edge]
  <2>1. \A j \in 1..c : (c - j) + 1 \in 1..c
    BY <1>4
  <2>2. Reverse(u) = [j \in 1..c |-> u[(c - j) + 1]]
    BY <1>9 DEF Reverse
  <2> QED
    BY <1>7, <2>1, <2>2
<1> QED
  BY <1>4, <1>6, <1>10

\* One step of the walk back.
LEMMA StepBack ==
  ASSUME OverlayInv, QueryInv, Walk, place = "walk", cur \in Node, cur # start, Labelled(cur),
         \A n \in Node : flags[n].shc => Unpacks(flags[n].prev), path \in Seq(Edge),
         flags[cur].len <= flags[end].len, RealRoute(path, cur, end, flags[end].len - flags[cur].len)
  PROVE  \/ place' = "panic"
         \/ /\ cur' \in Node /\ Done(cur') /\ path' \in Seq(Edge)
            /\ flags[cur'].len <= flags[end].len
            /\ RealRoute(path', cur', end, flags[end].len - flags[cur'].len)
<1>1. StoreOK /\ ShortcutsLead /\ start \in Node /\ end \in Node /\ FlagsOK
  BY DEF OverlayInv, QueryInv
<1>2. PICK n, f, l : n = cur /\ f = flags[n] /\ l = flags[end].len
  OBVIOUS
<1>3. n \in Node /\ f \in FlagState /\ f.len \in Nat /\ l \in Nat /\ Hangs(n, f)
  <2>1. f \in FlagState /\ flags[end] \in FlagState /\ Hangs(n, f)
    BY <1>1, <1>2 DEF FlagsOK
  <2> QED
    BY <1>2, <2>1 DEF FlagState
<1>4. PICK m \in Node : \E r \in Refs(m) :
         /\ m # n /\ Done(m)
         /\ r.other = n /\ f.len = flags[m].len + r.weight
         /\ f.prev = r.id /\ f.shc = (r.type = 100)
  BY <1>3 DEF Hangs
<1>5. PICK r \in Refs(m) :
         /\ m # n /\ Done(m)
         /\ r.other = n /\ f.len = flags[m].len + r.weight
         /\ f.prev = r.id /\ f.shc = (r.type = 100)
  BY <1>4
<1>6. /\ r.weight \in Nat
      /\ \/ r.type # 100 /\ r.id \in Edge /\ NodeA[r.id] = m /\ NodeB[r.id] = r.other /\ r.weight = Weight[r.id]
         \/ /\ r.type = 100 /\ r.id \in DOMAIN shortcuts
            /\ shortcuts[r.id].from = m /\ shortcuts[r.id].to = r.other /\ shortcuts[r.id].weight = r.weight
  BY <1>1, RefsAre
<1>7. flags[m].len \in Nat
  <2>1. flags[m] \in FlagState
    BY <1>1 DEF FlagsOK
  <2> QED
    BY <2>1 DEF FlagState
<1>8. PICK p : p = IF f.shc THEN Reverse(Unpacked(f.prev)) ELSE <<f.prev>>
  OBVIOUS
<1>9. p \in Seq(Edge) /\ RealRoute(p, m, n, r.weight) /\ (cur' = m \/ place' = "panic")
  <2>1. CASE r.type # 100
    <3>1. r.id \in Edge /\ NodeA[r.id] = m /\ NodeB[r.id] = n /\ r.weight = Weight[r.id] /\ ~f.shc /\ f.prev = r.id
      BY <1>5, <1>6, <2>1
    <3>2. p = <<r.id>>
      BY <1>8, <3>1
    <3>3. RealRoute(<<r.id>>, m, n, r.weight)
      BY <3>1, EdgeIsRoute
    <3>4. GetOtherNode(r.id, n) = m
      BY <1>5, <3>1 DEF GetOtherNode
    <3>5. cur' = m \/ place' = "panic"
      BY <1>2, <3>1, <3>4 DEF Walk
    <3> QED
      BY <3>1, <3>2, <3>3, <3>5
  <2>2. CASE r.type = 100
    <3>1. /\ r.id \in DOMAIN shortcuts /\ shortcuts[r.id].from = m /\ shortcuts[r.id].to = n
          /\ shortcuts[r.id].weight = r.weight /\ f.shc /\ f.prev = r.id
      BY <1>5, <1>6, <2>2
    <3>2. p = Reverse(Unpacked(r.id))
      BY <1>8, <3>1
    <3>3. Unpacks(r.id)
      BY <1>2, <1>3, <3>1
    <3>4. RealRoute(p, m, n, r.weight)
      BY <3>1, <3>2, <3>3 DEF Unpacks
    <3>5. p \in Seq(Edge)
      BY <1>1, <3>1, <3>2, UnpackedIs
    <3>6. cur' = m \/ place' = "panic"
      BY <1>2, <3>1 DEF Walk
    <3> QED
      BY <3>4, <3>5, <3>6
  <2> QED
    BY <2>1, <2>2
<1>10. path' = p \o path \/ place' = "panic"
  BY <1>2, <1>8 DEF Walk
<1>11. /\ flags[m].len <= l /\ l - f.len \in Nat /\ r.weight + (l - f.len) = l - flags[m].len
  <2>1. f.len <= l /\ f.len = flags[m].len + r.weight
    BY <1>2, <1>5
  <2>2. PICK h, w, g : h = flags[m].len /\ w = r.weight /\ g = f.len
    OBVIOUS
  <2>3. h \in Nat /\ w \in Nat /\ g \in Nat /\ g <= l /\ g = h + w
    BY <1>3, <1>6, <1>7, <2>1, <2>2
  <2>4. h <= l /\ l - g \in Nat /\ w + (l - g) = l - h
    BY <1>3, <2>3
  <2> QED
    BY <2>2, <2>4
<1>12. RealRoute(path, n, end, l - f.len)
  BY <1>2
<1>13. RealRoute(p \o path, m, end, r.weight + (l - f.len))
  BY <1>6, <1>9, <1>11, <1>12, RoutesJoin
<1>14. p \o path \in Seq(Edge)
  BY <1>9
<1> QED
  BY <1>2, <1>5, <1>9, <1>10, <1>11, <1>13, <1>14

LEMMA WalkKeeps == ASSUME IInv, Walk PROVE IInv'
<1>1. /\ place = "walk" /\ place' \in {"walk", "answered", "panic"}
      /\ overlay' = overlay /\ request' = request /\ heap' = heap /\ flags' = flags
  BY DEF Walk
<1>2. OverlayInv /\ QueryInv /\ FindsShortest /\ Walked /\ start' = start /\ end' = end
  BY <1>1, RequestStays DEF IInv
<1>3. OverlayInv' /\ QueryInv'
  BY <1>1, <1>2, OverlayStays, QueryStays
<1>4. Unwalked' /\ Unasked'
  BY <1>1 DEF Unwalked, Unasked
<1>5. Reached' = Reached /\ TrueLength' = TrueLength
  BY <1>1, <1>2 DEF Reached, TrueLength, overlay
<1>6. FindsShortest'
  BY <1>1, <1>2, <1>5 DEF FindsShortest
<1>7. \A n \in Node : flags[n].shc => (Unpacks(flags[n].prev)' <=> Unpacks(flags[n].prev))
  BY <1>1 DEF Unpacks, Unpacked, overlay
<1>8. place' = "answered" => cur = start /\ cur' = cur /\ path' = path
  BY <1>1 DEF Walk
<1>9. Walked'
  <2> SUFFICES ASSUME place' \in {"walk", "answered"}, Reached, \A n \in Node : flags[n].shc => Unpacks(flags[n].prev)
               PROVE  /\ cur' \in Node /\ path' \in Seq(Edge)
                      /\ cur' = end \/ cur' = start \/ Done(cur')
                      /\ flags[cur'].len <= flags[end].len
                      /\ RealRoute(path', cur', end, flags[end].len - flags[cur'].len)
    BY <1>1, <1>2, <1>5, <1>7 DEF Walked, Done
  <2>1. /\ cur \in Node /\ path \in Seq(Edge)
        /\ cur = end \/ cur = start \/ Done(cur)
        /\ flags[cur].len <= flags[end].len
        /\ RealRoute(path, cur, end, flags[end].len - flags[cur].len)
    BY <1>1, <1>2 DEF Walked
  <2>2. CASE cur = start
    <3>1. cur' = cur /\ path' = path
      BY <2>2 DEF Walk
    <3> QED
      BY <2>1, <2>2, <3>1
  <2>3. CASE cur # start
    <3>1. Labelled(cur)
      BY <2>1, <2>3 DEF Labelled, Reached
    <3>2. place' # "panic"
      BY <1>1
    <3> QED
      BY <1>1, <1>2, <2>1, <2>3, <3>1, <3>2, StepBack
  <2> QED
    BY <2>2, <2>3
<1>10. place' = "answered" => cur' = start'
  BY <1>2, <1>8
<1> QED
  BY <1>1, <1>3, <1>4, <1>6, <1>9, <1>10 DEF IInv

-----------------------------------------------------------------------------

LEMMA InvStep == IInv /\ [Next]_vars => IInv'
<1> SUFFICES ASSUME IInv, [Next]_vars PROVE IInv'
  OBVIOUS
<1>1. CASE NextTile \/ (\E s \in crossing : Cross(s)) \/ (\E p \in paths : KeepPath(p))
  BY <1>1, PreparationKeeps
<1>2. CASE \E s \in Node : \E e \in Node : Ask(s, e)
  BY <1>2, AskKeeps
<1>3. CASE (\E i \in heap : Found(i)) \/ Exhausted
  BY <1>3, SearchEnds
<1>4. CASE \E i \in heap : Overtaken(i)
  BY <1>4, OvertakenKeeps
<1>5. CASE \E i \in heap : Settle(i)
  BY <1>5, SettleKeeps
<1>6. CASE Walk
  BY <1>6, WalkKeeps
<1>8. CASE \E i \in heap : StepsPanic(i)
  BY <1>8, StepsPanicKeeps
<1>7. CASE UNCHANGED vars
  <2>1. /\ overlay' = overlay /\ request' = request /\ heap' = heap /\ flags' = flags
        /\ place' = place /\ cur' = cur /\ path' = path
    BY <1>7 DEF vars
  <2>2. start' = start /\ end' = end
    BY <2>1 DEF request
  <2>3. OverlayInv'
    BY <2>1, OverlayStays DEF IInv
  <2>4. place' # "prepare" => QueryInv'
    <3>1. Queued => Queued'
      BY <2>1 DEF Queued
    <3> SUFFICES ASSUME place # "prepare" PROVE QueryInv'
      BY <2>1
    <3>2. QueryInv
      BY DEF IInv
    <3>3. CASE place = "search" => Done(start)
      BY <2>1, <3>1, <3>2, <3>3, QueryStays DEF QueryInv
    <3>4. CASE place = "search" /\ ~Done(start)
      <4>1. /\ start' = start /\ end' = end /\ Roads' = Roads
            /\ \A n \in Node : Near(n)' = Near(n) /\ Refs(n)' = Refs(n)
        BY <2>1, RequestStays
      <4> QED
        BY <2>1, <3>2, <4>1 DEF QueryInv, FlagsOK, HeapOK, Settled, Queued, Begins, Done, Label, Labelled,
                                Hangs, StartItem, Item
    <3> QED
      BY <3>3, <3>4
  <2>5. Reached' = Reached /\ TrueLength' = TrueLength
    BY <2>1, <2>2 DEF Reached, TrueLength, overlay
  <2>6. FindsShortest' /\ Unwalked' /\ Unasked'
    BY <2>1, <2>2, <2>5 DEF IInv, FindsShortest, Unwalked, Unasked
  <2>7. Walked'
    BY <2>1, <2>2, <2>5 DEF IInv, Walked, Unpacks, Unpacked, overlay, Done
  <2>8. place' = "answered" => cur' = start'
    BY <2>1, <2>2 DEF IInv
  <2> QED
    BY <2>3, <2>4, <2>6, <2>7, <2>8 DEF IInv
<1> QED
  BY <1>1, <1>2, <1>3, <1>4, <1>5, <1>6, <1>7, <1>8 DEF Next, Query

\* Whatever the graph, the weights, the partition, the request, and the order in
\* which tiles are crossed, paths kept, and equal items taken from the heap.
THEOREM Invariance == Spec => []IInv
<1>1. Init => IInv
  BY InvInit
<1>2. IInv /\ [Next]_vars => IInv'
  BY InvStep
<1> QED
  BY <1>1, <1>2, PTL DEF Spec

\* The query on the overlay (CalcShortestPath of binary_overlay_dijkstra.go) finds
\* the distance on the whole graph, and fails only if there is no way below the
\* first value of a label.
THEOREM AlwaysFindsShortest == Spec => []FindsShortest
<1>1. IInv => FindsShortest
  BY DEF IInv
<1> QED
  BY <1>1, Invariance, PTL

\* GetShortestPath of binary_overlay_dijkstra.go gives a route from the start to
\* the end that is as long as the label of the end, if the shortcuts in use
\* unpack to the edges they stand for.
THEOREM RouteAlwaysReal == Spec => []RouteIsReal
<1>1. IInv => RouteIsReal
  <2> SUFFICES ASSUME IInv, place = "answered", Reached, \A n \in Node : flags[n].shc => Unpacks(flags[n].prev)
               PROVE  RealRoute(path, start, end, flags[end].len)
    BY DEF RouteIsReal
  <2>1. QueryInv /\ cur = start /\ RealRoute(path, cur, end, flags[end].len - flags[cur].len)
    BY DEF IInv, Walked
  <2>2. flags[start].len = 0
    BY <2>1 DEF QueryInv, Begins, NoFlag
  <2>3. flags[end] \in FlagState
    BY <2>1 DEF QueryInv, FlagsOK
  <2>4. flags[end].len - 0 = flags[end].len
    BY <2>3 DEF FlagState
  <2> QED
    BY <2>1, <2>2, <2>4
<1> QED
  BY <1>1, Invariance, PTL

-----------------------------------------------------------------------------
(* On a skeleton no label comes from a shortcut. *)

SkeletonInv ==
  method = "skeleton" =>
    /\ shortcuts = <<>>
    /\ \A n \in Node : ~flags[n].shc
    /\ \A i \in heap : ~i.flag.shc

LEMMA SkeletonInit == Init => SkeletonInv
BY DEF Init, SkeletonInv, NoFlag

LEMMA SkeletonStep == IInv /\ SkeletonInv /\ [Next]_vars => SkeletonInv'
<1> SUFFICES ASSUME IInv, SkeletonInv, [Next]_vars, method' = "skeleton" PROVE SkeletonInv'
  BY DEF SkeletonInv
<1>1. method' = method
  BY DEF Next, Query, NextTile, Cross, KeepPath, Ask, Exhausted, Found, Overtaken, Settle, StepsPanic, Walk, vars, overlay
<1>2. shortcuts = <<>> /\ (\A n \in Node : ~flags[n].shc) /\ (\A i \in heap : ~i.flag.shc)
  BY <1>1 DEF SkeletonInv
<1>3. CASE \E p \in paths : KeepPath(p)
  <2>1. UNCHANGED <<shortcuts, flags, heap>>
    BY <1>1, <1>3 DEF KeepPath, MarkEdges, AddShortcut
  <2> QED
    BY <1>2, <2>1 DEF SkeletonInv
<1>4. CASE \E s \in Node : \E e \in Node : Ask(s, e)
  <2>1. /\ shortcuts' = shortcuts /\ flags' = flags /\ heap' = {StartItem'}
    BY <1>4 DEF Ask, overlay, StartItem
  <2>2. ~StartItem'.flag.shc
    <3>1. PICK f : f = [NoFlag EXCEPT !.seen = "open", !.prev = NoEdge]
      OBVIOUS
    <3>2. ~f.shc
      BY <3>1 DEF NoFlag
    <3>3. StartItem'.flag = f
      BY <3>1 DEF StartItem, Item
    <3> QED
      BY <3>2, <3>3
  <2> QED
    BY <1>2, <2>1, <2>2 DEF SkeletonInv
<1>5. CASE \E i \in heap : Settle(i)
  <2>1. PICK i \in heap : Settle(i)
    BY <1>5
  <2>2. OverlayInv /\ QueryInv /\ overlay' = overlay
    BY <2>1 DEF Settle, Top, IInv
  <2>3. PICK better \in SUBSET (Node \ {i.node}) : \E via \in [better -> Refs(i.node)] : Settles(i, better, via)
    BY <2>1, <2>2, SettleIs
  <2>4. PICK via \in [better -> Refs(i.node)] : Settles(i, better, via)
    BY <2>3
  <2>5. /\ StoreOK /\ ShortcutsLead /\ start \in Node /\ i.node \in Node /\ i.flag \in FlagState
    BY <2>2 DEF OverlayInv, QueryInv, HeapOK
  <2>6. ASSUME NEW o \in better PROVE ~StepTo(i, via[o]).shc
    <3>1. via[o].type # 100
      BY <1>2, <2>5, RefsAre
    <3> QED
      BY <3>1 DEF StepTo
  <2>7. ASSUME NEW n \in Node PROVE ~flags'[n].shc
    <3>1. CASE n = i.node
      <4>1. PICK f : f = [i.flag EXCEPT !.seen = "done"]
        OBVIOUS
      <4>2. f.shc = i.flag.shc
        BY <2>5, <4>1 DEF FlagState
      <4> QED
        BY <1>2, <2>4, <3>1, <4>1, <4>2 DEF Settles
    <3>2. CASE n \in better
      BY <2>4, <2>6, <3>2 DEF Settles
    <3>3. CASE flags'[n] = flags[n]
      BY <1>2, <3>3
    <3>4. CASE flags'[n] = Touched
      <4>1. PICK f : f = [NoFlag EXCEPT !.seen = "open", !.len = Limit, !.prev = NoEdge]
        OBVIOUS
      <4>2. ~f.shc
        BY <4>1 DEF NoFlag
      <4> QED
        BY <3>4, <4>1, <4>2 DEF Touched
    <3> QED
      BY <2>4, <3>1, <3>2, <3>3, <3>4 DEF Settles
  <2>8. ASSUME NEW j \in heap' PROVE ~j.flag.shc
    BY <1>2, <2>4, <2>6, <2>8, ItemsAre
  <2>9. shortcuts' = shortcuts
    BY <2>2 DEF overlay
  <2> QED
    BY <1>2, <2>7, <2>8, <2>9 DEF SkeletonInv
<1>6. CASE NextTile \/ (\E s \in crossing : Cross(s)) \/ Exhausted \/ Walk \/ UNCHANGED vars
           \/ (\E i \in heap : Found(i) \/ Overtaken(i) \/ StepsPanic(i))
  <2>1. shortcuts' = shortcuts /\ flags' = flags /\ heap' \subseteq heap
    BY <1>6 DEF NextTile, Cross, Exhausted, Walk, Found, Overtaken, StepsPanic, vars, overlay
  <2> QED
    BY <1>2, <2>1 DEF SkeletonInv
<1> QED
  BY <1>3, <1>4, <1>5, <1>6 DEF Next, Query

\* On a skeleton the route that GetShortestPath gives is always as long as the
\* label of the end, whatever the shortcut store holds.
THEOREM SkeletonRoutesReal ==
  Spec => [](method = "skeleton" /\ place = "answered" /\ Reached => RealRoute(path, start, end, flags[end].len))
<1>1. Init => SkeletonInv
  BY SkeletonInit
<1>2. IInv /\ SkeletonInv /\ [Next]_vars => SkeletonInv'
  BY SkeletonStep
<1>3. SkeletonInv /\ RouteIsReal
      => (method = "skeleton" /\ place = "answered" /\ Reached => RealRoute(path, start, end, flags[end].len))
  BY DEF SkeletonInv, RouteIsReal
<1> QED
  BY <1>1, <1>2, <1>3, Invariance, RouteAlwaysReal, PTL DEF Spec
=============================================================================
