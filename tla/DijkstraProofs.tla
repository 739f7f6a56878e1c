--------------------------- MODULE DijkstraProofs ---------------------------
(***************************************************************************)
(* Proofs about Dijkstra.tla, for every graph with weights that are not    *)
(* negative, every estimate and every pair of start and end.               *)
(*                                                                         *)
(* The argument has two layers.  TreeInv needs nothing of the estimate:    *)
(* the flag of a node that has been reached is backed by the edge it       *)
(* points to, and what has not been visited but reached waits in the heap. *)
(* KeyInv needs a consistent estimate: keys leave the heap in ascending    *)
(* order, so the flag of a visited node is final.                          *)
(***************************************************************************)
EXTENDS Dijkstra, TLAPS

Searching == place \in {"search", "relax", "failed"}
Reached(n) == len[n] < Unreached
Est == [n \in Node |-> Estimate(n)]
KeyOf(n) == len[n] + Est[n]

-----------------------------------------------------------------------------
(* The first layer. *)

\* The flag of a node that has been reached is backed by a visited node.
TreeEdges ==
  \A n \in Node : n # start /\ Reached(n) =>
    /\ NodeB[prev[n]] = n
    /\ visited[NodeA[prev[n]]]
    /\ len[n] = len[NodeA[prev[n]]] + Weight[prev[n]]

\* Only what has been reached is visited or in the heap, and the end never is
\* visited.
OnlyReached ==
  /\ \A n \in Node : visited[n] => Reached(n)
  /\ \A i \in heap : Reached(i.node)
  /\ len[start] = 0
  /\ ~visited[end]
  /\ place = "relax" => visited[cur]

\* While the search runs the frontier is in the heap.
FrontierInHeap ==
  Searching => \A n \in Node : ~visited[n] /\ Reached(n) => \E i \in heap : i.node = n

\* The edges of a visited node have been relaxed, but for those still to come.
EdgesRelaxed ==
  \A x \in Edge : visited[NodeA[x]] =>
    \/ place = "relax" /\ NodeA[x] = cur /\ x \in todo
    \/ visited[NodeB[x]]
    \/ len[NodeB[x]] <= len[NodeA[x]] + Weight[x]

\* The walk is at a node that has been reached; a failure has an empty heap.
EndsRightly ==
  /\ place \in {"walk", "answered", "panic"} /\ (mode = "calc" \/ Reached(end))
       => cur \in Node /\ Reached(cur) /\ Reached(end)
  /\ place = "failed" => heap = {}

TreeInv == TypeOK /\ TreeEdges /\ OnlyReached /\ FrontierInHeap /\ EdgesRelaxed /\ EndsRightly

-----------------------------------------------------------------------------
(* The second layer. *)

\* An item's key is no less than that of its node, and the frontier has one
\* that is no more.
KeysOfHeap ==
  /\ \A i \in heap : i.node = start \/ KeyOf(i.node) <= i.key
  /\ Searching => \A n \in Node : ~visited[n] /\ Reached(n) =>
                    \E i \in heap : i.node = n /\ i.key <= KeyOf(n)

\* Visited nodes have smaller keys than what is in the heap or at work.
VisitedFirst ==
  \A v \in Node : visited[v] =>
    /\ \A i \in heap : KeyOf(v) <= i.key
    /\ place = "relax" => KeyOf(v) <= KeyOf(cur)

\* The start goes first.
StartFirst ==
  ~visited[start] =>
    /\ heap \subseteq {Item(start, 0)}
    /\ \A n \in Node : ~visited[n] /\ (n # start => len[n] = Unreached)

\* A relaxed edge has no slack, not even one between two visited nodes.
EdgesTight ==
  \A x \in Edge : visited[NodeA[x]] =>
    \/ place = "relax" /\ NodeA[x] = cur /\ x \in todo
    \/ len[NodeB[x]] <= len[NodeA[x]] + Weight[x]

\* No key is below the start's estimate.
KeysFromStart == \A n \in Node : Reached(n) => Est[start] <= KeyOf(n)

\* When the end has been found it was first of the frontier.
EndFirst ==
  mode = "calc" /\ place \in {"walk", "answered"} =>
    \A n \in Node : ~visited[n] /\ Reached(n) => KeyOf(end) <= KeyOf(n)

KeyParts == KeysOfHeap /\ VisitedFirst /\ StartFirst /\ EdgesTight /\ KeysFromStart /\ EndFirst
KeyInv == Consistent => KeyParts

-----------------------------------------------------------------------------
LEMMA OtherNode ==
  ASSUME NEW x \in Edge, NEW n \in Node
  PROVE  /\ GetOtherNode(x, n) \in Node \cup {NoNode}
         /\ NodeB[x] = n => GetOtherNode(x, n) = NodeA[x]
  BY GraphAssumption DEF GetOtherNode

\* The actions of the search, one name for each.
LEMMA Steps ==
  ASSUME [Next]_vars
  PROVE  \/ Exhausted
         \/ \E i \in heap : Found(i)
         \/ \E i \in heap : Skip(i)
         \/ \E i \in heap : Settle(i)
         \/ \E x \in todo : Relax(x)
         \/ Relaxed \/ Walk \/ WalkEnds
         \/ UNCHANGED vars
  BY DEF Next

\* The estimate is a number, and stays what it is, as the request does.
LEMMA EstimateFacts ==
  ASSUME TypeOK
  PROVE  /\ \A n \in Node : Estimate(n) \in Nat /\ Est[n] \in Nat /\ Est[n] = Estimate(n)
         /\ [Next]_vars => Est' = Est /\ (Consistent' => Consistent)
<1>1. \A n \in Node : Estimate(n) \in Nat
  BY SearchAssumption DEF Estimate, TypeOK
<1>2. \A n \in Node : Est[n] = Estimate(n)
  BY DEF Est
<1>3. ASSUME [Next]_vars PROVE Est' = Est /\ (Consistent' => Consistent)
  <2>1. UNCHANGED <<alg, mode, start, end>>
    BY <1>3 DEF Next, vars, request, Exhausted, Found, Skip, Settle, Relax, Relaxed, Walk, WalkEnds
  <2> QED
    BY <2>1 DEF Est, Estimate, Consistent
<1> QED
  BY <1>1, <1>2, <1>3

LEMMA ConsistentFacts ==
  ASSUME TypeOK, Consistent
  PROVE  \A x \in Edge : Est[NodeA[x]] <= Weight[x] + Est[NodeB[x]]
  BY EstimateFacts, GraphAssumption DEF Consistent

LEMMA TypeFacts ==
  ASSUME TypeOK
  PROVE  /\ \A n \in Node : len[n] \in Nat /\ len[n] <= Unreached /\ prev[n] \in Edge
         /\ \A x \in Edge : NodeA[x] \in Node /\ NodeB[x] \in Node /\ Weight[x] \in Nat
         /\ \A i \in heap : i.node \in Node /\ i.key \in Nat
         /\ Unreached \in Nat /\ start \in Node /\ end \in Node
<1>1. \A n \in Node : len[n] \in 0..Unreached /\ prev[n] \in Edge
  BY DEF TypeOK
<1>2. \A x \in Edge : NodeA[x] \in Node /\ NodeB[x] \in Node /\ Weight[x] \in Nat
  BY GraphAssumption
<1>3. \A i \in heap : i.node \in Node /\ i.key \in Nat
  BY DEF TypeOK
<1>4. Unreached \in Nat /\ start \in Node /\ end \in Node
  BY SearchAssumption DEF TypeOK
<1> QED
  BY <1>1, <1>2, <1>3, <1>4

-----------------------------------------------------------------------------
LEMMA TypeInit == Init => TypeOK
<1>1. <<>> \in Seq(Edge)
  OBVIOUS
<1> QED
  BY <1>1, SearchAssumption DEF Init, TypeOK, Item, Forward

LEMMA TypeStep == TypeOK /\ [Next]_vars => TypeOK'
<1> SUFFICES ASSUME TypeOK, [Next]_vars PROVE TypeOK'
  OBVIOUS
<1> USE SearchAssumption, GraphAssumption
<1>1. CASE Exhausted
  BY <1>1 DEF Exhausted, StartWalk, request, flags, TypeOK
<1>2. ASSUME NEW i \in heap, Found(i) PROVE TypeOK'
  BY <1>2 DEF Found, Dequeues, StartWalk, request, flags, TypeOK
<1>3. ASSUME NEW i \in heap, Skip(i) PROVE TypeOK'
  BY <1>3 DEF Skip, Dequeues, request, flags, TypeOK
<1>4. ASSUME NEW i \in heap, Settle(i) PROVE TypeOK'
  <2>1. i.node \in Node
    BY DEF TypeOK
  <2> QED
    BY <1>4, <2>1 DEF Settle, Dequeues, request, TypeOK
<1>5. ASSUME NEW x \in todo, Relax(x) PROVE TypeOK'
  <2> DEFINE b == NodeB[x]
             new == len[cur] + Weight[x]
             entry == Item(b, new + Estimate(b))
  <2>a. x \in Edge /\ cur \in Node /\ len[cur] \in Nat
    BY <1>5 DEF Relax, TypeOK, Forward
  <2>1. x \in Edge /\ b \in Node /\ cur \in Node /\ new \in Nat
    BY <2>a
  <2>2. entry \in [node : Node, key : Nat]
    BY <2>1, EstimateFacts DEF Item
  <2>3. CASE ~visited[b] /\ len[b] > new
    <3>1. /\ len' = [len EXCEPT ![b] = new]
          /\ prev' = [prev EXCEPT ![b] = x]
          /\ heap' = heap \cup {entry}
      BY <1>5, <2>3 DEF Relax
    <3>2. len' \in [Node -> 0..Unreached]
      <4>1. len[b] \in 0..Unreached /\ len \in [Node -> 0..Unreached]
        BY <2>1 DEF TypeOK
      <4>2. new \in 0..Unreached
        BY <2>1, <2>3, <4>1
      <4> QED
        BY <2>1, <3>1, <4>1, <4>2
    <3> HIDE DEF entry, new, b
    <3> QED
      BY <1>5, <2>1, <2>2, <3>1, <3>2 DEF Relax, request, TypeOK
  <2>4. CASE ~(~visited[b] /\ len[b] > new)
    BY <1>5, <2>4 DEF Relax, request, TypeOK
  <2> QED
    BY <2>3, <2>4
<1>6. CASE Relaxed
  BY <1>6 DEF Relaxed, request, flags, TypeOK
<1>7. CASE Walk
  <2>1. cur \in Node /\ prev[cur] \in Edge
    BY <1>7 DEF Walk, TypeOK
  <2>2. <<prev[cur]>> \o path \in Seq(Edge)
    BY <2>1 DEF TypeOK
  <2>3. /\ cur' = GetOtherNode(prev[cur], cur)
        /\ cur' \in Node \cup {NoNode}
        /\ place' = IF cur' = NoNode THEN "panic" ELSE "walk"
    BY <1>7, <2>1, OtherNode DEF Walk
  <2> QED
    BY <1>7, <2>2, <2>3 DEF Walk, request, flags, TypeOK
<1>8. CASE WalkEnds
  BY <1>8 DEF WalkEnds, request, flags, TypeOK
<1>9. CASE UNCHANGED vars
  BY <1>9 DEF vars, request, flags, TypeOK
<1> QED
  BY <1>1, <1>2, <1>3, <1>4, <1>5, <1>6, <1>7, <1>8, <1>9, Steps

(***************************************************************************)
(* The search and the walk keep their types (TypeOK).                      *)
(***************************************************************************)
THEOREM TypeCorrect == Spec => []TypeOK
  BY TypeInit, TypeStep, PTL DEF Spec

-----------------------------------------------------------------------------
(* The first layer is inductive. *)

LEMMA TreeInit == Init => TreeInv
  BY TypeInit, SearchAssumption, GraphAssumption
  DEF Init, TreeInv, TreeEdges, OnlyReached, FrontierInHeap, EdgesRelaxed, EndsRightly,
      Reached, Searching, Item

LEMMA TreeStep == TreeInv /\ [Next]_vars => TreeInv'
<1> SUFFICES ASSUME TreeInv, [Next]_vars PROVE TreeInv'
  OBVIOUS
<1> USE SearchAssumption, GraphAssumption
<1>0. TypeOK /\ TypeOK'
  BY TypeStep DEF TreeInv
<1>1. CASE Exhausted
  BY <1>0, <1>1 DEF Exhausted, StartWalk, request, flags, TypeOK, TreeInv, TreeEdges, OnlyReached,
      FrontierInHeap, EdgesRelaxed, EndsRightly, Reached, Searching
<1>2. ASSUME NEW i \in heap, Found(i) PROVE TreeInv'
  BY <1>0, <1>2 DEF Found, Dequeues, StartWalk, request, flags, TypeOK, TreeInv, TreeEdges, OnlyReached,
      FrontierInHeap, EdgesRelaxed, EndsRightly, Reached, Searching
<1>3. ASSUME NEW i \in heap, Skip(i) PROVE TreeInv'
  <2>1. /\ heap' = heap \ {i} /\ visited[i.node] /\ place = "search"
        /\ UNCHANGED <<alg, mode, start, end, len, prev, visited, place, cur, todo>>
    BY <1>3 DEF Skip, Dequeues, request, flags
  <2>2. TreeEdges' /\ OnlyReached'
    BY <2>1 DEF TreeInv, TreeEdges, OnlyReached, Reached
  <2>3. FrontierInHeap'
    BY <2>1 DEF TreeInv, FrontierInHeap, Reached, Searching
  <2>4. EdgesRelaxed' /\ EndsRightly'
    BY <2>1 DEF TreeInv, EdgesRelaxed, EndsRightly, Reached
  <2> QED
    BY <1>0, <2>2, <2>3, <2>4 DEF TreeInv
<1>4. ASSUME NEW i \in heap, Settle(i) PROVE TreeInv'
  <2>1. i.node \in Node
    BY <1>0 DEF TypeOK
  <2>a. /\ heap' \subseteq heap /\ visited' = [visited EXCEPT ![i.node] = TRUE]
        /\ i.node # end /\ cur' = i.node
        /\ UNCHANGED <<alg, mode, start, end, len, prev>>
    BY <1>4 DEF Settle, Dequeues, request
  <2>b. /\ visited'[i.node]
        /\ \A n \in Node : visited[n] => visited'[n]
        /\ \A n \in Node : n # i.node => visited'[n] = visited[n]
    BY <1>0, <2>1, <2>a DEF TypeOK
  <2>c. TreeEdges'
    BY <1>0, TypeFacts, <2>a, <2>b DEF TreeInv, TreeEdges, Reached
  <2>d. OnlyReached'
    BY <1>0, TypeFacts, <2>1, <2>a, <2>b DEF TreeInv, OnlyReached, Reached
  <2>2. TreeEdges' /\ OnlyReached'
    BY <2>c, <2>d
  <2>3. FrontierInHeap'
    BY <1>0, <1>4, <2>1 DEF Settle, Dequeues, request, TypeOK, TreeInv, FrontierInHeap, Reached, Searching
  <2>4. EdgesRelaxed'
    BY <1>0, <1>4, <2>1 DEF Settle, Dequeues, request, TypeOK, TreeInv, EdgesRelaxed, Forward
  <2>5. EndsRightly'
    BY <1>4 DEF Settle, EndsRightly
  <2> QED
    BY <1>0, <2>2, <2>3, <2>4, <2>5 DEF TreeInv
<1>5. ASSUME NEW x \in todo, Relax(x) PROVE TreeInv'
  <2> DEFINE b == NodeB[x]
             new == len[cur] + Weight[x]
             entry == Item(b, new + Estimate(b))
  <2>1. /\ x \in Edge /\ NodeA[x] = cur /\ b \in Node /\ cur \in Node
        /\ visited[cur] /\ len[cur] \in Nat /\ new \in Nat /\ new >= len[cur]
    <3>1. x \in Edge /\ NodeA[x] = cur /\ cur \in Node
      BY <1>0, <1>5 DEF Relax, TypeOK, Forward
    <3>2. len[cur] \in Nat
      BY <1>0, <3>1 DEF TypeOK
    <3> QED
      BY <1>5, <3>1, <3>2 DEF Relax, TreeInv, OnlyReached
  <2>2. CASE ~visited[b] /\ len[b] > new
    <3>1. /\ len' = [len EXCEPT ![b] = new]
          /\ prev' = [prev EXCEPT ![b] = x]
          /\ heap' = heap \cup {entry} /\ entry.node = b
          /\ UNCHANGED <<alg, mode, start, end, visited, place, cur, path>>
      BY <1>5, <2>2 DEF Relax, request, Item
    <3> HIDE DEF entry, new
    <3>2. len[b] <= Unreached /\ len[b] \in Nat /\ len'[b] = new /\ b # cur /\ new < Unreached
          /\ \A n \in Node : n # b => len'[n] = len[n] /\ prev'[n] = prev[n]
      <4>1. len[b] <= Unreached /\ len[b] \in Nat /\ Unreached \in Nat /\ b # cur
        BY <1>0, TypeFacts, <2>1, <2>2
      <4>2. new < Unreached
        BY <2>1, <2>2, <4>1
      <4>3. len \in [Node -> 0..Unreached] /\ prev \in [Node -> Edge]
        BY <1>0 DEF TypeOK
      <4> QED
        BY <2>1, <3>1, <4>1, <4>2, <4>3
    <3>3. b # start
      BY <2>1, <2>2, <3>2 DEF TreeInv, OnlyReached
    <3>4. TreeEdges'
      <4> SUFFICES ASSUME NEW n \in Node, n # start, Reached(n)'
                   PROVE  /\ NodeB[prev'[n]] = n
                          /\ visited'[NodeA[prev'[n]]]
                          /\ len'[n] = len'[NodeA[prev'[n]]] + Weight[prev'[n]]
        BY <3>1 DEF TreeEdges
      <4>1. CASE n = b
        BY <1>0, <2>1, <3>1, <3>2, <4>1 DEF TypeOK, new
      <4>2. CASE n # b
        <5>1. Reached(n)
          BY <3>2, <4>2 DEF Reached
        <5> QED
          <6> DEFINE a == NodeA[prev[n]]
          <6>1. /\ NodeB[prev[n]] = n /\ visited[a] /\ len[n] = len[a] + Weight[prev[n]]
            BY <5>1 DEF TreeInv, TreeEdges
          <6>2. a \in Node /\ a # b
            BY <1>0, TypeFacts, <2>2, <6>1
          <6> QED
            BY <3>1, <3>2, <4>2, <6>1, <6>2
      <4> QED
        BY <4>1, <4>2
    <3>5. OnlyReached'
      BY <1>0, <2>1, <2>2, <3>1, <3>2, <3>3 DEF TypeOK, TreeInv, OnlyReached, Reached
    <3>6. FrontierInHeap'
      BY <2>1, <3>1, <3>2 DEF TreeInv, FrontierInHeap, Reached, Searching
    <3>7. EdgesRelaxed'
      <4> SUFFICES ASSUME NEW y \in Edge, visited[NodeA[y]]
                   PROVE  \/ place' = "relax" /\ NodeA[y] = cur' /\ y \in todo'
                          \/ visited'[NodeB[y]]
                          \/ len'[NodeB[y]] <= len'[NodeA[y]] + Weight[y]
        BY <3>1 DEF EdgesRelaxed
      <4>1. len'[NodeA[y]] = len[NodeA[y]] /\ len'[NodeB[y]] <= len[NodeB[y]]
        <5>1. NodeA[y] \in Node /\ NodeB[y] \in Node /\ len[NodeB[y]] \in Nat
          BY <1>0, TypeFacts
        <5>2. NodeA[y] # b
          BY <2>2
        <5> QED
          BY <2>1, <2>2, <3>2, <5>1, <5>2
      <4>2. CASE y = x
        BY <2>1, <3>1, <3>2, <4>1, <4>2 DEF new
      <4>3. CASE y # x
        <5>1. y \in todo => y \in todo'
          BY <1>5, <4>3 DEF Relax
        <5>2. \/ place = "relax" /\ NodeA[y] = cur /\ y \in todo
              \/ visited[NodeB[y]]
              \/ len[NodeB[y]] <= len[NodeA[y]] + Weight[y]
          BY DEF TreeInv, EdgesRelaxed
        <5>3. /\ len[NodeA[y]] \in Nat /\ len[NodeB[y]] \in Nat /\ Weight[y] \in Nat
              /\ len'[NodeB[y]] \in Nat
          BY <1>0, TypeFacts, <2>1, <3>2 DEF new
        <5> QED
          BY <3>1, <4>1, <5>1, <5>2, <5>3
      <4> QED
        BY <4>2, <4>3
    <3>8. EndsRightly'
      BY <1>5 DEF Relax, EndsRightly
    <3> QED
      BY <1>0, <3>4, <3>5, <3>6, <3>7, <3>8 DEF TreeInv
  <2>3. CASE ~(~visited[b] /\ len[b] > new)
    <3>1. UNCHANGED <<alg, mode, start, end, heap, len, prev, visited, place, cur, path>>
      BY <1>5, <2>3 DEF Relax, request
    <3>2. TreeEdges' /\ OnlyReached' /\ FrontierInHeap' /\ EndsRightly'
      BY <3>1 DEF TreeInv, TreeEdges, OnlyReached, FrontierInHeap, EndsRightly, Reached, Searching
    <3>3. EdgesRelaxed'
      <4>1. todo' = todo \ {x}
        BY <1>5 DEF Relax
      <4>2. visited[b] \/ len[b] <= new
        BY <1>0, TypeFacts, <2>1, <2>3
      <4> QED
        BY <2>1, <3>1, <4>1, <4>2 DEF TreeInv, EdgesRelaxed
    <3> QED
      BY <1>0, <3>2, <3>3 DEF TreeInv
  <2> QED
    BY <2>2, <2>3
<1>6. CASE Relaxed
  BY <1>0, <1>6 DEF Relaxed, request, flags, TypeOK, TreeInv, TreeEdges, OnlyReached,
      FrontierInHeap, EdgesRelaxed, EndsRightly, Reached, Searching
<1>7. CASE Walk
  <2>1. /\ cur \in Node /\ cur # start /\ prev[cur] \in Edge /\ place = "walk"
        /\ cur' = GetOtherNode(prev[cur], cur)
        /\ place' \in {"walk", "panic"}
        /\ UNCHANGED <<alg, mode, start, end, heap, len, prev, visited, todo>>
    BY <1>0, <1>7 DEF Walk, request, flags, TypeOK
  <2>2. TreeEdges' /\ OnlyReached' /\ FrontierInHeap'
    BY <2>1 DEF TreeInv, TreeEdges, OnlyReached, FrontierInHeap, Reached, Searching
  <2>3. EdgesRelaxed'
    BY <2>1 DEF TreeInv, EdgesRelaxed
  <2>4. EndsRightly'
    <3> SUFFICES ASSUME mode = "calc" \/ Reached(end)
                 PROVE  cur' \in Node /\ Reached(cur') /\ Reached(end)
      BY <2>1 DEF EndsRightly, Reached
    <3>1. Reached(cur) /\ Reached(end)
      BY <2>1 DEF TreeInv, EndsRightly
    <3>2. NodeB[prev[cur]] = cur /\ visited[NodeA[prev[cur]]]
      BY <2>1, <3>1 DEF TreeInv, TreeEdges
    <3>3. cur' = NodeA[prev[cur]] /\ cur' \in Node
      BY <2>1, <3>2, OtherNode
    <3> QED
      BY <2>1, <3>1, <3>2, <3>3 DEF TreeInv, OnlyReached, Reached
  <2> QED
    BY <1>0, <2>2, <2>3, <2>4 DEF TreeInv
<1>8. CASE WalkEnds
  BY <1>0, <1>8 DEF WalkEnds, request, flags, TypeOK, TreeInv, TreeEdges, OnlyReached,
      FrontierInHeap, EdgesRelaxed, EndsRightly, Reached, Searching
<1>9. CASE UNCHANGED vars
  BY <1>0, <1>9 DEF vars, request, flags, TypeOK, TreeInv, TreeEdges, OnlyReached,
      FrontierInHeap, EdgesRelaxed, EndsRightly, Reached, Searching
<1> QED
  BY <1>1, <1>2, <1>3, <1>4, <1>5, <1>6, <1>7, <1>8, <1>9, Steps

LEMMA TreeInvariant == Spec => []TreeInv
  BY TreeInit, TreeStep, PTL DEF Spec

(***************************************************************************)
(* CalcShortestPath gives up only if the end cannot be reached             *)
(* (FailsRightly), whatever the estimate.                                  *)
(***************************************************************************)
THEOREM FailureIsRight == Spec => []FailsRightly
<1>1. TreeInv => FailsRightly
  <2> SUFFICES ASSUME TreeInv, place = "failed"
               PROVE  /\ visited[start] /\ ~visited[end]
                      /\ \A x \in Edge : visited[NodeA[x]] /\ ~visited[NodeB[x]]
                           => len[NodeA[x]] + Weight[x] >= Unreached
    BY DEF FailsRightly
  <2>0. TypeOK /\ heap = {}
    BY DEF TreeInv, EndsRightly
  <2>a. ASSUME NEW n \in Node, ~visited[n] PROVE ~Reached(n)
    BY <2>0, <2>a DEF TreeInv, FrontierInHeap, Searching
  <2>1. \A n \in Node : visited[n] \/ len[n] = Unreached
    BY <2>0, <2>a, TypeFacts DEF Reached
  <2>2. visited[start] /\ ~visited[end]
    BY <2>0, <2>1, TypeFacts, SearchAssumption DEF TreeInv, OnlyReached
  <2>3. ASSUME NEW x \in Edge, visited[NodeA[x]], ~visited[NodeB[x]]
        PROVE  len[NodeA[x]] + Weight[x] >= Unreached
    <3>1. len[NodeB[x]] <= len[NodeA[x]] + Weight[x]
      BY <2>3 DEF TreeInv, EdgesRelaxed
    <3> QED
      BY <2>0, <2>1, <2>3, <3>1, TypeFacts
  <2> QED
    BY <2>2, <2>3
<1> QED
  BY <1>1, TreeInvariant, PTL

(***************************************************************************)
(* What GetShortestPath collects is a path as long as the flag of the end  *)
(* says (WalkKeepsLength), whatever the estimate.                          *)
(***************************************************************************)
THEOREM WalkIsRight == Spec => WalkKeepsLength
<1> DEFINE Kept == (mode = "calc" \/ len[end] < Unreached) /\ place = "walk" /\ path' # path
       => LET x == Head(path') IN
          /\ path' = <<x>> \o path
          /\ NodeB[x] = cur /\ NodeA[x] = cur'
          /\ len[cur] = len[cur'] + Weight[x]
<1>1. TreeInv /\ [Next]_vars => [Kept]_vars
  <2> SUFFICES ASSUME TreeInv, [Next]_vars, mode = "calc" \/ len[end] < Unreached,
                      place = "walk", path' # path
               PROVE  Kept
    OBVIOUS
  <2>0. TypeOK
    BY DEF TreeInv
  <2>1. Walk
    BY DEF Next, Exhausted, Found, Skip, Settle, Relax, Relaxed, WalkEnds, vars, Dequeues
  <2> DEFINE x == prev[cur]
  <2>2. cur \in Node /\ cur # start /\ Reached(cur) /\ x \in Edge
    BY <2>0, <2>1 DEF Walk, TreeInv, EndsRightly, TypeOK, Reached
  <2>3. NodeB[x] = cur /\ len[cur] = len[NodeA[x]] + Weight[x]
    BY <2>2 DEF TreeInv, TreeEdges
  <2>4. cur' = NodeA[x]
    BY <2>1, <2>2, <2>3, OtherNode DEF Walk
  <2>5. path' = <<x>> \o path /\ path \in Seq(Edge)
    BY <2>0, <2>1 DEF Walk, TypeOK
  <2>6. Head(path') = x
    BY <2>2, <2>5
  <2> QED
    BY <2>3, <2>4, <2>5, <2>6
<1> QED
  BY <1>1, TreeInvariant, PTL DEF Spec, WalkKeepsLength

-----------------------------------------------------------------------------
(* The second layer is inductive. *)

LEMMA KeyInit == Init => KeyInv
<1> SUFFICES ASSUME Init PROVE KeyInv
  OBVIOUS
<1>1. TypeOK
  BY TypeInit
<1>2. heap = {Item(start, 0)} /\ Item(start, 0).node = start /\ Item(start, 0).key = 0
  BY DEF Init, Item
<1>3. /\ \A n \in Node : ~visited[n]
      /\ \A n \in Node : len[n] = IF n = start THEN 0 ELSE Unreached
      /\ place = "search"
  BY DEF Init
<1>4. KeysOfHeap
  BY <1>1, <1>2, <1>3, TypeFacts, EstimateFacts DEF KeysOfHeap, Reached, KeyOf
<1>5. VisitedFirst /\ StartFirst /\ EdgesTight /\ EndFirst
  BY <1>1, <1>2, <1>3, TypeFacts DEF VisitedFirst, StartFirst, EdgesTight, EndFirst
<1>6. KeysFromStart
  BY <1>1, <1>3, TypeFacts, EstimateFacts DEF KeysFromStart, Reached, KeyOf
<1> QED
  BY <1>4, <1>5, <1>6 DEF KeyInv, KeyParts

\* What an item is worth that is first in the heap, and no wrong turn taken.
LEMMA FirstItem ==
  ASSUME TreeInv, KeyParts, NEW i \in heap, Searching, \A j \in heap : i.key <= j.key,
         ~visited[i.node]
  PROVE  /\ \A n \in Node : ~visited[n] /\ Reached(n) => KeyOf(i.node) <= KeyOf(n)
         /\ \A j \in heap : i.node = start \/ KeyOf(i.node) <= j.key
         /\ \A v \in Node : visited[v] => KeyOf(v) <= KeyOf(i.node)
<1>0. TypeOK /\ i.node \in Node
  BY TypeFacts DEF TreeInv
<1>t. \A n \in Node : KeyOf(n) \in Nat
  BY <1>0, TypeFacts, EstimateFacts DEF KeyOf
<1>k. \A j \in heap : j.key \in Nat
  BY <1>0, TypeFacts
<1>1. i.node = start \/ KeyOf(i.node) <= i.key
  BY DEF KeyParts, KeysOfHeap
<1>2. \A j \in heap : i.node = start \/ KeyOf(i.node) <= j.key
  BY <1>0, <1>1, <1>t, <1>k
<1>3. ASSUME NEW n \in Node, ~visited[n], Reached(n) PROVE KeyOf(i.node) <= KeyOf(n)
  <2>1. CASE i.node = start
    <3>1. n = start
      BY <1>3, <2>1, <1>0, TypeFacts DEF KeyParts, StartFirst, Reached
    <3> QED
      BY <2>1, <3>1, <1>t
  <2>2. CASE i.node # start
    <3>1. PICK j \in heap : j.node = n /\ j.key <= KeyOf(n)
      BY <1>3 DEF KeyParts, KeysOfHeap
    <3> QED
      BY <1>2, <1>0, <2>2, <3>1, <1>t, <1>k
  <2> QED
    BY <2>1, <2>2
<1>4. ASSUME NEW v \in Node, visited[v] PROVE KeyOf(v) <= KeyOf(i.node)
  <2>1. KeyOf(v) <= i.key
    BY <1>4 DEF KeyParts, VisitedFirst
  <2>2. Reached(i.node)
    BY DEF TreeInv, OnlyReached
  <2>3. PICK j \in heap : j.node = i.node /\ j.key <= KeyOf(i.node)
    BY <1>0, <2>2 DEF KeyParts, KeysOfHeap
  <2> QED
    BY <1>0, <2>1, <2>3, <1>t, <1>k
<1> QED
  BY <1>2, <1>3, <1>4

LEMMA KeyStep == TreeInv /\ KeyInv /\ [Next]_vars => KeyInv'
<1> SUFFICES ASSUME TreeInv, KeyInv, [Next]_vars, Consistent' PROVE KeyParts'
  BY DEF KeyInv
<1>0. /\ TypeOK /\ TypeOK' /\ TreeInv' /\ Consistent /\ KeyParts
      /\ Est' = Est /\ \A n \in Node : Est[n] \in Nat
  BY TypeStep, TreeStep, EstimateFacts DEF TreeInv, KeyInv
<1>t. \A n \in Node : KeyOf(n) \in Nat
  BY <1>0, TypeFacts DEF KeyOf
<1> USE DEF KeyParts
<1>1. CASE Exhausted
  <2>1. /\ place = "search" /\ place' # "relax" /\ heap = {}
        /\ mode = "calc" => place' = "failed"
        /\ Searching' => Searching
        /\ UNCHANGED <<mode, start, end, heap, len, visited>>
    BY <1>1 DEF Exhausted, StartWalk, request, flags, Searching
  <2>2. KeysOfHeap' /\ StartFirst' /\ KeysFromStart'
    BY <1>0, <2>1 DEF KeysOfHeap, StartFirst, KeysFromStart, KeyOf, Reached
  <2>3. VisitedFirst' /\ EdgesTight' /\ EndFirst'
    BY <1>0, <2>1 DEF VisitedFirst, EdgesTight, EndFirst, KeyOf
  <2> QED
    BY <2>2, <2>3
<1>2. ASSUME NEW i \in heap, Found(i) PROVE KeyParts'
  <2>1. /\ place = "search" /\ place' = "walk" /\ heap' = heap \ {i} /\ i.node = end
        /\ \A j \in heap : i.key <= j.key
        /\ UNCHANGED <<mode, start, end, len, visited>>
    BY <1>2 DEF Found, Dequeues, StartWalk, request, flags
  <2>2. KeysOfHeap' /\ StartFirst' /\ KeysFromStart'
    BY <1>0, <2>1 DEF KeysOfHeap, StartFirst, KeysFromStart, KeyOf, Reached, Searching
  <2>3. VisitedFirst' /\ EdgesTight'
    BY <1>0, <2>1 DEF VisitedFirst, EdgesTight, KeyOf
  <2>4. \A n \in Node : ~visited[n] /\ Reached(n) => KeyOf(end) <= KeyOf(n)
    <3>1. ~visited[i.node] /\ Searching
      BY <2>1 DEF TreeInv, OnlyReached, Searching
    <3> QED
      BY <1>0, <2>1, <3>1, FirstItem
  <2>5. EndFirst'
    BY <1>0, <2>1, <2>4 DEF EndFirst, KeyOf, Reached
  <2> QED
    BY <2>2, <2>3, <2>5
<1>3. ASSUME NEW i \in heap, Skip(i) PROVE KeyParts'
  <2>1. /\ place = "search" /\ heap' = heap \ {i} /\ visited[i.node]
        /\ UNCHANGED <<mode, start, end, len, visited, place, cur, todo>>
    BY <1>3 DEF Skip, Dequeues, request, flags
  <2>2. KeysOfHeap'
    BY <1>0, <2>1 DEF KeysOfHeap, KeyOf, Reached, Searching
  <2>3. StartFirst' /\ KeysFromStart'
    BY <1>0, <2>1 DEF StartFirst, KeysFromStart, KeyOf, Reached
  <2>4. VisitedFirst' /\ EdgesTight' /\ EndFirst'
    BY <1>0, <2>1 DEF VisitedFirst, EdgesTight, EndFirst, KeyOf
  <2> QED
    BY <2>2, <2>3, <2>4
<1>4. ASSUME NEW i \in heap, Settle(i) PROVE KeyParts'
  <2> DEFINE c == i.node
  <2>1. c \in Node /\ ~visited[c] /\ Searching
    BY <1>0, <1>4, TypeFacts DEF Settle, Dequeues, Searching
  <2>2. /\ place = "search" /\ place' = "relax" /\ heap' = heap \ {i} /\ cur' = c
        /\ \A j \in heap : i.key <= j.key
        /\ todo' = {x \in Edge : NodeA[x] = c}
        /\ visited' = [visited EXCEPT ![c] = TRUE]
        /\ UNCHANGED <<mode, start, end, len>>
    BY <1>4 DEF Settle, Dequeues, request, Forward
  <2>3. visited'[c] /\ \A n \in Node : n # c => visited'[n] = visited[n]
    BY <1>0, <2>1, <2>2 DEF TypeOK
  <2>4. /\ \A j \in heap : c = start \/ KeyOf(c) <= j.key
        /\ \A v \in Node : visited[v] => KeyOf(v) <= KeyOf(c)
    BY <1>0, <2>1, <2>2, FirstItem
  <2>5. \A n \in Node : KeyOf(n)' = KeyOf(n)
    BY <1>0, <2>2 DEF KeyOf
  <2>6. KeysOfHeap'
    <3>1. \A j \in heap' : j.node = start' \/ KeyOf(j.node)' <= j.key
      BY <1>0, <2>2, <2>5, TypeFacts DEF KeysOfHeap
    <3>2. ASSUME NEW n \in Node, ~visited'[n], Reached(n)
          PROVE  \E j \in heap' : j.node = n /\ j.key <= KeyOf(n)
      <4>1. n # c /\ ~visited[n]
        BY <2>3, <3>2
      <4>2. PICK j \in heap : j.node = n /\ j.key <= KeyOf(n)
        BY <1>0, <2>1, <3>2, <4>1 DEF KeysOfHeap
      <4> QED
        BY <2>2, <4>1, <4>2
    <3> QED
      BY <2>2, <2>5, <3>1, <3>2 DEF KeysOfHeap, Reached
  <2>7. VisitedFirst'
    <3> SUFFICES ASSUME NEW v \in Node, visited'[v]
                 PROVE  /\ \A j \in heap' : KeyOf(v) <= j.key
                        /\ KeyOf(v) <= KeyOf(c)
      BY <1>0, <2>1, <2>2, <2>5 DEF VisitedFirst, KeyOf
    <3>1. CASE v # c
      BY <1>0, <2>2, <2>3, <2>4, <3>1 DEF VisitedFirst
    <3>2. CASE v = c /\ c # start
      BY <2>2, <2>4, <3>2, <1>t, <2>1
    <3>3. CASE v = c /\ c = start
      <4>1. heap \subseteq {Item(start, 0)}
        BY <1>0, <2>1, <3>3 DEF StartFirst
      <4>2. heap' = {}
        BY <2>2, <4>1
      <4> QED
        BY <3>3, <4>2, <1>t, <2>1
    <3> QED
      BY <3>1, <3>2, <3>3
  <2>8. StartFirst'
    <3>1. visited'[start]
      <4>1. CASE visited[start]
        BY <1>0, <2>3, <4>1, TypeFacts
      <4>2. CASE ~visited[start]
        BY <1>0, <2>3, <4>2 DEF StartFirst, Item
      <4> QED
        BY <4>1, <4>2
    <3> QED
      BY <2>2, <3>1 DEF StartFirst
  <2>9. EdgesTight'
    BY <1>0, <2>1, <2>2, <2>3, TypeFacts DEF EdgesTight
  <2>10. KeysFromStart' /\ EndFirst'
    BY <1>0, <2>2, <2>5 DEF KeysFromStart, EndFirst, Reached
  <2> QED
    BY <2>6, <2>7, <2>8, <2>9, <2>10
<1>5. ASSUME NEW x \in todo, Relax(x) PROVE KeyParts'
  <2> DEFINE b == NodeB[x]
             new == len[cur] + Weight[x]
             entry == Item(b, new + Estimate(b))
  <2>1. /\ x \in Edge /\ NodeA[x] = cur /\ b \in Node /\ cur \in Node
        /\ visited[cur] /\ len[cur] \in Nat /\ Weight[x] \in Nat /\ place = "relax"
        /\ Est[b] \in Nat /\ Est[cur] \in Nat /\ Est[cur] <= Weight[x] + Est[b]
    <3>1. x \in Edge /\ NodeA[x] = cur /\ cur \in Node /\ place = "relax"
      BY <1>0, <1>5 DEF Relax, TypeOK, Forward
    <3>2. len[cur] \in Nat /\ Weight[x] \in Nat /\ b \in Node
      BY <1>0, <3>1, TypeFacts
    <3>3. Est[cur] <= Weight[x] + Est[b]
      BY <1>0, <3>1, ConsistentFacts
    <3> QED
      BY <1>0, <3>1, <3>2, <3>3 DEF TreeInv, OnlyReached
  <2>2. /\ KeyOf(cur) <= new + Est[b]
        /\ todo' = todo \ {x}
        /\ UNCHANGED <<mode, start, end, visited, place, cur>>
    BY <1>5, <2>1 DEF Relax, request, KeyOf
  <2>3. visited[start]
    BY <2>1, <1>0 DEF StartFirst
  <2>4. CASE ~visited[b] /\ len[b] > new
    <3>1. /\ len' = [len EXCEPT ![b] = new]
          /\ heap' = heap \cup {entry} /\ entry.node = b /\ entry.key = new + Est[b]
      BY <1>0, <1>5, <2>1, <2>4, EstimateFacts DEF Relax, Item
    <3>2. len[b] \in Nat /\ len[b] <= Unreached /\ new \in Nat /\ Unreached \in Nat
      BY <1>0, <2>1, TypeFacts
    <3> HIDE DEF entry, new
    <3>3. /\ len'[b] = new
          /\ \A n \in Node : n # b => len'[n] = len[n]
      BY <1>0, <2>1, <3>1, <3>2 DEF TypeOK
    <3>4. /\ KeyOf(b)' = new + Est[b] /\ KeyOf(b)' <= KeyOf(b) /\ KeyOf(b)' \in Nat
          /\ \A n \in Node : n # b => KeyOf(n)' = KeyOf(n)
          /\ KeyOf(cur)' = KeyOf(cur)
      <4>1. \A n \in Node : KeyOf(n)' = len'[n] + Est[n]
        BY <1>0 DEF KeyOf
      <4>2. KeyOf(cur)' = len'[cur] + Est[cur]
        BY <1>0, <2>2 DEF KeyOf
      <4> QED
        BY <2>1, <2>4, <3>2, <3>3, <4>1, <4>2 DEF KeyOf
    <3>5. KeysOfHeap'
      <4>1. \A j \in heap' : j.node = start' \/ KeyOf(j.node)' <= j.key
        <5> SUFFICES ASSUME NEW j \in heap', j.node # start PROVE KeyOf(j.node)' <= j.key
          BY <2>2
        <5>1. CASE j = entry
          BY <3>1, <3>4, <5>1, <3>2, <2>1
        <5>2. CASE j \in heap
          <6>1. KeyOf(j.node) <= j.key /\ j.node \in Node /\ j.key \in Nat
            BY <1>0, <5>2, TypeFacts DEF KeysOfHeap
          <6> QED
            BY <3>4, <6>1, <1>t
        <5> QED
          BY <3>1, <5>1, <5>2
      <4>2. ASSUME NEW n \in Node, ~visited[n], Reached(n)'
            PROVE  \E j \in heap' : j.node = n /\ j.key <= KeyOf(n)'
        <5>1. CASE n = b
          BY <3>1, <3>4, <5>1, <2>1, <3>2
        <5>2. CASE n # b
          <6>1. Reached(n)
            BY <3>3, <4>2, <5>2 DEF Reached
          <6>2. PICK j \in heap : j.node = n /\ j.key <= KeyOf(n)
            BY <1>0, <2>1, <4>2, <6>1 DEF KeysOfHeap, Searching
          <6> QED
            BY <3>1, <3>4, <5>2, <6>2
        <5> QED
          BY <5>1, <5>2
      <4> QED
        BY <2>2, <4>1, <4>2 DEF KeysOfHeap
    <3>6. VisitedFirst'
      <4> SUFFICES ASSUME NEW v \in Node, visited[v]
                   PROVE  /\ \A j \in heap' : KeyOf(v)' <= j.key
                          /\ KeyOf(v)' <= KeyOf(cur)'
        BY <2>2 DEF VisitedFirst
      <4>1. KeyOf(v)' = KeyOf(v) /\ KeyOf(v) <= KeyOf(cur) /\ \A j \in heap : KeyOf(v) <= j.key
        BY <1>0, <2>1, <2>4, <3>4 DEF VisitedFirst
      <4>2. KeyOf(v) <= entry.key
        BY <2>1, <2>2, <3>1, <3>2, <4>1, <1>t
      <4> QED
        BY <3>1, <3>4, <4>1, <4>2
    <3>7. EdgesTight'
      <4> SUFFICES ASSUME NEW y \in Edge, visited[NodeA[y]]
                   PROVE  \/ place = "relax" /\ NodeA[y] = cur /\ y \in todo'
                          \/ len'[NodeB[y]] <= len'[NodeA[y]] + Weight[y]
        BY <2>2 DEF EdgesTight
      <4>1. /\ NodeA[y] \in Node /\ NodeB[y] \in Node /\ NodeA[y] # b
            /\ len[NodeA[y]] \in Nat /\ len[NodeB[y]] \in Nat /\ Weight[y] \in Nat
        BY <1>0, TypeFacts, <2>4
      <4>2. len'[NodeA[y]] = len[NodeA[y]] /\ len'[NodeB[y]] <= len[NodeB[y]]
            /\ len'[NodeB[y]] \in Nat
        BY <2>4, <3>2, <3>3, <4>1
      <4>3. CASE y = x
        BY <2>1, <3>3, <4>2, <4>3 DEF new
      <4>4. CASE y # x
        BY <1>0, <2>2, <4>1, <4>2, <4>4 DEF EdgesTight
      <4> QED
        BY <4>3, <4>4
    <3>8. KeysFromStart'
      <4> SUFFICES ASSUME NEW n \in Node, Reached(n)' PROVE Est[start] <= KeyOf(n)'
        BY <1>0, <2>2 DEF KeysFromStart
      <4>1. Est[start] \in Nat /\ Est[start] <= KeyOf(cur)
        BY <1>0, <2>1, TypeFacts DEF KeysFromStart, TreeInv, OnlyReached
      <4>2. CASE n = b
        BY <2>1, <2>2, <3>2, <3>4, <4>1, <4>2, <1>t
      <4>3. CASE n # b
        BY <1>0, <3>3, <3>4, <4>3 DEF KeysFromStart, Reached
      <4> QED
        BY <4>2, <4>3
    <3>9. StartFirst' /\ EndFirst'
      BY <2>1, <2>2, <2>3 DEF StartFirst, EndFirst
    <3> QED
      BY <3>5, <3>6, <3>7, <3>8, <3>9
  <2>5. CASE ~(~visited[b] /\ len[b] > new)
    <3>1. UNCHANGED <<heap, len>>
      BY <1>5, <2>5 DEF Relax
    <3>2. KeysOfHeap' /\ StartFirst' /\ KeysFromStart'
      BY <1>0, <2>2, <3>1 DEF KeysOfHeap, StartFirst, KeysFromStart, KeyOf, Reached, Searching
    <3>3. VisitedFirst' /\ EndFirst'
      BY <1>0, <2>2, <3>1 DEF VisitedFirst, EndFirst, KeyOf, Reached
    <3>4. len[b] <= new
      <4>1. len[b] \in Nat
        BY <1>0, <2>1, TypeFacts
      <4>2. CASE visited[b]
        <5>1. KeyOf(b) <= KeyOf(cur)
          BY <1>0, <2>1, <4>2 DEF VisitedFirst
        <5> QED
          BY <2>1, <4>1, <5>1 DEF KeyOf
      <4> QED
        BY <2>1, <2>5, <4>1, <4>2
    <3>5. EdgesTight'
      BY <1>0, <2>1, <2>2, <3>1, <3>4 DEF EdgesTight
    <3> QED
      BY <3>2, <3>3, <3>5
  <2> QED
    BY <2>4, <2>5
<1>6. CASE Relaxed
  <2>1. /\ place = "relax" /\ place' = "search" /\ todo = {}
        /\ UNCHANGED <<mode, start, end, heap, len, visited, cur, todo>>
    BY <1>6 DEF Relaxed, request, flags
  <2>2. KeysOfHeap' /\ StartFirst' /\ KeysFromStart'
    BY <1>0, <2>1 DEF KeysOfHeap, StartFirst, KeysFromStart, KeyOf, Reached, Searching
  <2>3. VisitedFirst' /\ EdgesTight' /\ EndFirst'
    BY <1>0, <2>1 DEF VisitedFirst, EdgesTight, EndFirst, KeyOf
  <2> QED
    BY <2>2, <2>3
<1>7. CASE Walk \/ WalkEnds
  <2>1. /\ place = "walk" /\ place' \in {"walk", "answered", "panic"}
        /\ UNCHANGED <<mode, start, end, heap, len, visited>>
    BY <1>7 DEF Walk, WalkEnds, request, flags
  <2>2. KeysOfHeap' /\ StartFirst' /\ KeysFromStart'
    BY <1>0, <2>1 DEF KeysOfHeap, StartFirst, KeysFromStart, KeyOf, Reached, Searching
  <2>3. VisitedFirst' /\ EdgesTight' /\ EndFirst'
    BY <1>0, <2>1 DEF VisitedFirst, EdgesTight, EndFirst, KeyOf, Reached
  <2> QED
    BY <2>2, <2>3
<1>8. CASE UNCHANGED vars
  BY <1>0, <1>8 DEF vars, request, flags, KeysOfHeap, VisitedFirst, StartFirst, EdgesTight, KeysFromStart,
      EndFirst, KeyOf, Reached, Searching
<1> QED
  BY <1>1, <1>2, <1>3, <1>4, <1>5, <1>6, <1>7, <1>8, Steps

LEMMA KeyInvariant == Spec => [](TreeInv /\ KeyInv)
  BY TreeInit, TreeStep, KeyInit, KeyStep, PTL DEF Spec

(***************************************************************************)
(* An answer is a shortest path: the flags are a certificate of it         *)
(* (Certified), for Dijkstra and, if its estimate is consistent, for A*.   *)
(***************************************************************************)
THEOREM AnswerIsCertified == Spec => []Certified
<1>1. ASSUME TreeInv, KeyInv PROVE Certified
  <2> SUFFICES ASSUME mode = "calc", place \in {"walk", "answered"}, Consistent
               PROVE  /\ IsPotential([n \in Node |-> CutOff(n)])
                      /\ CutOff(start) = 0
                      /\ CutOff(end) = len[end]
    BY DEF Certified
  <2> DEFINE rest(n) == len[end] + Est[end] - Est[n]
  <2>0. TypeOK /\ KeyParts
    BY <1>1 DEF TreeInv, KeyInv
  <2>1. /\ \A n \in Node : len[n] \in Nat /\ len[n] <= Unreached /\ Est[n] \in Nat
        /\ \A x \in Edge : NodeA[x] \in Node /\ NodeB[x] \in Node /\ Weight[x] \in Nat
        /\ Unreached \in Nat /\ start \in Node /\ end \in Node
    BY <2>0, TypeFacts, EstimateFacts
  <2>2. \A n \in Node : CutOff(n) = IF len[n] <= rest(n) THEN len[n] ELSE rest(n)
    BY <2>0, <2>1, EstimateFacts DEF CutOff
  <2>3. ASSUME NEW x \in Edge PROVE CutOff(NodeB[x]) <= CutOff(NodeA[x]) + Weight[x]
    <3> DEFINE a == NodeA[x]
               b == NodeB[x]
    <3>1. Est[a] <= Weight[x] + Est[b]
      BY <2>0, ConsistentFacts
    <3>2. rest(b) <= rest(a) + Weight[x]
      BY <2>1, <3>1
    <3>3. CASE visited[a]
      <4>1. len[b] <= len[a] + Weight[x]
        BY <2>0, <3>3 DEF KeyParts, EdgesTight
      <4> QED
        BY <2>1, <2>2, <3>2, <4>1
    <3>4. CASE ~visited[a] /\ Reached(a)
      <4>1. KeyOf(end) <= KeyOf(a)
        BY <2>0, <2>1, <3>4 DEF KeyParts, EndFirst
      <4>2. rest(a) <= len[a]
        BY <2>1, <4>1 DEF KeyOf
      <4> QED
        BY <2>1, <2>2, <3>2, <4>2
    <3>5. CASE ~Reached(a)
      <4>1. len[b] <= len[a]
        BY <2>1, <3>5 DEF Reached
      <4> QED
        BY <2>1, <2>2, <3>2, <4>1
    <3> QED
      BY <3>3, <3>4, <3>5
  <2>4. CutOff(start) = 0
    <3>1. len[start] = 0 /\ Reached(end)
      BY <1>1 DEF TreeInv, OnlyReached, EndsRightly
    <3>2. rest(start) >= 0
      BY <2>0, <2>1, <3>1 DEF KeyParts, KeysFromStart, KeyOf
    <3> QED
      BY <2>1, <2>2, <3>1, <3>2
  <2>5. CutOff(end) = len[end]
    BY <2>1, <2>2
  <2> HIDE DEF rest
  <2> QED
    BY <2>1, <2>3, <2>4, <2>5 DEF IsPotential
<1> QED
  BY <1>1, KeyInvariant, PTL
=============================================================================
