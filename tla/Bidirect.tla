------------------------------ MODULE Bidirect ------------------------------
(***************************************************************************)
(* routing/bidirect_dijkstra.go and routing/bidirect_astar.go: one query   *)
(* whose two searches, from the start along the edges and from the end     *)
(* against them, take turns until they meet.  The two files differ in the  *)
(* key of a node, in what their stop test compares and in that Steps of A* *)
(* also ends at a node that the other search has visited.                  *)
(*                                                                         *)
(* The stop test adds up what Peek returns, and that is the numbers of the *)
(* two nodes on top, not their keys.  It decides nothing but when to stop: *)
(* the answer is a route of the length of its labels, not a shortest one.  *)
(*                                                                         *)
(* An empty heap gives node 0, which is then taken for the next node.      *)
(***************************************************************************)
EXTENDS Routes, Distances

CONSTANTS Id,         \* the number of each node
          FirstNode, FirstEdge, \* node 0 and edge 0: what an unset variable names
          Lambda,     \* astar: travel time as the crow flies, to an end from a node
          Air,        \* astar: HaversineDistance from a start to an end, in metres
          Unreached,  \* the first path_length of a flag
          MaxRoute    \* bound: the edges GetShortestPath collects

ASSUME BidirectAssumption ==
  /\ Id \in [Node -> Nat] /\ \A m, n \in Node : Id[m] = Id[n] => m = n
  /\ FirstNode \in Node /\ Id[FirstNode] = 0
  /\ FirstEdge \in Edge
  /\ Lambda \in [Node -> [Node -> Nat]]
  /\ Air \in [Node -> [Node -> Nat]]
  /\ Unreached \in Nat \ {0} /\ MaxRoute \in Nat

Side == {"start", "end"}
Opposite(s) == IF s = "start" THEN "end" ELSE "start"

VARIABLES alg, mode, start, end,  \* the request
          heaps,                  \* of each side: items of a node and its key
          lens, prevs, seen,      \* of each side the flags: path_length, prev_edge, visited
          mid, finished,          \* where the searches met
          turn, place, cur, todo, \* the side at work, its node, the edges still to be relaxed
          route                   \* what GetShortestPath has collected

request == <<alg, mode, start, end>>
flags == <<lens, prevs, seen>>
vars == <<request, heaps, flags, mid, finished, turn, place, cur, todo, route>>

Item(n, k) == [node |-> n, key |-> k]

\* Twice the key: the estimates of both searches are halved so that they add up
\* to a constant along every edge.
Key(s, n, length) ==
  IF alg # "A*" THEN 2 * length
  ELSE 2 * length + Air[start][end]
         + IF s = "start" THEN Lambda[end][n] - Lambda[start][n]
                          ELSE Lambda[start][n] - Lambda[end][n]

BidirectInit ==
  /\ alg \in {"Dijkstra", "A*"}
  /\ mode \in {"calc", "steps"}
  /\ start \in Node /\ end \in Node
  /\ heaps = [s \in Side |-> {Item(IF s = "start" THEN start ELSE end, 0)}]
  /\ lens = [s \in Side |->
       [n \in Node |-> IF n = (IF s = "start" THEN start ELSE end) THEN 0 ELSE Unreached]]
  /\ prevs = [s \in Side |-> [n \in Node |-> FirstEdge]]
  /\ seen = [s \in Side |-> [n \in Node |-> FALSE]]
  /\ mid = FirstNode
  /\ finished = FALSE
  /\ turn = "start"
  /\ place = "search"
  /\ cur = FirstNode
  /\ todo = {}
  /\ route = <<>>

Around(s, n) == IF s = "start" THEN Forward(n) ELSE Backward(n)
OtherEnd(s, x) == IF s = "start" THEN NodeB[x] ELSE NodeA[x]

\* The items that can be on top of a heap.
Tops(s) == {i \in heaps[s] : \A j \in heaps[s] : i.key <= j.key}

-----------------------------------------------------------------------------
(* CalcShortestPath and Steps.  A portion of Steps ends after a turn of the *)
(* end, or of a start that is passed over; the next one goes on with the    *)
(* start, as the loop would have.                                          *)

\* Dequeue; from an empty heap it gives node 0.
Takes(s, n) ==
  IF heaps[s] = {} THEN n = FirstNode /\ UNCHANGED heaps
  ELSE \E i \in Tops(s) : n = i.node /\ heaps' = [heaps EXCEPT ![s] = @ \ {i}]

\* An item that a shorter one has overtaken; the start goes next, even if this
\* was its turn.
Continue ==
  /\ place = "search"
  /\ \E n \in Node : seen[turn][n] /\ Takes(turn, n)
  /\ turn' = "start"
  /\ UNCHANGED <<request, flags, mid, finished, place, cur, todo, route>>

\* Steps of A* stops at a node that both have visited: on the side of the start
\* after its edges, on that of the end at once.
Crossed(n) == alg = "A*" /\ mode = "steps" /\ seen[Opposite(turn)][n]

Settle ==
  /\ place = "search"
  /\ \E n \in Node :
       /\ ~seen[turn][n]
       /\ Takes(turn, n)
       /\ mid' = IF Crossed(n) THEN n ELSE mid
       /\ finished' = Crossed(n)
       /\ IF Crossed(n) /\ turn = "end"
            THEN place' = "back" /\ cur' = n /\ UNCHANGED <<seen, todo>>
            ELSE /\ place' = "relax" /\ cur' = n
                 /\ seen' = [seen EXCEPT ![turn][n] = TRUE]
                 /\ todo' = Around(turn, n)
  /\ UNCHANGED <<request, lens, prevs, turn, route>>

\* The stop test with a path of the given length: both heaps have a top.
StopTest(length, stop) ==
  IF heaps["start"] = {} \/ heaps["end"] = {} THEN ~stop
  ELSE \E i \in Tops("start"), j \in Tops("end") :
         stop = (Id[i.node] + Id[j.node] + (IF alg = "A*" THEN Air[start][end] ELSE 0) >= length)

\* Mutant: a node that has a label keeps it.
RelaxOnce(x) ==
  LET o == OtherEnd(turn, x)
      new == lens[turn][cur] + Weight[x]
      closed == seen[turn][o] /\ o # cur
  IN
  /\ place = "relax" /\ x \in todo
  /\ todo' = todo \ {x}
  /\ \E stop \in BOOLEAN :
       /\ IF ~closed /\ seen[Opposite(turn)][o]
            THEN StopTest(new + lens[Opposite(turn)][o], stop) ELSE ~stop
       /\ IF stop THEN mid' = o /\ finished' = TRUE ELSE UNCHANGED <<mid, finished>>
       /\ IF ~closed /\ o # cur /\ (stop \/ lens[turn][o] = Unreached)
            THEN /\ lens' = [lens EXCEPT ![turn][o] = new]
                 /\ prevs' = [prevs EXCEPT ![turn][o] = x]
            ELSE UNCHANGED <<lens, prevs>>
       /\ heaps' = IF ~closed /\ ~stop /\ lens[turn][o] = Unreached
                     THEN [heaps EXCEPT ![turn] = @ \cup {Item(o, Key(turn, o, new))}]
                     ELSE heaps
  /\ UNCHANGED <<request, seen, turn, place, cur, route>>

\* The flag of the node at work is written back after the last of its edges: an
\* edge to itself finds it not visited, and what it writes is lost.  When the
\* test says stop, the label is set even if it was shorter.
Relax(x) ==
  LET o == OtherEnd(turn, x)
      new == lens[turn][cur] + Weight[x]
      closed == seen[turn][o] /\ o # cur
  IN
  /\ place = "relax" /\ x \in todo
  /\ todo' = todo \ {x}
  /\ \E stop \in BOOLEAN :
       /\ IF ~closed /\ seen[Opposite(turn)][o]
            THEN StopTest(new + lens[Opposite(turn)][o], stop) ELSE ~stop
       /\ IF stop THEN mid' = o /\ finished' = TRUE ELSE UNCHANGED <<mid, finished>>
       /\ IF ~closed /\ o # cur /\ (stop \/ lens[turn][o] > new)
            THEN /\ lens' = [lens EXCEPT ![turn][o] = new]
                 /\ prevs' = [prevs EXCEPT ![turn][o] = x]
            ELSE UNCHANGED <<lens, prevs>>
       /\ heaps' = IF ~closed /\ ~stop /\ lens[turn][o] > new
                     THEN [heaps EXCEPT ![turn] = @ \cup {Item(o, Key(turn, o, new))}]
                     ELSE heaps
  /\ UNCHANGED <<request, seen, turn, place, cur, route>>

Relaxed ==
  /\ place = "relax" /\ todo = {}
  /\ turn' = Opposite(turn)
  /\ IF finished THEN place' = "back" /\ cur' = mid ELSE place' = "search" /\ UNCHANGED cur
  /\ UNCHANGED <<request, heaps, flags, mid, finished, todo, route>>

-----------------------------------------------------------------------------
(* GetShortestPath: from the middle back to the start, the edges turned     *)
(* round, and from the middle on to the end.                                *)

WalkBack ==
  /\ place = "back" /\ Len(route) < MaxRoute
  /\ IF cur = start
       THEN place' = "on" /\ cur' = mid /\ UNCHANGED route
       ELSE /\ route' = <<prevs["start"][cur]>> \o route
            /\ cur' = GetOtherNode(prevs["start"][cur], cur)
            /\ place' = IF cur' = NoNode THEN "panic" ELSE "back"
  /\ UNCHANGED <<request, heaps, flags, mid, finished, turn, todo>>

\* Mutant: the second half is collected in front of the first.
WalkOnInFront ==
  /\ place = "on" /\ Len(route) < MaxRoute
  /\ IF cur = end
       THEN place' = "answered" /\ UNCHANGED <<cur, route>>
       ELSE /\ route' = <<prevs["end"][cur]>> \o route
            /\ cur' = GetOtherNode(prevs["end"][cur], cur)
            /\ place' = IF cur' = NoNode THEN "panic" ELSE "on"
  /\ UNCHANGED <<request, heaps, flags, mid, finished, turn, todo>>

\* Mutant: the second half is read from the flags of the start.
WalkOnBackwards ==
  /\ place = "on" /\ Len(route) < MaxRoute
  /\ IF cur = end
       THEN place' = "answered" /\ UNCHANGED <<cur, route>>
       ELSE /\ route' = Append(route, prevs["start"][cur])
            /\ cur' = GetOtherNode(prevs["start"][cur], cur)
            /\ place' = IF cur' = NoNode THEN "panic" ELSE "on"
  /\ UNCHANGED <<request, heaps, flags, mid, finished, turn, todo>>

WalkOn ==
  /\ place = "on" /\ Len(route) < MaxRoute
  /\ IF cur = end
       THEN place' = "answered" /\ UNCHANGED <<cur, route>>
       ELSE /\ route' = Append(route, prevs["end"][cur])
            /\ cur' = GetOtherNode(prevs["end"][cur], cur)
            /\ place' = IF cur' = NoNode THEN "panic" ELSE "on"
  /\ UNCHANGED <<request, heaps, flags, mid, finished, turn, todo>>

BidirectNext ==
  \/ Continue
  \/ Settle
  \/ \E x \in todo : Relax(x)
  \/ Relaxed
  \/ WalkBack
  \/ WalkOn

\* The handler's goroutine is run.
BidirectSpec == BidirectInit /\ [][BidirectNext]_vars /\ WF_vars(BidirectNext)

-----------------------------------------------------------------------------
Origin(s) == IF s = "start" THEN start ELSE end
Arcs(s) == {[from |-> IF s = "start" THEN NodeA[x] ELSE NodeB[x],
             to |-> OtherEnd(s, x), weight |-> Weight[x]] : x \in Edge}

(***************************************************************************)
(* Until the searches have met, the label of a node that a bidirectional   *)
(* Dijkstra has visited from one side is its distance from that side's     *)
(* end: the side's turns, the items passed over and the early stop test of *)
(* the other side do not disturb it.  (Node 0 may be visited without a     *)
(* label, when the heap has run dry.)                                      *)
(***************************************************************************)
SettledIsExact ==
  alg = "Dijkstra" /\ ~finished =>
    \A s \in Side : LET dist == DistancesFrom(Origin(s), Node, Arcs(s), Unreached) IN
      \A n \in Node : seen[s][n] /\ lens[s][n] < Unreached => lens[s][n] = dist[n]

(***************************************************************************)
(* However early the stop test lets the searches end, and though it        *)
(* overwrites labels as it does, what the request is answered with is a    *)
(* route: its edges join from the start to the end, and weigh what the two *)
(* labels of the middle add up to.  (The middle has no label only if Steps *)
(* of A* found node 0 on an empty heap.)                                   *)
(***************************************************************************)
RouteIsReal ==
  (\A s \in Side : lens[s][mid] < Unreached) =>
  /\ place # "panic"
  /\ place = "answered" =>
       RealRoute(route, start, end, lens["start"][mid] + lens["end"][mid])

(***************************************************************************)
(* A search ends and its route is read, unless a heap runs dry first: then *)
(* the stop test can never say yes again, and CalcShortestPath never       *)
(* returns.  It does so for an end that cannot be reached, and for one     *)
(* whose nodes have small numbers.                                         *)
(***************************************************************************)
AnswersOrRunsDry ==
  <>(place = "answered" \/ \E s \in Side : place = "search" /\ heaps[s] = {})
=============================================================================
