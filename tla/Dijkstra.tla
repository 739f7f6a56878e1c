------------------------------ MODULE Dijkstra ------------------------------
(***************************************************************************)
(* routing/dijkstra.go and routing/astar.go: one shortest path query.  The *)
(* two differ in the key under which a node is put in the heap: its path   *)
(* length, or that plus an estimate of what remains to the end.            *)
(*                                                                         *)
(* A query is run by HandleRoutingRequest (CalcShortestPath, and           *)
(* GetShortestPath if that returned true) or in portions by                *)
(* HandleRoutingStepRequest (Steps, and GetShortestPath when that returned *)
(* false).  Between two portions nothing changes, so a portion is as many  *)
(* steps as one likes.                                                     *)
(*                                                                         *)
(* A step is one turn of a loop: an item that leaves the heap, an edge     *)
(* that is relaxed, an edge of the answer.  The edges of a node may come   *)
(* in any order.  The flag of the node whose edges are relaxed is written  *)
(* back after the last of them; it is written before the first here, which *)
(* only an edge from the node to itself could tell, and that never         *)
(* shortens a path.                                                        *)
(***************************************************************************)
EXTENDS RoadGraph, Sequences

CONSTANTS Lambda,     \* astar.go's estimate: for each end, one for each node
          FirstEdge,  \* edge 0, which a flag that was never set points to
          Unreached,  \* the first path_length of a flag
          MaxPath     \* bound: the edges GetShortestPath collects

ASSUME SearchAssumption ==
  /\ FirstEdge \in Edge
  /\ Unreached \in Nat \ {0}
  /\ MaxPath \in Nat
  /\ Lambda \in [Node -> [Node -> Nat]]

VARIABLES alg, mode, start, end,  \* the request
          heap,    \* items of a node and the key it was put in with
          len, prev, visited, \* the flags: path_length, prev_edge, visited
          place, cur, todo,   \* the node at work and its edges still to be relaxed
          path     \* what GetShortestPath has collected, in the order of travel

request == <<alg, mode, start, end>>
flags == <<len, prev, visited>>
vars == <<request, heap, flags, place, cur, todo, path>>

Item(n, k) == [node |-> n, key |-> k]

\* What is added to the path length in the key.
Estimate(n) == IF alg = "A*" THEN Lambda[end][n] ELSE 0

Init ==
  /\ alg \in {"Dijkstra", "A*"}
  /\ mode \in {"calc", "steps"}
  /\ start \in Node /\ end \in Node
  /\ heap = {Item(start, 0)}
  /\ len = [n \in Node |-> IF n = start THEN 0 ELSE Unreached]
  /\ prev = [n \in Node |-> FirstEdge]
  /\ visited = [n \in Node |-> FALSE]
  /\ place = "search"
  /\ cur = NoNode
  /\ todo = {}
  /\ path = <<>>

-----------------------------------------------------------------------------
(* CalcShortestPath and Steps. *)

\* GetShortestPath begins at the end.
StartWalk == place' = "walk" /\ cur' = end

Dequeues(i) ==
  /\ place = "search"
  /\ i \in heap
  /\ \A j \in heap : i.key <= j.key
  /\ heap' = heap \ {i}

\* Nothing is left: CalcShortestPath and Steps return false, which only the
\* first caller takes for a failure.
Exhausted ==
  /\ place = "search"
  /\ heap = {}
  /\ IF mode = "calc" THEN place' = "failed" /\ UNCHANGED cur ELSE StartWalk
  /\ UNCHANGED <<request, heap, flags, todo, path>>

Found(i) ==
  /\ Dequeues(i)
  /\ i.node = end
  /\ StartWalk
  /\ UNCHANGED <<request, flags, todo, path>>

\* An item that a shorter one has overtaken.
Skip(i) ==
  /\ Dequeues(i)
  /\ i.node # end
  /\ visited[i.node]
  /\ UNCHANGED <<request, flags, place, cur, todo, path>>

\* Mutant: the edges into the node are taken for those out of it.
SettleBackward(i) ==
  /\ Dequeues(i)
  /\ i.node # end
  /\ ~visited[i.node]
  /\ visited' = [visited EXCEPT ![i.node] = TRUE]
  /\ place' = "relax"
  /\ cur' = i.node
  /\ todo' = Backward(i.node)
  /\ UNCHANGED <<request, len, prev, path>>

Settle(i) ==
  /\ Dequeues(i)
  /\ i.node # end
  /\ ~visited[i.node]
  /\ visited' = [visited EXCEPT ![i.node] = TRUE]
  /\ place' = "relax"
  /\ cur' = i.node
  /\ todo' = Forward(i.node)
  /\ UNCHANGED <<request, len, prev, path>>

\* Mutant: a visited node may still be improved, and an equal length is taken
\* for an improvement.
RelaxLoosely(x) ==
  LET b == NodeB[x]
      new == len[cur] + Weight[x]
  IN
  /\ place = "relax"
  /\ x \in todo
  /\ todo' = todo \ {x}
  /\ IF len[b] >= new
       THEN /\ len' = [len EXCEPT ![b] = new]
            /\ prev' = [prev EXCEPT ![b] = x]
            /\ heap' = heap \cup {Item(b, new + Estimate(b))}
       ELSE UNCHANGED <<len, prev, heap>>
  /\ UNCHANGED <<request, visited, place, cur, path>>

\* Mutant: only the first path to a node counts.
RelaxOnce(x) ==
  LET b == NodeB[x]
      new == len[cur] + Weight[x]
  IN
  /\ place = "relax"
  /\ x \in todo
  /\ todo' = todo \ {x}
  /\ IF len[b] = Unreached
       THEN /\ len' = [len EXCEPT ![b] = new]
            /\ prev' = [prev EXCEPT ![b] = x]
            /\ heap' = heap \cup {Item(b, new + Estimate(b))}
       ELSE UNCHANGED <<len, prev, heap>>
  /\ UNCHANGED <<request, visited, place, cur, path>>

Relax(x) ==
  LET b == NodeB[x]
      new == len[cur] + Weight[x]
  IN
  /\ place = "relax"
  /\ x \in todo
  /\ todo' = todo \ {x}
  /\ IF ~visited[b] /\ len[b] > new
       THEN /\ len' = [len EXCEPT ![b] = new]
            /\ prev' = [prev EXCEPT ![b] = x]
            /\ heap' = heap \cup {Item(b, new + Estimate(b))}
       ELSE UNCHANGED <<len, prev, heap>>
  /\ UNCHANGED <<request, visited, place, cur, path>>

Relaxed ==
  /\ place = "relax"
  /\ todo = {}
  /\ place' = "search"
  /\ UNCHANGED <<request, heap, flags, cur, todo, path>>

-----------------------------------------------------------------------------
(* GetShortestPath: back along the flags.  A flag that was never set points *)
(* to edge 0; if the node is no end of it the next flag is that of node -1, *)
(* and the index is out of range.                                           *)

\* Mutant: the next node is the head of the edge.
WalkInPlace ==
  /\ place = "walk"
  /\ cur # start
  /\ Len(path) < MaxPath
  /\ path' = <<prev[cur]>> \o path
  /\ cur' = NodeB[prev[cur]]
  /\ UNCHANGED <<request, heap, flags, todo, place>>

Walk ==
  /\ place = "walk"
  /\ cur # start
  /\ Len(path) < MaxPath
  /\ path' = <<prev[cur]>> \o path
  /\ LET other == GetOtherNode(prev[cur], cur) IN
       /\ cur' = other
       /\ place' = IF other = NoNode THEN "panic" ELSE "walk"
  /\ UNCHANGED <<request, heap, flags, todo>>

WalkEnds ==
  /\ place = "walk"
  /\ cur = start
  /\ place' = "answered"
  /\ UNCHANGED <<request, heap, flags, cur, todo, path>>

Next ==
  \/ Exhausted
  \/ \E i \in heap : Found(i) \/ Skip(i) \/ Settle(i)
  \/ \E x \in todo : Relax(x)
  \/ Relaxed
  \/ Walk
  \/ WalkEnds

Spec == Init /\ [][Next]_vars
\* The handler's goroutine is run.
FairSpec == Spec /\ WF_vars(Next)

-----------------------------------------------------------------------------
(***************************************************************************)
(* The flags, the heap and the place of the search have their types.  The  *)
(* node at work is a real node unless the search has gone wrong.           *)
(***************************************************************************)
TypeOK ==
  /\ alg \in {"Dijkstra", "A*"} /\ mode \in {"calc", "steps"}
  /\ start \in Node /\ end \in Node
  /\ heap \subseteq [node : Node, key : Nat]
  /\ len \in [Node -> 0..Unreached]
  /\ prev \in [Node -> Edge]
  /\ visited \in [Node -> BOOLEAN]
  /\ place \in {"search", "relax", "walk", "answered", "failed", "panic"}
  /\ cur \in Node \cup {NoNode}
  /\ place \in {"relax", "walk", "answered"} => cur \in Node
  /\ todo \subseteq Forward(cur)
  /\ place # "relax" => todo = {}
  /\ path \in Seq(Edge)

-----------------------------------------------------------------------------
(* Why an answer is shortest, without a look at all the paths: a potential  *)
(* that grows along no edge by more than the edge's weight bounds every     *)
(* path from below by the difference of its values at the two ends.         *)

IsPotential(p) == \A x \in Edge : p[NodeB[x]] <= p[NodeA[x]] + Weight[x]

\* Along an edge the estimate falls by no more than the weight.  The code takes
\* that for granted: weights are cut to whole seconds, and at 130 km/h or more
\* an edge may be quicker than the estimate allows.
Consistent == \A x \in Edge : Estimate(NodeA[x]) <= Weight[x] + Estimate(NodeB[x])

\* The flags, cut off at what the end was settled with.
CutOff(n) ==
  LET rest == len[end] + Estimate(end) - Estimate(n)
  IN IF len[n] <= rest THEN len[n] ELSE rest

(***************************************************************************)
(* Once CalcShortestPath has returned true, the flags hold a certificate   *)
(* that no path from start to end is shorter than path_length of the end:  *)
(* cut off at that length they are a potential, which is zero at the start *)
(* and the whole length at the end.  So it is for Dijkstra, and for A* if   *)
(* its estimate is consistent.                                             *)
(***************************************************************************)
Certified ==
  mode = "calc" /\ place \in {"walk", "answered"} /\ Consistent
    => /\ IsPotential([n \in Node |-> CutOff(n)])
       /\ CutOff(start) = 0
       /\ CutOff(end) = len[end]

(***************************************************************************)
(* After CalcShortestPath, and after Steps if the end was reached,         *)
(* GetShortestPath goes, edge by edge, from a node to the tail of an edge  *)
(* that ends there, and the path_length of the node falls by just the      *)
(* weight of the edge: what it collects is a path, as long as the flag of  *)
(* the end says.  So it is whatever the estimate.                          *)
(***************************************************************************)
WalkKeepsLength ==
  [][(mode = "calc" \/ len[end] < Unreached) /\ place = "walk" /\ path' # path
       => LET x == Head(path') IN
          /\ path' = <<x>> \o path
          /\ NodeB[x] = cur /\ NodeA[x] = cur'
          /\ len[cur] = len[cur'] + Weight[x]]_vars

(***************************************************************************)
(* CalcShortestPath gives up only if the end cannot be reached: the nodes  *)
(* it has visited hold the start and not the end, and no edge leads out of *)
(* them (but for paths as long as the number that stands for unreached).   *)
(***************************************************************************)
FailsRightly ==
  place = "failed" =>
    /\ visited[start] /\ ~visited[end]
    /\ \A x \in Edge : visited[NodeA[x]] /\ ~visited[NodeB[x]]
         => len[NodeA[x]] + Weight[x] >= Unreached

(***************************************************************************)
(* A routing request is answered: with a path, or with "routing failed".   *)
(* (A drawn search whose end cannot be reached may walk for ever.)         *)
(***************************************************************************)
CalcAnswers == mode = "calc" => <>(place \in {"answered", "failed"})
=============================================================================
