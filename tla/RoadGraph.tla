----------------------------- MODULE RoadGraph -----------------------------
(***************************************************************************)
(* graph/graph.go: the base graph with one weighting, as the searches see  *)
(* it.  An explorer walks the adjacency of a node forwards (its outgoing   *)
(* edges) or backwards.  Nodes and edges are numbers in the code; -1, which *)
(* GetOtherNode returns for a node that is no end of the edge, is NoNode.  *)
(***************************************************************************)
EXTENDS Integers, FiniteSets

CONSTANTS Node, Edge,
          NodeA, NodeB,  \* the tail and the head of each edge
          Weight,        \* of each edge, an int32 that is never negative
          NoNode

ASSUME GraphAssumption ==
  /\ NodeA \in [Edge -> Node]
  /\ NodeB \in [Edge -> Node]
  /\ Weight \in [Edge -> Nat]
  /\ NoNode \notin Node
ASSUME NodesAssumption == IsFiniteSet(Node)

\* ForAdjacentEdges with FORWARD and with BACKWARD.
Forward(n) == {x \in Edge : NodeA[x] = n}
Backward(n) == {x \in Edge : NodeB[x] = n}

GetOtherNode(x, n) ==
  IF n = NodeA[x] THEN NodeB[x] ELSE IF n = NodeB[x] THEN NodeA[x] ELSE NoNode
=============================================================================
