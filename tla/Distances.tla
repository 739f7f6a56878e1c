----------------------------- MODULE Distances -----------------------------
(***************************************************************************)
(* What the answers of the searches are measured by: the length of a       *)
(* shortest path, by its definition as what rounds over all arcs converge  *)
(* to.  No part of the program; only properties use it.                    *)
(***************************************************************************)
EXTENDS Integers, FiniteSets

Least(S) == CHOOSE l \in S : \A o \in S : l <= o

\* A round takes every arc once from where the last one has led, and keeps the
\* shortest for each node.
OneMore(labels, arcs) ==
  LET taken == {step \in labels \X arcs : step[2].from = step[1].node}
  IN labels \cup {[node |-> step[2].to, dist |-> step[1].dist + step[2].weight] : step \in taken}

Nearest(labels) == {l \in labels : \A o \in labels : o.node = l.node => l.dist <= o.dist}

Labellings(a, arcs, many) ==
  LET labels[i \in 0..many] ==
        IF i = 0 THEN {[node |-> a, dist |-> 0]} ELSE Nearest(OneMore(labels[i - 1], arcs))
  IN labels

\* From a to each of the nodes, along arcs [from, to, weight]; Infinite for a
\* node that cannot be reached.
DistancesFrom(a, nodes, arcs, Infinite) ==
  LET end == Labellings(a, arcs, Cardinality(nodes))[Cardinality(nodes)]
  IN [n \in nodes |-> Least({Infinite} \cup {l.dist : l \in {o \in end : o.node = n}})]
=============================================================================
