------------------------------- MODULE Routes -------------------------------
(***************************************************************************)
(* What the routes that the queries read back are measured by.  No part of *)
(* the program; only properties use it.                                    *)
(***************************************************************************)
EXTENDS RoadGraph, Sequences

\* Where the edges of p lead from a node, and how long they are; NoNode once
\* one of them begins elsewhere.
Followed(p, from) ==
  LET at[i \in 0..Len(p)] ==
        IF i = 0 THEN [node |-> from, far |-> 0]
        ELSE [node |-> IF NodeA[p[i]] = at[i - 1].node THEN NodeB[p[i]] ELSE NoNode,
              far |-> at[i - 1].far + Weight[p[i]]]
  IN at

RealRoute(p, from, to, length) ==
  Followed(p, from)[Len(p)] = [node |-> to, far |-> length]
=============================================================================
