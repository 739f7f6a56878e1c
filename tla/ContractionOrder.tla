-------------------------- MODULE ContractionOrder --------------------------
(***************************************************************************)
(* preproc/pre_process_ch.go: the functions that contract a whole graph.   *)
(* They take out nodes as Contraction says and differ in how they choose   *)
(* the next one.  A scheme is one of them:                                 *)
(*   "rounds"    CalcContraction, by degree in rounds of one level         *)
(*   "given"     CalcContraction2, in the order of its argument            *)
(*   "hops"      CalcContraction3, by priority with a growing hop limit    *)
(*   "plain"     CalcContraction4, by a simpler priority                   *)
(*   "tiled"     CalcContraction5, by priority, border nodes last          *)
(*   "interior"  CalcPartialContraction5, without the border nodes         *)
(*   "full"      CalcContraction6, by priority                             *)
(*                                                                         *)
(* To rate a node (_ComputeNodePriority) the local searches of a           *)
(* contraction are run, and the shortcuts they ask for are only counted.   *)
(* Here the actions of Contraction serve both; rating tells which it is.   *)
(*                                                                         *)
(* A priority is a heuristic: the int8 in which the edges of shortcuts are *)
(* added up can wrap on a node of many shortcuts, which changes the order  *)
(* and nothing else.  Here it does not wrap.                               *)
(***************************************************************************)
EXTENDS Contraction

CONSTANTS Schemes,  \* those explored
          TileOf,   \* the partition
          FewHops, MoreHops, AllHops \* hop limits: 5, 10 and the ones nothing reaches

ASSUME OrderAssumption ==
  /\ Schemes \subseteq {"rounds", "given", "hops", "plain", "tiled", "interior", "full"}
  /\ DOMAIN TileOf = Node
  /\ {FewHops, MoreHops, AllHops} \subseteq HopLimits

VARIABLES
  scheme,
  waiting,       \* contraction_order: items of a node and its priority or degree
  priority,      \* node_priorities
  gone,          \* contracted_neighbours
  toRate,        \* the nodes whose priority is still to be computed, and why
  rating, gain,  \* the node at work is only rated; what has been counted for it
  next,          \* the node that goes when the border nodes have been rated
  borderTurn,    \* is_border_contraction
  round,         \* level of CalcContraction
  hopLimit, edgesLeft, \* hop_limit and edge_count of CalcContraction3
  panicked       \* CalcContraction3 has divided by zero

rates == <<waiting, priority, gone, toRate, rating, gain>>
turns == <<next, borderTurn, round, hopLimit, edgesLeft, panicked>>
orderVars == <<scheme, rates, turns>>
orderedVars == <<contractionVars, orderVars>>

QueueItem(n, p) == [node |-> n, prio |-> p]
NoGain == [shortcuts |-> 0, edges |-> 0]
ByPriority == scheme \notin {"rounds", "given"}

\* _IsBorderNode, before there are shortcuts.
Border == UNION {{NodeA[x], NodeB[x]} : x \in {y \in Edge : TileOf[NodeA[y]] # TileOf[NodeB[y]]}}

Degree(n) == Cardinality({r \in Refs : RefFrom(r) = n}) + Cardinality({r \in Refs : RefTo(r) = n})

\* Nodes to be rated, and why: from the start, or because a neighbour has gone
\* that they were an in- or an out-neighbour of.
ToRate(nodes, cause) == {[node |-> n, cause |-> cause] : n \in nodes}

OrderInit ==
  /\ ContractionInit
  /\ scheme \in Schemes
  /\ waiting = IF scheme = "rounds" THEN {QueueItem(n, Degree(n)) : n \in Node} ELSE {}
  /\ priority = [n \in Node |-> 0]
  /\ gone = [n \in Node |-> 0]
  /\ toRate = IF ByPriority THEN ToRate(IF scheme = "interior" THEN Node \ Border ELSE Node, "start") ELSE {}
  /\ rating = FALSE /\ gain = NoGain
  /\ next = NoNode /\ borderTurn = FALSE
  /\ round = 0
  /\ hopLimit = FewHops /\ edgesLeft = Cardinality(Edge)
  /\ panicked = FALSE

-----------------------------------------------------------------------------
(* Which node is next. *)

Ready == stage = "choose" /\ toRate = {} /\ next = NoNode

\* An item of CalcContraction whose node has risen since the round began; an
\* item whose node is gone or has been rated anew.
Stale(i) ==
  IF scheme = "rounds" THEN level[i.node] > round
  ELSE i.node \in contracted \/ i.prio # priority[i.node]

First(i) == i \in waiting /\ \A j \in waiting : i.prio <= j.prio

PassOver(i) ==
  /\ Ready
  /\ First(i)
  /\ Stale(i)
  /\ waiting' = waiting \ {i}
  /\ UNCHANGED <<contractionVars, scheme, priority, gone, toRate, rating, gain, turns>>

\* With this node all that are not on the border would be gone.
LastInterior == Cardinality(contracted) + 1 = Cardinality(Node) - Cardinality(Border)

\* CalcContraction5 first rates the border nodes.  It rates those that are gone,
\* too, but passes over their items.
Take(i) ==
  /\ Ready
  /\ First(i)
  /\ ~Stale(i)
  /\ waiting' = waiting \ {i}
  /\ IF scheme = "tiled" /\ LastInterior
       THEN /\ next' = i.node /\ borderTurn' = TRUE
            /\ toRate' = ToRate(Border \ contracted, "start")
            /\ UNCHANGED contractionVars
       ELSE Choose(i.node) /\ UNCHANGED <<next, borderTurn, toRate>>
  /\ UNCHANGED <<scheme, priority, gone, rating, gain, round, hopLimit, edgesLeft, panicked>>

TakeRefreshed ==
  /\ stage = "choose" /\ toRate = {} /\ next # NoNode
  /\ Choose(next)
  /\ next' = NoNode
  /\ UNCHANGED <<scheme, rates, borderTurn, round, hopLimit, edgesLeft, panicked>>

TakeGiven(n) ==
  /\ scheme = "given"
  /\ Choose(n)
  /\ UNCHANGED orderVars

\* Mutant: the level is not advanced.
NextRoundSame ==
  /\ scheme = "rounds"
  /\ Ready
  /\ waiting = {}
  /\ waiting' = {QueueItem(n, Degree(n)) : n \in Remaining}
  /\ UNCHANGED <<contractionVars, scheme, priority, gone, toRate, rating, gain,
                 turns>>

NextRound ==
  /\ scheme = "rounds"
  /\ Ready
  /\ waiting = {}
  /\ waiting' = {QueueItem(n, Degree(n)) : n \in Remaining}
  /\ round' = round + 1
  /\ UNCHANGED <<contractionVars, scheme, priority, gone, toRate, rating, gain,
                 next, borderTurn, hopLimit, edgesLeft, panicked>>

-----------------------------------------------------------------------------
(* Priorities. *)

\* A border node is not rated when a neighbour goes.
Exempt(n) == n \in Border /\ scheme \in {"interior", "tiled"} /\ ~borderTurn

\* Each in its turn: no rating depends on another, so the order is none of the
\* model's business.
Rate ==
  /\ stage = "choose" /\ toRate # {}
  /\ LET first == CHOOSE r \in toRate : TRUE IN
     /\ toRate' = toRate \ {first}
     /\ gone' = IF first.cause # "start" THEN [gone EXCEPT ![first.node] = @ + 1] ELSE gone
     /\ IF first.cause # "start" /\ Exempt(first.node)
          THEN UNCHANGED <<contractionVars, rating>>
          ELSE Choose(first.node) /\ rating' = TRUE
  /\ UNCHANGED <<scheme, waiting, priority, gain, turns>>

\* shortcut_edgecount: the edges of a shortcut, counted up to three.
ShortcutEdges ==
  LET edges[k \in DOMAIN shortcuts] ==
        LET EdgesOf(r) == IF IsShortcut(r) THEN edges[r.id] ELSE 1
        IN Min({3, EdgesOf(shortcuts[k].parts[1]) + EdgesOf(shortcuts[k].parts[2])})
  IN edges

EdgesFor(t) ==
  LET EdgesOf(r) == IF IsShortcut(r) THEN ShortcutEdges[r.id] ELSE 1
  IN Min({3, EdgesOf(Parts(t)[1]) + EdgesOf(Parts(t)[2])})

CountShortcuts ==
  /\ rating /\ stage = "add"
  /\ LET needed == {t \in outs \ {origin} : Needed(t)} IN
     gain' = [shortcuts |-> gain.shortcuts + Cardinality(needed),
              edges |-> gain.edges + SumFunction([t \in needed |-> EdgesFor(t)])]
  /\ stage' = "pair"
  /\ UNCHANGED <<hierarchy, node, left, search, scheme, waiting, priority, gone, toRate, rating, turns>>

\* _ComputeNodePriority and, for "plain", _ComputeNodePriority2.
ComputeNodePriority ==
  2 * (gain.shortcuts - Cardinality(ins) - Cardinality(outs)) + gone[via]
    + (IF scheme = "plain" THEN 0 ELSE gain.edges + 5 * level[via])

\* Mutant: the new priority is noted, but the node not put in the queue with it.
RatedOnly ==
  /\ rating /\ stage = "pair" /\ left = {}
  /\ priority' = [priority EXCEPT ![via] = ComputeNodePriority]
  /\ waiting' = IF gone[via] = 0 THEN waiting \cup {QueueItem(via, ComputeNodePriority)} ELSE waiting
  /\ rating' = FALSE /\ gain' = NoGain
  /\ stage' = "choose"
  /\ via' = NoNode /\ ins' = {} /\ outs' = {}
  /\ origin' = NoNode /\ limit' = 0 /\ label' = [n \in Node |-> NoLabel]
  /\ UNCHANGED <<hierarchy, left, scheme, gone, toRate, turns>>

Rated ==
  /\ rating /\ stage = "pair" /\ left = {}
  /\ priority' = [priority EXCEPT ![via] = ComputeNodePriority]
  /\ waiting' = waiting \cup {QueueItem(via, ComputeNodePriority)}
  /\ rating' = FALSE /\ gain' = NoGain
  /\ stage' = "choose"
  /\ via' = NoNode /\ ins' = {} /\ outs' = {}
  /\ origin' = NoNode /\ limit' = 0 /\ label' = [n \in Node |-> NoLabel]
  /\ UNCHANGED <<hierarchy, left, scheme, gone, toRate, turns>>

-----------------------------------------------------------------------------
(* A node goes. *)

Hops == IF scheme = "hops" THEN hopLimit ELSE AllHops

Search ==
  /\ \/ \E n \in left : StartSearch(n, Hops)
     \/ \E n \in Node : SearchStep(n)
     \/ SearchEnds
  /\ UNCHANGED orderVars

Add ==
  /\ ~rating
  /\ AddShortcuts
  /\ edgesLeft' = IF scheme = "hops" THEN edgesLeft + Len(shortcuts') - Len(shortcuts) ELSE edgesLeft
  /\ UNCHANGED <<scheme, rates, next, borderTurn, round, hopLimit, panicked>>

\* CalcContraction3 counts the edges to each node that is left after this one.
NodesLeft == Cardinality(Remaining) - 1
EdgesLeft == edgesLeft - Cardinality(ins) - Cardinality(outs)
NewHopLimit ==
  IF 2 * EdgesLeft >= 11 * NodesLeft THEN AllHops
  ELSE IF 2 * EdgesLeft >= 6 * NodesLeft THEN MoreHops ELSE hopLimit

Goes ==
  /\ ~rating
  /\ scheme = "hops" => NodesLeft > 0
  /\ Contracted
  /\ toRate' = IF ByPriority THEN ToRate(ins, "in") \cup ToRate(outs, "out") ELSE {}
  /\ IF scheme = "hops" THEN hopLimit' = NewHopLimit /\ edgesLeft' = EdgesLeft
                        ELSE UNCHANGED <<hopLimit, edgesLeft>>
  /\ UNCHANGED <<scheme, waiting, priority, gone, rating, gain, next, borderTurn, round, panicked>>

\* With the last node, CalcContraction3 divides by the number of nodes left.
Panic ==
  /\ ~rating /\ stage = "pair" /\ left = {}
  /\ scheme = "hops" /\ NodesLeft = 0
  /\ ~panicked
  /\ panicked' = TRUE
  /\ UNCHANGED <<contractionVars, scheme, rates, next, borderTurn, round, hopLimit, edgesLeft>>

OrderedNext ==
  \/ \E i \in waiting : PassOver(i) \/ Take(i)
  \/ \E n \in Node : TakeGiven(n)
  \/ TakeRefreshed
  \/ NextRound
  \/ Rate \/ CountShortcuts \/ Rated
  \/ Search \/ Add \/ Goes \/ Panic

OrderedSpec == OrderInit /\ [][OrderedNext]_orderedVars /\ WF_orderedVars(OrderedNext)

-----------------------------------------------------------------------------
(***************************************************************************)
(* The types.  Priorities are integers, negative where a node would leave  *)
(* fewer shortcuts than it takes edges away.                               *)
(***************************************************************************)
OrderTypeOK ==
  /\ HierarchyTypeOK
  /\ scheme \in Schemes
  /\ waiting \subseteq [node : Node, prio : Int]
  /\ priority \in [Node -> Int] /\ gone \in [Node -> Nat]
  /\ toRate \subseteq [node : Node, cause : {"start", "in", "out"}]
  /\ rating \in BOOLEAN /\ gain \in [shortcuts : Nat, edges : Nat]
  /\ next \in Node \cup {NoNode} /\ borderTurn \in BOOLEAN
  /\ round \in Nat /\ hopLimit \in HopLimits /\ edgesLeft \in Int
  /\ panicked \in BOOLEAN

(***************************************************************************)
(* CalcContraction writes level + 1 to the neighbours of a node without a  *)
(* look at what they have: right if each node that goes in a round is of   *)
(* the level of the round.                                                 *)
(***************************************************************************)
RoundsAreLevels == scheme = "rounds" /\ via # NoNode => level[via] = round

(***************************************************************************)
(* A node that is to be contracted always has an item that will not be     *)
(* passed over, or one is on its way; in rounds it may have to wait for    *)
(* the next one.  Items are never removed when a node is rated anew, and a *)
(* node is rated anew while it is in the queue.                            *)
(***************************************************************************)
NoNodeIsForgotten ==
  scheme # "given" =>
    \A n \in Remaining \ (IF scheme = "interior" THEN Border ELSE {}) :
      \/ n \in {via, next}
      \/ \E i \in waiting : i.node = n /\ ~Stale(i)
      \/ [node |-> n, cause |-> "start"] \in toRate
      \/ scheme = "rounds" /\ level[n] > round

IsMade ==
  \/ stage = "done"
  \/ scheme = "interior" /\ contracted = Node \ Border
  \/ scheme = "hops" /\ panicked

(***************************************************************************)
(* Every scheme comes to an end with all nodes contracted (the partial one *)
(* with all but the border): an item that was passed over as out of date   *)
(* always has another that is not.  CalcContraction3 alone ends in a       *)
(* division by zero, with its last node.                                   *)
(***************************************************************************)
HierarchyIsMade == <>IsMade
=============================================================================
