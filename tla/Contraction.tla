---------------------------- MODULE Contraction ----------------------------
(***************************************************************************)
(* preproc/pre_process_ch.go: the contraction of a graph.  Nodes are taken *)
(* out one after the other.  For each pair of an in-neighbour and an       *)
(* out-neighbour that are still there a local search decides whether the   *)
(* way over the node is the shortest between them; if it is, a shortcut    *)
(* takes its place.  A node that is left over gets a higher level than the *)
(* neighbours that went before it.                                         *)
(*                                                                         *)
(* The variants CalcContraction to CalcContraction6 differ in how they     *)
(* choose the next node (by level and degree, by a given order, by a       *)
(* priority) and in the hop limit of the local search.  Here the next node *)
(* is any that is left.                                                    *)
(***************************************************************************)
EXTENDS Routes, Distances, SequencesExt

CONSTANTS HopLimits, \* the limits a local search may be given
          Unlabelled \* the length of a label that was never set

ASSUME ContractionAssumption ==
  /\ HopLimits \subseteq {l \in Nat : l >= 2}
  /\ Unlabelled \in Nat \ {0}
  /\ \A x \in Edge : Weight[x] \in 1..(Unlabelled - 1)

VARIABLES
  level, contracted,
  shortcuts, \* a sequence of [from, to, weight, parts]: the last part comes first
  stage,     \* "choose" a node, "pair" it, "search", "add" shortcuts, "done"
  via, ins, outs, \* the node at work and its neighbours
  left,      \* in-neighbours not yet searched from
  origin, limit, \* of the local search
  label      \* of each node: length, hops, by (the last edge), prev, visited

hierarchy == <<level, contracted, shortcuts>>
node == <<via, ins, outs>>
search == <<origin, limit, label>>
contractionVars == <<hierarchy, stage, node, left, search>>

-----------------------------------------------------------------------------
(* A reference is to an edge or, by its index, to a shortcut. *)

EdgeRef(x) == [kind |-> "edge", id |-> x]
ShortcutRef(i) == [kind |-> "shortcut", id |-> i]
Refs == {EdgeRef(x) : x \in Edge} \cup {ShortcutRef(i) : i \in DOMAIN shortcuts}

IsShortcut(r) == r.kind = "shortcut"
RefFrom(r) == IF IsShortcut(r) THEN shortcuts[r.id].from ELSE NodeA[r.id]
RefTo(r) == IF IsShortcut(r) THEN shortcuts[r.id].to ELSE NodeB[r.id]
GetEdgeWeight(r) == IF IsShortcut(r) THEN shortcuts[r.id].weight ELSE Weight[r.id]

EdgesBetween(n, m) == {r \in Refs : RefFrom(r) = n /\ RefTo(r) = m}

\* The first one found, which need not be the shortest: base edges come first.
GetEdgeBetween(n, m) ==
  LET base == {r \in EdgesBetween(n, m) : ~IsShortcut(r)}
  IN CHOOSE r \in EdgesBetween(n, m) : base # {} => r \in base

OutNeighbours(n) == {RefTo(r) : r \in {q \in Refs : RefFrom(q) = n}} \ ({n} \cup contracted)
InNeighbours(n) == {RefFrom(r) : r \in {q \in Refs : RefTo(q) = n}} \ ({n} \cup contracted)

NoLabel == [length |-> Unlabelled, hops |-> 0, by |-> {}, prev |-> NoNode, visited |-> FALSE]

-----------------------------------------------------------------------------
ContractionInit ==
  /\ level = [n \in Node |-> 0]
  /\ contracted = {}
  /\ shortcuts = <<>>
  /\ stage = "choose"
  /\ via = NoNode /\ ins = {} /\ outs = {}
  /\ left = {}
  /\ origin = NoNode /\ limit = 0
  /\ label = [n \in Node |-> NoLabel]

Choose(n) ==
  /\ stage = "choose"
  /\ n \notin contracted
  /\ via' = n
  /\ ins' = InNeighbours(n)
  /\ outs' = OutNeighbours(n)
  /\ left' = ins'
  /\ stage' = "pair"
  /\ UNCHANGED <<hierarchy, search>>

\* _RunLocalSearch begins.
StartSearch(n, l) ==
  /\ stage = "pair"
  /\ n \in left
  /\ left' = left \ {n}
  /\ origin' = n
  /\ limit' = l
  /\ label' = [m \in Node |-> IF m = n THEN [NoLabel EXCEPT !.length = 0] ELSE NoLabel]
  /\ stage' = "search"
  /\ UNCHANGED <<hierarchy, node>>

\* What the heap still has to offer: each improvement of a label has put its
\* node there, and the items that came out of date are skipped.
Open == {n \in Node : label[n].length < Unlabelled /\ ~label[n].visited}

\* The references out of n that make a label shorter, and of those the shortest
\* to each node: what is left when the edges of n have been relaxed in turn.
Shorter(n) == {r \in Refs : RefFrom(r) = n /\ RefTo(r) \notin contracted
                           /\ label[n].length + GetEdgeWeight(r) < label[RefTo(r)].length}
Shortest(S) == {r \in S : \A q \in S : RefTo(q) = RefTo(r) => GetEdgeWeight(r) <= GetEdgeWeight(q)}

\* The labels when n has been visited and its edges relaxed.
Relaxed(n) ==
  [m \in Node |->
     LET best == {r \in Shortest(Shorter(n)) : RefTo(r) = m} IN
     IF best # {}
       THEN [length |-> label[n].length + GetEdgeWeight(CHOOSE r \in best : TRUE),
             hops |-> label[n].hops + 1, by |-> {CHOOSE r \in best : TRUE}, prev |-> n,
             visited |-> FALSE]
       ELSE [label[m] EXCEPT !.visited = @ \/ m = n]]

\* Mutant: the last hop that is allowed is not taken.
SearchStepShort(n) ==
  /\ stage = "search"
  /\ n \in Open
  /\ \A m \in Open : label[n].length <= label[m].length
  /\ LET found == \A t \in outs : t = n \/ label[t].visited IN
     /\ stage' = IF found THEN "add" ELSE "search"
     /\ label' = IF found \/ label[n].hops + 1 >= limit
                   THEN [label EXCEPT ![n].visited = TRUE] ELSE Relaxed(n)
  /\ UNCHANGED <<hierarchy, node, left, origin, limit>>

SearchStep(n) ==
  /\ stage = "search"
  /\ n \in Open
  /\ \A m \in Open : label[n].length <= label[m].length
  /\ LET found == \A t \in outs : t = n \/ label[t].visited IN
     /\ stage' = IF found THEN "add" ELSE "search"
     /\ label' = IF found \/ label[n].hops >= limit
                   THEN [label EXCEPT ![n].visited = TRUE] ELSE Relaxed(n)
  /\ UNCHANGED <<hierarchy, node, left, origin, limit>>

SearchEnds ==
  /\ stage = "search"
  /\ Open = {}
  /\ stage' = "add"
  /\ UNCHANGED <<hierarchy, node, left, search>>

\* _GetShortcut: a target that was not found gets a shortcut in any case.
Needed(t) == label[t].visited => label[t].prev = via /\ label[via].prev = origin

\* Mutant: the parts in the order of travel.
PartsInOrder(t) ==
  IF label[t].visited
    THEN <<CHOOSE r \in label[via].by : TRUE, CHOOSE r \in label[t].by : TRUE>>
    ELSE <<GetEdgeBetween(origin, via), GetEdgeBetween(via, t)>>

Parts(t) ==
  IF label[t].visited
    THEN <<CHOOSE r \in label[t].by : TRUE, CHOOSE r \in label[via].by : TRUE>>
    ELSE <<GetEdgeBetween(via, t), GetEdgeBetween(origin, via)>>

AddShortcut(t) ==
  [from |-> origin, to |-> t, parts |-> Parts(t),
   weight |-> GetEdgeWeight(Parts(t)[1]) + GetEdgeWeight(Parts(t)[2])]

AddShortcuts ==
  /\ stage = "add"
  /\ \E targets \in SetToSeqs({t \in outs \ {origin} : Needed(t)}) :
       shortcuts' = shortcuts \o [i \in DOMAIN targets |-> AddShortcut(targets[i])]
  /\ stage' = "pair"
  /\ UNCHANGED <<level, contracted, node, left, search>>

\* Mutant: only the out-neighbours rise.
RaiseOuts == [n \in Node |-> IF n \in outs /\ level[n] <= level[via] THEN level[via] + 1 ELSE level[n]]

Raise ==
  [n \in Node |-> IF n \in ins \cup outs /\ level[n] <= level[via] THEN level[via] + 1 ELSE level[n]]

\* What a search has left behind is reset when the next begins.
Contracted ==
  /\ stage = "pair"
  /\ left = {}
  /\ contracted' = contracted \cup {via}
  /\ level' = Raise
  /\ stage' = IF contracted' = Node THEN "done" ELSE "choose"
  /\ via' = NoNode /\ ins' = {} /\ outs' = {}
  /\ origin' = NoNode /\ limit' = 0 /\ label' = [n \in Node |-> NoLabel]
  /\ UNCHANGED <<shortcuts, left>>

ContractionNext ==
  \/ \E n \in Node : Choose(n) \/ SearchStep(n)
  \/ \E n \in left, l \in HopLimits : StartSearch(n, l)
  \/ SearchEnds
  \/ AddShortcuts
  \/ Contracted

ContractionSpec == ContractionInit /\ [][ContractionNext]_contractionVars

-----------------------------------------------------------------------------
(* structs/shortcuts.go: the edges a shortcut stands for. *)

\* _UnpackCHShortcutRecursive.  A part was there before the shortcut it is in.
Unpack(i, reversed) ==
  LET unpacked[k \in DOMAIN shortcuts] ==
        LET Emitted(r) == IF IsShortcut(r) THEN unpacked[r.id] ELSE <<r.id>>
            parts == shortcuts[k].parts
        IN IF reversed THEN Emitted(parts[2]) \o Emitted(parts[1])
                       ELSE Emitted(parts[1]) \o Emitted(parts[2])
  IN unpacked[i]

-----------------------------------------------------------------------------
(***************************************************************************)
(* Of the node at work, its neighbours, the search and the hierarchy.      *)
(***************************************************************************)
HierarchyTypeOK ==
  /\ level \in [Node -> Nat]
  /\ contracted \subseteq Node
  /\ \A i \in DOMAIN shortcuts :
       /\ shortcuts[i].from \in Node /\ shortcuts[i].to \in Node
       /\ shortcuts[i].weight \in Nat
       /\ shortcuts[i].parts \in Refs \X Refs
  /\ stage \in {"choose", "pair", "search", "add", "done"}
  /\ via \in Node \cup {NoNode} /\ origin \in Node \cup {NoNode}
  /\ ins \subseteq Node /\ outs \subseteq Node /\ left \subseteq ins
  /\ limit \in HopLimits \cup {0}
  /\ label \in [Node -> [length : 0..Unlabelled, hops : Nat, by : SUBSET Refs,
                          prev : Node \cup {NoNode}, visited : BOOLEAN]]

Arc(r) == [from |-> RefFrom(r), to |-> RefTo(r), weight |-> GetEdgeWeight(r)]
Remaining == Node \ contracted

(***************************************************************************)
(* Whenever a node has been taken out, the shortcuts that were added make  *)
(* up for it: between the nodes that are left, distances over edges and    *)
(* shortcuts among themselves are what they are in the whole road graph.   *)
(* It does not matter which hop limit of at least two each of the local    *)
(* searches had, and then GetEdgeBetween need not look for the shortest of *)
(* parallel edges: a way over the node of two shortest ones is searched.   *)
(***************************************************************************)
DistancesKept ==
  stage = "choose" =>
    LET roads == {Arc(EdgeRef(x)) : x \in Edge}
        rest == {Arc(r) : r \in {q \in Refs : {RefFrom(q), RefTo(q)} \subseteq Remaining}}
    IN \A n \in Remaining :
         LET before == DistancesFrom(n, Node, roads, Unlabelled)
             now == DistancesFrom(n, Remaining, rest, Unlabelled)
         IN \A m \in Remaining : now[m] = before[m]

(***************************************************************************)
(* The searches up the hierarchy only follow references to a higher level, *)
(* so two nodes that are joined must not be of one level once one of them  *)
(* is contracted, and the one that is left over is the higher.             *)
(***************************************************************************)
LevelsAscend ==
  stage \in {"choose", "done"} =>
    \A r \in Refs :
      LET a == RefFrom(r)
          b == RefTo(r)
      IN a # b =>
         /\ a \in contracted /\ b \in contracted => level[a] # level[b]
         /\ a \in contracted /\ b \notin contracted => level[a] < level[b]
         /\ b \in contracted /\ a \notin contracted => level[b] < level[a]

Joins(s, i) ==
  LET first == s.parts[2]
      second == s.parts[1]
  IN /\ \A r \in {first, second} : r \in Refs /\ (IsShortcut(r) => r.id < i)
     /\ RefFrom(first) = s.from /\ RefTo(second) = s.to
     /\ RefTo(first) = RefFrom(second)
     /\ s.weight = GetEdgeWeight(first) + GetEdgeWeight(second)

(***************************************************************************)
(* The two parts of a shortcut are there before it, they meet, lead from   *)
(* its From to its To (the second part is the first to be travelled), and  *)
(* weigh together what it weighs.                                          *)
(***************************************************************************)
ShortcutsJoin == \A i \in DOMAIN shortcuts : Joins(shortcuts[i], i)

(***************************************************************************)
(* A shortcut unpacked in reverse is a route of road edges from its From   *)
(* to its To, of the weight it carries: the last part is stored first,     *)
(* which holds from part to part down to the road edges.                   *)
(***************************************************************************)
ShortcutsUnpack ==
  \A i \in DOMAIN shortcuts :
    RealRoute(Unpack(i, TRUE), shortcuts[i].from, shortcuts[i].to, shortcuts[i].weight)
=============================================================================
