-------------------------- MODULE HierarchyProofs --------------------------
(***************************************************************************)
(* The contraction hierarchy, for every graph of positive weights.         *)
(*                                                                         *)
(* Contraction, in any order and with any hop limits: the levels ascend,   *)
(* the shortcuts join and unpack to routes, and the distances between the  *)
(* nodes that are left are kept.                                           *)
(*                                                                         *)
(* ContractionOrder, for each of the seven functions that contract a       *)
(* graph: what holds in any contraction holds in theirs, although they run *)
(* the local searches for ratings as well; the rounds of CalcContraction   *)
(* are levels; and no node is lost from the queue.                         *)
(*                                                                         *)
(* CHQuery, for every pair of nodes and any order of equal items: the      *)
(* length is the distance, and the path that is read back is made of       *)
(* roads.                                                                  *)
(*                                                                         *)
(* OneToMany, for every request and each of its solvers, those that do     *)
(* without the hierarchy included: the matrix is right.                    *)
(***************************************************************************)
EXTENDS CHQuery, OneToMany, DistancesProofs

AnyRef == [kind : {"edge"}, id : Edge] \cup [kind : {"shortcut"}, id : Nat \ {0}]
Shortcut == [from : Node, to : Node, weight : Nat \ {0}, parts : AnyRef \X AnyRef]
Label == [length : Nat, hops : Nat, by : SUBSET AnyRef, prev : Node \cup {NoNode}, visited : BOOLEAN]

Types ==
  /\ level \in [Node -> Nat]
  /\ contracted \subseteq Node
  /\ shortcuts \in Seq(Shortcut)
  /\ stage \in {"choose", "pair", "search", "add", "done"}
  /\ label \in [Node -> Label]

\* While a node is taken out it and its neighbours are still there, and its
\* neighbours are the same as at the beginning.
AtWork ==
  stage \in {"pair", "search", "add"} =>
    /\ via \in Node \ contracted
    /\ ins = InNeighbours(via) /\ outs = OutNeighbours(via)
    /\ left \subseteq ins

\* A label's last reference leads to its node from the node before it.
Labelled ==
  stage \in {"search", "add"} =>
    /\ origin \in ins
    /\ \A m \in Node :
         /\ \A r \in label[m].by : r \in Refs /\ RefTo(r) = m /\ RefFrom(r) = label[m].prev
         /\ label[m].prev # NoNode => label[m].by # {}
         /\ label[m].visited \/ label[m].length < Unlabelled => m = origin \/ label[m].prev # NoNode

Ascending ==
  \A r \in Refs :
    LET a == RefFrom(r)
        b == RefTo(r)
    IN a # b =>
       /\ a \in contracted /\ b \in contracted => level[a] # level[b]
       /\ a \in contracted /\ b \notin contracted => level[a] < level[b]
       /\ b \in contracted /\ a \notin contracted => level[b] < level[a]

IInv == Types /\ AtWork /\ Labelled /\ Ascending /\ ShortcutsJoin

-----------------------------------------------------------------------------
(* References. *)

\* The references of a state, and where they lead.
LEMMA RefFacts ==
  ASSUME shortcuts \in Seq(Shortcut)
  PROVE  \A r \in Refs :
           /\ r \in AnyRef
           /\ IsShortcut(r) => r.id \in DOMAIN shortcuts
           /\ ~IsShortcut(r) => r.id \in Edge
           /\ RefFrom(r) \in Node /\ RefTo(r) \in Node
           /\ GetEdgeWeight(r) \in Nat /\ GetEdgeWeight(r) > 0
<1> SUFFICES ASSUME NEW r \in Refs
             PROVE  /\ r \in AnyRef
                    /\ IsShortcut(r) => r.id \in DOMAIN shortcuts
                    /\ ~IsShortcut(r) => r.id \in Edge
                    /\ RefFrom(r) \in Node /\ RefTo(r) \in Node
                    /\ GetEdgeWeight(r) \in Nat /\ GetEdgeWeight(r) > 0
  OBVIOUS
<1>1. CASE \E x \in Edge : r = EdgeRef(x)
  BY <1>1, GraphAssumption, ContractionAssumption
     DEF EdgeRef, AnyRef, IsShortcut, RefFrom, RefTo, GetEdgeWeight
<1>2. CASE \E i \in DOMAIN shortcuts : r = ShortcutRef(i)
  <2>1. PICK i \in DOMAIN shortcuts : r = ShortcutRef(i)
    BY <1>2
  <2>2. i \in Nat \ {0} /\ shortcuts[i] \in Shortcut
    OBVIOUS
  <2> QED
    BY <2>1, <2>2 DEF ShortcutRef, AnyRef, IsShortcut, RefFrom, RefTo, GetEdgeWeight, Shortcut
<1> QED
  BY <1>1, <1>2 DEF Refs

\* A step that adds no shortcut changes no reference.
LEMMA RefsStay ==
  ASSUME UNCHANGED shortcuts
  PROVE  /\ Refs' = Refs
         /\ \A r : RefFrom(r)' = RefFrom(r) /\ RefTo(r)' = RefTo(r) /\ GetEdgeWeight(r)' = GetEdgeWeight(r)
BY DEF Refs, EdgeRef, ShortcutRef, IsShortcut, RefFrom, RefTo, GetEdgeWeight

\* Shortcuts that are added leave the others as they are.
LEMMA RefsGrow ==
  ASSUME shortcuts \in Seq(Shortcut), NEW new \in Seq(Shortcut), shortcuts' = shortcuts \o new
  PROVE  /\ shortcuts' \in Seq(Shortcut)
         /\ \A i \in DOMAIN shortcuts : i \in DOMAIN shortcuts' /\ shortcuts'[i] = shortcuts[i]
         /\ \A i \in (DOMAIN shortcuts') \ DOMAIN shortcuts :
              \E j \in DOMAIN new : i = Len(shortcuts) + j /\ shortcuts'[i] = new[j]
         /\ \A r \in Refs : /\ r \in Refs'
                            /\ RefFrom(r)' = RefFrom(r) /\ RefTo(r)' = RefTo(r)
                            /\ GetEdgeWeight(r)' = GetEdgeWeight(r)
         /\ \A r \in Refs' : r \in Refs \/ \E j \in DOMAIN new :
              RefFrom(r)' = new[j].from /\ RefTo(r)' = new[j].to
<1>1. shortcuts' \in Seq(Shortcut)
  OBVIOUS
<1>2. \A i \in DOMAIN shortcuts : i \in DOMAIN shortcuts' /\ shortcuts'[i] = shortcuts[i]
  OBVIOUS
<1>3. \A i \in (DOMAIN shortcuts') \ DOMAIN shortcuts :
        \E j \in DOMAIN new : i = Len(shortcuts) + j /\ shortcuts'[i] = new[j]
  <2> TAKE i \in (DOMAIN shortcuts') \ DOMAIN shortcuts
  <2>1. i - Len(shortcuts) \in DOMAIN new /\ shortcuts'[i] = new[i - Len(shortcuts)]
    OBVIOUS
  <2>2. i \in Int /\ Len(shortcuts) \in Nat
    BY <1>1
  <2> QED
    BY <2>1, <2>2
<1>4. ASSUME NEW r \in Refs
      PROVE  /\ r \in Refs'
             /\ RefFrom(r)' = RefFrom(r) /\ RefTo(r)' = RefTo(r)
             /\ GetEdgeWeight(r)' = GetEdgeWeight(r)
  <2>1. r \in Refs'
    BY <1>2 DEF Refs, EdgeRef, ShortcutRef
  <2>2. IsShortcut(r) => r.id \in DOMAIN shortcuts
    BY RefFacts
  <2> QED
    BY <1>2, <2>1, <2>2 DEF RefFrom, RefTo, GetEdgeWeight, IsShortcut
<1>5. ASSUME NEW r \in Refs'
      PROVE  r \in Refs \/ \E j \in DOMAIN new : RefFrom(r)' = new[j].from /\ RefTo(r)' = new[j].to
  <2>1. CASE \E x \in Edge : r = EdgeRef(x)
    BY <2>1 DEF Refs
  <2>2. CASE \E i \in DOMAIN shortcuts : r = ShortcutRef(i)
    BY <2>2 DEF Refs
  <2>3. CASE \E i \in (DOMAIN shortcuts') \ DOMAIN shortcuts : r = ShortcutRef(i)
    <3>1. PICK i \in (DOMAIN shortcuts') \ DOMAIN shortcuts : r = ShortcutRef(i)
      BY <2>3
    <3>2. PICK j \in DOMAIN new : shortcuts'[i] = new[j]
      BY <1>3
    <3>3. RefFrom(r)' = shortcuts'[i].from /\ RefTo(r)' = shortcuts'[i].to
      BY <3>1 DEF ShortcutRef, RefFrom, RefTo, IsShortcut
    <3> QED
      BY <3>2, <3>3
  <2>4. (\E x \in Edge : r = EdgeRef(x)) \/ (\E i \in DOMAIN shortcuts' : r = ShortcutRef(i))
    BY DEF Refs, EdgeRef, ShortcutRef
  <2> QED
    BY <2>1, <2>2, <2>3, <2>4
<1> QED
  BY <1>1, <1>2, <1>3, <1>4, <1>5

\* The neighbours depend on the references and on what is contracted.
LEMMA NeighboursStay ==
  ASSUME UNCHANGED <<shortcuts, contracted, via>>
  PROVE  InNeighbours(via)' = InNeighbours(via) /\ OutNeighbours(via)' = OutNeighbours(via)
<1>1. /\ Refs' = Refs
      /\ \A r : RefFrom(r)' = RefFrom(r) /\ RefTo(r)' = RefTo(r)
  BY RefsStay
<1>2. InNeighbours(via)' = InNeighbours(via)
  BY <1>1 DEF InNeighbours
<1>3. OutNeighbours(via)' = OutNeighbours(via)
  BY <1>1 DEF OutNeighbours
<1> QED
  BY <1>2, <1>3

\* A neighbour is another node that is left, and a reference joins the two.
LEMMA NeighbourFacts ==
  ASSUME shortcuts \in Seq(Shortcut), NEW n \in Node
  PROVE  /\ \A m \in InNeighbours(n) : m \in Node \ contracted /\ m # n /\ EdgesBetween(m, n) # {}
         /\ \A m \in OutNeighbours(n) : m \in Node \ contracted /\ m # n /\ EdgesBetween(n, m) # {}
<1>1. \A r \in Refs : RefFrom(r) \in Node /\ RefTo(r) \in Node
  BY RefFacts
<1> QED
  BY <1>1 DEF InNeighbours, OutNeighbours, EdgesBetween

\* GetEdgeBetween finds a reference between the two if there is one.
LEMMA BetweenFacts ==
  ASSUME NEW n, NEW m, EdgesBetween(n, m) # {}
  PROVE  GetEdgeBetween(n, m) \in EdgesBetween(n, m)
<1> DEFINE base == {r \in EdgesBetween(n, m) : ~IsShortcut(r)}
<1>1. \E r \in EdgesBetween(n, m) : base # {} => r \in base
  OBVIOUS
<1> QED
  BY <1>1 DEF GetEdgeBetween

-----------------------------------------------------------------------------
(* The actions that neither add shortcuts nor contract a node. *)

LEMMA InitInv == ContractionInit => IInv
<1> SUFFICES ASSUME ContractionInit PROVE IInv
  OBVIOUS
<1>1. Types
  BY ContractionAssumption DEF ContractionInit, Types, Label, NoLabel, Shortcut
<1>2. AtWork /\ Labelled
  BY DEF ContractionInit, AtWork, Labelled
<1>3. Ascending
  BY DEF ContractionInit, Ascending
<1>4. ShortcutsJoin
  BY DEF ContractionInit, ShortcutsJoin
<1> QED
  BY <1>1, <1>2, <1>3, <1>4 DEF IInv

\* With the hierarchy unchanged the levels ascend and the shortcuts join as before.
LEMMA HierarchyStays ==
  ASSUME IInv, UNCHANGED hierarchy
  PROVE  Ascending' /\ ShortcutsJoin'
<1>1. /\ Refs' = Refs
      /\ \A r : RefFrom(r)' = RefFrom(r) /\ RefTo(r)' = RefTo(r) /\ GetEdgeWeight(r)' = GetEdgeWeight(r)
  BY RefsStay DEF hierarchy
<1>2. Ascending'
  BY <1>1 DEF IInv, Ascending, hierarchy
<1>3. ShortcutsJoin'
  BY <1>1 DEF IInv, ShortcutsJoin, Joins, hierarchy, IsShortcut
<1> QED
  BY <1>2, <1>3

LEMMA ChooseInv == ASSUME IInv, NEW n \in Node, Choose(n) PROVE IInv'
<1>1. Types'
  BY DEF IInv, Types, Choose, hierarchy, search
<1>2. AtWork'
  <2>1. /\ Refs' = Refs
        /\ \A r : RefFrom(r)' = RefFrom(r) /\ RefTo(r)' = RefTo(r)
    BY RefsStay DEF Choose, hierarchy
  <2>2. ins' = InNeighbours(via)'
    BY <2>1 DEF Choose, InNeighbours, hierarchy
  <2>3. outs' = OutNeighbours(via)'
    BY <2>1 DEF Choose, OutNeighbours, hierarchy
  <2> QED
    BY <2>2, <2>3 DEF AtWork, Choose, hierarchy
<1>3. Labelled'
  BY DEF Labelled, Choose
<1>4. Ascending' /\ ShortcutsJoin'
  BY HierarchyStays DEF Choose
<1> QED
  BY <1>1, <1>2, <1>3, <1>4 DEF IInv

LEMMA StartSearchInv ==
  ASSUME IInv, NEW n \in left, NEW l \in HopLimits, StartSearch(n, l) PROVE IInv'
<1>1. Types'
  BY ContractionAssumption DEF IInv, Types, StartSearch, hierarchy, NoLabel, Label
<1>2. AtWork'
  BY NeighboursStay DEF IInv, AtWork, StartSearch, hierarchy, node
<1>3. Labelled'
  <2>1. origin' \in ins'
    BY DEF IInv, AtWork, StartSearch, node
  <2>2. \A m \in Node : /\ label'[m].by = {} /\ label'[m].prev = NoNode /\ label'[m].visited = FALSE
                        /\ m # origin' => label'[m].length = Unlabelled
    BY DEF StartSearch, NoLabel
  <2>3. ~(Unlabelled < Unlabelled)
    BY ContractionAssumption
  <2> QED
    BY <2>1, <2>2, <2>3 DEF Labelled
<1>4. Ascending' /\ ShortcutsJoin'
  BY HierarchyStays DEF StartSearch
<1> QED
  BY <1>1, <1>2, <1>3, <1>4 DEF IInv

LEMMA SearchEndsInv == ASSUME IInv, SearchEnds PROVE IInv'
<1>1. Types'
  BY DEF IInv, Types, SearchEnds, hierarchy, search
<1>2. AtWork'
  BY NeighboursStay DEF IInv, AtWork, SearchEnds, hierarchy, node
<1>3. Labelled'
  BY RefsStay DEF IInv, Labelled, SearchEnds, search, hierarchy, node
<1>4. Ascending' /\ ShortcutsJoin'
  BY HierarchyStays DEF SearchEnds
<1> QED
  BY <1>1, <1>2, <1>3, <1>4 DEF IInv

\* What a node's label becomes when the references of n are relaxed.
LEMMA RelaxedFacts ==
  ASSUME Types, NEW n \in Node, NEW m \in Node
  PROVE  \/ /\ Relaxed(n)[m].by = label[m].by /\ Relaxed(n)[m].prev = label[m].prev
            /\ Relaxed(n)[m].length = label[m].length
            /\ Relaxed(n)[m].visited => label[m].visited \/ m = n
            /\ Relaxed(n)[m] \in Label
         \/ /\ \E r \in Refs : /\ Relaxed(n)[m].by = {r} /\ RefFrom(r) = n /\ RefTo(r) = m
            /\ Relaxed(n)[m].prev = n /\ Relaxed(n)[m] \in Label
<1> DEFINE best == {r \in Shortest(Shorter(n)) : RefTo(r) = m}
           pick == CHOOSE r \in best : TRUE
           new == [length |-> label[n].length + GetEdgeWeight(pick),
                   hops |-> label[n].hops + 1, by |-> {pick}, prev |-> n, visited |-> FALSE]
           old == [label[m] EXCEPT !.visited = @ \/ m = n]
<1>1. Relaxed(n)[m] = IF best # {} THEN new ELSE old
  BY DEF Relaxed
<1>2. CASE best # {}
  <2>1. pick \in best
    BY <1>2
  <2>2. pick \in Refs /\ RefFrom(pick) = n /\ RefTo(pick) = m
    BY <2>1 DEF Shortest, Shorter
  <2>3. pick \in AnyRef /\ GetEdgeWeight(pick) \in Nat
    BY <2>2, RefFacts DEF Types
  <2>4. label[n].length \in Nat /\ label[n].hops \in Nat
    BY DEF Types, Label
  <2> HIDE DEF pick
  <2>5. new \in Label
    BY <2>3, <2>4 DEF Label
  <2> QED
    BY <1>1, <1>2, <2>2, <2>5
<1>3. CASE best = {}
  <2>1. label[m] \in Label
    BY DEF Types
  <2>2. old \in Label /\ old.by = label[m].by /\ old.prev = label[m].prev /\ old.length = label[m].length
        /\ (old.visited => label[m].visited \/ m = n)
    BY <2>1 DEF Label
  <2> QED
    BY <1>1, <1>3, <2>2
<1> QED
  BY <1>2, <1>3

LEMMA SearchStepInv == ASSUME IInv, NEW n \in Node, SearchStep(n) PROVE IInv'
<1> DEFINE settled == [label EXCEPT ![n].visited = TRUE]
<1> USE DEF IInv
<1>1. label' = settled \/ label' = Relaxed(n)
  BY DEF SearchStep
<1>2. /\ Refs' = Refs
      /\ \A r : RefFrom(r)' = RefFrom(r) /\ RefTo(r)' = RefTo(r)
  BY RefsStay DEF SearchStep, hierarchy
<1>3. n = origin \/ label[n].prev # NoNode
  BY DEF SearchStep, Open, Labelled
<1>4. \A m \in Node :
        /\ settled[m].by = label[m].by /\ settled[m].prev = label[m].prev
        /\ settled[m].length = label[m].length
        /\ settled[m].visited => label[m].visited \/ m = n
        /\ settled[m] \in Label
  <2> TAKE m \in Node
  <2>1. label[m] \in Label /\ label \in [Node -> Label]
    BY DEF Types
  <2> QED
    BY <2>1 DEF Label
<1>5. \A m \in Node :
        \/ /\ label'[m].by = label[m].by /\ label'[m].prev = label[m].prev
           /\ label'[m].length = label[m].length
           /\ label'[m].visited => label[m].visited \/ m = n
           /\ label'[m] \in Label
        \/ /\ \E r \in Refs : label'[m].by = {r} /\ RefFrom(r) = n /\ RefTo(r) = m
           /\ label'[m].prev = n /\ label'[m] \in Label
  <2>1. CASE label' = settled
    BY <1>4, <2>1
  <2>2. CASE label' = Relaxed(n)
    BY <2>2, RelaxedFacts
  <2> QED
    BY <1>1, <2>1, <2>2
<1>6. label' \in [Node -> Label]
  <2>1. label' = [m \in Node |-> label'[m]]
    BY <1>1 DEF Relaxed, Types
  <2> QED
    BY <2>1, <1>5
<1>7. Types'
  BY <1>6 DEF Types, SearchStep, hierarchy
<1>8. AtWork'
  BY NeighboursStay DEF AtWork, SearchStep, hierarchy, node
<1>9. Labelled'
  <2>1. origin' = origin /\ ins' = ins /\ origin \in ins
    BY DEF SearchStep, node, Labelled
  <2>2. ASSUME NEW m \in Node
        PROVE  /\ \A r \in label'[m].by : r \in Refs /\ RefTo(r) = m /\ RefFrom(r) = label'[m].prev
               /\ label'[m].prev # NoNode => label'[m].by # {}
               /\ label'[m].visited \/ label'[m].length < Unlabelled => m = origin \/ label'[m].prev # NoNode
    <3>1. /\ \A r \in label[m].by : r \in Refs /\ RefTo(r) = m /\ RefFrom(r) = label[m].prev
          /\ label[m].prev # NoNode => label[m].by # {}
          /\ label[m].visited \/ label[m].length < Unlabelled => m = origin \/ label[m].prev # NoNode
      BY DEF SearchStep, Labelled
    <3>2. n # NoNode
      BY GraphAssumption
    <3> QED
      BY <1>3, <1>5, <3>1, <3>2
  <2> QED
    BY <1>2, <2>1, <2>2 DEF Labelled
<1>10. Ascending' /\ ShortcutsJoin'
  BY HierarchyStays DEF SearchStep
<1> QED
  BY <1>7, <1>8, <1>9, <1>10

-----------------------------------------------------------------------------
(* AddShortcuts. *)

\* The parts that _GetShortcut captures lead over the node at work.
LEMMA PartsFacts ==
  ASSUME IInv, stage = "add", NEW t \in outs \ {origin}, Needed(t)
  PROVE  /\ Parts(t) \in Refs \X Refs
         /\ RefFrom(Parts(t)[2]) = origin /\ RefTo(Parts(t)[2]) = via
         /\ RefFrom(Parts(t)[1]) = via /\ RefTo(Parts(t)[1]) = t
<1> USE DEF IInv
<1>1. via \in Node /\ ins = InNeighbours(via) /\ outs = OutNeighbours(via) /\ origin \in ins
  BY DEF AtWork, Labelled
<1>2. t \in Node /\ origin \in Node /\ via # NoNode /\ origin # NoNode
  BY <1>1, NeighbourFacts, GraphAssumption DEF Types
<1>3. CASE label[t].visited
  <2>1. label[t].prev = via /\ label[via].prev = origin
    BY <1>3 DEF Needed
  <2>2. \A m \in {t, via} : /\ label[m].by # {}
                            /\ \A r \in label[m].by : r \in Refs /\ RefTo(r) = m /\ RefFrom(r) = label[m].prev
    BY <1>1, <1>2, <2>1 DEF Labelled
  <2>3. (CHOOSE r \in label[t].by : TRUE) \in label[t].by
    BY <2>2
  <2>4. (CHOOSE r \in label[via].by : TRUE) \in label[via].by
    BY <2>2
  <2>5. Parts(t) = <<CHOOSE r \in label[t].by : TRUE, CHOOSE r \in label[via].by : TRUE>>
    BY <1>3 DEF Parts
  <2> DEFINE p == CHOOSE r \in label[t].by : TRUE
             q == CHOOSE r \in label[via].by : TRUE
  <2>6. /\ p \in Refs /\ q \in Refs /\ RefFrom(q) = origin /\ RefTo(q) = via
        /\ RefFrom(p) = via /\ RefTo(p) = t
    BY <2>1, <2>2, <2>3, <2>4
  <2> HIDE DEF p, q
  <2>7. Parts(t) = <<p, q>>
    BY <2>5 DEF p, q
  <2> QED
    BY <2>6, <2>7
<1>4. CASE ~label[t].visited
  <2>1. EdgesBetween(via, t) # {} /\ EdgesBetween(origin, via) # {}
    BY <1>1, NeighbourFacts DEF Types
  <2> DEFINE p == GetEdgeBetween(via, t)
             q == GetEdgeBetween(origin, via)
  <2>2. p \in EdgesBetween(via, t) /\ q \in EdgesBetween(origin, via)
    BY <2>1, BetweenFacts
  <2>3. /\ p \in Refs /\ q \in Refs /\ RefFrom(q) = origin /\ RefTo(q) = via
        /\ RefFrom(p) = via /\ RefTo(p) = t
    BY <2>2 DEF EdgesBetween
  <2>4. Parts(t) = <<p, q>>
    BY <1>4 DEF Parts
  <2> HIDE DEF p, q
  <2> QED
    BY <2>3, <2>4
<1> QED
  BY <1>3, <1>4

LEMMA FunctionIsSeq == ASSUME NEW S, NEW k \in Nat, NEW f \in [1..k -> S] PROVE f \in Seq(S)
OBVIOUS

\* What a shortcut that is added looks like.
LEMMA AddedFacts ==
  ASSUME IInv, stage = "add", NEW t \in outs \ {origin}, Needed(t)
  PROVE  LET s == AddShortcut(t) IN
         /\ s \in Shortcut /\ s.from = origin /\ s.to = t /\ s.from # via /\ s.to # via
         /\ s.from \notin contracted /\ s.to \notin contracted
         /\ s.parts \in Refs \X Refs
         /\ RefFrom(s.parts[2]) = origin /\ RefTo(s.parts[1]) = t
         /\ RefTo(s.parts[2]) = RefFrom(s.parts[1])
         /\ s.weight = GetEdgeWeight(s.parts[2]) + GetEdgeWeight(s.parts[1])
<1> DEFINE s == AddShortcut(t)
           P == Parts(t)
<1>1. /\ P \in Refs \X Refs
      /\ RefFrom(P[2]) = origin /\ RefTo(P[2]) = via
      /\ RefFrom(P[1]) = via /\ RefTo(P[1]) = t
  BY PartsFacts
<1>2. via \in Node /\ ins = InNeighbours(via) /\ outs = OutNeighbours(via) /\ origin \in ins
  BY DEF IInv, AtWork, Labelled
<1>3. /\ t \in Node \ contracted /\ t # via
      /\ origin \in Node \ contracted /\ origin # via
  BY <1>2, NeighbourFacts DEF IInv, Types
<1>4. \A r \in Refs : r \in AnyRef /\ GetEdgeWeight(r) \in Nat /\ GetEdgeWeight(r) > 0
  BY RefFacts DEF IInv, Types
<1>5. P[1] \in Refs /\ P[2] \in Refs /\ P \in AnyRef \X AnyRef
  BY <1>1, <1>4
<1>6. s = [from |-> origin, to |-> t, parts |-> P, weight |-> GetEdgeWeight(P[1]) + GetEdgeWeight(P[2])]
  BY DEF AddShortcut
<1> HIDE DEF s, P
<1>7. /\ GetEdgeWeight(P[1]) \in Nat /\ GetEdgeWeight(P[2]) \in Nat
      /\ GetEdgeWeight(P[1]) > 0 /\ GetEdgeWeight(P[2]) > 0
  BY <1>4, <1>5
<1>8. s \in Shortcut
  BY <1>3, <1>5, <1>6, <1>7 DEF Shortcut
<1>9. s.weight = GetEdgeWeight(s.parts[2]) + GetEdgeWeight(s.parts[1])
  BY <1>6, <1>7
<1>10. /\ s.from = origin /\ s.to = t /\ s.parts = P
  BY <1>6
<1> QED
  BY <1>1, <1>3, <1>8, <1>9, <1>10 DEF s

LEMMA AddShortcutsInv == ASSUME IInv, AddShortcuts PROVE IInv'
<1> USE DEF IInv
<1>1. PICK order \in SetToSeqs({t \in outs \ {origin} : Needed(t)}) :
        shortcuts' = shortcuts \o [i \in DOMAIN order |-> AddShortcut(order[i])]
  BY DEF AddShortcuts
<1> DEFINE new == [i \in DOMAIN order |-> AddShortcut(order[i])]
           count == Cardinality({t \in outs \ {origin} : Needed(t)})
<1>2. /\ DOMAIN order = 1..count
      /\ \A i \in DOMAIN order : order[i] \in outs \ {origin} /\ Needed(order[i])
  BY <1>1 DEF SetToSeqs
<1>3. stage = "add"
  BY DEF AddShortcuts
<1>4. \A i \in DOMAIN new :
        /\ new[i] \in Shortcut /\ new[i].from # via /\ new[i].to # via
        /\ new[i].from \notin contracted /\ new[i].to \notin contracted
        /\ new[i].parts \in Refs \X Refs
        /\ RefFrom(new[i].parts[2]) = new[i].from /\ RefTo(new[i].parts[1]) = new[i].to
        /\ RefTo(new[i].parts[2]) = RefFrom(new[i].parts[1])
        /\ new[i].weight = GetEdgeWeight(new[i].parts[2]) + GetEdgeWeight(new[i].parts[1])
  BY <1>2, <1>3, AddedFacts
<1>5. new \in Seq(Shortcut)
  <2>1. CASE count \in Nat
    <3>1. \A i \in 1..count : new[i] \in Shortcut
      BY <1>2, <1>4
    <3>2. new \in [1..count -> Shortcut]
      BY <1>2, <3>1
    <3> HIDE DEF new, count
    <3> QED
      BY <2>1, <3>2, FunctionIsSeq
  <2>2. count \in Nat
    <3>1. IsFiniteSet(Node)
      BY NodesAssumption
    <3>2. outs \subseteq Node
      BY <1>3, NeighbourFacts DEF AtWork, Types
    <3> QED
      BY <3>1, <3>2, FS_Subset, FS_CardinalityType
  <2> QED
    BY <2>1, <2>2
<1> HIDE DEF new
<1>6. shortcuts' = shortcuts \o new
  BY <1>1 DEF new
<1>7. /\ shortcuts' \in Seq(Shortcut)
      /\ \A i \in DOMAIN shortcuts : i \in DOMAIN shortcuts' /\ shortcuts'[i] = shortcuts[i]
      /\ \A i \in (DOMAIN shortcuts') \ DOMAIN shortcuts :
           \E j \in DOMAIN new : i = Len(shortcuts) + j /\ shortcuts'[i] = new[j]
      /\ \A r \in Refs : /\ r \in Refs'
                         /\ RefFrom(r)' = RefFrom(r) /\ RefTo(r)' = RefTo(r)
                         /\ GetEdgeWeight(r)' = GetEdgeWeight(r)
      /\ \A r \in Refs' : r \in Refs \/ \E j \in DOMAIN new :
           RefFrom(r)' = new[j].from /\ RefTo(r)' = new[j].to
  BY <1>5, <1>6, RefsGrow DEF Types
<1>8. Types'
  BY <1>7 DEF Types, AddShortcuts, search
<1>9. AtWork'
  <2>1. via' = via /\ contracted' = contracted /\ ins' = ins /\ outs' = outs /\ left' = left
    BY DEF AddShortcuts, node
  <2>2. \A r \in Refs' : r \in Refs \/ (RefFrom(r)' # via /\ RefTo(r)' # via)
    BY <1>4, <1>7
  <2>3. InNeighbours(via)' = InNeighbours(via)
    <3>1. {r \in Refs' : RefTo(r)' = via} = {r \in Refs : RefTo(r) = via}
      BY <1>7, <2>2
    <3>2. {RefFrom(r)' : r \in {q \in Refs' : RefTo(q)' = via}} =
          {RefFrom(r) : r \in {q \in Refs : RefTo(q) = via}}
      BY <1>7, <3>1
    <3> QED
      BY <2>1, <3>2 DEF InNeighbours
  <2>4. OutNeighbours(via)' = OutNeighbours(via)
    <3>1. {r \in Refs' : RefFrom(r)' = via} = {r \in Refs : RefFrom(r) = via}
      BY <1>7, <2>2
    <3>2. {RefTo(r)' : r \in {q \in Refs' : RefFrom(q)' = via}} =
          {RefTo(r) : r \in {q \in Refs : RefFrom(q) = via}}
      BY <1>7, <3>1
    <3> QED
      BY <2>1, <3>2 DEF OutNeighbours
  <2> QED
    BY <1>3, <2>1, <2>3, <2>4 DEF AtWork
<1>10. Labelled'
  BY DEF Labelled, AddShortcuts
<1>11. Ascending'
  <2> SUFFICES ASSUME NEW r \in Refs', RefFrom(r)' # RefTo(r)'
               PROVE  LET a == RefFrom(r)'
                          b == RefTo(r)'
                      IN /\ a \in contracted /\ b \in contracted => level[a] # level[b]
                         /\ a \in contracted /\ b \notin contracted => level[a] < level[b]
                         /\ b \in contracted /\ a \notin contracted => level[b] < level[a]
    BY DEF Ascending, AddShortcuts
  <2>1. CASE r \in Refs
    BY <1>7, <2>1 DEF Ascending
  <2>2. CASE \E j \in DOMAIN new : RefFrom(r)' = new[j].from /\ RefTo(r)' = new[j].to
    BY <1>4, <2>2
  <2> QED
    BY <1>7, <2>1, <2>2
<1>12. ShortcutsJoin'
  <2> SUFFICES ASSUME NEW i \in DOMAIN shortcuts', NEW s, s = shortcuts'[i]
               PROVE  Joins(s, i)'
    BY DEF ShortcutsJoin
  <2>1. s.parts \in Refs \X Refs /\ Joins(s, i)
    <3>1. CASE i \in DOMAIN shortcuts
      <4>1. s = shortcuts[i] /\ s \in Shortcut
        BY <1>7, <3>1 DEF Types
      <4>2. Joins(s, i)
        BY <3>1, <4>1 DEF ShortcutsJoin
      <4>3. s.parts[1] \in Refs /\ s.parts[2] \in Refs
        BY <4>2 DEF Joins
      <4> QED
        BY <4>1, <4>2, <4>3 DEF Shortcut
    <3>2. CASE i \notin DOMAIN shortcuts
      <4>1. PICK j \in DOMAIN new : i = Len(shortcuts) + j /\ s = new[j]
        BY <1>7, <3>2
      <4>2. j \in Nat \ {0} /\ Len(shortcuts) \in Nat /\ DOMAIN shortcuts = 1..Len(shortcuts)
        BY <1>5 DEF Types
      <4>3. \A r \in Refs : IsShortcut(r) => r.id < i
        BY <4>1, <4>2, RefFacts DEF Types
      <4> QED
        BY <1>4, <4>1, <4>3 DEF Joins
    <3> QED
      BY <3>1, <3>2
  <2>2. s.parts[1] \in Refs /\ s.parts[2] \in Refs
    BY <2>1
  <2> QED
    BY <1>7, <2>1, <2>2 DEF Joins, IsShortcut
<1> QED
  BY <1>8, <1>9, <1>10, <1>11, <1>12

-----------------------------------------------------------------------------
(* Contracted. *)

LEMMA ContractedInv == ASSUME IInv, Contracted PROVE IInv'
<1> USE DEF IInv
<1>1. /\ Refs' = Refs
      /\ \A r : RefFrom(r)' = RefFrom(r) /\ RefTo(r)' = RefTo(r) /\ GetEdgeWeight(r)' = GetEdgeWeight(r)
  BY RefsStay DEF Contracted
<1>2. /\ via \in Node \ contracted
      /\ ins = InNeighbours(via) /\ outs = OutNeighbours(via)
  BY DEF AtWork, Contracted
<1>3. \A m \in ins \cup outs : m \in Node \ contracted /\ m # via
  BY <1>2, NeighbourFacts DEF Types
<1>4. \A r \in Refs : RefFrom(r) \in Node /\ RefTo(r) \in Node
  BY RefFacts DEF Types
\* The node at work and what was contracted before keep their levels, the
\* neighbours come to lie above it, and none falls.
<1>5. /\ \A m \in contracted \cup {via} : level'[m] = level[m]
      /\ \A m \in ins \cup outs : level'[m] > level[via]
      /\ \A m \in Node : level'[m] >= level[m] /\ level'[m] \in Nat
  <2>1. \A m \in Node : level[m] \in Nat
    BY DEF Types
  <2>2. \A m \in Node : level'[m] = IF m \in ins \cup outs /\
        level[m] <= level[via] THEN level[via] + 1 ELSE level[m]
    BY DEF Contracted, Raise
  <2>3. contracted \subseteq Node
    BY DEF Types
  <2> QED
    BY <1>2, <1>3, <2>1, <2>2, <2>3
<1>6. Types'
  <2>1. level' \in [Node -> Nat]
    BY <1>5 DEF Contracted, Raise
  <2>2. contracted' \subseteq Node
    BY <1>2 DEF Types, Contracted
  <2>3. label' \in [Node -> Label]
    BY ContractionAssumption DEF Contracted, NoLabel, Label
  <2> QED
    BY <2>1, <2>2, <2>3 DEF Types, Contracted
<1>7. AtWork' /\ Labelled'
  BY DEF AtWork, Labelled, Contracted
<1>8. Ascending'
  <2> SUFFICES ASSUME NEW r \in Refs, RefFrom(r) # RefTo(r)
               PROVE  LET a == RefFrom(r)
                          b == RefTo(r)
                      IN /\ a \in contracted' /\ b \in contracted' => level'[a] # level'[b]
                         /\ a \in contracted' /\ b \notin contracted' => level'[a] < level'[b]
                         /\ b \in contracted' /\ a \notin contracted' => level'[b] < level'[a]
    BY <1>1 DEF Ascending
  <2> DEFINE a == RefFrom(r)
             b == RefTo(r)
  <2>1. contracted' = contracted \cup {via}
    BY DEF Contracted
  <2>2. /\ a \in contracted /\ b \in contracted => level[a] # level[b]
        /\ a \in contracted /\ b \notin contracted => level[a] < level[b]
        /\ b \in contracted /\ a \notin contracted => level[b] < level[a]
    BY DEF Ascending
  <2>3. a = via /\ b \notin contracted => b \in outs
    BY <1>2, <1>4 DEF OutNeighbours
  <2>4. b = via /\ a \notin contracted => a \in ins
    BY <1>2, <1>4 DEF InNeighbours
  <2>5. a \in Node /\ b \in Node /\ a # b /\ level[a] \in Nat /\ level[b] \in Nat
    BY <1>4 DEF Types
  <2> HIDE DEF a, b
  <2>6. /\ level'[a] \in Nat /\ level'[b] \in Nat /\ level[via] \in Nat
        /\ level'[a] >= level[a] /\ level'[b] >= level[b]
        /\ a \in contracted' => level'[a] = level[a]
        /\ b \in contracted' => level'[b] = level[b]
        /\ a \in ins => level'[a] > level[via]
        /\ b \in outs => level'[b] > level[via]
    BY <1>2, <1>5, <2>1, <2>5 DEF Types
  <2>7. /\ a \in contracted' /\ b \in contracted' => level'[a] # level'[b]
        /\ a \in contracted' /\ b \notin contracted' => level'[a] < level'[b]
        /\ b \in contracted' /\ a \notin contracted' => level'[b] < level'[a]
    <3>1. CASE a = via /\ b \notin contracted
      BY <2>1, <2>3, <2>5, <2>6, <3>1
    <3>2. CASE b = via /\ a \notin contracted
      BY <2>1, <2>4, <2>5, <2>6, <3>2
    <3>3. CASE a \in contracted \/ b \in contracted
      BY <1>2, <2>1, <2>2, <2>5, <2>6, <3>3
    <3>4. CASE a \notin contracted' /\ b \notin contracted'
      BY <3>4
    <3> QED
      BY <2>1, <3>1, <3>2, <3>3, <3>4
  <2> QED
    BY <2>7 DEF a, b
<1>9. ShortcutsJoin'
  <2>1. shortcuts' = shortcuts
    BY DEF Contracted
  <2> QED
    BY <1>1, <2>1 DEF ShortcutsJoin, Joins, IsShortcut
<1> QED
  BY <1>6, <1>7, <1>8, <1>9

-----------------------------------------------------------------------------
LEMMA StutterInv == ASSUME IInv, UNCHANGED contractionVars PROVE IInv'
<1>1. UNCHANGED hierarchy /\ UNCHANGED <<shortcuts, contracted, via>>
  BY DEF contractionVars, hierarchy, node
<1>2. Ascending' /\ ShortcutsJoin'
  BY <1>1, HierarchyStays
<1>3. Types'
  BY DEF IInv, Types, contractionVars, hierarchy, search
<1>4. AtWork'
  BY <1>1, NeighboursStay DEF IInv, AtWork, contractionVars, hierarchy, node
<1>5. Labelled'
  BY <1>1, RefsStay DEF IInv, Labelled, contractionVars, search, node
<1> QED
  BY <1>2, <1>3, <1>4, <1>5 DEF IInv

LEMMA StepInv == ASSUME IInv, [ContractionNext]_contractionVars PROVE IInv'
<1>1. CASE \E n \in Node : Choose(n)
  BY <1>1, ChooseInv
<1>2. CASE \E n \in Node : SearchStep(n)
  BY <1>2, SearchStepInv
<1>3. CASE \E n \in left, l \in HopLimits : StartSearch(n, l)
  BY <1>3, StartSearchInv
<1>4. CASE SearchEnds
  BY <1>4, SearchEndsInv
<1>5. CASE AddShortcuts
  BY <1>5, AddShortcutsInv
<1>6. CASE Contracted
  BY <1>6, ContractedInv
<1>7. CASE UNCHANGED contractionVars
  BY <1>7, StutterInv
<1> QED
  BY <1>1, <1>2, <1>3, <1>4, <1>5, <1>6, <1>7 DEF ContractionNext

LEMMA Inductive == ContractionSpec => []IInv
<1>1. ContractionInit => IInv
  BY InitInv
<1>2. IInv /\ [ContractionNext]_contractionVars => IInv'
  BY StepInv
<1> QED
  BY <1>1, <1>2, PTL DEF ContractionSpec

(***************************************************************************)
(* In every contraction of every graph the levels ascend: of two nodes     *)
(* that an edge or a shortcut joins, the one that goes first has the lower *)
(* level, and once both are gone their levels differ.                      *)
(***************************************************************************)
THEOREM LevelsAlwaysAscend == ContractionSpec => []LevelsAscend
<1>1. IInv => LevelsAscend
  BY DEF IInv, Ascending, LevelsAscend
<1> QED
  BY <1>1, Inductive, PTL

(***************************************************************************)
(* In every contraction of every graph each shortcut is made of two parts  *)
(* that were there before it, that meet, and that weigh what it weighs.    *)
(***************************************************************************)
THEOREM ShortcutsAlwaysJoin == ContractionSpec => []ShortcutsJoin
<1>1. IInv => ShortcutsJoin
  BY DEF IInv
<1> QED
  BY <1>1, Inductive, PTL

-----------------------------------------------------------------------------
(* The edges that shortcuts stand for. *)

\* What a shortcut unpacks to, if g tells what its parts unpack to.
PartOf(g, r) == IF IsShortcut(r) THEN g[r.id] ELSE <<r.id>>
Unpacked(g, k, reversed) ==
  IF reversed THEN PartOf(g, shortcuts[k].parts[2]) \o PartOf(g, shortcuts[k].parts[1])
              ELSE PartOf(g, shortcuts[k].parts[1]) \o PartOf(g, shortcuts[k].parts[2])

\* As its parts were there before it, there is a function with the recursive
\* definition of Unpack.
LEMMA UnpackDef ==
  ASSUME Types, ShortcutsJoin, NEW reversed \in BOOLEAN
  PROVE  \E u : /\ u = [k \in DOMAIN shortcuts |-> Unpacked(u, k, reversed)]
                /\ \A i \in DOMAIN shortcuts : Unpack(i, reversed) = u[i]
<1> DEFINE Fits(g, n) == g = [k \in 1..n |-> Unpacked(g, k, reversed)]
           S == {n \in Nat : n \in 0..Len(shortcuts) => \E g : Fits(g, n)}
<1>1. DOMAIN shortcuts = 1..Len(shortcuts) /\ Len(shortcuts) \in Nat
  BY DEF Types
<1>2. 0 \in S
  <2> DEFINE g == [k \in 1..0 |-> <<>>]
  <2>1. Fits(g, 0)
    OBVIOUS
  <2> HIDE DEF g
  <2> QED
    BY <2>1
<1>3. ASSUME NEW n \in S PROVE n + 1 \in S
  <2> SUFFICES ASSUME n + 1 \in 0..Len(shortcuts) PROVE \E g : Fits(g, n + 1)
    OBVIOUS
  <2>1. PICK g : Fits(g, n)
    BY <1>1
  <2> DEFINE h == [k \in 1..(n + 1) |-> IF k \in 1..n THEN g[k] ELSE Unpacked(g, k, reversed)]
  <2>2. \A k \in 1..n : h[k] = Unpacked(g, k, reversed)
    BY <2>1
  <2>3. h[n + 1] = Unpacked(g, n + 1, reversed)
    OBVIOUS
  <2>4. \A k \in 1..(n + 1) : h[k] = Unpacked(g, k, reversed)
    <3> HIDE DEF h
    <3> QED
      BY <2>2, <2>3
  <2>5. ASSUME NEW k \in 1..(n + 1) PROVE Unpacked(h, k, reversed) = Unpacked(g, k, reversed)
    <3>1. \A r \in {shortcuts[k].parts[1], shortcuts[k].parts[2]} :
            IsShortcut(r) => r.id \in 1..n
      <4>1. k \in DOMAIN shortcuts
        BY <1>1, <2>5
      <4>2. Joins(shortcuts[k], k)
        BY <4>1 DEF ShortcutsJoin
      <4>3. ASSUME NEW r \in {shortcuts[k].parts[1], shortcuts[k].parts[2]}, IsShortcut(r)
            PROVE  r.id \in 1..n
        <5>1. r \in Refs /\ r.id < k
          BY <4>2, <4>3 DEF Joins
        <5>2. r.id \in 1..Len(shortcuts)
          BY <1>1, <4>3, <5>1, RefFacts DEF Types
        <5> QED
          BY <2>5, <5>1, <5>2
      <4> QED
        BY <4>3
    <3>2. \A i \in 1..n : h[i] = g[i]
      OBVIOUS
    <3> HIDE DEF h
    <3> QED
      BY <3>1, <3>2 DEF Unpacked, PartOf
  <2>6. h = [k \in 1..(n + 1) |-> h[k]]
    OBVIOUS
  <2> HIDE DEF h
  <2>7. Fits(h, n + 1)
    BY <2>4, <2>5, <2>6
  <2> QED
    BY <2>7
<1>4. PICK g : Fits(g, Len(shortcuts))
  <2> HIDE DEF S
  <2>1. \A n \in Nat : n \in S
    BY <1>2, <1>3, Counting DEF S
  <2> QED
    BY <1>1, <2>1 DEF S
<1> DEFINE Is(f) == f = [k \in DOMAIN shortcuts |-> Unpacked(f, k, reversed)]
           u == CHOOSE f : Is(f)
<1>5. Is(g)
  BY <1>1, <1>4
<1>6. Is(u)
  <2> HIDE DEF Is
  <2> QED
    BY <1>5
<1>7. \A i \in DOMAIN shortcuts : Unpack(i, reversed) = u[i]
  BY DEF Unpack, Unpacked, PartOf
<1> QED
  BY <1>6, <1>7

\* A part is an edge or it unpacks to a route; two routes that meet are one.
LEMMA JoinedUnpack == ASSUME Types, ShortcutsJoin PROVE ShortcutsUnpack
<1>1. PICK u : /\ u = [k \in DOMAIN shortcuts |-> Unpacked(u, k, TRUE)]
               /\ \A i \in DOMAIN shortcuts : Unpack(i, TRUE) = u[i]
  BY UnpackDef
<1> DEFINE Good(k) == /\ u[k] \in Seq(Edge)
                      /\ RealRoute(u[k], shortcuts[k].from, shortcuts[k].to, shortcuts[k].weight)
           S == {n \in Nat : \A k \in 1..n : k \in DOMAIN shortcuts => Good(k)}
<1>2. DOMAIN shortcuts = 1..Len(shortcuts) /\ Len(shortcuts) \in Nat
  BY DEF Types
<1>3. 0 \in S
  OBVIOUS
<1>4. ASSUME NEW n \in S, NEW k \in 1..(n + 1), k \in DOMAIN shortcuts PROVE Good(k)
  <2> DEFINE first == shortcuts[k].parts[2]
             second == shortcuts[k].parts[1]
  <2>1. Joins(shortcuts[k], k)
    BY <1>4 DEF ShortcutsJoin
  <2>2. /\ first \in Refs /\ second \in Refs
        /\ IsShortcut(first) => first.id < k
        /\ IsShortcut(second) => second.id < k
        /\ RefFrom(first) = shortcuts[k].from /\ RefTo(second) = shortcuts[k].to
        /\ RefTo(first) = RefFrom(second)
        /\ shortcuts[k].weight = GetEdgeWeight(first) + GetEdgeWeight(second)
    BY <2>1 DEF Joins
  <2>3. u[k] = PartOf(u, first) \o PartOf(u, second)
    BY <1>1, <1>4 DEF Unpacked
  <2> HIDE DEF first, second
  <2>4. ASSUME NEW r \in Refs, IsShortcut(r) => r.id < k
        PROVE  /\ PartOf(u, r) \in Seq(Edge)
               /\ RealRoute(PartOf(u, r), RefFrom(r), RefTo(r), GetEdgeWeight(r))
               /\ GetEdgeWeight(r) \in Nat
    <3>1. /\ IsShortcut(r) => r.id \in DOMAIN shortcuts
          /\ ~IsShortcut(r) => r.id \in Edge
          /\ GetEdgeWeight(r) \in Nat
      BY RefFacts DEF Types
    <3>2. CASE IsShortcut(r)
      <4>1. r.id \in 1..n
        BY <1>2, <1>4, <2>4, <3>1, <3>2
      <4>2. Good(r.id)
        BY <1>4, <3>1, <3>2, <4>1
      <4> QED
        BY <3>1, <3>2, <4>2 DEF PartOf, RefFrom, RefTo, GetEdgeWeight
    <3>3. CASE ~IsShortcut(r)
      <4>1. r.id \in Edge
        BY <3>1, <3>3
      <4>2. RealRoute(<<r.id>>, NodeA[r.id], NodeB[r.id], Weight[r.id])
        BY <4>1, EdgeIsRoute
      <4> QED
        BY <3>1, <3>3, <4>1, <4>2 DEF PartOf, RefFrom, RefTo, GetEdgeWeight
    <3> QED
      BY <3>2, <3>3
  <2>5. /\ PartOf(u, first) \in Seq(Edge)
        /\ RealRoute(PartOf(u, first), shortcuts[k].from, RefTo(first), GetEdgeWeight(first))
        /\ GetEdgeWeight(first) \in Nat
    BY <2>2, <2>4
  <2>6. /\ PartOf(u, second) \in Seq(Edge)
        /\ RealRoute(PartOf(u, second), RefTo(first), shortcuts[k].to, GetEdgeWeight(second))
        /\ GetEdgeWeight(second) \in Nat
    BY <2>2, <2>4
  <2>7. RealRoute(PartOf(u, first) \o PartOf(u, second), shortcuts[k].from, shortcuts[k].to,
                  GetEdgeWeight(first) + GetEdgeWeight(second))
    BY <2>5, <2>6, RoutesJoin
  <2>8. PartOf(u, first) \o PartOf(u, second) \in Seq(Edge)
    BY <2>5, <2>6
  <2> QED
    BY <2>2, <2>3, <2>7, <2>8
<1>5. \A n \in S : n + 1 \in S
  <2> HIDE DEF Good
  <2> QED
    BY <1>4
<1>6. \A n \in Nat : n \in S
  <2> HIDE DEF S
  <2>1. S \in SUBSET Nat
    BY DEF S
  <2> QED
    BY <1>3, <1>5, <2>1, Counting
<1>7. \A k \in DOMAIN shortcuts : Good(k)
  <2> HIDE DEF Good
  <2> QED
    BY <1>2, <1>6
<1> QED
  BY <1>1, <1>7 DEF ShortcutsUnpack

(***************************************************************************)
(* In every contraction of every graph each shortcut, unpacked in reverse  *)
(* through all levels of nesting, is a route of road edges from its From   *)
(* to its To and weighs what it weighs.                                    *)
(***************************************************************************)
THEOREM ShortcutsAlwaysUnpack == ContractionSpec => []ShortcutsUnpack
<1>1. IInv => ShortcutsUnpack
  BY JoinedUnpack DEF IInv
<1> QED
  BY <1>1, Inductive, PTL

-----------------------------------------------------------------------------
(***************************************************************************)
(* The distances.  The distances from a node are the greatest potential    *)
(* that is 0 there (DistancesProofs), where a potential gives each node a  *)
(* number and no reference leads to more than its weight above where it    *)
(* begins.  So the distances are kept if the potentials are: each of the   *)
(* road graph is one of the hierarchy (Sound), and each of what is left is *)
(* part of one of the road graph (Extendable).  For the second it matters  *)
(* what the local searches have found (Tree, Searching, Searched), from    *)
(* which follows that every way over the node at work has been replaced    *)
(* (Replaced).                                                             *)
(*                                                                         *)
(* What is left may be nothing: then the same says that two labellings     *)
(* that climb the hierarchy, from the start and against the references     *)
(* from the end, bound the distances of the road graph, which is what a    *)
(* query on it rests on.                                                   *)
(***************************************************************************)

Bound(p, r) == p[RefTo(r)] <= p[RefFrom(r)] + GetEdgeWeight(r)
RoadsBound(p) == \A x \in Edge : p[NodeB[x]] <= p[NodeA[x]] + Weight[x]
Among(S) == {r \in Refs : RefFrom(r) \in S /\ RefTo(r) \in S}
Potential == [Node -> 0..Unlabelled]

Sound == \A p \in [Node -> Int] : RoadsBound(p) => \A r \in Refs : Bound(p, r)

\* A reference from a node that is gone climbs if it leads to one that is left or
\* is higher.
ClimbsFrom(a, b) == a \in contracted /\ (b \notin contracted \/ level[a] < level[b])
Climbs(f) == \A r \in Refs : ClimbsFrom(RefFrom(r), RefTo(r)) => Bound(f, r)
ClimbsBack(b) ==
  \A r \in Refs : ClimbsFrom(RefTo(r), RefFrom(r)) => b[RefFrom(r)] <= b[RefTo(r)] + GetEdgeWeight(r)

\* Below f, and with b at least c.
Between(q, f, b, c, nodes) == \A n \in nodes : q[n] <= f[n] /\ q[n] + b[n] >= c

Frames(f, b, c) == Climbs(f) /\ ClimbsBack(b) /\ \A n \in contracted : f[n] + b[n] >= c

\* The part p of a potential can be completed to q.
Completed(q, p, f, b, c) ==
  /\ RoadsBound(q) /\ \A n \in Remaining : q[n] = p[n]
  /\ Between(q, f, b, c, Node)

Extendable ==
  \A f, b, p \in Potential, c \in 0..Unlabelled :
    Frames(f, b, c) /\ Between(p, f, b, c, Remaining) /\ (\A r \in Among(Remaining) : Bound(p, r)) =>
      \E q \in Potential : Completed(q, p, f, b, c)

\* A label has come from a node that was visited before.
TreeAt(m) ==
  /\ label[m].length <= Unlabelled
  /\ label[m].visited => label[m].length < Unlabelled /\ label[origin].visited
  /\ label[m].prev # NoNode =>
       /\ label[label[m].prev].visited /\ m # origin
       /\ label[m].length < Unlabelled
       /\ label[m].hops = label[label[m].prev].hops + 1
       /\ \A r \in label[m].by : label[m].length = label[label[m].prev].length + GetEdgeWeight(r)
  /\ m \in contracted => label[m].length = Unlabelled

Tree ==
  stage \in {"search", "add"} =>
    /\ label[origin].length = 0 /\ label[origin].hops = 0 /\ label[origin].prev = NoNode
    /\ limit \in Nat /\ limit >= 2
    /\ \A m \in Node : TreeAt(m)

RelaxedAt(m) ==
  \A r \in Refs : RefFrom(r) = m /\ RefTo(r) \notin contracted =>
    label[RefTo(r)].length <= label[m].length + GetEdgeWeight(r)

\* Nodes are visited in the order of their lengths, and all but the last and those
\* at the hop limit have been relaxed.
Visiting(last) ==
  \A m \in Node : label[m].visited =>
    /\ \A k \in Open : label[m].length <= label[k].length
    /\ m # last /\ label[m].hops < limit => RelaxedAt(m)

Searching == stage = "search" => Visiting(NoNode)

\* A search ends with the node at which all the targets turn out to have been
\* visited, or when there is nothing left.
Searched ==
  stage = "add" =>
    \E last \in Node \cup {NoNode} :
      /\ Visiting(last)
      /\ last = NoNode => Open = {}
      /\ last # NoNode => /\ label[last].visited
                          /\ \A t \in outs : label[t].visited /\ label[t].length <= label[last].length

Searches == Tree /\ Searching /\ Searched

\* No way over r and the node at work makes p less than a potential.
Good(p, r) ==
  \A q \in Refs : RefFrom(q) = via /\ RefTo(q) \in outs =>
    p[RefTo(q)] <= p[RefFrom(r)] + GetEdgeWeight(r) + GetEdgeWeight(q)

\* The ways from u over the node at work have been replaced, provided that the ways
\* from elsewhere that begin with something shorter will be.
LighterGood(p, r) ==
  \A q \in Refs : RefFrom(q) \in ins /\ RefTo(q) = via /\ GetEdgeWeight(q) < GetEdgeWeight(r) => Good(p, q)

ReplacedFrom(u) ==
  \A p \in Potential : (\A r \in Among(Remaining \ {via}) : Bound(p, r)) =>
    \A r \in Refs : RefFrom(r) = u /\ RefTo(r) = via /\ LighterGood(p, r) => Good(p, r)

Replaced ==
  stage \in {"pair", "search", "add"} =>
    \A u \in ins : u \notin left /\ (stage = "pair" \/ u # origin) => ReplacedFrom(u)

-----------------------------------------------------------------------------
(* The local searches. *)

\* What the label of a node is when the references of n have been relaxed.
LEMMA RelaxedIs ==
  ASSUME Types, NEW n \in Node, NEW m \in Node
  PROVE  \/ /\ Relaxed(n)[m] = [label[m] EXCEPT !.visited = @ \/ m = n]
            /\ \A r \in Refs : RefFrom(r) = n /\ RefTo(r) = m /\ m \notin contracted =>
                 label[m].length <= label[n].length + GetEdgeWeight(r)
         \/ \E r \in Refs :
              /\ Relaxed(n)[m] = [length |-> label[n].length + GetEdgeWeight(r), hops |-> label[n].hops + 1,
                                  by |-> {r}, prev |-> n, visited |-> FALSE]
              /\ RefFrom(r) = n /\ RefTo(r) = m /\ m \notin contracted
              /\ label[n].length + GetEdgeWeight(r) < label[m].length
              /\ \A q \in Refs : RefFrom(q) = n /\ RefTo(q) = m => GetEdgeWeight(r) <= GetEdgeWeight(q)
<1> DEFINE best == {r \in Shortest(Shorter(n)) : RefTo(r) = m}
           pick == CHOOSE r \in best : TRUE
           new == [length |-> label[n].length + GetEdgeWeight(pick),
                   hops |-> label[n].hops + 1, by |-> {pick}, prev |-> n, visited |-> FALSE]
           old == [label[m] EXCEPT !.visited = @ \/ m = n]
<1>1. Relaxed(n)[m] = IF best # {} THEN new ELSE old
  BY DEF Relaxed
<1>2. \A r \in Refs : GetEdgeWeight(r) \in Nat
  BY RefFacts DEF Types
<1>3. label[n].length \in Nat /\ label[m].length \in Nat
  BY DEF Types, Label
<1>4. CASE best # {}
  <2>1. pick \in best
    BY <1>4
  <2>2. /\ pick \in Refs /\ RefFrom(pick) = n /\ RefTo(pick) = m /\ m \notin contracted
        /\ label[n].length + GetEdgeWeight(pick) < label[m].length
    BY <2>1 DEF Shortest, Shorter
  <2>3. \A q \in Shorter(n) : RefTo(q) = m => GetEdgeWeight(pick) <= GetEdgeWeight(q)
    BY <2>1 DEF Shortest
  <2> HIDE DEF pick
  <2>4. ASSUME NEW q \in Refs, RefFrom(q) = n, RefTo(q) = m
        PROVE  GetEdgeWeight(pick) <= GetEdgeWeight(q)
    <3>1. CASE q \in Shorter(n)
      BY <2>3, <2>4, <3>1
    <3>2. CASE q \notin Shorter(n)
      <4>1. ~(label[n].length + GetEdgeWeight(q) < label[m].length)
        BY <2>2, <2>4, <3>2 DEF Shorter
      <4> QED
        BY <1>2, <1>3, <2>2, <2>4, <4>1
    <3> QED
      BY <3>1, <3>2
  <2> QED
    BY <1>1, <1>4, <2>2, <2>4
<1>5. CASE best = {}
  <2>1. ASSUME NEW r \in Refs, RefFrom(r) = n, RefTo(r) = m, m \notin contracted,
               ~(label[m].length <= label[n].length + GetEdgeWeight(r))
        PROVE  FALSE
    <3> DEFINE ways == {q \in Shorter(n) : RefTo(q) = m}
               weights == {GetEdgeWeight(q) : q \in ways}
    <3>1. r \in ways
      BY <1>2, <1>3, <2>1 DEF Shorter
    <3>2. weights \in SUBSET Nat /\ weights # {}
      BY <1>2, <3>1 DEF Shorter
    <3>3. \E l \in weights : \A o \in weights : l <= o
      <4> HIDE DEF weights
      <4> QED
        BY <3>2, LeastNumber
    <3>4. PICK q \in ways : \A o \in ways : GetEdgeWeight(q) <= GetEdgeWeight(o)
      BY <3>3
    <3>5. q \in best
      BY <3>4 DEF Shortest
    <3> QED
      BY <1>5, <3>5
  <2> QED
    BY <1>1, <1>5, <2>1
<1> QED
  BY <1>4, <1>5

LEMMA StartSearchSearches ==
  ASSUME IInv, NEW n \in left, NEW l \in HopLimits, StartSearch(n, l) PROVE Searches'
<1>1. stage' = "search" /\ origin' = n /\ limit' = l /\ contracted' = contracted
  BY DEF StartSearch, hierarchy
<1>2. n \in Node \ contracted
  BY NeighbourFacts DEF IInv, Types, AtWork, StartSearch
<1>3. \A m \in Node : /\ label'[m].length = IF m = n THEN 0 ELSE Unlabelled
                      /\ label'[m].hops = 0 /\ label'[m].prev = NoNode /\ ~label'[m].visited
  BY DEF StartSearch, NoLabel
<1>4. l \in Nat /\ l >= 2 /\ Unlabelled \in Nat /\ Unlabelled > 0
  BY ContractionAssumption
<1>5. \A m \in Node : TreeAt(m)'
  BY <1>1, <1>2, <1>3, <1>4 DEF TreeAt
<1>6. Tree'
  BY <1>1, <1>2, <1>3, <1>4, <1>5 DEF Tree
<1>7. Searching' /\ Searched'
  BY <1>1, <1>3 DEF Searching, Searched, Visiting
<1> QED
  BY <1>6, <1>7 DEF Searches

LEMMA SearchEndsSearches == ASSUME IInv, Searches, SearchEnds PROVE Searches'
<1>1. /\ stage = "search" /\ stage' = "add" /\ Open = {}
      /\ UNCHANGED <<contracted, shortcuts, label, origin, limit>>
  BY DEF SearchEnds, hierarchy, search
<1>2. /\ Refs' = Refs
      /\ \A r : RefFrom(r)' = RefFrom(r) /\ RefTo(r)' = RefTo(r) /\ GetEdgeWeight(r)' = GetEdgeWeight(r)
  BY <1>1, RefsStay
<1>3. Open' = Open
  BY <1>1 DEF Open
<1>4. \A m \in Node : TreeAt(m) => TreeAt(m)'
  BY <1>1, <1>2 DEF TreeAt
<1>5. Tree'
  BY <1>1, <1>4 DEF Searches, Tree
<1>6. \A m \in Node : RelaxedAt(m) => RelaxedAt(m)'
  BY <1>1, <1>2 DEF RelaxedAt
<1>7. Visiting(NoNode)'
  BY <1>1, <1>3, <1>6 DEF Searches, Searching, Visiting
<1>8. Searching' /\ Searched'
  BY <1>1, <1>3, <1>7 DEF Searching, Searched
<1> QED
  BY <1>5, <1>8 DEF Searches

LEMMA SearchStepSearches == ASSUME IInv, Searches, NEW n \in Node, SearchStep(n) PROVE Searches'
<1> DEFINE found == \A t \in outs : t = n \/ label[t].visited
<1>1. /\ stage = "search" /\ n \in Open /\ \A m \in Open : label[n].length <= label[m].length
      /\ UNCHANGED <<contracted, shortcuts, origin, limit, outs>>
      /\ stage' = IF found THEN "add" ELSE "search"
      /\ label' = IF found \/ label[n].hops >= limit THEN [label EXCEPT ![n].visited = TRUE] ELSE Relaxed(n)
  BY DEF SearchStep, hierarchy, node
<1> HIDE DEF found
<1>2. /\ Refs' = Refs
      /\ \A r : RefFrom(r)' = RefFrom(r) /\ RefTo(r)' = RefTo(r) /\ GetEdgeWeight(r)' = GetEdgeWeight(r)
  BY <1>1, RefsStay
<1>3. /\ label \in [Node -> Label] /\ label' \in [Node -> Label]
      /\ \A m \in Node : /\ label[m].length \in Nat /\ label'[m].length \in Nat
                         /\ label[m].hops \in Nat /\ label'[m].hops \in Nat
  <2>1. IInv'
    BY SearchStepInv
  <2>2. label \in [Node -> Label] /\ label' \in [Node -> Label]
    BY <2>1 DEF IInv, Types
  <2> QED
    BY <2>2 DEF Label
<1>4. \A r \in Refs : RefTo(r) \in Node /\ RefFrom(r) \in Node /\ GetEdgeWeight(r) \in Nat /\
      GetEdgeWeight(r) > 0
  BY RefFacts DEF IInv, Types
<1>5. /\ \A m \in Node : TreeAt(m)
      /\ label[origin].length = 0 /\ label[origin].hops = 0 /\ label[origin].prev = NoNode
      /\ limit \in Nat /\ limit >= 2 /\ Visiting(NoNode)
  BY <1>1 DEF Searches, Tree, Searching
<1>6. origin \in Node /\ outs \subseteq Node /\ NoNode \notin Node
  <2>1. ins = InNeighbours(via) /\ outs = OutNeighbours(via) /\ origin \in ins /\ via \in Node
    BY <1>1 DEF IInv, AtWork, Labelled
  <2> QED
    BY <2>1, NeighbourFacts, GraphAssumption DEF IInv, Types
<1>7. /\ label[n].length < Unlabelled /\ ~label[n].visited
      /\ n = origin \/ label[n].prev # NoNode
      /\ \A m \in Node : label[m].visited => label[m].length <= label[n].length
  BY <1>1, <1>5 DEF Open, Visiting, IInv, Labelled
<1>8. label[origin].visited \/ n = origin
  <2>1. label[n].prev # NoNode => label[n].prev \in Node /\ label[label[n].prev].visited
    BY <1>3, <1>5 DEF TreeAt, Label
  <2> QED
    BY <1>5, <1>7, <2>1 DEF TreeAt
\* The label of a node stays, but for the mark, or is made shorter from n.
<1> DEFINE Stays(m) == /\ label'[m].length = label[m].length /\ label'[m].hops = label[m].hops
                       /\ label'[m].by = label[m].by /\ label'[m].prev = label[m].prev
                       /\ label'[m].visited = (label[m].visited \/ m = n)
           Shortened(m) == \E r \in Refs :
             /\ label'[m].length = label[n].length + GetEdgeWeight(r) /\ label'[m].hops = label[n].hops + 1
             /\ label'[m].by = {r} /\ label'[m].prev = n /\ ~label'[m].visited
             /\ m \notin contracted
             /\ label[n].length + GetEdgeWeight(r) < label[m].length
<1>9. \A m \in Node : Stays(m) \/ Shortened(m)
  <2>1. CASE label' = [label EXCEPT ![n].visited = TRUE]
    <3>1. \A m \in Node : label'[m] = [label[m] EXCEPT !.visited = @ \/ m = n]
      BY <1>3, <2>1 DEF Label
    <3> QED
      BY <1>3, <3>1 DEF Label
  <2>2. CASE label' = Relaxed(n)
    <3> TAKE m \in Node
    <3>1. label[m] \in Label
      BY <1>3
    <3>2. CASE Relaxed(n)[m] = [label[m] EXCEPT !.visited = @ \/ m = n]
      BY <2>2, <3>1, <3>2 DEF Label
    <3>3. CASE Relaxed(n)[m] # [label[m] EXCEPT !.visited = @ \/ m = n]
      <4>1. PICK r \in Refs :
              /\ Relaxed(n)[m] = [length |-> label[n].length + GetEdgeWeight(r), hops |-> label[n].hops + 1,
                                  by |-> {r}, prev |-> n, visited |-> FALSE]
              /\ m \notin contracted
              /\ label[n].length + GetEdgeWeight(r) < label[m].length
        BY <3>3, RelaxedIs DEF IInv
      <4>2. /\ label'[m].length = label[n].length + GetEdgeWeight(r) /\ label'[m].hops = label[n].hops + 1
            /\ label'[m].by = {r} /\ label'[m].prev = n /\ ~label'[m].visited
        BY <2>2, <4>1
      <4>3. Shortened(m)
        BY <4>1, <4>2
      <4> QED
        BY <4>3
    <3> QED
      BY <3>2, <3>3
  <2> QED
    BY <1>1, <2>1, <2>2
<1>10. \A m \in Node : label[m].visited \/ m = n => Stays(m)
  <2> SUFFICES ASSUME NEW m \in Node, label[m].visited \/ m = n, Shortened(m) PROVE FALSE
    BY <1>9
  <2>1. PICK r \in Refs : label[n].length + GetEdgeWeight(r) < label[m].length
    OBVIOUS
  <2>2. label[m].length <= label[n].length
    BY <1>3, <1>7
  <2> QED
    BY <1>3, <1>4, <2>1, <2>2
<1>11. \A m \in Node : label'[m].length <= label[m].length
  BY <1>3, <1>4, <1>9
<1>12. \A m \in Node : label'[m].visited => label[m].visited \/ m = n
  BY <1>9
<1>13. Stays(origin) /\ label'[origin].visited
  BY <1>6, <1>8, <1>10
<1>14. \A m \in Node : TreeAt(m)'
  <2> TAKE m \in Node
  <2>0. TreeAt(m)
    BY <1>5
  <2>1. CASE Stays(m)
    <3>1. CASE label[m].prev = NoNode
      BY <1>1, <1>3, <1>7, <1>13, <2>0, <2>1, <3>1 DEF TreeAt
    <3>2. CASE label[m].prev # NoNode
      <4> DEFINE x == label[m].prev
      <4>1. x \in Node /\ label[x].visited
        BY <1>3, <2>0, <3>2 DEF TreeAt, Label
      <4>2. Stays(x) /\ label'[x].visited
        BY <1>10, <4>1
      <4>3. label'[m].prev = x
        BY <2>1
      <4>4. /\ label[x].visited /\ m # origin /\ label[m].length < Unlabelled
            /\ label[m].hops = label[x].hops + 1
            /\ \A r \in label[m].by : label[m].length = label[x].length + GetEdgeWeight(r)
            /\ m \in contracted => label[m].length = Unlabelled
        BY <2>0, <3>2 DEF TreeAt
      <4> HIDE DEF x
      <4>5. /\ label'[x].visited /\ m # origin /\ label'[m].length < Unlabelled
            /\ label'[m].hops = label'[x].hops + 1
            /\ \A r \in label'[m].by : label'[m].length = label'[x].length + GetEdgeWeight(r)
            /\ m \in contracted => label'[m].length = Unlabelled
        BY <2>1, <4>2, <4>4
      <4>6. label'[m].length <= Unlabelled
        BY <1>3, <4>5, ContractionAssumption
      <4> QED
        BY <1>1, <1>2, <1>13, <4>3, <4>5, <4>6 DEF TreeAt
    <3> QED
      BY <3>1, <3>2
  <2>2. CASE Shortened(m)
    <3>1. PICK r \in Refs :
             /\ label'[m].length = label[n].length + GetEdgeWeight(r) /\ label'[m].hops = label[n].hops + 1
             /\ label'[m].by = {r} /\ label'[m].prev = n /\ ~label'[m].visited
             /\ m \notin contracted
             /\ label[n].length + GetEdgeWeight(r) < label[m].length
      BY <2>2
    <3>2. Stays(n) /\ label'[n].visited
      BY <1>10
    <3>3. m # origin
      BY <1>3, <1>4, <1>5, <3>1
    <3>4. label'[m].length < Unlabelled
      <4>1. label[m].length <= Unlabelled
        BY <2>0 DEF TreeAt
      <4> QED
        BY <1>3, <3>1, <4>1, ContractionAssumption
    <3>5. label'[m].length <= Unlabelled
      BY <1>3, <3>4, ContractionAssumption
    <3>6. /\ label'[n].visited /\ label'[m].hops = label'[n].hops + 1
          /\ \A q \in label'[m].by : label'[m].length = label'[n].length + GetEdgeWeight(q)
      BY <3>1, <3>2
    <3> HIDE DEF Stays
    <3> QED
      BY <1>1, <1>2, <3>1, <3>3, <3>4, <3>5, <3>6 DEF TreeAt
  <2> QED
    BY <1>9, <2>1, <2>2
<1>15. Tree'
  BY <1>1, <1>5, <1>6, <1>13, <1>14 DEF Tree
\* What is visited is no further than what is not.
<1>16. \A m \in Node : label'[m].visited => \A k \in Open' : label'[m].length <= label'[k].length
  <2> SUFFICES ASSUME NEW m \in Node, label'[m].visited, NEW k \in Open'
               PROVE  label'[m].length <= label'[k].length
    OBVIOUS
  <2>1. k \in Node /\ label'[k].length < Unlabelled /\ ~label'[k].visited
    BY DEF Open
  <2>2. label'[m].length <= label[n].length
    BY <1>3, <1>7, <1>10, <1>12
  <2>3. label[n].length <= label'[k].length
    <3>1. CASE Stays(k)
      BY <1>1, <2>1, <3>1 DEF Open
    <3>2. CASE Shortened(k)
      BY <1>3, <1>4, <3>2
    <3> QED
      BY <1>9, <2>1, <3>1, <3>2
  <2> QED
    BY <1>3, <2>1, <2>2, <2>3
<1>17. \A m \in Node : label[m].visited /\ label[m].hops < limit => RelaxedAt(m)'
  <2> SUFFICES ASSUME NEW m \in Node, label[m].visited, label[m].hops < limit,
                      NEW r \in Refs, RefFrom(r) = m, RefTo(r) \notin contracted
               PROVE  label'[RefTo(r)].length <= label'[m].length + GetEdgeWeight(r)
    BY <1>1, <1>2 DEF RelaxedAt
  <2>1. label[RefTo(r)].length <= label[m].length + GetEdgeWeight(r)
    BY <1>5, <1>6 DEF Visiting, RelaxedAt
  <2>2. Stays(m)
    BY <1>10
  <2>3. RefTo(r) \in Node /\ GetEdgeWeight(r) \in Nat
    BY <1>4
  <2> QED
    BY <1>3, <1>11, <2>1, <2>2, <2>3
<1>18. CASE found
  <2>1. stage' = "add"
    BY <1>1, <1>18
  <2>2. Visiting(n)'
    <3>1. \A m \in Node : label'[m].visited /\ m # n /\ label'[m].hops < limit' => RelaxedAt(m)'
      BY <1>1, <1>10, <1>12, <1>17
    <3> QED
      BY <1>16, <3>1 DEF Visiting
  <2>3. \A t \in outs' : label'[t].visited /\ label'[t].length <= label'[n].length
    BY <1>1, <1>3, <1>6, <1>7, <1>10, <1>18 DEF found
  <2>4. n # NoNode /\ label'[n].visited
    BY <1>6, <1>10
  <2>5. Searching' /\ Searched'
    BY <2>1, <2>2, <2>3, <2>4 DEF Searching, Searched
  <2> QED
    BY <1>15, <2>5 DEF Searches
<1>19. CASE ~found
  <2>1. stage' = "search"
    BY <1>1, <1>19
  <2>2. label[n].hops < limit => RelaxedAt(n)'
    <3> SUFFICES ASSUME label[n].hops < limit, NEW r \in Refs, RefFrom(r) = n, RefTo(r) \notin contracted
                 PROVE  label'[RefTo(r)].length <= label'[n].length + GetEdgeWeight(r)
      BY <1>1, <1>2 DEF RelaxedAt
    <3> DEFINE m == RefTo(r)
    <3>1. label' = Relaxed(n)
      BY <1>1, <1>3, <1>5, <1>19
    <3>2. m \in Node /\ GetEdgeWeight(r) \in Nat /\ RefTo(r) = m /\ m \notin contracted
      BY <1>4
    <3> HIDE DEF m
    <3>3. label'[n].length = label[n].length
      BY <1>10
    <3>4. CASE label[m].length <= label[n].length + GetEdgeWeight(r)
      BY <1>3, <1>11, <3>2, <3>3, <3>4
    <3>5. CASE ~(label[m].length <= label[n].length + GetEdgeWeight(r))
      <4>1. PICK q \in Refs :
              /\ Relaxed(n)[m] = [length |-> label[n].length + GetEdgeWeight(q), hops |-> label[n].hops + 1,
                                  by |-> {q}, prev |-> n, visited |-> FALSE]
              /\ GetEdgeWeight(q) <= GetEdgeWeight(r)
        BY <3>2, <3>5, RelaxedIs DEF IInv
      <4>2. label'[m].length = label[n].length + GetEdgeWeight(q)
        BY <3>1, <4>1
      <4> QED
        BY <1>3, <1>4, <3>2, <3>3, <4>1, <4>2
    <3> QED
      BY <3>4, <3>5
  <2>3. Visiting(NoNode)'
    <3>1. \A m \in Node : label'[m].visited /\ label'[m].hops < limit' => RelaxedAt(m)'
      BY <1>1, <1>10, <1>12, <1>17, <2>2
    <3> QED
      BY <1>16, <3>1 DEF Visiting
  <2>4. Searching' /\ Searched'
    BY <2>1, <2>3 DEF Searching, Searched
  <2> QED
    BY <1>15, <2>4 DEF Searches
<1> QED
  BY <1>18, <1>19

\* Outside of a search nothing is claimed of one.
LEMMA NoSearch == ASSUME stage \notin {"search", "add"} PROVE Searches
BY DEF Searches, Tree, Searching, Searched

-----------------------------------------------------------------------------
(* The ways over the node at work. *)

\* The label that a label has come from.
LEMMA BeforeFacts ==
  ASSUME IInv, Tree, stage \in {"search", "add"}, NEW m \in Node, label[m].visited, m # origin
  PROVE  \E b \in Refs, x \in Node :
           /\ x = label[m].prev /\ b \in label[m].by /\ RefFrom(b) = x /\ RefTo(b) = m
           /\ label[x].visited /\ label[x].length \in Nat /\ label[m].length \in Nat
           /\ GetEdgeWeight(b) \in Nat /\ GetEdgeWeight(b) > 0
           /\ label[m].length = label[x].length + GetEdgeWeight(b)
           /\ label[m].hops = label[x].hops + 1
           /\ x \notin contracted /\ m \notin contracted
<1>1. TreeAt(m) /\ \A x \in Node : TreeAt(x)
  BY DEF Tree
<1>2. /\ label[m].prev # NoNode /\ label[m].by # {}
      /\ \A r \in label[m].by : r \in Refs /\ RefTo(r) = m /\ RefFrom(r) = label[m].prev
  BY DEF IInv, Labelled
<1>3. PICK b \in label[m].by : TRUE
  BY <1>2
<1> DEFINE x == label[m].prev
<1>4. x \in Node
  BY <1>2 DEF IInv, Types, Label
<1>5. b \in Refs /\ RefFrom(b) = x /\ RefTo(b) = m
  BY <1>2, <1>3
<1>6. GetEdgeWeight(b) \in Nat /\ GetEdgeWeight(b) > 0
  BY <1>5, RefFacts DEF IInv, Types
<1>7. label[m].length \in Nat /\ label[x].length \in Nat
  BY <1>4 DEF IInv, Types, Label
<1>8. /\ label[x].visited /\ label[m].length = label[x].length + GetEdgeWeight(b)
      /\ label[m].hops = label[x].hops + 1 /\ label[m].length < Unlabelled
  BY <1>1, <1>2, <1>3 DEF TreeAt
<1>9. m \notin contracted /\ x \notin contracted
  <2>1. TreeAt(x)
    BY <1>1, <1>4
  <2> QED
    BY <1>1, <1>7, <1>8, <2>1, ContractionAssumption DEF TreeAt
<1> HIDE DEF x
<1>10. x = label[m].prev
  BY DEF x
<1> QED
  BY <1>3, <1>4, <1>5, <1>6, <1>7, <1>8, <1>9, <1>10

\* The node at work, the origin and the neighbours while a search's result is used.
LEMMA AddFacts ==
  ASSUME IInv, stage \in {"search", "add"}
  PROVE  /\ via \in Node /\ origin \in Node /\ origin \in ins /\ via # origin /\ NoNode \notin Node
         /\ via \notin contracted /\ origin \notin contracted
         /\ \A r \in Refs : RefFrom(r) = via /\ RefTo(r) # via /\ RefTo(r) \notin contracted =>
             RefTo(r) \in outs
         /\ \A r \in Refs : RefTo(r) = via /\ RefFrom(r) # via /\ RefFrom(r) \notin contracted =>
             RefFrom(r) \in ins
         /\ \A t \in outs : t \in Node /\ t # via /\ t \notin contracted
<1>1. /\ via \in Node \ contracted /\ ins = InNeighbours(via) /\ outs = OutNeighbours(via)
      /\ origin \in ins
  BY DEF IInv, AtWork, Labelled
<1>2. /\ \A m \in ins : m \in Node \ contracted /\ m # via
      /\ \A t \in outs : t \in Node \ contracted /\ t # via
  BY <1>1, NeighbourFacts DEF IInv, Types
<1>3. \A r \in Refs : RefFrom(r) = via /\ RefTo(r) # via /\ RefTo(r) \notin contracted => RefTo(r) \in outs
  BY <1>1 DEF OutNeighbours
<1>4. \A r \in Refs : RefTo(r) = via /\ RefFrom(r) # via /\ RefFrom(r) \notin contracted => RefFrom(r) \in ins
  BY <1>1 DEF InNeighbours
<1> QED
  BY <1>1, <1>2, <1>3, <1>4, GraphAssumption

LEMMA PotentialFacts ==
  ASSUME NEW p \in Potential
  PROVE  \A n \in Node : p[n] \in Nat /\ p[n] <= Unlabelled
BY ContractionAssumption DEF Potential

\* A shortcut for a target that was visited weighs what the label of the target says.
LEMMA NeededWeight ==
  ASSUME IInv, Tree, stage = "add", NEW m \in outs \ {origin}, label[m].visited,
         label[m].prev = via, label[via].prev = origin
  PROVE  AddShortcut(m).weight = label[m].length
<1>1. /\ via \in Node /\ m \in Node /\ origin \in Node /\ origin # NoNode /\ via # NoNode /\ via # origin
  BY AddFacts
<1>2. TreeAt(m) /\ TreeAt(via) /\ label[origin].length = 0
  BY <1>1 DEF Tree
<1>3. /\ label[m].by # {} /\ label[via].by # {}
      /\ \A r \in label[m].by \cup label[via].by : r \in Refs
  BY <1>1 DEF IInv, Labelled
<1> DEFINE b == CHOOSE r \in label[m].by : TRUE
           c == CHOOSE r \in label[via].by : TRUE
<1>4. b \in label[m].by /\ c \in label[via].by
  BY <1>3
<1>5. Parts(m) = <<b, c>>
  BY DEF Parts
<1> HIDE DEF b, c
<1>6. label[m].length = label[via].length + GetEdgeWeight(b)
  BY <1>1, <1>2, <1>4 DEF TreeAt
<1>7. label[via].length = label[origin].length + GetEdgeWeight(c)
  BY <1>1, <1>2, <1>4 DEF TreeAt
<1>8. GetEdgeWeight(b) \in Nat /\ GetEdgeWeight(c) \in Nat
  BY <1>3, <1>4, RefFacts DEF IInv, Types
<1>9. AddShortcut(m).weight = GetEdgeWeight(b) + GetEdgeWeight(c)
  BY <1>5 DEF AddShortcut
<1> QED
  BY <1>2, <1>6, <1>7, <1>8, <1>9

\* With the shortcuts added, a potential grows by no more than the label from the
\* origin to a node that was visited, because the search led there along
\* references that are left, except for ways over the node at work, which
\* have been replaced, or are by way of a lighter reference to it.
LEMMA VisitedIsBounded ==
  ASSUME IInv, Tree, stage = "add", NEW p \in Potential,
         \A r \in Among(Remaining \ {via}) : Bound(p, r),
         \A t \in outs \ {origin} : Needed(t) => p[t] <= p[origin] + AddShortcut(t).weight,
         NEW w \in Nat, label[via].length <= w,
         \A q \in Refs : RefFrom(q) \in ins /\ RefTo(q) = via /\ GetEdgeWeight(q) < w => Good(p, q)
  PROVE  \A m \in Node : label[m].visited /\ m # via => p[m] <= p[origin] + label[m].length
<1> DEFINE Bad == {m \in Node : label[m].visited /\ m # via /\ ~(p[m] <= p[origin] + label[m].length)}
           lengths == {label[m].length : m \in Bad}
<1> SUFFICES ASSUME Bad # {} PROVE FALSE
  OBVIOUS
<1>1. \A n \in Node : label[n].length \in Nat
  BY DEF IInv, Types, Label
<1>2. lengths \in SUBSET Nat /\ lengths # {}
  BY <1>1
<1>3. \E l \in lengths : \A o \in lengths : l <= o
  <2> HIDE DEF lengths
  <2> QED
    BY <1>2, LeastNumber
<1>4. PICK m \in Bad : \A o \in Bad : label[m].length <= label[o].length
  BY <1>3
<1>5. m \in Node /\ label[m].visited /\ m # via /\ ~(p[m] <= p[origin] + label[m].length)
  BY <1>4
<1>6. \A n \in Node : label[n].visited /\ n # via /\ label[n].length < label[m].length =>
        p[n] <= p[origin] + label[n].length
  BY <1>1, <1>4, <1>5
<1> HIDE DEF Bad, lengths
<1>7. \A n \in Node : p[n] \in Nat
  BY PotentialFacts
<1>8. /\ via \in Node /\ origin \in Node /\ via # origin /\ label[origin].length = 0
      /\ origin # NoNode
  BY AddFacts DEF Tree
<1>9. m # origin
  BY <1>5, <1>7, <1>8
<1>10. PICK b \in Refs, x \in Node :
         /\ x = label[m].prev /\ b \in label[m].by /\ RefFrom(b) = x /\ RefTo(b) = m
         /\ label[x].visited
         /\ GetEdgeWeight(b) \in Nat /\ GetEdgeWeight(b) > 0
         /\ label[m].length = label[x].length + GetEdgeWeight(b)
         /\ x \notin contracted /\ m \notin contracted
  BY <1>5, <1>9, BeforeFacts
<1>11. label[x].length < label[m].length
  BY <1>1, <1>10
<1>12. CASE x # via
  <2>1. p[x] <= p[origin] + label[x].length
    BY <1>6, <1>10, <1>11, <1>12
  <2>2. b \in Among(Remaining \ {via})
    BY <1>5, <1>10, <1>12 DEF Among, Remaining
  <2>3. p[m] <= p[x] + GetEdgeWeight(b)
    BY <1>10, <2>2 DEF Bound
  <2> QED
    BY <1>1, <1>5, <1>7, <1>8, <1>10, <2>1, <2>3
<1>13. CASE x = via
  <2>1. m \in outs \ {origin}
    BY <1>5, <1>9, <1>10, <1>13, AddFacts
  <2>2. PICK c \in Refs, y \in Node :
          /\ y = label[via].prev /\ c \in label[via].by /\ RefFrom(c) = y /\ RefTo(c) = via
          /\ label[y].visited
          /\ GetEdgeWeight(c) \in Nat /\ GetEdgeWeight(c) > 0
          /\ label[via].length = label[y].length + GetEdgeWeight(c)
          /\ y \notin contracted
    BY <1>8, <1>10, <1>13, BeforeFacts
  <2>3. CASE y = origin
    <3>1. p[m] <= p[origin] + AddShortcut(m).weight
      BY <1>10, <1>13, <2>1, <2>2, <2>3 DEF Needed
    <3>2. AddShortcut(m).weight = label[m].length
      BY <1>5, <1>10, <1>13, <2>1, <2>2, <2>3, NeededWeight
    <3> QED
      BY <1>5, <3>1, <3>2
  <2>4. CASE y # origin
    <3>1. y # via
      BY <1>1, <1>8, <2>2
    <3>2. label[y].length > 0
      <4>1. PICK d \in Refs, z \in Node :
              /\ label[z].length \in Nat /\ GetEdgeWeight(d) \in Nat /\ GetEdgeWeight(d) > 0
              /\ label[y].length = label[z].length + GetEdgeWeight(d)
        BY <2>2, <2>4, BeforeFacts
      <4> QED
        BY <4>1
    <3>3. GetEdgeWeight(c) < w
      BY <1>1, <1>8, <2>2, <3>2
    <3>4. y \in ins
      BY <2>2, <3>1, AddFacts
    <3>5. Good(p, c)
      BY <2>2, <3>3, <3>4
    <3>6. p[m] <= p[y] + GetEdgeWeight(c) + GetEdgeWeight(b)
      BY <1>10, <1>13, <2>1, <2>2, <3>5 DEF Good
    <3>7. label[y].length < label[m].length
      <4>1. label[via].length < label[m].length
        BY <1>11, <1>13
      <4>2. label[via].length \in Nat /\ label[y].length \in Nat /\ label[m].length \in Nat
        BY <1>1, <1>5, <1>8
      <4> QED
        BY <2>2, <4>1, <4>2
    <3>8. p[y] <= p[origin] + label[y].length
      BY <1>6, <2>2, <3>1, <3>7
    <3> QED
      BY <1>1, <1>5, <1>7, <1>8, <1>10, <1>13, <2>2, <3>6, <3>8
  <2> QED
    BY <2>3, <2>4
<1> QED
  BY <1>12, <1>13

\* The shortcuts of a search replace the ways from its origin over the node at work.
LEMMA WaysAreReplaced ==
  ASSUME IInv, Searches, stage = "add", NEW p \in Potential,
         \A r \in Among(Remaining \ {via}) : Bound(p, r),
         \A t \in outs \ {origin} : Needed(t) => p[t] <= p[origin] + AddShortcut(t).weight,
         NEW r \in Refs, RefFrom(r) = origin, RefTo(r) = via, LighterGood(p, r)
  PROVE  Good(p, r)
<1> DEFINE w == GetEdgeWeight(r)
<1>1. w \in Nat /\ w > 0
  BY RefFacts DEF IInv, Types
<1>2. \A n \in Node : label[n].length \in Nat /\ p[n] \in Nat /\ p[n] <= Unlabelled
  BY PotentialFacts DEF IInv, Types, Label
<1>3. /\ via \in Node /\ origin \in Node /\ via # origin /\ origin # NoNode
      /\ via \notin contracted /\ origin \notin contracted
  BY AddFacts
<1>4. /\ Tree /\ \A m \in Node : TreeAt(m)
      /\ label[origin].length = 0 /\ label[origin].hops = 0 /\ label[origin].prev = NoNode
      /\ limit \in Nat /\ limit >= 2
  BY DEF Searches, Tree
<1>5. PICK last \in Node \cup {NoNode} :
        /\ Visiting(last)
        /\ last = NoNode => Open = {}
        /\ last # NoNode => /\ label[last].visited
                            /\ \A t \in outs : label[t].visited /\ label[t].length <= label[last].length
  BY DEF Searches, Searched
<1>6. Unlabelled \in Nat /\ Unlabelled > 0
  BY ContractionAssumption
<1> SUFFICES ASSUME NEW q \in Refs, RefFrom(q) = via, NEW t \in outs, RefTo(q) = t
             PROVE  p[t] <= p[origin] + w + GetEdgeWeight(q)
  BY DEF Good
<1>7. GetEdgeWeight(q) \in Nat
  BY RefFacts DEF IInv, Types
<1>8. t \in Node /\ t # via /\ t \notin contracted
  BY AddFacts
<1>9. CASE t = origin
  BY <1>1, <1>2, <1>3, <1>7, <1>9
<1>10. CASE t # origin
  <2>1. label[origin].visited
    <3>1. CASE last = NoNode
      BY <1>3, <1>4, <1>5, <1>6, <3>1 DEF Open
    <3>2. CASE last # NoNode
      BY <1>4, <1>5, <3>2 DEF TreeAt
    <3> QED
      BY <3>1, <3>2
  <2>2. last # origin
    <3> SUFFICES ASSUME last = origin PROVE FALSE
      OBVIOUS
    <3>1. label[t].visited /\ label[t].length <= 0
      BY <1>3, <1>4, <1>5
    <3>2. PICK d \in Refs, z \in Node :
            /\ label[z].length \in Nat /\ GetEdgeWeight(d) \in Nat /\ GetEdgeWeight(d) > 0
            /\ label[t].length = label[z].length + GetEdgeWeight(d)
      BY <1>4, <1>8, <1>10, <3>1, BeforeFacts
    <3> QED
      BY <3>1, <3>2
  <2>3. label[via].length <= w
    <3>1. RelaxedAt(origin)
      BY <1>3, <1>4, <1>5, <2>1, <2>2 DEF Visiting
    <3>2. label[via].length <= label[origin].length + w
      BY <1>3, <3>1 DEF RelaxedAt
    <3> QED
      BY <1>1, <1>2, <1>3, <1>4, <3>2
  <2>4. \A m \in Node : label[m].visited /\ m # via => p[m] <= p[origin] + label[m].length
    <3>1. \A c \in Refs : RefFrom(c) \in ins /\ RefTo(c) = via /\ GetEdgeWeight(c) < w => Good(p, c)
      BY DEF LighterGood
    <3> HIDE DEF w
    <3> QED
      BY <1>1, <1>4, <2>3, <3>1, VisitedIsBounded
  <2>5. ASSUME label[t].length <= w + GetEdgeWeight(q), label[t].visited
        PROVE  p[t] <= p[origin] + w + GetEdgeWeight(q)
    <3>1. p[t] <= p[origin] + label[t].length
      BY <1>8, <2>4, <2>5
    <3> HIDE DEF w
    <3> QED
      BY <1>1, <1>2, <1>3, <1>7, <1>8, <2>5, <3>1
  <2>6. ASSUME Unlabelled <= w + GetEdgeWeight(q)
        PROVE  p[t] <= p[origin] + w + GetEdgeWeight(q)
    <3> HIDE DEF w
    <3> QED
      BY <1>1, <1>2, <1>3, <1>6, <1>7, <1>8, <2>6
  <2>7. CASE label[via].visited /\ label[via].prev # origin
    <3>1. PICK c \in Refs, y \in Node :
            /\ y = label[via].prev /\ c \in label[via].by /\ RefFrom(c) = y /\ RefTo(c) = via
            /\ label[y].visited
            /\ GetEdgeWeight(c) \in Nat /\ GetEdgeWeight(c) > 0
            /\ label[via].length = label[y].length + GetEdgeWeight(c)
            /\ y \notin contracted
      BY <1>3, <1>4, <2>7, BeforeFacts
    <3>2. y # via /\ y # origin
      BY <1>2, <2>7, <3>1
    <3>3. label[y].length > 0
      <4>1. PICK d \in Refs, z \in Node :
              /\ label[z].length \in Nat /\ GetEdgeWeight(d) \in Nat /\ GetEdgeWeight(d) > 0
              /\ label[y].length = label[z].length + GetEdgeWeight(d)
        BY <1>4, <3>1, <3>2, BeforeFacts
      <4> QED
        BY <4>1
    <3>4. GetEdgeWeight(c) < w
      <4> HIDE DEF w
      <4> QED
        BY <1>1, <1>2, <1>3, <2>3, <3>1, <3>3
    <3>5. y \in ins
      BY <3>1, <3>2, AddFacts
    <3>6. Good(p, c)
      BY <3>1, <3>4, <3>5 DEF LighterGood
    <3>7. p[t] <= p[y] + GetEdgeWeight(c) + GetEdgeWeight(q)
      BY <3>1, <3>6 DEF Good
    <3>8. p[y] <= p[origin] + label[y].length
      BY <2>4, <3>1, <3>2
    <3> HIDE DEF w
    <3> QED
      BY <1>1, <1>2, <1>3, <1>7, <1>8, <2>3, <3>1, <3>7, <3>8
  <2>8. CASE label[via].visited /\ label[via].prev = origin
    <3>1. label[via].hops < limit
      <4>1. label[via].hops = label[origin].hops + 1
        BY <1>3, <1>4, <2>8 DEF TreeAt
      <4> QED
        BY <1>4, <4>1
    <3>2. label[t].length <= w + GetEdgeWeight(q)
      <4>1. CASE last = via
        <5>1. label[t].length <= label[via].length
          BY <1>3, <1>5, <4>1, GraphAssumption
        <5> HIDE DEF w
        <5> QED
          BY <1>1, <1>2, <1>3, <1>7, <1>8, <2>3, <5>1
      <4>2. CASE last # via
        <5>1. RelaxedAt(via)
          BY <1>3, <1>5, <2>8, <3>1, <4>2 DEF Visiting
        <5>2. label[t].length <= label[via].length + GetEdgeWeight(q)
          BY <1>8, <5>1 DEF RelaxedAt
        <5> HIDE DEF w
        <5> QED
          BY <1>1, <1>2, <1>3, <1>7, <1>8, <2>3, <5>2
      <4> QED
        BY <4>1, <4>2
    <3>3. CASE label[t].visited
      BY <2>5, <3>2, <3>3
    <3>4. CASE ~label[t].visited
      <4>1. Open = {}
        BY <1>5, <3>4
      <4>2. label[t].length >= Unlabelled
        BY <1>2, <1>6, <1>8, <3>4, <4>1 DEF Open
      <4>3. Unlabelled <= w + GetEdgeWeight(q)
        <5> HIDE DEF w
        <5> QED
          BY <1>1, <1>2, <1>6, <1>7, <1>8, <3>2, <4>2
      <4> QED
        BY <2>6, <4>3
    <3> QED
      BY <3>3, <3>4
  <2>9. CASE ~label[via].visited
    <3>1. CASE via \in Open
      <4>1. /\ last \in Node /\ label[last].visited /\ label[t].visited
            /\ label[t].length <= label[last].length
        BY <1>5, <3>1
      <4>2. label[last].length <= label[via].length
        BY <1>5, <3>1, <4>1 DEF Visiting
      <4>3. label[t].length <= w + GetEdgeWeight(q)
        <5> HIDE DEF w
        <5> QED
          BY <1>1, <1>2, <1>3, <1>7, <1>8, <2>3, <4>1, <4>2
      <4> QED
        BY <2>5, <4>1, <4>3
    <3>2. CASE via \notin Open
      <4>1. label[via].length >= Unlabelled
        BY <1>2, <1>3, <1>6, <2>9, <3>2 DEF Open
      <4>2. Unlabelled <= w + GetEdgeWeight(q)
        <5> HIDE DEF w
        <5> QED
          BY <1>1, <1>2, <1>3, <1>6, <1>7, <2>3, <4>1
      <4> QED
        BY <2>6, <4>2
    <3> QED
      BY <3>1, <3>2
  <2> QED
    BY <2>7, <2>8, <2>9
<1> QED
  BY <1>9, <1>10

-----------------------------------------------------------------------------
(* The steps. *)

PInv == Searches /\ Sound /\ Extendable

\* With the references as they were, so are the potentials.
LEMMA SoundStays == ASSUME Sound, UNCHANGED shortcuts PROVE Sound'
<1>1. /\ Refs' = Refs
      /\ \A r : RefFrom(r)' = RefFrom(r) /\ RefTo(r)' = RefTo(r) /\ GetEdgeWeight(r)' = GetEdgeWeight(r)
  BY RefsStay
<1> SUFFICES ASSUME NEW p \in [Node -> Int], RoadsBound(p), NEW r \in Refs
             PROVE  p[RefTo(r)] <= p[RefFrom(r)] + GetEdgeWeight(r)
  BY <1>1 DEF Sound, Bound, RoadsBound
<1> QED
  BY DEF Sound, Bound

LEMMA ExtendableStays ==
  ASSUME Extendable, UNCHANGED <<level, shortcuts, contracted>> PROVE Extendable'
<1>1. /\ Refs' = Refs
      /\ \A r : RefFrom(r)' = RefFrom(r) /\ RefTo(r)' = RefTo(r) /\ GetEdgeWeight(r)' = GetEdgeWeight(r)
  BY RefsStay
<1>2. Remaining' = Remaining
  BY DEF Remaining
<1>3. Among(Remaining)' = Among(Remaining)
  BY <1>1, <1>2 DEF Among
<1>4. \A p, r : Bound(p, r)' <=> Bound(p, r)
  BY <1>1 DEF Bound
<1>5. \A p : RoadsBound(p)' <=> RoadsBound(p)
  BY DEF RoadsBound
<1>6. \A f, b, c : Frames(f, b, c)' <=> Frames(f, b, c)
  BY <1>1, <1>4 DEF Frames, Climbs, ClimbsBack, ClimbsFrom
<1>7. \A q, p, f, b, c : Completed(q, p, f, b, c)' <=> Completed(q, p, f, b, c)
  BY <1>2, <1>5 DEF Completed, Between
<1> QED
  BY <1>2, <1>3, <1>4, <1>6, <1>7 DEF Extendable, Potential, Between

\* A part that lies between nothing.
LEMMA PartCompleted ==
  ASSUME Types, Extendable, NEW p \in Potential, \A r \in Among(Remaining) : Bound(p, r)
  PROVE  \E q \in Potential : RoadsBound(q) /\ \A n \in Remaining : q[n] = p[n]
<1> DEFINE f == [n \in Node |-> Unlabelled]
           b == [n \in Node |-> 0]
<1>0. Unlabelled \in Nat
  BY ContractionAssumption
<1>1. f \in Potential /\ b \in Potential /\ 0 \in 0..Unlabelled
  BY <1>0 DEF Potential
<1>2. \A n \in Node : f[n] = Unlabelled /\ b[n] = 0
  OBVIOUS
<1> HIDE DEF f, b
<1>3. \A r \in Refs : RefFrom(r) \in Node /\ RefTo(r) \in Node /\ GetEdgeWeight(r) \in Nat
  BY RefFacts DEF Types
<1>4. Frames(f, b, 0)
  BY <1>0, <1>2, <1>3 DEF Frames, Climbs, ClimbsBack, Bound, Types
<1>5. Between(p, f, b, 0, Remaining)
  BY <1>0, <1>2, PotentialFacts DEF Between, Remaining
<1>6. \E q \in Potential : Completed(q, p, f, b, 0)
  BY <1>1, <1>4, <1>5 DEF Extendable
<1> QED
  BY <1>6 DEF Completed

\* What has been replaced does not depend on the search at work.
LEMMA ReplacedStays ==
  ASSUME UNCHANGED <<shortcuts, contracted, via, ins, outs>>, NEW u, ReplacedFrom(u)
  PROVE  ReplacedFrom(u)'
<1>1. /\ Refs' = Refs
      /\ \A r : RefFrom(r)' = RefFrom(r) /\ RefTo(r)' = RefTo(r) /\ GetEdgeWeight(r)' = GetEdgeWeight(r)
  BY RefsStay
<1>2. Remaining' = Remaining /\ Among(Remaining \ {via})' = Among(Remaining \ {via})
  BY <1>1 DEF Remaining, Among
<1>3. \A p, r : Bound(p, r)' <=> Bound(p, r)
  BY <1>1 DEF Bound
<1>4. \A p, r : Good(p, r)' <=> Good(p, r)
  BY <1>1 DEF Good
<1>5. \A p, r : LighterGood(p, r)' <=> LighterGood(p, r)
  BY <1>1, <1>4 DEF LighterGood
<1> QED
  BY <1>1, <1>2, <1>3, <1>4, <1>5 DEF ReplacedFrom, Potential

LEMMA InitPotentials == ContractionInit => PInv /\ Replaced
<1> SUFFICES ASSUME ContractionInit PROVE PInv /\ Replaced
  OBVIOUS
<1>1. stage = "choose" /\ shortcuts = <<>> /\ contracted = {}
  BY DEF ContractionInit
<1>2. Searches /\ Replaced
  BY <1>1, NoSearch DEF Replaced
<1>3. \A r \in Refs : \E x \in Edge : RefFrom(r) = NodeA[x] /\ RefTo(r) = NodeB[x] /\
      GetEdgeWeight(r) = Weight[x]
  BY <1>1 DEF Refs, EdgeRef, ShortcutRef, RefFrom, RefTo, GetEdgeWeight, IsShortcut
<1>4. Sound
  BY <1>3 DEF Sound, RoadsBound, Bound
<1>5. \A x \in Edge : /\ EdgeRef(x) \in Among(Remaining)
                      /\ RefFrom(EdgeRef(x)) = NodeA[x] /\ RefTo(EdgeRef(x)) = NodeB[x]
                      /\ GetEdgeWeight(EdgeRef(x)) = Weight[x]
  BY <1>1, GraphAssumption
     DEF Among, Remaining, Refs, EdgeRef, RefFrom, RefTo, GetEdgeWeight, IsShortcut
<1>6. Remaining = Node
  BY <1>1 DEF Remaining
<1>7. Extendable
  <2> SUFFICES ASSUME NEW p \in Potential, \A r \in Among(Remaining) : Bound(p, r) PROVE RoadsBound(p)
    BY <1>6 DEF Extendable, Completed
  <2> QED
    BY <1>5 DEF RoadsBound, Bound
<1> QED
  BY <1>2, <1>4, <1>7 DEF PInv

\* A step of a search, or one that only chooses what is next.
LEMMA SearchingPotentials ==
  ASSUME IInv, PInv, \/ \E n \in Node : Choose(n) \/ SearchStep(n)
                     \/ \E n \in left, l \in HopLimits : StartSearch(n, l)
                     \/ SearchEnds
                     \/ UNCHANGED contractionVars
  PROVE  PInv' /\ (Replaced => Replaced')
<1>1. UNCHANGED <<level, shortcuts, contracted>>
  BY DEF Choose, SearchStep, StartSearch, SearchEnds, contractionVars, hierarchy
<1>2. Sound' /\ Extendable'
  BY <1>1, SoundStays, ExtendableStays DEF PInv
<1>3. CASE \E n \in Node : Choose(n)
  <2>1. PICK n \in Node : Choose(n)
    BY <1>3
  <2>2. stage' = "pair" /\ left' = ins'
    BY <2>1 DEF Choose
  <2>3. Searches'
    BY <2>2, NoSearch DEF Searches, Tree, Searching, Searched
  <2> QED
    BY <1>2, <2>2, <2>3 DEF PInv, Replaced
<1>4. CASE \E n \in left, l \in HopLimits : StartSearch(n, l)
  <2>1. PICK n \in left, l \in HopLimits : StartSearch(n, l)
    BY <1>4
  <2>2. /\ stage = "pair" /\ stage' = "search" /\ origin' = n /\ left' = left \ {n}
        /\ UNCHANGED <<via, ins, outs>>
    BY <2>1 DEF StartSearch, node
  <2>3. Searches'
    BY <2>1, StartSearchSearches
  <2>4. Replaced => Replaced'
    BY <1>1, <2>2, ReplacedStays DEF Replaced
  <2> QED
    BY <1>2, <2>3, <2>4 DEF PInv
<1>5. CASE \/ \E n \in Node : SearchStep(n)
           \/ SearchEnds
  <2>1. stage = "search" /\ stage' \in {"search", "add"} /\ UNCHANGED <<via, ins, outs, left, origin>>
    BY <1>5 DEF SearchStep, SearchEnds, node, search
  <2>2. Searches'
    BY <1>5, SearchStepSearches, SearchEndsSearches DEF PInv
  <2>3. Replaced => Replaced'
    BY <1>1, <2>1, ReplacedStays DEF Replaced
  <2> QED
    BY <1>2, <2>2, <2>3 DEF PInv
<1>6. CASE UNCHANGED contractionVars
  <2>1. UNCHANGED <<stage, via, ins, outs, left, origin, limit, label, shortcuts, contracted>>
    BY <1>6 DEF contractionVars, hierarchy, node, search
  <2>2. /\ Refs' = Refs
        /\ \A r : RefFrom(r)' = RefFrom(r) /\ RefTo(r)' = RefTo(r) /\ GetEdgeWeight(r)' = GetEdgeWeight(r)
    BY <2>1, RefsStay
  <2>3. \A m : (TreeAt(m)' <=> TreeAt(m)) /\ (RelaxedAt(m)' <=> RelaxedAt(m))
    BY <2>1, <2>2 DEF TreeAt, RelaxedAt
  <2>4. Open' = Open
    BY <2>1 DEF Open
  <2>5. \A last : Visiting(last)' <=> Visiting(last)
    BY <2>1, <2>3, <2>4 DEF Visiting
  <2>6. Searches'
    BY <2>1, <2>3, <2>4, <2>5 DEF PInv, Searches, Tree, Searching, Searched
  <2>7. Replaced => Replaced'
    BY <2>1, ReplacedStays DEF Replaced
  <2> QED
    BY <1>2, <2>6, <2>7 DEF PInv
<1> QED
  BY <1>3, <1>4, <1>5, <1>6

\* The code adds the shortcuts in some order, and all of them.
LEMMA ListsAll ==
  ASSUME NEW S, IsFiniteSet(S), NEW f \in SetToSeqs(S)
  PROVE  \A s \in S : \E i \in 1..Cardinality(S) : f[i] = s
<1> DEFINE D == 1..Cardinality(S)
<1>1. f \in [D -> S] /\ \A i, j \in D : i # j => f[i] # f[j]
  BY DEF SetToSeqs
<1>2. Cardinality(S) \in Nat
  BY FS_CardinalityType
<1>3. Cardinality(D) = Cardinality(S)
  BY <1>2, FS_Interval
<1> HIDE DEF D
<1>4. f \in Injection(D, S)
  BY <1>1 DEF Injection, IsInjective
<1>5. f \in Surjection(D, S)
  BY <1>3, <1>4, FS_Injection
<1> QED
  BY <1>5 DEF Surjection, D

\* The references when shortcuts have been added.
LEMMA AddedRefs ==
  ASSUME IInv, AddShortcuts
  PROVE  /\ \A r \in Refs : /\ r \in Refs'
                            /\ RefFrom(r)' = RefFrom(r) /\ RefTo(r)' = RefTo(r)
                            /\ GetEdgeWeight(r)' = GetEdgeWeight(r)
         /\ \A r \in Refs' : r \in Refs \/ \E t \in outs \ {origin} :
              /\ Needed(t)
              /\ RefFrom(r)' = origin /\ RefTo(r)' = t /\ GetEdgeWeight(r)' = AddShortcut(t).weight
         /\ \A t \in outs \ {origin} : Needed(t) => \E r \in Refs' :
              RefFrom(r)' = origin /\ RefTo(r)' = t /\ GetEdgeWeight(r)' = AddShortcut(t).weight
<1> DEFINE needed == {t \in outs \ {origin} : Needed(t)}
<1>1. stage = "add"
  BY DEF AddShortcuts
<1>2. PICK order \in SetToSeqs(needed) :
        shortcuts' = shortcuts \o [i \in DOMAIN order |-> AddShortcut(order[i])]
  BY DEF AddShortcuts
<1> DEFINE new == [i \in DOMAIN order |-> AddShortcut(order[i])]
           count == Cardinality(needed)
<1>3. /\ DOMAIN order = 1..count /\ count \in Nat
      /\ \A i \in DOMAIN order : order[i] \in needed
      /\ \A t \in needed : \E i \in DOMAIN order : order[i] = t
  <2>1. IsFiniteSet(needed)
    <3>1. needed \subseteq Node
      BY <1>1, AddFacts
    <3> QED
      BY <3>1, NodesAssumption, FS_Subset
  <2>2. count \in Nat
    BY <2>1, FS_CardinalityType
  <2> HIDE DEF needed
  <2>3. order \in [1..count -> needed] /\ \A t \in needed : \E i \in 1..count : order[i] = t
    <3>1. order \in [1..count -> needed]
      BY <1>2 DEF SetToSeqs
    <3> QED
      BY <1>2, <2>1, <3>1, ListsAll
  <2> QED
    BY <2>2, <2>3
<1>4. \A i \in DOMAIN new : new[i] \in Shortcut /\ new[i].from = origin /\ new[i].to = order[i]
                            /\ new[i] = AddShortcut(order[i])
  BY <1>1, <1>3, AddedFacts
<1>5. new \in Seq(Shortcut)
  <2>1. new \in [1..count -> Shortcut]
    BY <1>3, <1>4
  <2> HIDE DEF new, count
  <2> QED
    BY <1>3, <2>1, FunctionIsSeq
<1>6. DOMAIN new = DOMAIN order
  OBVIOUS
<1>7. shortcuts' = shortcuts \o new
  BY <1>2
<1> HIDE DEF new, count
<1>8. /\ shortcuts' \in Seq(Shortcut)
      /\ \A i \in DOMAIN shortcuts : i \in DOMAIN shortcuts' /\ shortcuts'[i] = shortcuts[i]
      /\ \A i \in (DOMAIN shortcuts') \ DOMAIN shortcuts :
           \E j \in DOMAIN new : i = Len(shortcuts) + j /\ shortcuts'[i] = new[j]
      /\ \A r \in Refs : /\ r \in Refs'
                         /\ RefFrom(r)' = RefFrom(r) /\ RefTo(r)' = RefTo(r)
                         /\ GetEdgeWeight(r)' = GetEdgeWeight(r)
  BY <1>5, <1>7, RefsGrow DEF IInv, Types
<1>9. \A i \in DOMAIN shortcuts' :
        /\ ShortcutRef(i) \in Refs'
        /\ RefFrom(ShortcutRef(i))' = shortcuts'[i].from /\ RefTo(ShortcutRef(i))' = shortcuts'[i].to
        /\ GetEdgeWeight(ShortcutRef(i))' = shortcuts'[i].weight
  BY DEF Refs, ShortcutRef, RefFrom, RefTo, GetEdgeWeight, IsShortcut
<1>10. ASSUME NEW r \in Refs', r \notin Refs
       PROVE  \E t \in outs \ {origin} :
                /\ Needed(t)
                /\ RefFrom(r)' = origin /\ RefTo(r)' = t /\ GetEdgeWeight(r)' = AddShortcut(t).weight
  <2>1. PICK i \in DOMAIN shortcuts' : r = ShortcutRef(i) /\ i \notin DOMAIN shortcuts
    BY <1>10 DEF Refs, EdgeRef, ShortcutRef
  <2>2. PICK j \in DOMAIN new : shortcuts'[i] = new[j]
    BY <1>8, <2>1
  <2>3. order[j] \in needed
    BY <1>3, <1>6
  <2> QED
    BY <1>4, <1>9, <2>1, <2>2, <2>3
<1>11. ASSUME NEW t \in outs \ {origin}, Needed(t)
       PROVE  \E r \in Refs' : RefFrom(r)' = origin /\ RefTo(r)' = t /\
         GetEdgeWeight(r)' = AddShortcut(t).weight
  <2>1. PICK j \in DOMAIN new : order[j] = t
    BY <1>3, <1>6, <1>11
  <2>2. Len(shortcuts) + j \in DOMAIN shortcuts' /\ shortcuts'[Len(shortcuts) + j] = new[j]
    BY <1>5, <1>7 DEF IInv, Types
  <2> QED
    BY <1>4, <1>9, <2>1, <2>2
<1> QED
  BY <1>8, <1>10, <1>11

LEMMA AddShortcutsPotentials == ASSUME IInv, PInv, AddShortcuts PROVE PInv' /\ (Replaced => Replaced')
<1>1. /\ stage = "add" /\ stage' = "pair"
      /\ UNCHANGED <<contracted, via, ins, outs, left, origin>>
  BY DEF AddShortcuts, node, search
<1>2. /\ \A r \in Refs : /\ r \in Refs'
                         /\ RefFrom(r)' = RefFrom(r) /\ RefTo(r)' = RefTo(r)
                         /\ GetEdgeWeight(r)' = GetEdgeWeight(r)
      /\ \A r \in Refs' : r \in Refs \/ \E t \in outs \ {origin} :
           /\ Needed(t)
           /\ RefFrom(r)' = origin /\ RefTo(r)' = t /\ GetEdgeWeight(r)' = AddShortcut(t).weight
      /\ \A t \in outs \ {origin} : Needed(t) => \E r \in Refs' :
           RefFrom(r)' = origin /\ RefTo(r)' = t /\ GetEdgeWeight(r)' = AddShortcut(t).weight
  BY AddedRefs
<1>3. /\ origin \in Node /\ origin # via /\ origin \notin contracted /\ origin \in ins
      /\ \A t \in outs : t \in Node /\ t # via /\ t \notin contracted
  BY <1>1, AddFacts
<1>4. Searches'
  BY <1>1 DEF Searches, Tree, Searching, Searched
<1>5. Sound'
  <2> SUFFICES ASSUME NEW p \in [Node -> Int], RoadsBound(p), NEW r \in Refs'
               PROVE  p[RefTo(r)'] <= p[RefFrom(r)'] + GetEdgeWeight(r)'
    BY DEF Sound, Bound, RoadsBound
  <2>0. \A q \in Refs : p[RefTo(q)] <= p[RefFrom(q)] + GetEdgeWeight(q)
    BY DEF PInv, Sound, Bound
  <2>1. CASE r \in Refs
    BY <1>2, <2>0, <2>1
  <2>2. ASSUME NEW t \in outs \ {origin}, Needed(t),
               RefFrom(r)' = origin, RefTo(r)' = t, GetEdgeWeight(r)' = AddShortcut(t).weight
        PROVE  p[RefTo(r)'] <= p[RefFrom(r)'] + GetEdgeWeight(r)'
    <3>1. /\ Parts(t) \in Refs \X Refs
          /\ RefFrom(Parts(t)[2]) = origin /\ RefTo(Parts(t)[2]) = via
          /\ RefFrom(Parts(t)[1]) = via /\ RefTo(Parts(t)[1]) = t
      BY <1>1, <2>2, PartsFacts
    <3>2. AddShortcut(t).weight = GetEdgeWeight(Parts(t)[1]) + GetEdgeWeight(Parts(t)[2])
      BY DEF AddShortcut
    <3> DEFINE a == Parts(t)[1]
               b == Parts(t)[2]
    <3>3. a \in Refs /\ b \in Refs
      BY <3>1
    <3>4. p[t] <= p[via] + GetEdgeWeight(a) /\ p[via] <= p[origin] + GetEdgeWeight(b)
      BY <2>0, <3>1, <3>3
    <3>5. GetEdgeWeight(a) \in Nat /\ GetEdgeWeight(b) \in Nat
      BY <3>3, RefFacts DEF IInv, Types
    <3>6. p[t] \in Int /\ p[via] \in Int /\ p[origin] \in Int
      BY <1>1, <1>3, AddFacts
    <3>7. AddShortcut(t).weight = GetEdgeWeight(a) + GetEdgeWeight(b)
      BY <3>2
    <3> HIDE DEF a, b
    <3> QED
      BY <2>2, <3>4, <3>5, <3>6, <3>7
  <2> QED
    BY <1>2, <2>1, <2>2
\* A potential of what is left with the shortcuts is one without them.
<1>6. \A p, S : (\A r \in Among(S)' : Bound(p, r)') => \A r \in Among(S) : Bound(p, r)
  BY <1>2 DEF Among, Bound
<1>7. Extendable'
  <2> SUFFICES ASSUME NEW f \in Potential, NEW b \in Potential, NEW p \in Potential, NEW c \in 0..Unlabelled,
                      Frames(f, b, c)', Between(p, f, b, c, Remaining), \A r \in Among(Remaining)' : Bound(p, r)'
               PROVE  \E q \in Potential : Completed(q, p, f, b, c)
    <3>1. Remaining' = Remaining
      BY <1>1 DEF Remaining
    <3>2. \A q, p, f, b, c : Completed(q, p, f, b, c)' <=> Completed(q, p, f, b, c)
      BY <3>1 DEF Completed, RoadsBound, Between
    <3>3. \A p, f, b, c : Between(p, f, b, c, Remaining)' <=> Between(p, f, b, c, Remaining)
      BY <3>1 DEF Between
    <3> QED
      BY <3>2, <3>3 DEF Extendable, Potential
  <2>1. \A r \in Among(Remaining) : Bound(p, r)
    BY <1>1, <1>2 DEF Among, Bound, Remaining
  <2>2. level' = level
    BY DEF AddShortcuts
  <2>3. \A m, n : ClimbsFrom(m, n)' <=> ClimbsFrom(m, n)
    BY <1>1, <2>2 DEF ClimbsFrom
  <2>4. Frames(f, b, c)
    BY <1>1, <1>2, <2>3 DEF Frames, Climbs, ClimbsBack, Bound
  <2> QED
    BY <2>1, <2>4 DEF PInv, Extendable
\* No shortcut begins or ends at the node at work.
<1>8. /\ \A r \in Refs' : RefFrom(r)' = via \/ RefTo(r)' = via => r \in Refs
      /\ \A p, r : r \in Refs => (Good(p, r)' <=> Good(p, r))
      /\ \A p, r : r \in Refs => (LighterGood(p, r)' <=> LighterGood(p, r))
  <2>1. \A r \in Refs' : RefFrom(r)' = via \/ RefTo(r)' = via => r \in Refs
    BY <1>2, <1>3
  <2>2. \A p, r : r \in Refs => (Good(p, r)' <=> Good(p, r))
    BY <1>1, <1>2, <2>1 DEF Good
  <2>3. \A p, r : r \in Refs => (LighterGood(p, r)' <=> LighterGood(p, r))
    BY <1>1, <1>2, <2>1, <2>2 DEF LighterGood
  <2> QED
    BY <2>1, <2>2, <2>3
<1>9. ASSUME Replaced, NEW u \in ins, u \notin left PROVE ReplacedFrom(u)'
  <2> SUFFICES ASSUME NEW p \in Potential, \A r \in Among(Remaining \ {via})' : Bound(p, r)',
                      NEW r \in Refs', RefFrom(r)' = u, RefTo(r)' = via, LighterGood(p, r)'
               PROVE  Good(p, r)'
    BY <1>1 DEF ReplacedFrom, Potential
  <2>1. r \in Refs /\ RefFrom(r) = u /\ RefTo(r) = via /\ LighterGood(p, r)
    BY <1>2, <1>8
  <2>2. \A q \in Among(Remaining \ {via}) : Bound(p, q)
    BY <1>1, <1>2 DEF Among, Bound, Remaining
  <2>3. CASE u # origin
    <3>1. ReplacedFrom(u)
      BY <1>1, <1>9, <2>3 DEF Replaced
    <3>2. Good(p, r)
      BY <2>1, <2>2, <3>1 DEF ReplacedFrom
    <3> QED
      BY <1>8, <2>1, <3>2
  <2>4. CASE u = origin
    <3>1. \A t \in outs \ {origin} : Needed(t) => p[t] <= p[origin] + AddShortcut(t).weight
      <4> SUFFICES ASSUME NEW t \in outs \ {origin}, Needed(t)
                   PROVE  p[t] <= p[origin] + AddShortcut(t).weight
        OBVIOUS
      <4>1. PICK q \in Refs' : RefFrom(q)' = origin /\ RefTo(q)' = t /\
                 GetEdgeWeight(q)' = AddShortcut(t).weight
        BY <1>2
      <4>2. q \in Among(Remaining \ {via})'
        BY <1>1, <1>3, <4>1 DEF Among, Remaining
      <4>3. Bound(p, q)'
        BY <4>2
      <4> QED
        BY <4>1, <4>3 DEF Bound
    <3>2. Good(p, r)
      BY <1>1, <2>1, <2>2, <2>4, <3>1, WaysAreReplaced DEF PInv
    <3> QED
      BY <1>8, <2>1, <3>2
  <2> QED
    BY <2>3, <2>4
<1>10. Replaced => Replaced'
  BY <1>1, <1>9 DEF Replaced
<1> QED
  BY <1>4, <1>5, <1>7, <1>10 DEF PInv

\* When all in-neighbours have been searched from, no way over the node at work is
\* lost: it can be given a number that goes with those of all its neighbours.
LEMMA ContractedPotentials == ASSUME IInv, PInv, Replaced, Contracted PROVE PInv' /\ Replaced'
<1>1. /\ stage = "pair" /\ left = {} /\ contracted' = contracted \cup {via}
      /\ stage' \in {"choose", "done"} /\ UNCHANGED shortcuts
  BY DEF Contracted
<1>2. /\ via \in Node \ contracted /\ ins = InNeighbours(via) /\ outs = OutNeighbours(via)
  BY <1>1 DEF IInv, AtWork
<1>3. /\ \A r \in Refs : RefFrom(r) = via /\ RefTo(r) # via /\ RefTo(r) \notin contracted => RefTo(r) \in outs
      /\ \A r \in Refs : RefTo(r) = via /\ RefFrom(r) # via /\ RefFrom(r) \notin contracted =>
          RefFrom(r) \in ins
      /\ \A n \in ins \cup outs : n \in Node \ contracted /\ n # via
  BY <1>2, NeighbourFacts DEF InNeighbours, OutNeighbours, IInv, Types
<1>4. \A r \in Refs : /\ RefFrom(r) \in Node /\ RefTo(r) \in Node
                      /\ GetEdgeWeight(r) \in Nat /\ GetEdgeWeight(r) > 0
  BY RefFacts DEF IInv, Types
<1>5. Searches' /\ Replaced' /\ Sound'
  BY <1>1, SoundStays DEF Searches, Tree, Searching, Searched, Replaced, PInv
<1>6. /\ Refs' = Refs
      /\ \A r : RefFrom(r)' = RefFrom(r) /\ RefTo(r)' = RefTo(r) /\ GetEdgeWeight(r)' = GetEdgeWeight(r)
  BY <1>1, RefsStay
<1>7. Remaining' = Remaining \ {via}
  BY <1>1 DEF Remaining
\* Whatever frames the potentials of the hierarchy now has framed them before.
<1>8. ASSUME NEW f \in Potential, NEW b \in Potential, NEW c \in Nat, Frames(f, b, c)'
      PROVE  /\ Frames(f, b, c) /\ f[via] + b[via] >= c
             /\ \A r \in Refs : RefFrom(r) = via /\ RefTo(r) \in Remaining \ {via} => Bound(f, r)
             /\ \A r \in Refs : RefTo(r) = via /\ RefFrom(r) \in Remaining \ {via} =>
                  b[RefFrom(r)] <= b[via] + GetEdgeWeight(r)
  <2>1. \A m \in contracted \cup {via} : m \in Node /\ level'[m] = level[m] /\ level[m] \in Nat
    BY <1>1, <1>2, <1>3 DEF Contracted, Raise, IInv, Types
  <2>2. ASSUME NEW r \in Refs, NEW m, NEW n,
               (m = RefFrom(r) /\ n = RefTo(r)) \/ (m = RefTo(r) /\ n = RefFrom(r)), ClimbsFrom(m, n)
        PROVE  ClimbsFrom(m, n)'
    <3>1. m \in contracted /\ (n \notin contracted \/ level[m] < level[n])
      BY <2>2 DEF ClimbsFrom
    <3>2. n \notin contracted => level[m] < level[n]
      BY <2>2, <3>1 DEF IInv, Ascending
    <3>3. level'[m] = level[m] /\ m \in contracted'
      BY <1>1, <2>1, <3>1
    <3>4. n \in contracted' => level'[n] = level[n]
      BY <1>1, <2>1
    <3>5. n \in contracted' => level'[m] < level'[n]
      BY <3>1, <3>2, <3>3, <3>4
    <3>6. m \in contracted' /\ (n \notin contracted' \/ level'[m] < level'[n])
      BY <3>3, <3>5
    <3> QED
      BY <3>6, Z3 DEF ClimbsFrom
  <2>3. /\ \A r \in Refs : \A m, n : m = RefFrom(r) /\ n = RefTo(r) /\ ClimbsFrom(m, n)' => Bound(f, r)
        /\ \A r \in Refs : \A m, n : m = RefTo(r) /\ n = RefFrom(r) /\ ClimbsFrom(m, n)' =>
              b[n] <= b[m] + GetEdgeWeight(r)
    BY <1>6, <1>8 DEF Frames, Climbs, ClimbsBack, Bound, ClimbsFrom
  <2>4. Climbs(f)
    <3>1. ASSUME NEW r \in Refs, ClimbsFrom(RefFrom(r), RefTo(r)) PROVE Bound(f, r)
      <4>1. PICK m, n : m = RefFrom(r) /\ n = RefTo(r)
        OBVIOUS
      <4>2. ClimbsFrom(m, n) /\ ((m = RefFrom(r) /\ n = RefTo(r)) \/ (m = RefTo(r) /\ n = RefFrom(r)))
        BY <3>1, <4>1
      <4>3. ClimbsFrom(m, n)'
        BY <2>2, <4>2
      <4> QED
        BY <2>3, <4>1, <4>3
    <3> QED
      BY <3>1 DEF Climbs
  <2>5. ClimbsBack(b)
    <3>1. ASSUME NEW r \in Refs, ClimbsFrom(RefTo(r), RefFrom(r))
          PROVE  b[RefFrom(r)] <= b[RefTo(r)] + GetEdgeWeight(r)
      <4>1. PICK m, n : m = RefTo(r) /\ n = RefFrom(r)
        OBVIOUS
      <4>2. ClimbsFrom(m, n) /\ ((m = RefFrom(r) /\ n = RefTo(r)) \/ (m = RefTo(r) /\ n = RefFrom(r)))
        BY <3>1, <4>1
      <4>3. ClimbsFrom(m, n)'
        BY <2>2, <4>2
      <4> QED
        BY <2>3, <4>1, <4>3
    <3> QED
      BY <3>1 DEF ClimbsBack
  <2>6. \A n \in contracted \cup {via} : f[n] + b[n] >= c
    BY <1>1, <1>8 DEF Frames
  <2>7. \A m, n : m = via /\ n \in Remaining \ {via} => ClimbsFrom(m, n)'
    BY <1>1 DEF ClimbsFrom, Remaining
  <2>8. \A r \in Refs : RefFrom(r) = via /\ RefTo(r) \in Remaining \ {via} => Bound(f, r)
    BY <2>3, <2>7
  <2>9. \A r \in Refs : RefTo(r) = via /\ RefFrom(r) \in Remaining \ {via} =>
          b[RefFrom(r)] <= b[via] + GetEdgeWeight(r)
    BY <2>3, <2>7
  <2> QED
    BY <2>4, <2>5, <2>6, <2>8, <2>9 DEF Frames
<1>9. ASSUME NEW f \in Potential, NEW b \in Potential, NEW c \in 0..Unlabelled, Frames(f, b, c)',
             NEW p \in Potential, Between(p, f, b, c, Remaining \ {via}),
             \A r \in Among(Remaining \ {via}) : Bound(p, r)
      PROVE  \E q \in Potential : /\ RoadsBound(q) /\ Between(q, f, b, c, Node)
                                  /\ \A n \in Remaining \ {via} : q[n] = p[n]
  <2> DEFINE Into == {r \in Refs : RefFrom(r) \in ins /\ RefTo(r) = via}
  <2>a. \A n \in Node : /\ p[n] \in Nat /\ p[n] <= Unlabelled
                        /\ f[n] \in Nat /\ f[n] <= Unlabelled /\ b[n] \in Nat
    BY PotentialFacts
  <2>b. c \in Nat /\ via \in Node
    BY <1>2, ContractionAssumption
  <2>c. /\ Frames(f, b, c) /\ f[via] + b[via] >= c
          /\ \A r \in Refs : RefFrom(r) = via /\ RefTo(r) \in Remaining \ {via} => Bound(f, r)
    BY <1>8, <1>9, <2>b
  <2>d. \A r \in Refs : RefTo(r) = via /\ RefFrom(r) \in Remaining \ {via} =>
          b[RefFrom(r)] <= b[via] + GetEdgeWeight(r)
    BY <1>8, <1>9, <2>b
  <2>1. \A r \in Into : Good(p, r)
    <3> DEFINE Bad == {r \in Into : ~Good(p, r)}
               weights == {GetEdgeWeight(r) : r \in Bad}
    <3> SUFFICES ASSUME Bad # {} PROVE FALSE
      OBVIOUS
    <3>1. weights \in SUBSET Nat /\ weights # {}
      BY <1>4
    <3>2. \E l \in weights : \A o \in weights : l <= o
      <4> HIDE DEF weights
      <4> QED
        BY <3>1, LeastNumber
    <3>3. PICK r \in Bad : \A q \in Bad : GetEdgeWeight(r) <= GetEdgeWeight(q)
      BY <3>2
    <3>4. r \in Refs /\ RefFrom(r) \in ins /\ RefTo(r) = via /\ ~Good(p, r)
      BY <3>3
    <3>5. LighterGood(p, r)
      <4> SUFFICES ASSUME NEW q \in Refs, RefFrom(q) \in ins, RefTo(q) = via,
                          GetEdgeWeight(q) < GetEdgeWeight(r)
                   PROVE  Good(p, q)
        BY DEF LighterGood
      <4>1. ~(GetEdgeWeight(r) <= GetEdgeWeight(q))
        BY <1>4, <3>4
      <4> QED
        BY <3>3, <4>1
    <3> HIDE DEF Bad, weights
    <3>6. ReplacedFrom(RefFrom(r))
      BY <1>1, <3>4 DEF Replaced
    <3> QED
      BY <1>9, <3>4, <3>5, <3>6 DEF ReplacedFrom
  <2> DEFINE costs == {f[via]} \cup {p[RefFrom(r)] + GetEdgeWeight(r) : r \in Into}
  <2>2. costs \in SUBSET Nat /\ costs # {}
    BY <1>3, <1>4, <2>a, <2>b
  <2>3. \E l \in costs : \A o \in costs : l <= o
    <3> HIDE DEF costs
    <3> QED
      BY <2>2, LeastNumber
  <2>4. PICK best \in costs : \A o \in costs : best <= o
    BY <2>3
  <2>5. /\ best \in Nat /\ best <= f[via] /\ best <= Unlabelled
        /\ \A r \in Into : best <= p[RefFrom(r)] + GetEdgeWeight(r)
        /\ best = f[via] \/ \E r \in Into : best = p[RefFrom(r)] + GetEdgeWeight(r)
    <3>1. best \in Nat /\ best <= f[via]
      BY <2>2, <2>4
    <3>2. f[via] <= Unlabelled /\ f[via] \in Nat /\ Unlabelled \in Nat
      BY <2>a, <2>b, ContractionAssumption
    <3>3. best <= Unlabelled
      BY <3>1, <3>2
    <3> QED
      BY <2>4, <3>1, <3>3
  <2> HIDE DEF costs
  <2> DEFINE q == [n \in Node |-> IF n = via THEN best ELSE p[n]]
  <2>6. q \in Potential
    <3>1. \A n \in Node : q[n] \in 0..Unlabelled
      BY <2>a, <2>5, ContractionAssumption
    <3> QED
      BY <3>1 DEF Potential
  <2>7. \A n \in Node : q[n] = IF n = via THEN best ELSE p[n]
    OBVIOUS
  <2> HIDE DEF q
  <2>8. ASSUME NEW r \in Among(Remaining) PROVE Bound(q, r)
    <3> DEFINE u == RefFrom(r)
               v == RefTo(r)
               w == GetEdgeWeight(r)
    <3>1. /\ r \in Refs /\ u \in Node \ contracted /\ v \in Node \ contracted
          /\ w \in Nat
      BY <1>4 DEF Among, Remaining
    <3>2. q[v] <= q[u] + w
      <4>1. CASE u = via /\ v = via
        BY <1>2, <2>5, <2>7, <3>1, <4>1
      <4>2. CASE u # via /\ v = via
        <5>1. r \in Into
          BY <1>3, <3>1, <4>2
        <5>2. best <= p[u] + w
          BY <2>5, <5>1
        <5> HIDE DEF u, v, w
        <5> QED
          BY <2>7, <3>1, <4>2, <5>2
      <4>3. CASE u # via /\ v # via
        <5>1. r \in Among(Remaining \ {via})
          BY <3>1, <4>3 DEF Among, Remaining
        <5>2. p[v] <= p[u] + w
          BY <1>9, <5>1 DEF Bound
        <5> HIDE DEF u, v, w
        <5> QED
          BY <2>7, <3>1, <4>3, <5>2
      <4>4. CASE u = via /\ v # via
        <5>1. v \in outs
          BY <1>3, <3>1, <4>4
        <5>2. q[v] = p[v] /\ q[u] = best /\ p[v] \in Nat /\ p[v] <= Unlabelled
          BY <2>a, <2>7, <3>1, <4>4
        <5>3. CASE best = f[via]
          <6>1. v \in Remaining \ {via}
            BY <3>1, <4>4 DEF Remaining
          <6>2. f[v] <= f[via] + w /\ p[v] <= f[v]
            BY <1>9, <2>c, <3>1, <4>4, <6>1 DEF Bound, Between
          <6> HIDE DEF u, v, w
          <6> QED
            BY <2>a, <2>b, <3>1, <5>2, <5>3, <6>2
        <5>4. ASSUME NEW k \in Into, best = p[RefFrom(k)] + GetEdgeWeight(k)
              PROVE  q[v] <= q[u] + w
          <6>1. Good(p, k)
            BY <2>1
          <6>2. p[v] <= p[RefFrom(k)] + GetEdgeWeight(k) + w
            BY <3>1, <4>4, <5>1, <6>1 DEF Good
          <6> HIDE DEF u, v, w
          <6> QED
            BY <5>2, <5>4, <6>2
        <5> QED
          BY <2>5, <5>3, <5>4
      <4> QED
        BY <4>1, <4>2, <4>3, <4>4
    <3> QED
      BY <3>2 DEF Bound
  <2>9. Between(q, f, b, c, Remaining)
    <3>1. \A n \in Remaining \ {via} : q[n] <= f[n] /\ q[n] + b[n] >= c
      BY <1>9, <2>7 DEF Between, Remaining
    <3>2. q[via] = best
      BY <2>b, <2>7
    <3>3. q[via] + b[via] >= c
      <4>1. CASE best = f[via]
        BY <2>c, <3>2, <4>1
      <4>2. ASSUME NEW r \in Into, best = p[RefFrom(r)] + GetEdgeWeight(r)
            PROVE  q[via] + b[via] >= c
        <5>1. PICK u, w : u = RefFrom(r) /\ w = GetEdgeWeight(r)
          OBVIOUS
        <5>2. r \in Refs /\ RefTo(r) = via /\ u \in Remaining \ {via} /\ u \in Node /\ w \in Nat
          BY <1>3, <1>4, <5>1 DEF Remaining
        <5>3. b[u] <= b[via] + w
          BY <2>d, <5>1, <5>2
        <5>4. p[u] + b[u] >= c
          BY <1>9, <5>2 DEF Between
        <5>5. best = p[u] + w
          BY <4>2, <5>1
        <5> QED
          BY <2>a, <2>b, <3>2, <5>2, <5>3, <5>4, <5>5
      <4> QED
        BY <2>5, <4>1, <4>2
    <3> QED
      BY <2>5, <3>1, <3>2, <3>3 DEF Between
  <2>10. PICK s \in Potential : Completed(s, q, f, b, c)
    BY <2>6, <2>8, <2>9, <2>c DEF PInv, Extendable
  <2>11. \A n \in Remaining \ {via} : s[n] = p[n]
    BY <2>7, <2>10 DEF Remaining, Completed
  <2> QED
    BY <2>10, <2>11 DEF Completed
<1>10. Extendable'
  <2> SUFFICES ASSUME NEW f \in Potential, NEW b \in Potential, NEW p \in Potential, NEW c \in 0..Unlabelled,
                      Frames(f, b, c)', Between(p, f, b, c, Remaining)', \A r \in Among(Remaining)' : Bound(p, r)'
               PROVE  \E q \in Potential : Completed(q, p, f, b, c)'
    BY DEF Extendable, Potential
  <2>1. Between(p, f, b, c, Remaining \ {via})
    BY <1>7 DEF Between
  <2>2. \A r \in Among(Remaining \ {via}) : Bound(p, r)
    BY <1>6, <1>7 DEF Among, Bound
  <2>3. PICK q \in Potential : /\ RoadsBound(q) /\ Between(q, f, b, c, Node)
                              /\ \A n \in Remaining \ {via} : q[n] = p[n]
    BY <1>9, <2>1, <2>2
  <2> QED
    BY <1>7, <2>3 DEF Completed, RoadsBound, Between
<1> QED
  BY <1>5, <1>10 DEF PInv

LEMMA StepPotentials ==
  ASSUME IInv, PInv, Replaced, [ContractionNext]_contractionVars PROVE PInv' /\ Replaced'
<1>1. CASE AddShortcuts
  BY <1>1, AddShortcutsPotentials
<1>2. CASE Contracted
  BY <1>2, ContractedPotentials
<1> QED
  BY <1>1, <1>2, SearchingPotentials DEF ContractionNext

\* What the distances of the two graphs are is settled by their potentials.
\* The potentials of the roads are those that the distances on them are the
\* greatest of.
LEMMA RoadsAre ==
  ASSUME NEW roads, roads = {Arc(EdgeRef(x)) : x \in Edge}
  PROVE  /\ roads \in SUBSET ArcsOn(Node)
         /\ \A p : Bounds(p, roads) <=> RoadsBound(p)
<1>1. \A x \in Edge : /\ NodeA[x] \in Node /\ NodeB[x] \in Node /\ Weight[x] \in Nat
                      /\ Arc(EdgeRef(x)) = [from |-> NodeA[x], to |-> NodeB[x], weight |-> Weight[x]]
  BY GraphAssumption DEF Arc, EdgeRef, RefFrom, RefTo, GetEdgeWeight, IsShortcut
<1>2. roads \in SUBSET ArcsOn(Node)
  BY <1>1 DEF ArcsOn
<1>3. \A p : Bounds(p, roads) <=> RoadsBound(p)
  BY <1>1 DEF Bounds, RoadsBound
<1> QED
  BY <1>2, <1>3

LEMMA PotentialsKeepDistances == ASSUME Types, Sound, Extendable PROVE DistancesKept
<1> DEFINE roads == {Arc(EdgeRef(x)) : x \in Edge}
           rest == {Arc(r) : r \in {q \in Refs : {RefFrom(q), RefTo(q)} \subseteq Remaining}}
<1>1. \A r \in Refs : RefFrom(r) \in Node /\ RefTo(r) \in Node /\ GetEdgeWeight(r) \in Nat
  BY RefFacts DEF Types
<1>2. \A x \in Edge : /\ NodeA[x] \in Node /\ NodeB[x] \in Node /\ Weight[x] \in Nat
                      /\ Arc(EdgeRef(x)) = [from |-> NodeA[x], to |-> NodeB[x], weight |-> Weight[x]]
  BY GraphAssumption DEF Arc, EdgeRef, RefFrom, RefTo, GetEdgeWeight, IsShortcut
<1>3. roads \in SUBSET ArcsOn(Node)
  BY <1>2 DEF ArcsOn
<1>4. rest \in SUBSET ArcsOn(Remaining)
  BY <1>1 DEF ArcsOn, Arc
<1>5. \A p : Bounds(p, roads) <=> RoadsBound(p)
  BY <1>2 DEF Bounds, RoadsBound
<1>6. \A p : Bounds(p, rest) <=> \A r \in Among(Remaining) : Bound(p, r)
  <2>1. rest = {Arc(r) : r \in Among(Remaining)}
    BY DEF Among
  <2>2. \A r : Arc(r).from = RefFrom(r) /\ Arc(r).to = RefTo(r) /\ Arc(r).weight = GetEdgeWeight(r)
    BY DEF Arc
  <2> HIDE DEF rest
  <2> QED
    BY <2>1, <2>2 DEF Bounds, Bound
<1> HIDE DEF roads, rest
<1>7. IsFiniteSet(Node) /\ IsFiniteSet(Remaining) /\ Remaining \subseteq Node
  BY NodesAssumption, FS_Subset DEF Remaining
<1>8. ASSUME NEW n \in Remaining, NEW m \in Remaining,
             NEW before, before = DistancesFrom(n, Node, roads, Unlabelled),
             NEW now, now = DistancesFrom(n, Remaining, rest, Unlabelled)
      PROVE  now[m] = before[m]
  <2>0. Unlabelled \in Nat /\ n \in Node /\ m \in Node
    BY <1>7, ContractionAssumption
  <2>1. before \in [Node -> 0..Unlabelled] /\ before[n] = 0 /\ RoadsBound(before)
    BY <1>3, <1>5, <1>7, <1>8, <2>0, DistancesArePotential
  <2>2. now \in [Remaining -> 0..Unlabelled] /\ now[n] = 0 /\ \A r \in Among(Remaining) : Bound(now, r)
    BY <1>4, <1>6, <1>7, <1>8, <2>0, DistancesArePotential
  <2>3. before[m] <= now[m]
    <3> DEFINE p == [k \in Remaining |-> before[k]]
    <3>1. p \in [Remaining -> Int] /\ p[n] <= 0 /\ p[m] <= Unlabelled /\ p[m] = before[m]
      BY <1>7, <2>0, <2>1
    <3>2. before \in [Node -> Int]
      BY <2>1
    <3>3. \A r \in Refs : Bound(before, r)
      BY <2>1, <3>2 DEF Sound
    <3>4. \A r \in Among(Remaining) : Bound(p, r)
      BY <3>3 DEF Among, Bound
    <3> HIDE DEF p
    <3>5. Bounds(p, rest)
      BY <1>6, <3>4
    <3> QED
      BY <1>4, <1>7, <1>8, <2>0, <3>1, <3>5, DistancesAreGreatest
  <2>4. now[m] <= before[m]
    <3> DEFINE p == [k \in Node |-> IF k \in Remaining THEN now[k] ELSE 0]
    <3>1. p \in Potential /\ \A k \in Remaining : p[k] = now[k]
      BY <1>7, <2>0, <2>2 DEF Potential
    <3> HIDE DEF p
    <3>2. \A r \in Among(Remaining) : Bound(p, r)
      BY <2>2, <3>1 DEF Among, Bound
    <3>3. PICK q \in Potential : RoadsBound(q) /\ \A k \in Remaining : q[k] = p[k]
      BY <3>1, <3>2, PartCompleted
    <3>4. q \in [Node -> Int] /\ q[n] <= 0 /\ q[m] <= Unlabelled /\ q[m] = now[m]
      BY <2>0, <2>2, <3>1, <3>3 DEF Potential
    <3>5. Bounds(q, roads)
      BY <1>5, <3>3
    <3> QED
      BY <1>3, <1>7, <1>8, <2>0, <3>4, <3>5, DistancesAreGreatest
  <2>5. before[m] \in Int /\ now[m] \in Int
    BY <2>0, <2>1, <2>2
  <2> QED
    BY <2>3, <2>4, <2>5
<1> QED
  BY <1>8 DEF DistancesKept, roads, rest

(***************************************************************************)
(* In every contraction of every graph, whichever node is taken out next,  *)
(* the shortcuts keep the distances between the nodes that are left.       *)
(***************************************************************************)
THEOREM DistancesAlwaysKept == ContractionSpec => []DistancesKept
<1>1. ContractionInit => IInv /\ PInv /\ Replaced
  BY InitInv, InitPotentials
<1>2. IInv /\ PInv /\ Replaced /\ [ContractionNext]_contractionVars => (IInv /\ PInv /\ Replaced)'
  BY StepInv, StepPotentials
<1>3. IInv /\ PInv /\ Replaced => DistancesKept
  BY PotentialsKeepDistances DEF IInv, PInv
<1> QED
  BY <1>1, <1>2, <1>3, PTL DEF ContractionSpec

-----------------------------------------------------------------------------
ToBeRated == [node : Node, cause : {"start", "in", "out"}]

Inner == Node \ (IF scheme = "interior" THEN Border ELSE {})

\* The two schemes without priorities rate no node, and no node waits to be
\* rated while one is contracted.
Ratings ==
  /\ ~ByPriority => toRate = {} /\ ~rating /\ next = NoNode
  /\ via # NoNode /\ ~rating => toRate = {}

\* In a round the nodes that are left are of its level, or have been raised.
Rounds ==
  scheme = "rounds" =>
    /\ \A n \in Node \ contracted : level[n] \in {round, round + 1}
    /\ via # NoNode => level[via] = round

Shape ==
  /\ DOMAIN priority = Node
  /\ toRate \subseteq ToBeRated
  /\ \A i \in waiting : i.node \in Node
  /\ next \in Node \cup {NoNode}
  /\ hopLimit \in HopLimits
  /\ round \in Nat
  /\ scheme \in Schemes
  /\ stage \in {"choose", "done"} => via = NoNode

OInv == IInv /\ Shape /\ Ratings /\ Rounds /\ NoNodeIsForgotten

-----------------------------------------------------------------------------
(* The invariant of the contraction. *)

\* The steps of a rating that no contraction has.
LEMMA CountShortcutsInv == ASSUME IInv, CountShortcuts PROVE IInv'
<1>1. UNCHANGED hierarchy /\ UNCHANGED <<shortcuts, contracted, via>> /\ stage = "add"
  BY DEF CountShortcuts, hierarchy, node
<1>2. Ascending' /\ ShortcutsJoin'
  BY <1>1, HierarchyStays
<1>3. Types'
  BY DEF IInv, Types, CountShortcuts, hierarchy, search
<1>4. AtWork'
  BY <1>1, NeighboursStay DEF IInv, AtWork, CountShortcuts, hierarchy, node
<1>5. Labelled'
  BY DEF Labelled, CountShortcuts
<1> QED
  BY <1>2, <1>3, <1>4, <1>5 DEF IInv

LEMMA RatedInv == ASSUME IInv, Rated PROVE IInv'
<1>1. UNCHANGED hierarchy
  BY DEF Rated, hierarchy
<1>2. Ascending' /\ ShortcutsJoin'
  BY <1>1, HierarchyStays
<1>3. Types'
  BY ContractionAssumption DEF IInv, Types, Rated, hierarchy, NoLabel, Label
<1>4. AtWork' /\ Labelled'
  BY DEF AtWork, Labelled, Rated
<1> QED
  BY <1>2, <1>3, <1>4 DEF IInv

LEMMA RateFacts ==
  ASSUME Shape, Rate
  PROVE  \E first \in toRate :
           /\ first.node \in Node /\ first.cause \in {"start", "in", "out"}
           /\ first = [node |-> first.node, cause |-> first.cause]
           /\ toRate' = toRate \ {first}
           /\ \/ first.cause # "start" /\ UNCHANGED <<contractionVars, rating>>
              \/ Choose(first.node) /\ rating'
<1> DEFINE first == CHOOSE r \in toRate : TRUE
<1>1. first \in toRate
  BY DEF Rate
<1>2. first \in ToBeRated
  BY <1>1 DEF Shape
<1>3. toRate' = toRate \ {first}
  BY DEF Rate
<1>4. \/ first.cause # "start" /\ UNCHANGED <<contractionVars, rating>>
      \/ Choose(first.node) /\ rating'
  BY DEF Rate
<1> HIDE DEF first
<1> QED
  BY <1>1, <1>2, <1>3, <1>4 DEF ToBeRated

LEMMA OrderedStepInv == ASSUME IInv, Shape, OrderedNext PROVE IInv'
<1>1. ASSUME NEW i \in waiting, PassOver(i) PROVE IInv'
  BY <1>1, StutterInv DEF PassOver
<1>2. ASSUME NEW i \in waiting, Take(i) PROVE IInv'
  BY <1>2, StutterInv, ChooseInv DEF Take, Shape
<1>3. ASSUME NEW n \in Node, TakeGiven(n) PROVE IInv'
  BY <1>3, ChooseInv DEF TakeGiven
<1>4. CASE TakeRefreshed
  BY <1>4, ChooseInv DEF TakeRefreshed, Shape
<1>5. CASE NextRound
  BY <1>5, StutterInv DEF NextRound
<1>6. CASE Rate
  BY <1>6, RateFacts, StutterInv, ChooseInv
<1>7. CASE CountShortcuts
  BY <1>7, CountShortcutsInv
<1>8. CASE Rated
  BY <1>8, RatedInv
<1>9. CASE Search
  <2>1. Hops \in HopLimits
    BY OrderAssumption DEF Hops, Shape
  <2> QED
    BY <1>9, <2>1, StartSearchInv, SearchStepInv, SearchEndsInv DEF Search
<1>10. CASE Add
  BY <1>10, AddShortcutsInv DEF Add
<1>11. CASE Goes
  BY <1>11, ContractedInv DEF Goes
<1>12. CASE Panic
  BY <1>12, StutterInv DEF Panic
<1> QED
  BY <1>1, <1>2, <1>3, <1>4, <1>5, <1>6, <1>7, <1>8, <1>9, <1>10, <1>11, <1>12 DEF OrderedNext

-----------------------------------------------------------------------------
(* The shape of the variables. *)

LEMMA BorderFacts == Border \subseteq Node
BY GraphAssumption DEF Border

LEMMA InitShape == OrderInit => Shape /\ Ratings /\ Rounds /\ NoNodeIsForgotten
<1> SUFFICES ASSUME OrderInit PROVE Shape /\ Ratings /\ Rounds /\ NoNodeIsForgotten
  OBVIOUS
<1>2. Shape
  <2>1. toRate \subseteq ToBeRated
    BY DEF OrderInit, ToRate, ToBeRated
  <2>2. \A i \in waiting : i.node \in Node
    BY DEF OrderInit, QueueItem
  <2>3. DOMAIN priority = Node
    BY DEF OrderInit
  <2> QED
    BY <2>1, <2>2, <2>3, OrderAssumption DEF OrderInit, ContractionInit, Shape
<1>3. Ratings
  BY DEF OrderInit, ContractionInit, Ratings
<1>4. Rounds
  BY DEF OrderInit, ContractionInit, Rounds
<1>5. NoNodeIsForgotten
  <2> SUFFICES ASSUME scheme # "given", NEW n \in Inner
               PROVE  \/ \E i \in waiting : i.node = n /\ ~Stale(i)
                      \/ [node |-> n, cause |-> "start"] \in toRate
    BY DEF NoNodeIsForgotten, Remaining, Inner
  <2>1. CASE scheme = "rounds"
    <3>1. QueueItem(n, Degree(n)) \in waiting
      BY <2>1 DEF OrderInit, Inner
    <3>2. QueueItem(n, Degree(n)).node = n
      BY DEF QueueItem
    <3>3. ~Stale(QueueItem(n, Degree(n)))
      BY <2>1, <3>2 DEF Stale, OrderInit, ContractionInit, Inner
    <3> QED
      BY <3>1, <3>2, <3>3
  <2>2. CASE scheme # "rounds"
    BY <2>2 DEF OrderInit, ByPriority, ToRate, Inner
  <2> QED
    BY <2>1, <2>2
<1> QED
  BY <1>2, <1>3, <1>4, <1>5

LEMMA ShapeStep == ASSUME IInv, Shape, OrderedNext PROVE Shape'
<1> USE DEF Shape
<1>1. ASSUME NEW i \in waiting, PassOver(i) PROVE Shape'
  BY <1>1 DEF PassOver, contractionVars, node, turns
<1>2. ASSUME NEW i \in waiting, Take(i) PROVE Shape'
  <2>1. toRate' \subseteq ToBeRated
    BY <1>2, BorderFacts DEF Take, ToRate, ToBeRated
  <2> QED
    BY <1>2, <2>1 DEF Take, Choose, contractionVars, node
<1>3. ASSUME NEW n \in Node, TakeGiven(n) PROVE Shape'
  BY <1>3 DEF TakeGiven, Choose, orderVars, rates, turns
<1>4. CASE TakeRefreshed
  BY <1>4 DEF TakeRefreshed, Choose, rates
<1>5. CASE NextRound
  <2>1. \A i \in waiting' : i.node \in Node
    BY <1>5 DEF NextRound, QueueItem, Remaining
  <2> QED
    BY <1>5, <2>1 DEF NextRound, contractionVars, node
<1>6. CASE Rate
  <2>1. toRate' \subseteq toRate /\ (UNCHANGED contractionVars \/ \E n \in Node : Choose(n))
    BY <1>6, RateFacts
  <2> QED
    BY <1>6, <2>1 DEF Rate, Choose, contractionVars, node, turns
<1>7. CASE CountShortcuts
  BY <1>7 DEF CountShortcuts, node, turns
<1>8. CASE Rated
  <2>1. via \in Node
    BY <1>8 DEF Rated, IInv, AtWork
  <2>2. \A i \in waiting' : i.node \in Node
    BY <1>8, <2>1 DEF Rated, QueueItem
  <2>3. DOMAIN priority' = Node
    BY <1>8 DEF Rated
  <2> QED
    BY <1>8, <2>2, <2>3 DEF Rated, turns
<1>9. CASE Search
  BY <1>9 DEF Search, StartSearch, SearchStep, SearchEnds, orderVars, rates, turns, node
<1>10. CASE Add
  BY <1>10 DEF Add, AddShortcuts, rates, node
<1>11. CASE Goes
  <2>1. ins \subseteq Node /\ outs \subseteq Node
    BY <1>11, NeighbourFacts DEF Goes, Contracted, IInv, Types, AtWork
  <2>2. toRate' \subseteq ToBeRated
    BY <1>11, <2>1 DEF Goes, ToRate, ToBeRated
  <2>3. hopLimit' \in HopLimits
    BY <1>11, OrderAssumption DEF Goes, NewHopLimit
  <2> QED
    BY <1>11, <2>2, <2>3 DEF Goes, Contracted
<1>12. CASE Panic
  BY <1>12 DEF Panic, contractionVars, node, rates
<1> QED
  BY <1>1, <1>2, <1>3, <1>4, <1>5, <1>6, <1>7, <1>8, <1>9, <1>10, <1>11, <1>12 DEF OrderedNext

LEMMA RatingsStep == ASSUME IInv, Shape, Ratings, OrderedNext PROVE Ratings'
<1> USE DEF Ratings, ByPriority
<1>1. ASSUME NEW i \in waiting, PassOver(i) PROVE Ratings'
  BY <1>1 DEF PassOver, contractionVars, node, turns
<1>2. ASSUME NEW i \in waiting, Take(i) PROVE Ratings'
  BY <1>2 DEF Take, Ready, Shape, contractionVars, node
<1>3. ASSUME NEW n \in Node, TakeGiven(n) PROVE Ratings'
  BY <1>3 DEF TakeGiven, orderVars, rates, turns
<1>4. CASE TakeRefreshed
  BY <1>4 DEF TakeRefreshed, rates
<1>5. CASE NextRound
  BY <1>5 DEF NextRound, contractionVars, node
<1>6. CASE Rate
  <2>1. stage = "choose" /\ toRate # {} /\ toRate' \subseteq toRate
    BY <1>6, RateFacts DEF Rate
  <2>2. UNCHANGED via \/ rating'
    BY <1>6, RateFacts DEF contractionVars, node
  <2> QED
    BY <1>6, <2>1, <2>2 DEF Rate, turns, Shape
<1>7. CASE CountShortcuts
  BY <1>7 DEF CountShortcuts, node, turns
<1>8. CASE Rated
  BY <1>8 DEF Rated, turns
<1>9. CASE Search
  BY <1>9 DEF Search, StartSearch, SearchStep, SearchEnds, orderVars, rates, turns, node
<1>10. CASE Add
  BY <1>10 DEF Add, AddShortcuts, rates, node
<1>11. CASE Goes
  BY <1>11 DEF Goes, Contracted
<1>12. CASE Panic
  BY <1>12 DEF Panic, contractionVars, node, rates
<1> QED
  BY <1>1, <1>2, <1>3, <1>4, <1>5, <1>6, <1>7, <1>8, <1>9, <1>10, <1>11, <1>12 DEF OrderedNext

-----------------------------------------------------------------------------
(* Rounds. *)

\* What a contraction does to the levels.
LEMMA RaiseFacts ==
  ASSUME IInv, Contracted
  PROVE  /\ via \in Node \ contracted /\ contracted' = contracted \cup {via} /\ via' = NoNode
         /\ \A n \in Node : level[n] \in Nat
         /\ \A n \in Node : level'[n] = level[n] \/ (level[n] <= level[via] /\ level'[n] = level[via] + 1)
BY DEF IInv, Types, AtWork, Contracted, Raise

LEMMA RoundsStep == ASSUME OInv, OrderedNext PROVE Rounds'
<1> USE DEF OInv
<1> SUFFICES ASSUME scheme = "rounds", scheme' = "rounds"
             PROVE  /\ \A n \in Node \ contracted' : level'[n] \in {round', round' + 1}
                    /\ via' # NoNode => level'[via'] = round'
  <2>1. scheme' = scheme
    BY DEF OrderedNext, PassOver, Take, TakeGiven, TakeRefreshed, NextRound, Rate, CountShortcuts, Rated,
           Search, Add, Goes, Panic, orderVars
  <2> QED
    BY <2>1 DEF Rounds
<1>1. /\ toRate = {} /\ ~rating /\ next = NoNode
      /\ \A n \in Node \ contracted : level[n] \in {round, round + 1}
      /\ via # NoNode => level[via] = round
      /\ round \in Nat
  BY DEF Ratings, ByPriority, Rounds, Shape
<1>2. CASE UNCHANGED <<level, contracted, via, round>>
  BY <1>1, <1>2
<1>3. ASSUME NEW i \in waiting, Take(i)
      PROVE  /\ \A n \in Node \ contracted' : level'[n] \in {round', round' + 1}
             /\ via' # NoNode => level'[via'] = round'
  <2>1. Choose(i.node) /\ UNCHANGED round
    BY <1>3 DEF Take
  <2>2. i.node \in Node \ contracted
    BY <2>1 DEF Choose, Shape
  <2>3. ~(level[i.node] > round)
    BY <1>3 DEF Take, Stale
  <2>4. level[i.node] = round
    BY <1>1, <2>2, <2>3
  <2> QED
    BY <1>1, <2>1, <2>4 DEF Choose, hierarchy
<1>4. CASE NextRound
  <2>1. \A n \in Node \ contracted : level[n] > round
    <3>1. via = NoNode /\ waiting = {}
      BY <1>4 DEF NextRound, Ready, Shape
    <3> QED
      BY <1>1, <3>1, GraphAssumption DEF NoNodeIsForgotten, Remaining
  <2>2. \A n \in Node \ contracted : level[n] = round + 1
    BY <1>1, <2>1
  <2> QED
    BY <1>1, <1>4, <2>2 DEF NextRound, Ready, Shape, contractionVars, hierarchy, node
<1>5. CASE Goes
  <2>1. Contracted /\ UNCHANGED round
    BY <1>5 DEF Goes
  <2>2. level[via] = round
    BY <1>1, <2>1, RaiseFacts, GraphAssumption
  <2>3. \A n \in Node \ contracted : level'[n] \in {round, round + 1}
    BY <1>1, <2>1, <2>2, RaiseFacts
  <2> QED
    BY <2>1, <2>3, RaiseFacts
<1>6. CASE \E i \in waiting : PassOver(i)
  BY <1>2, <1>6 DEF PassOver, contractionVars, hierarchy, node, turns
<1>7. CASE Search
  BY <1>2, <1>7 DEF Search, StartSearch, SearchStep, SearchEnds, orderVars, turns, hierarchy, node
<1>8. CASE Add
  BY <1>2, <1>8 DEF Add, AddShortcuts, node
<1>9. ~Panic /\ ~Rate /\ ~CountShortcuts /\ ~Rated /\ ~TakeRefreshed /\ \A n \in Node : ~TakeGiven(n)
  BY <1>1 DEF Panic, Rate, CountShortcuts, Rated, TakeRefreshed, TakeGiven
<1> QED
  BY <1>3, <1>4, <1>5, <1>6, <1>7, <1>8, <1>9 DEF OrderedNext

-----------------------------------------------------------------------------
(* The queue. *)

Kept(n) ==
  \/ n \in {via, next}
  \/ \E i \in waiting : i.node = n /\ ~Stale(i)
  \/ [node |-> n, cause |-> "start"] \in toRate
  \/ scheme = "rounds" /\ level[n] > round

\* The steps that change neither the queue nor what an item is measured by.
LEMMA KeptStays ==
  ASSUME NEW n, Kept(n), UNCHANGED <<scheme, level, contracted, waiting, priority, toRate, via, next, round>>
  PROVE  Kept(n)'
BY DEF Kept, Stale

LEMMA KeptStep ==
  ASSUME OInv, OrderedNext, scheme # "given", NEW n \in Inner \ contracted', Kept(n)
  PROVE  Kept(n)'
<1> USE DEF OInv
<1>1. /\ stage \in {"choose", "done"} => via = NoNode
      /\ n \in Node /\ n # NoNode
  BY GraphAssumption DEF Shape, Inner
<1>2. ASSUME NEW i \in waiting, PassOver(i) PROVE Kept(n)'
  <2>1. UNCHANGED <<scheme, level, contracted, priority, toRate, via, next, round>>
    BY <1>2 DEF PassOver, contractionVars, hierarchy, node, turns
  <2>2. waiting' = waiting \ {i} /\ Stale(i)
    BY <1>2 DEF PassOver
  <2> QED
    BY <2>1, <2>2 DEF Kept, Stale
<1>3. ASSUME NEW i \in waiting, Take(i) PROVE Kept(n)'
  <2>1. /\ UNCHANGED <<scheme, level, contracted, priority, round>>
        /\ via = NoNode /\ next = NoNode /\ toRate = {}
        /\ waiting' = waiting \ {i}
        /\ i.node \in {via', next'}
    BY <1>1, <1>3 DEF Take, Ready, Choose, contractionVars, hierarchy
  <2> QED
    BY <1>1, <2>1 DEF Kept, Stale
<1>4. CASE TakeRefreshed
  <2>1. /\ UNCHANGED <<scheme, level, contracted, priority, round, waiting, toRate>>
        /\ via = NoNode /\ via' = next
    BY <1>1, <1>4 DEF TakeRefreshed, Choose, hierarchy, rates
  <2> QED
    BY <1>1, <2>1 DEF Kept, Stale
<1>5. CASE NextRound
  <2>1. scheme' = "rounds" /\ \E i \in waiting' : i.node = n
    <3>1. n \in Remaining
      BY <1>1, <1>5 DEF NextRound, Remaining, contractionVars, hierarchy
    <3>2. QueueItem(n, Degree(n)) \in waiting' /\ QueueItem(n, Degree(n)).node = n
      BY <1>5, <3>1 DEF NextRound, QueueItem
    <3> QED
      BY <1>5, <3>2 DEF NextRound
  <2>2. PICK i \in waiting' : i.node = n
    BY <2>1
  <2>3. Stale(i)' => level'[n] > round'
    BY <2>1, <2>2 DEF Stale
  <2> QED
    BY <2>1, <2>2, <2>3 DEF Kept
<1>6. CASE Rate
  <2>1. PICK first \in toRate :
          /\ first = [node |-> first.node, cause |-> first.cause]
          /\ toRate' = toRate \ {first}
          /\ \/ first.cause # "start" /\ UNCHANGED <<contractionVars, rating>>
             \/ Choose(first.node) /\ rating'
    BY <1>6, RateFacts
  <2>2. /\ UNCHANGED <<scheme, level, contracted, priority, round, waiting, next>>
        /\ via = NoNode
    BY <1>1, <1>6, <2>1 DEF Rate, Choose, turns, contractionVars, hierarchy
  <2>3. CASE n = first.node /\ first.cause = "start"
    BY <2>1, <2>3 DEF Kept, Choose
  <2>4. CASE ~(n = first.node /\ first.cause = "start")
    <3>1. [node |-> n, cause |-> "start"] # first
      BY <2>4
    <3> QED
      BY <1>1, <2>1, <2>2, <3>1 DEF Kept, Stale
  <2> QED
    BY <2>3, <2>4
<1>7. CASE CountShortcuts
  BY <1>7, KeptStays DEF CountShortcuts, hierarchy, node, turns
<1>8. CASE Rated
  <2>1. /\ scheme # "rounds" /\ via \in Node \ contracted
        /\ priority' = [priority EXCEPT ![via] = ComputeNodePriority] /\ DOMAIN priority = Node
        /\ waiting' = waiting \cup {QueueItem(via, ComputeNodePriority)}
        /\ UNCHANGED <<scheme, contracted, toRate, next>>
    BY <1>8 DEF Rated, Ratings, ByPriority, Shape, IInv, AtWork, hierarchy, turns
  <2>2. CASE n = via
    <3>1. QueueItem(via, ComputeNodePriority).node = n /\ QueueItem(via, ComputeNodePriority).prio = priority'[n]
      BY <2>1, <2>2 DEF QueueItem
    <3> QED
      BY <2>1, <2>2, <3>1 DEF Kept, Stale
  <2>3. CASE n # via
    BY <2>1, <2>3 DEF Kept, Stale
  <2> QED
    BY <2>2, <2>3
<1>9. CASE Search
  BY <1>9, KeptStays DEF Search, StartSearch, SearchStep, SearchEnds, orderVars, rates, turns, hierarchy, node
<1>10. CASE Add
  BY <1>10, KeptStays DEF Add, AddShortcuts, rates, node
<1>11. CASE Goes
  <2>1. /\ n # via /\ n \notin contracted
        /\ contracted' = contracted \cup {via}
        /\ UNCHANGED <<scheme, waiting, priority, next, round>>
    BY <1>11, RaiseFacts DEF Goes
  <2>2. toRate = {}
    BY <1>11, RaiseFacts, GraphAssumption DEF Goes, Ratings
  <2>3. level[n] > round => level'[n] > round
    BY <1>1, <1>11, RaiseFacts DEF Goes, Shape
  <2>4. ASSUME NEW i \in waiting, i.node = n, ~Stale(i)
        PROVE  ~Stale(i)' \/ (scheme = "rounds" /\ level'[n] > round)
    BY <2>1, <2>4 DEF Stale
  <2> QED
    BY <2>1, <2>2, <2>3, <2>4 DEF Kept
<1>12. CASE Panic
  BY <1>12, KeptStays DEF Panic, contractionVars, hierarchy, node, rates
<1>13. \A m \in Node : ~TakeGiven(m)
  BY DEF TakeGiven
<1> QED
  BY <1>2, <1>3, <1>4, <1>5, <1>6, <1>7, <1>8, <1>9, <1>10, <1>11, <1>12, <1>13 DEF OrderedNext

LEMMA QueueStep == ASSUME OInv, OrderedNext PROVE NoNodeIsForgotten'
<1>1. scheme' = scheme
  BY DEF OrderedNext, PassOver, Take, TakeGiven, TakeRefreshed, NextRound, Rate, CountShortcuts, Rated,
         Search, Add, Goes, Panic, orderVars
<1>2. contracted \subseteq contracted'
  BY RaiseFacts, RateFacts
     DEF OInv, OrderedNext, PassOver, Take, TakeGiven, TakeRefreshed, NextRound, CountShortcuts, Rated,
     Search, StartSearch, SearchStep, SearchEnds, Add, AddShortcuts, Goes, Panic, Choose,
       contractionVars, hierarchy
<1>3. ASSUME scheme # "given", NEW n \in Inner \ contracted' PROVE Kept(n)'
  <2>1. Kept(n)
    BY <1>2, <1>3 DEF OInv, NoNodeIsForgotten, Kept, Inner, Remaining
  <2> QED
    BY <1>3, <2>1, KeptStep
<1> QED
  BY <1>1, <1>3 DEF NoNodeIsForgotten, Kept, Inner, Remaining

-----------------------------------------------------------------------------
LEMMA OrderedStarts == OrderInit => OInv
BY InitInv, InitShape DEF OrderInit, OInv

LEMMA OrderedStep == ASSUME OInv, [OrderedNext]_orderedVars PROVE OInv'
<1>1. ASSUME OrderedNext PROVE OInv'
  <2>1. IInv' /\ Shape' /\ Ratings'
    BY <1>1, OrderedStepInv, ShapeStep, RatingsStep DEF OInv
  <2> QED
    BY <1>1, <2>1, RoundsStep, QueueStep DEF OInv
<1>2. ASSUME UNCHANGED orderedVars PROVE OInv'
  <2>1. UNCHANGED contractionVars /\ UNCHANGED orderVars
    BY <1>2 DEF orderedVars
  <2>2. IInv'
    BY <1>2, <2>1, StutterInv DEF OInv
  <2>3. UNCHANGED <<scheme, waiting, priority, toRate, rating, next, round, hopLimit, level, contracted,
        via, stage>>
    BY <2>1 DEF contractionVars, hierarchy, node, orderVars, rates, turns
  <2>4. Shape' /\ Ratings' /\ Rounds'
    BY <1>2, <2>3 DEF OInv, Shape, Ratings, ByPriority, Rounds
  <2>5. NoNodeIsForgotten'
    BY <1>2, <2>3 DEF OInv, NoNodeIsForgotten, Remaining, Stale
  <2> QED
    BY <2>2, <2>4, <2>5 DEF OInv
<1> QED
  BY <1>1, <1>2

LEMMA OrderedInductive == OrderedSpec => []OInv
BY OrderedStarts, OrderedStep, PTL DEF OrderedSpec

(***************************************************************************)
(* Whichever of the seven functions contracts the graph, the levels        *)
(* ascend: the ratings in between, which run the same local searches,      *)
(* leave no trace in the hierarchy.                                        *)
(***************************************************************************)
THEOREM OrderedLevelsAscend == OrderedSpec => []LevelsAscend
<1>1. OInv => LevelsAscend
  BY DEF OInv, IInv, Ascending, LevelsAscend
<1> QED
  BY <1>1, OrderedInductive, PTL

(***************************************************************************)
(* In CalcContraction every node that goes is of the level of the round,   *)
(* so that writing level + 1 to its neighbours never takes one down.       *)
(***************************************************************************)
THEOREM RoundsAlwaysLevels == OrderedSpec => []RoundsAreLevels
<1>1. OInv => RoundsAreLevels
  BY DEF OInv, Rounds, RoundsAreLevels
<1> QED
  BY <1>1, OrderedInductive, PTL

(***************************************************************************)
(* In every function that has a queue, a node that is still to be          *)
(* contracted has an item in force, whatever was passed over before.       *)
(***************************************************************************)
THEOREM NoNodeIsEverForgotten == OrderedSpec => []NoNodeIsForgotten
<1>1. OInv => NoNodeIsForgotten
  BY DEF OInv
<1> QED
  BY <1>1, OrderedInductive, PTL

-----------------------------------------------------------------------------
(* The distances. *)

\* The steps of a rating leave nothing in the hierarchy, but nothing is replaced.
LEMMA RatingPotentials ==
  ASSUME PInv, UNCHANGED hierarchy, stage' \notin {"search", "add"} PROVE PInv'
<1>1. Sound' /\ Extendable'
  BY SoundStays, ExtendableStays DEF PInv, hierarchy
<1>2. Searches'
  BY DEF Searches, Tree, Searching, Searched
<1> QED
  BY <1>1, <1>2 DEF PInv

LEMMA OrderedPotentials ==
  ASSUME IInv, Shape, PInv, ~rating => Replaced, OrderedNext
  PROVE  PInv' /\ (~rating' => Replaced')
<1> DEFINE Goal == PInv' /\ (~rating' => Replaced')
<1>1. ASSUME NEW i \in waiting, PassOver(i) PROVE Goal
  BY <1>1, SearchingPotentials DEF PassOver
<1>2. ASSUME NEW i \in waiting, Take(i) PROVE Goal
  <2>1. rating' = rating /\ i.node \in Node /\ (Choose(i.node) \/ UNCHANGED contractionVars)
    BY <1>2 DEF Take, Shape
  <2> QED
    BY <2>1, SearchingPotentials
<1>3. ASSUME NEW n \in Node, TakeGiven(n) PROVE Goal
  BY <1>3, SearchingPotentials DEF TakeGiven, orderVars, rates
<1>4. CASE TakeRefreshed
  <2>1. rating' = rating /\ next \in Node /\ Choose(next)
    BY <1>4 DEF TakeRefreshed, Shape, rates
  <2> QED
    BY <2>1, SearchingPotentials
<1>5. CASE NextRound
  BY <1>5, SearchingPotentials DEF NextRound
<1>6. CASE Rate
  <2>1. \/ UNCHANGED <<contractionVars, rating>>
        \/ \E n \in Node : Choose(n) /\ rating'
    BY <1>6, RateFacts
  <2> QED
    BY <2>1, SearchingPotentials
<1>7. CASE CountShortcuts
  <2>1. rating' /\ UNCHANGED hierarchy /\ stage' = "pair"
    BY <1>7 DEF CountShortcuts
  <2> QED
    BY <2>1, RatingPotentials
<1>8. CASE Rated
  <2>1. UNCHANGED hierarchy /\ stage' = "choose"
    BY <1>8 DEF Rated
  <2> QED
    BY <2>1, RatingPotentials DEF Replaced
<1>9. CASE Search
  <2>1. rating' = rating /\ Hops \in HopLimits
    BY <1>9, OrderAssumption DEF Search, orderVars, rates, Hops, Shape
  <2>2. \/ \E n \in left, l \in HopLimits : StartSearch(n, l)
        \/ \E n \in Node : SearchStep(n)
        \/ SearchEnds
    BY <1>9, <2>1 DEF Search
  <2> QED
    BY <2>1, <2>2, SearchingPotentials
<1>10. CASE Add
  BY <1>10, AddShortcutsPotentials DEF Add
<1>11. CASE Goes
  BY <1>11, ContractedPotentials DEF Goes
<1>12. CASE Panic
  BY <1>12, SearchingPotentials DEF Panic
<1> QED
  BY <1>1, <1>2, <1>3, <1>4, <1>5, <1>6, <1>7, <1>8, <1>9, <1>10, <1>11, <1>12 DEF OrderedNext

OPInv == PInv /\ (~rating => Replaced)

LEMMA OrderedPotentialsStart == OrderInit => OPInv
BY InitPotentials DEF OrderInit, OPInv

LEMMA OrderedPotentialsStep == ASSUME OInv, OPInv, [OrderedNext]_orderedVars PROVE OPInv'
<1>1. CASE OrderedNext
  BY <1>1, OrderedPotentials DEF OInv, OPInv
<1>2. CASE UNCHANGED orderedVars
  <2>1. UNCHANGED contractionVars /\ rating' = rating
    BY <1>2 DEF orderedVars, orderVars, rates
  <2> QED
    BY <2>1, SearchingPotentials DEF OInv, OPInv
<1> QED
  BY <1>1, <1>2

(***************************************************************************)
(* Whichever of the seven functions contracts the graph, the shortcuts     *)
(* keep the distances between the nodes that are left: also with the hop   *)
(* limits of CalcContraction3 that grow, and when searches for ratings,    *)
(* whose shortcuts are only counted, come in between.                      *)
(***************************************************************************)
THEOREM OrderedDistancesKept == OrderedSpec => []DistancesKept
<1>1. OInv /\ OPInv => DistancesKept
  BY PotentialsKeepDistances DEF OInv, OPInv, IInv, PInv
<1> QED
  BY <1>1, OrderedStarts, OrderedStep, OrderedPotentialsStart, OrderedPotentialsStep, PTL DEF OrderedSpec

-----------------------------------------------------------------------------
(* The query from one node to another. *)

Flag == [length : 0..FirstLength, by : SUBSET AnyRef, visited : BOOLEAN]

Origin(s) == IF s = "start" THEN start ELSE end
Near(s, r) == IF s = "start" THEN RefFrom(r) ELSE RefTo(r)
LengthAt(s, n) == flags[s][n].length
Visited(s, n) == flags[s][n].visited

QueryTypes ==
  /\ mode \in {"calc", "steps"}
  /\ place \in {"idle", "start", "end", "back", "forth", "answered", "failed", "lost"}
  /\ heaps \in [Side -> SUBSET [node : Node, key : Nat]]
  /\ flags \in [Side -> [Node -> Flag]]
  /\ mid \in Node \cup {NoNode} /\ pathLength \in 0..NoLength
  /\ cur \in Node \cup {NoNode}
  /\ path \in Seq(Edge)

\* A query is made on a hierarchy that is finished, and does not touch it.
Phases ==
  /\ stage = "done" => contracted = Node
  /\ place = "idle" => mid = NoNode /\ pathLength = NoLength /\ path = <<>>
  /\ place # "idle" => stage = "done" /\ start \in Node /\ end \in Node
  /\ place \in {"start", "end"} => path = <<>>
  /\ place \in {"back", "forth", "answered"} => mid \in Node /\ cur \in Node
  /\ place \in {"failed", "lost"} => mid = NoNode

\* From a node to itself: it is visited by both sides, and nothing else by the
\* side of the start.
Alone ==
  place # "idle" /\ start = end =>
    /\ path = <<>>
    /\ mid = NoNode =>
         /\ heaps["end"] = {Item(start, 0)} /\ ~Visited("end", start) /\ LengthAt("end", start) = 0
         /\ pathLength = NoLength
         /\ \/ place = "start" /\ heaps["start"] = {Item(start, 0)} /\ ~Visited("start", start)
            \/ place = "end" /\ heaps["start"] = {} /\ Visited("start", start)
    /\ mid # NoNode => mid = start /\ heaps["start"] = {}
    /\ \A n \in Node : Visited("start", n) => n = start
    /\ \A n \in Node : LengthAt("start", n) = FirstLength
    /\ place \in {"back", "forth", "answered"} => cur = start

Two == place # "idle" /\ start # end

\* The flags of a side are a tree of references that climb.
Treed(s) ==
  \A n \in Node : LengthAt(s, n) < FirstLength /\ n # Origin(s) =>
    \E r \in Refs : /\ flags[s][n].by = {r} /\ Far(s, r) = n
                    /\ Visited(s, Near(s, r))
                    /\ LengthAt(s, n) = LengthAt(s, Near(s, r)) + GetEdgeWeight(r)

\* A node that has a label and was not visited is in the heap with it.
Queued(s) ==
  /\ \A n \in Node : ~Visited(s, n) /\ LengthAt(s, n) < FirstLength => Item(n, LengthAt(s, n)) \in heaps[s]
  /\ \A i \in heaps[s] : LengthAt(s, i.node) < FirstLength /\ LengthAt(s, i.node) <= i.key

\* Nodes are visited in the order of their labels.
InOrder(s) ==
  \A m \in Node : Visited(s, m) =>
    LengthAt(s, m) < FirstLength /\ \A n \in Node : ~Visited(s, n) => LengthAt(s, m) <= LengthAt(s, n)

Settled(s) ==
  \A r \in Refs : Visited(s, Near(s, r)) /\ level[Far(s, r)] > level[Near(s, r)] =>
    LengthAt(s, Far(s, r)) <= LengthAt(s, Near(s, r)) + GetEdgeWeight(r)

SideSearched(s) ==
  /\ LengthAt(s, Origin(s)) = 0
  /\ Treed(s) /\ Queued(s) /\ InOrder(s) /\ Settled(s)

Middle ==
  /\ \A n \in Node : Visited("start", n) /\ Visited("end", n) =>
       pathLength <= LengthAt("start", n) + LengthAt("end", n)
  /\ IF mid = NoNode THEN pathLength = NoLength
     ELSE /\ Visited("start", mid) /\ Visited("end", mid)
          /\ pathLength = LengthAt("start", mid) + LengthAt("end", mid)

\* No label is shorter than a potential of the roads allows.
Real ==
  \A p \in [Node -> 0..FirstLength] : RoadsBound(p) /\ p[start] = 0 =>
    \A n \in Node : p[n] <= LengthAt("start", n) /\ p[end] <= p[n] + LengthAt("end", n)

\* The loop is left when nothing shorter than the path is left in a heap.
Beyond ==
  place \notin {"start", "end"} =>
    \A s \in Side : \A n \in Node : ~Visited(s, n) =>
       LengthAt(s, n) = FirstLength \/ LengthAt(s, n) >= pathLength

Collected ==
  /\ place = "back" =>
       /\ LengthAt("start", cur) <= LengthAt("start", mid)
       /\ RealRoute(Reverse(path), cur, mid, LengthAt("start", mid) - LengthAt("start", cur))
  /\ place = "forth" =>
       /\ LengthAt("end", cur) <= LengthAt("end", mid)
       /\ cur = mid => RealRoute(path, start, mid, LengthAt("start", mid))
       /\ Followed(path, start)[Len(path)].far = pathLength - LengthAt("end", cur)
  /\ place = "answered" => Followed(path, start)[Len(path)].far = pathLength

QInv ==
  /\ QueryTypes /\ Phases /\ Alone
  /\ Two => (\A s \in Side : SideSearched(s)) /\ Middle /\ Real /\ Beyond /\ Collected

-----------------------------------------------------------------------------
(* A node is settled. *)

LEMMA RefsOfSides ==
  ASSUME IInv, NEW s \in Side
  PROVE  \A r \in Refs :
           /\ r \in AnyRef /\ Near(s, r) \in Node /\ Far(s, r) \in Node
           /\ GetEdgeWeight(r) \in Nat /\ GetEdgeWeight(r) > 0
           /\ \A n : Leads(s, n, r) <=> Near(s, r) = n
BY RefFacts DEF IInv, Types, Near, Far, Leads

LEMMA FlagFacts ==
  ASSUME QueryTypes
  PROVE  /\ \A s \in Side, n \in Node :
              /\ LengthAt(s, n) \in Nat /\ LengthAt(s, n) <= FirstLength
              /\ Visited(s, n) \in BOOLEAN /\ flags[s][n].by \in SUBSET AnyRef
         /\ FirstLength \in Nat /\ FirstLength > 0 /\ NoLength \in Nat
<1>1. FirstLength \in Nat /\ FirstLength > 0 /\ NoLength \in Nat
  BY QueryAssumption, ContractionAssumption
<1>2. ASSUME NEW s \in Side, NEW n \in Node PROVE flags[s][n] \in Flag
  BY DEF QueryTypes
<1> QED
  BY <1>1, <1>2 DEF Flag, LengthAt, Visited

LEMMA ImprovingIs ==
  ASSUME IInv, QueryTypes, NEW s \in Side, NEW n \in Node
  PROVE  \A r \in Refs : r \in Improving(s, n) <=>
           /\ Near(s, r) = n /\ level[Far(s, r)] > level[n]
           /\ LengthAt(s, n) + GetEdgeWeight(r) < LengthAt(s, Far(s, r))
BY RefsOfSides DEF Improving, Upwards, LengthAt

LEMMA BestIs ==
  ASSUME IInv, NEW s \in Side, NEW n \in Node, NEW r \in Improving(s, n)
  PROVE  \E q \in Best(s, n) : Far(s, q) = Far(s, r) /\ GetEdgeWeight(q) <= GetEdgeWeight(r)
<1> DEFINE Rivals == {q \in Improving(s, n) : Far(s, q) = Far(s, r)}
           weights == {GetEdgeWeight(q) : q \in Rivals}
<1>1. \A q \in Improving(s, n) : GetEdgeWeight(q) \in Nat
  BY RefsOfSides DEF Improving, Upwards
<1>2. weights \in SUBSET Nat /\ GetEdgeWeight(r) \in weights
  BY <1>1
<1>3. PICK l \in weights : \A o \in weights : l <= o
  <2> HIDE DEF weights
  <2> QED
    BY <1>2, LeastNumber
<1>4. PICK q \in Rivals : l = GetEdgeWeight(q)
  BY <1>3
<1>5. \A o \in Rivals : GetEdgeWeight(q) <= GetEdgeWeight(o)
  BY <1>3, <1>4
<1>6. q \in Best(s, n)
  BY <1>4, <1>5 DEF Best
<1> QED
  BY <1>4, <1>5, <1>6

\* What the flags of a side are when n has been visited.
LEMMA ClimbedIs ==
  ASSUME IInv, QueryTypes, NEW s \in Side, NEW n \in Node, NEW g, g = Climbed(s, n)
  PROVE  /\ g \in [Node -> Flag]
         /\ \A m \in Node :
              /\ g[m].visited <=> Visited(s, m) \/ m = n
              /\ g[m].length <= LengthAt(s, m)
              /\ \/ /\ g[m].length = LengthAt(s, m) /\ g[m].by = flags[s][m].by
                    /\ \A r \in Improving(s, n) : Far(s, r) # m
                 \/ /\ m # n
                    /\ \E r \in Best(s, n) : /\ Far(s, r) = m /\ g[m].by = {r}
                                             /\ g[m].length = LengthAt(s, n) + GetEdgeWeight(r)
                                             /\ g[m].length < LengthAt(s, m)
<1>1. ASSUME NEW m \in Node
      PROVE  /\ g[m] \in Flag
             /\ g[m].visited <=> Visited(s, m) \/ m = n
             /\ g[m].length <= LengthAt(s, m)
             /\ \/ /\ g[m].length = LengthAt(s, m) /\ g[m].by = flags[s][m].by
                   /\ \A r \in Improving(s, n) : Far(s, r) # m
                \/ /\ m # n
                   /\ \E r \in Best(s, n) : /\ Far(s, r) = m /\ g[m].by = {r}
                                            /\ g[m].length = LengthAt(s, n) + GetEdgeWeight(r)
                                            /\ g[m].length < LengthAt(s, m)
  <2> DEFINE best == {r \in Best(s, n) : Far(s, r) = m}
             old == flags[s][m]
  <2>1. old \in Flag /\ LengthAt(s, m) = old.length /\ Visited(s, m) = old.visited
    BY DEF QueryTypes, LengthAt, Visited
  <2>2. CASE best = {}
    <3>1. g[m] = [old EXCEPT !.visited = @ \/ m = n]
      BY <1>1, <2>2 DEF Climbed
    <3>2. /\ g[m] \in Flag /\ g[m].length = old.length /\ g[m].by = old.by
          /\ g[m].visited = (old.visited \/ m = n)
      <4> HIDE DEF old
      <4> QED
        BY <2>1, <3>1 DEF Flag
    <3>3. \A r \in Improving(s, n) : Far(s, r) # m
      BY <2>2, BestIs
    <3>4. LengthAt(s, m) <= LengthAt(s, m)
      BY FlagFacts
    <3> HIDE DEF old
    <3> QED
      BY <2>1, <3>2, <3>3, <3>4 DEF old
  <2>3. CASE best # {}
    <3>1. PICK r \in best : r = CHOOSE q \in best : TRUE
      BY <2>3
    <3>2. g[m] = [old EXCEPT !.length = LengthAt(s, n) + GetEdgeWeight(r), !.by = {r}]
      BY <1>1, <2>3, <3>1 DEF Climbed, LengthAt
    <3>3. r \in Best(s, n) /\ r \in Improving(s, n) /\ r \in Refs /\ Far(s, r) = m
      BY <3>1 DEF Best, Improving, Upwards
    <3>4. level[m] > level[n] /\ LengthAt(s, n) + GetEdgeWeight(r) < LengthAt(s, m)
      BY <3>3, ImprovingIs
    <3>5. m # n
      BY <3>4 DEF IInv, Types
    <3>6. r \in AnyRef /\ GetEdgeWeight(r) \in Nat
      BY <3>3, RefsOfSides
    <3>7. LengthAt(s, n) + GetEdgeWeight(r) \in 0..FirstLength
      BY <3>4, <3>6, FlagFacts
    <3>8. /\ g[m] \in Flag /\ g[m].length = LengthAt(s, n) + GetEdgeWeight(r) /\ g[m].by = {r}
          /\ g[m].visited = old.visited
      <4> HIDE DEF old
      <4> QED
        BY <2>1, <3>2, <3>6, <3>7 DEF Flag
    <3>9. g[m].length <= LengthAt(s, m)
      BY <3>4, <3>7, <3>8, FlagFacts
    <3> HIDE DEF old, best
    <3> QED
      BY <2>1, <3>3, <3>4, <3>5, <3>8, <3>9
  <2> QED
    BY <2>2, <2>3
<1>2. g = [m \in Node |-> g[m]]
  BY DEF Climbed
<1>3. g \in [Node -> Flag]
  BY <1>1, <1>2
<1> QED
  BY <1>1, <1>3

\* A query leaves the hierarchy as it is.
LEMMA HierarchyIsKept ==
  ASSUME UNCHANGED contractionVars, UNCHANGED request
  PROVE  /\ Refs' = Refs /\ level' = level /\ start' = start /\ end' = end
         /\ \A s, r : /\ Near(s, r)' = Near(s, r) /\ Far(s, r)' = Far(s, r)
                      /\ GetEdgeWeight(r)' = GetEdgeWeight(r)
         /\ \A s : Origin(s)' = Origin(s)
<1>1. /\ shortcuts' = shortcuts /\ level' = level /\ start' = start /\ end' = end
  BY DEF contractionVars, hierarchy, request
<1>2. /\ Refs' = Refs
      /\ \A r : RefFrom(r)' = RefFrom(r) /\ RefTo(r)' = RefTo(r) /\ GetEdgeWeight(r)' = GetEdgeWeight(r)
  BY <1>1, RefsStay
<1> QED
  BY <1>1, <1>2 DEF Near, Far, Origin

\* What Settle does to the side whose turn it is, at the node n.
SettledAt(s, n) ==
  /\ n \in Node /\ ~Visited(s, n) /\ LengthAt(s, n) < FirstLength
  /\ \A m \in Node : (~Visited(s, m) => LengthAt(s, n) <= LengthAt(s, m))
                     /\ (Visited(s, m) => LengthAt(s, m) <= LengthAt(s, n))
  /\ \A m \in Node : /\ Visited(s, m)' <=> Visited(s, m) \/ m = n
                     /\ LengthAt(s, m)' <= LengthAt(s, m)
                     /\ \/ /\ LengthAt(s, m)' = LengthAt(s, m) /\ flags'[s][m].by = flags[s][m].by
                           /\ \A r \in Improving(s, n) : Far(s, r) # m
                        \/ /\ ~Visited(s, m) /\ m # n
                           /\ \E r \in Best(s, n) : /\ Far(s, r) = m /\ flags'[s][m].by = {r}
                                                    /\ LengthAt(s, m)' = LengthAt(s, n) + GetEdgeWeight(r)
  /\ \A t \in Side : t # s => flags'[t] = flags[t] /\ heaps'[t] = heaps[t]
  /\ \A m \in Node : m # n /\ Item(m, LengthAt(s, m)) \in heaps[s] => Item(m, LengthAt(s, m)) \in heaps'[s]
  /\ \A r \in Best(s, n) : Item(Far(s, r), LengthAt(s, n) + GetEdgeWeight(r)) \in heaps'[s]
  /\ \A i \in heaps'[s] : \/ i \in heaps[s]
                          \/ \E r \in Improving(s, n) : i = Item(Far(s, r), LengthAt(s, n) + GetEdgeWeight(r))

LEMMA SettleIs ==
  ASSUME IInv, QueryTypes, NEW s \in Side, SideSearched(s), NEW i \in heaps[s], Settle(s, i)
  PROVE  SettledAt(s, i.node) /\ flags' \in [Side -> [Node -> Flag]]
<1> DEFINE n == i.node
           g == Climbed(s, n)
<1>1. /\ i \in [node : Node, key : Nat] /\ n \in Node /\ i.key \in Nat
  BY DEF QueryTypes
<1>2. /\ i \in Tops(s) /\ ~Visited(s, n)
      /\ flags' = [flags EXCEPT ![s] = g]
      /\ UNCHANGED contractionVars
  BY DEF Settle, Visited
<1>3. PICK late \in SUBSET Improving(s, n) :
        heaps' = [heaps EXCEPT ![s] = (@ \ {i}) \cup Reached(s, n, Best(s, n) \cup late)]
  BY DEF Settle
<1> HIDE DEF n, g
<1>4. LengthAt(s, n) < FirstLength /\ LengthAt(s, n) <= i.key
  BY <1>1 DEF SideSearched, Queued, n
<1>5. ASSUME NEW m \in Node, ~Visited(s, m) PROVE LengthAt(s, n) <= LengthAt(s, m)
  <2>0. /\ LengthAt(s, m) \in Nat /\ LengthAt(s, m) <= FirstLength /\ LengthAt(s, n) \in Nat
        /\ FirstLength \in Nat
    BY <1>1, FlagFacts
  <2>1. CASE LengthAt(s, m) = FirstLength
    BY <1>4, <2>0, <2>1
  <2>2. CASE LengthAt(s, m) # FirstLength
    <3>1. Item(m, LengthAt(s, m)) \in heaps[s]
      BY <1>5, <2>0, <2>2 DEF SideSearched, Queued
    <3>2. i.key <= Item(m, LengthAt(s, m)).key
      BY <1>2, <3>1 DEF Tops
    <3> QED
      BY <1>1, <1>4, <2>0, <3>2 DEF Item
  <2> QED
    BY <2>1, <2>2
<1>6. \A m \in Node : Visited(s, m) => LengthAt(s, m) <= LengthAt(s, n)
  BY <1>1, <1>2 DEF SideSearched, InOrder
<1>7. /\ g \in [Node -> Flag]
      /\ \A m \in Node :
           /\ g[m].visited <=> Visited(s, m) \/ m = n
           /\ g[m].length <= LengthAt(s, m)
           /\ \/ /\ g[m].length = LengthAt(s, m) /\ g[m].by = flags[s][m].by
                 /\ \A r \in Improving(s, n) : Far(s, r) # m
              \/ /\ m # n
                 /\ \E r \in Best(s, n) : /\ Far(s, r) = m /\ g[m].by = {r}
                                          /\ g[m].length = LengthAt(s, n) + GetEdgeWeight(r)
                                          /\ g[m].length < LengthAt(s, m)
  BY <1>1, ClimbedIs DEF g
<1>8. /\ flags' \in [Side -> [Node -> Flag]] /\ flags'[s] = g
      /\ \A t \in Side : t # s => flags'[t] = flags[t]
  BY <1>2, <1>7 DEF QueryTypes
<1>9. \A m \in Node : LengthAt(s, m)' = g[m].length /\ Visited(s, m)' = g[m].visited
  BY <1>8 DEF LengthAt, Visited
<1>10. ASSUME NEW m \in Node, NEW r \in Best(s, n), Far(s, r) = m,
              LengthAt(s, n) + GetEdgeWeight(r) < LengthAt(s, m)
       PROVE  ~Visited(s, m)
  <2>1. GetEdgeWeight(r) \in Nat /\ GetEdgeWeight(r) > 0
    BY RefsOfSides DEF Best, Improving, Upwards
  <2>2. LengthAt(s, m) \in Nat /\ LengthAt(s, n) \in Nat
    BY <1>1, FlagFacts
  <2> QED
    BY <1>6, <1>10, <2>1, <2>2
<1>11. \A m \in Node :
         /\ Visited(s, m)' <=> Visited(s, m) \/ m = n
         /\ LengthAt(s, m)' <= LengthAt(s, m)
         /\ \/ /\ LengthAt(s, m)' = LengthAt(s, m) /\ flags'[s][m].by = flags[s][m].by
               /\ \A r \in Improving(s, n) : Far(s, r) # m
            \/ /\ ~Visited(s, m) /\ m # n
               /\ \E r \in Best(s, n) : /\ Far(s, r) = m /\ flags'[s][m].by = {r}
                                        /\ LengthAt(s, m)' = LengthAt(s, n) + GetEdgeWeight(r)
  BY <1>7, <1>8, <1>9, <1>10
<1>12. /\ heaps'[s] = (heaps[s] \ {i}) \cup Reached(s, n, Best(s, n) \cup late)
       /\ \A t \in Side : t # s => heaps'[t] = heaps[t]
  BY <1>3 DEF QueryTypes
<1>13. \A m \in Node : m # n /\ Item(m, LengthAt(s, m)) \in heaps[s] => Item(m, LengthAt(s, m)) \in heaps'[s]
  BY <1>12 DEF Item, n
<1>14. \A r \in Best(s, n) : Item(Far(s, r), LengthAt(s, n) + GetEdgeWeight(r)) \in heaps'[s]
  BY <1>12 DEF Reached, LengthAt
<1>15. \A j \in heaps'[s] : \/ j \in heaps[s]
                            \/ \E r \in Improving(s, n) : j = Item(Far(s, r), LengthAt(s, n) + GetEdgeWeight(r))
  BY <1>12 DEF Reached, LengthAt, Best
<1>16. SettledAt(s, n)
  BY <1>1, <1>2, <1>4, <1>5, <1>6, <1>8, <1>11, <1>12, <1>13, <1>14, <1>15 DEF SettledAt
<1> QED
  BY <1>8, <1>16 DEF n

\* What one side says does not change when its flags and its heap do not.
LEMMA SideStays ==
  ASSUME UNCHANGED contractionVars, UNCHANGED request, NEW s \in Side,
         flags'[s] = flags[s], heaps'[s] = heaps[s], SideSearched(s)
  PROVE  SideSearched(s)'
<1>1. /\ Refs' = Refs /\ level' = level /\ Origin(s)' = Origin(s)
      /\ \A r : /\ Near(s, r)' = Near(s, r) /\ Far(s, r)' = Far(s, r)
                /\ GetEdgeWeight(r)' = GetEdgeWeight(r)
  BY HierarchyIsKept
<1>2. \A m : LengthAt(s, m)' = LengthAt(s, m) /\ Visited(s, m)' = Visited(s, m)
  BY DEF LengthAt, Visited
<1>3. (LengthAt(s, Origin(s)) = 0)'
  BY <1>1, <1>2 DEF SideSearched, LengthAt
<1>4. Treed(s)'
  <2> SUFFICES ASSUME NEW m \in Node, LengthAt(s, m)' < FirstLength, m # Origin(s)'
               PROVE  \E r \in Refs' : /\ flags'[s][m].by = {r} /\ Far(s, r)' = m
                                       /\ Visited(s, Near(s, r))'
                                       /\ LengthAt(s, m)' = LengthAt(s, Near(s, r))' + GetEdgeWeight(r)'
    BY DEF Treed
  <2>1. PICK r \in Refs : /\ flags[s][m].by = {r} /\ Far(s, r) = m
                          /\ Visited(s, Near(s, r))
                          /\ LengthAt(s, m) = LengthAt(s, Near(s, r)) + GetEdgeWeight(r)
    BY <1>1, <1>2 DEF SideSearched, Treed
  <2>2. Visited(s, Near(s, r))' /\ LengthAt(s, Near(s, r))' = LengthAt(s, Near(s, r))
    BY <1>1, <2>1 DEF Visited, LengthAt
  <2> QED
    BY <1>1, <1>2, <2>1, <2>2
<1>5. Queued(s)'
  BY <1>2 DEF SideSearched, Queued, LengthAt
<1>6. InOrder(s)'
  BY <1>2 DEF SideSearched, InOrder
<1>7. Settled(s)'
  BY <1>1 DEF SideSearched, Settled, LengthAt, Visited
<1> QED
  BY <1>3, <1>4, <1>5, <1>6, <1>7 DEF SideSearched

\* The flags of a side stay a tree, and its heap what is left to visit.
LEMMA SideIsSettled ==
  ASSUME IInv, QueryTypes, UNCHANGED contractionVars, UNCHANGED request,
         NEW s \in Side, SideSearched(s), NEW n, SettledAt(s, n), flags' \in [Side -> [Node -> Flag]],
         Origin(s) \in Node
  PROVE  SideSearched(s)'
<1>1. /\ Refs' = Refs /\ level' = level /\ Origin(s)' = Origin(s)
      /\ \A r : /\ Near(s, r)' = Near(s, r) /\ Far(s, r)' = Far(s, r)
                /\ GetEdgeWeight(r)' = GetEdgeWeight(r)
  BY HierarchyIsKept
<1>2. n \in Node /\ ~Visited(s, n) /\ LengthAt(s, n) < FirstLength
  BY DEF SettledAt
<1>3. \A m \in Node : /\ Visited(s, m)' <=> Visited(s, m) \/ m = n
                      /\ LengthAt(s, m)' <= LengthAt(s, m)
                      /\ Visited(s, m) \/ m = n => LengthAt(s, m)' = LengthAt(s, m)
  BY DEF SettledAt
<1>4. \A m \in Node : /\ LengthAt(s, m) \in Nat /\ LengthAt(s, m) <= FirstLength
                      /\ LengthAt(s, m)' \in Nat
  <2>1. \A m \in Node : flags'[s][m] \in Flag
    OBVIOUS
  <2> QED
    BY <2>1, FlagFacts DEF Flag, LengthAt
<1>5. FirstLength \in Nat
  BY FlagFacts
<1>6. \A r \in Refs : /\ Near(s, r) \in Node /\ Far(s, r) \in Node
                      /\ GetEdgeWeight(r) \in Nat /\ GetEdgeWeight(r) > 0
  BY RefsOfSides
<1>7. \A r \in Improving(s, n) : /\ r \in Refs /\ Near(s, r) = n
                                 /\ LengthAt(s, n) + GetEdgeWeight(r) < LengthAt(s, Far(s, r))
  BY <1>2, ImprovingIs DEF Improving, Upwards
<1>8. \A r \in Best(s, n) : /\ r \in Improving(s, n)
                            /\ \A q \in Improving(s, n) : Far(s, q) = Far(s, r) => GetEdgeWeight(r) <= GetEdgeWeight(q)
  BY DEF Best
\* Each node's flag is what it was, or was reached from n.
<1>9. ASSUME NEW m \in Node
      PROVE  \/ /\ LengthAt(s, m)' = LengthAt(s, m) /\ flags'[s][m].by = flags[s][m].by
                /\ \A r \in Improving(s, n) : Far(s, r) # m
             \/ /\ ~Visited(s, m) /\ m # n
                /\ \E r \in Best(s, n) : /\ Far(s, r) = m /\ flags'[s][m].by = {r}
                                         /\ LengthAt(s, m)' = LengthAt(s, n) + GetEdgeWeight(r)
  BY DEF SettledAt
<1>10. LengthAt(s, Origin(s)) = 0
  BY DEF SideSearched
<1>11. (LengthAt(s, Origin(s)) = 0)'
  <2>1. PICK o \in Node : o = Origin(s)
    OBVIOUS
  <2>2. LengthAt(s, o)' <= 0 /\ LengthAt(s, o)' \in Nat
    BY <1>3, <1>4, <1>10, <2>1
  <2>3. LengthAt(s, o)' = 0
    BY <2>2
  <2> QED
    BY <1>1, <2>1, <2>3 DEF LengthAt
<1>12. Treed(s)'
  <2> SUFFICES ASSUME NEW m \in Node, LengthAt(s, m)' < FirstLength, m # Origin(s)
               PROVE  \E r \in Refs : /\ flags'[s][m].by = {r} /\ Far(s, r) = m
                                      /\ \E o \in Node : /\ o = Near(s, r) /\ Visited(s, o)'
                                                         /\ LengthAt(s, m)' = LengthAt(s, o)' + GetEdgeWeight(r)
    BY <1>1 DEF Treed, Visited, LengthAt
  <2>1. CASE /\ LengthAt(s, m)' = LengthAt(s, m) /\ flags'[s][m].by = flags[s][m].by
    <3>1. PICK r \in Refs : /\ flags[s][m].by = {r} /\ Far(s, r) = m
                            /\ Visited(s, Near(s, r))
                            /\ LengthAt(s, m) = LengthAt(s, Near(s, r)) + GetEdgeWeight(r)
      BY <2>1 DEF SideSearched, Treed
    <3>2. PICK o \in Node : o = Near(s, r)
      BY <1>6
    <3>3. Visited(s, o)' /\ LengthAt(s, o)' = LengthAt(s, o)
      BY <1>3, <3>1, <3>2
    <3> QED
      BY <2>1, <3>1, <3>2, <3>3
  <2>2. ASSUME NEW r \in Best(s, n), Far(s, r) = m, flags'[s][m].by = {r},
               LengthAt(s, m)' = LengthAt(s, n) + GetEdgeWeight(r)
        PROVE  \E q \in Refs : /\ flags'[s][m].by = {q} /\ Far(s, q) = m
                               /\ \E o \in Node : /\ o = Near(s, q) /\ Visited(s, o)'
                                                  /\ LengthAt(s, m)' = LengthAt(s, o)' + GetEdgeWeight(q)
    BY <1>2, <1>3, <1>7, <1>8, <2>2
  <2> QED
    BY <1>9, <2>1, <2>2
<1>13. Queued(s)'
  <2>1. ASSUME NEW m \in Node, ~Visited(s, m)', LengthAt(s, m)' < FirstLength
        PROVE  Item(m, LengthAt(s, m)') \in heaps'[s]
    <3>1. ~Visited(s, m) /\ m # n
      BY <1>3, <2>1
    <3>2. CASE LengthAt(s, m)' = LengthAt(s, m)
      <4>1. Item(m, LengthAt(s, m)) \in heaps[s]
        BY <2>1, <3>1, <3>2 DEF SideSearched, Queued
      <4> QED
        BY <3>1, <3>2, <4>1 DEF SettledAt
    <3>3. ASSUME NEW r \in Best(s, n), Far(s, r) = m, LengthAt(s, m)' = LengthAt(s, n) + GetEdgeWeight(r)
          PROVE  Item(m, LengthAt(s, m)') \in heaps'[s]
      BY <3>3 DEF SettledAt
    <3> QED
      BY <1>9, <3>2, <3>3
  <2>2. ASSUME NEW j \in heaps'[s], NEW m, m = j.node
        PROVE  LengthAt(s, m)' < FirstLength /\ LengthAt(s, m)' <= j.key
    <3>1. CASE j \in heaps[s]
      <4>1. m \in Node /\ j.key \in Nat /\ LengthAt(s, m) < FirstLength /\ LengthAt(s, m) <= j.key
        BY <2>2, <3>1 DEF QueryTypes, SideSearched, Queued
      <4> QED
        BY <1>3, <1>4, <1>5, <4>1
    <3>2. ASSUME NEW r \in Improving(s, n), j = Item(Far(s, r), LengthAt(s, n) + GetEdgeWeight(r))
          PROVE  LengthAt(s, m)' < FirstLength /\ LengthAt(s, m)' <= j.key
      <4>1. m = Far(s, r) /\ m \in Node /\ j.key = LengthAt(s, n) + GetEdgeWeight(r) /\ GetEdgeWeight(r) \in Nat
        BY <1>6, <1>7, <2>2, <3>2 DEF Item
      <4>2. j.key < LengthAt(s, m) /\ j.key \in Nat
        BY <1>2, <1>4, <1>7, <4>1
      <4>3. PICK q \in Best(s, n) : Far(s, q) = m /\ LengthAt(s, m)' = LengthAt(s, n) + GetEdgeWeight(q)
        BY <1>9, <4>1
      <4>4. GetEdgeWeight(q) <= GetEdgeWeight(r) /\ GetEdgeWeight(q) \in Nat
        BY <1>6, <1>7, <1>8, <4>1, <4>3
      <4>5. LengthAt(s, m)' <= j.key
        BY <1>2, <1>4, <4>1, <4>3, <4>4
      <4>6. LengthAt(s, m) <= FirstLength /\ LengthAt(s, m) \in Nat /\ LengthAt(s, m)' \in Nat
        BY <1>4, <4>1
      <4> QED
        BY <1>5, <4>2, <4>5, <4>6
    <3> QED
      BY <3>1, <3>2 DEF SettledAt
  <2>3. \A j \in heaps'[s] : LengthAt(s, j.node)' < FirstLength /\ LengthAt(s, j.node)' <= j.key
    BY <2>2
  <2> QED
    BY <2>1, <2>2 DEF Queued, LengthAt
<1>14. InOrder(s)'
  <2> SUFFICES ASSUME NEW m \in Node, Visited(s, m)'
               PROVE  LengthAt(s, m)' < FirstLength
                      /\ \A k \in Node : ~Visited(s, k)' => LengthAt(s, m)' <= LengthAt(s, k)'
    BY DEF InOrder
  <2>1. /\ LengthAt(s, m)' = LengthAt(s, m) /\ LengthAt(s, m) < FirstLength
        /\ LengthAt(s, m) <= LengthAt(s, n)
    <3>1. CASE m = n
      BY <1>2, <1>3, <1>4, <3>1
    <3>2. CASE m # n
      <4>1. Visited(s, m)
        BY <1>3, <3>2
      <4> QED
        BY <1>3, <4>1 DEF SettledAt, SideSearched, InOrder
    <3> QED
      BY <3>1, <3>2
  <2>2. ASSUME NEW k \in Node, ~Visited(s, k)' PROVE LengthAt(s, n) <= LengthAt(s, k)'
    <3>1. CASE LengthAt(s, k)' = LengthAt(s, k)
      BY <1>3, <2>2, <3>1 DEF SettledAt
    <3>2. ASSUME NEW r \in Best(s, n), LengthAt(s, k)' = LengthAt(s, n) + GetEdgeWeight(r)
          PROVE  LengthAt(s, n) <= LengthAt(s, k)'
      <4>1. GetEdgeWeight(r) \in Nat
        BY <1>6, <1>7, <1>8
      <4> QED
        BY <1>2, <1>4, <3>2, <4>1
    <3> QED
      BY <1>9, <3>1, <3>2
  <2> QED
    BY <1>2, <1>4, <2>1, <2>2
<1>15. Settled(s)'
  <2> SUFFICES ASSUME NEW r \in Refs, NEW k \in Node, NEW m \in Node, k = Near(s, r), m = Far(s, r),
                      Visited(s, k)', level[m] > level[k]
               PROVE  LengthAt(s, m)' <= LengthAt(s, k)' + GetEdgeWeight(r)
    BY <1>1, <1>6 DEF Settled, Visited, LengthAt
  <2>0. GetEdgeWeight(r) \in Nat /\ LengthAt(s, k)' = LengthAt(s, k)
    BY <1>3, <1>6
  <2>1. CASE Visited(s, k)
    <3>1. LengthAt(s, m) <= LengthAt(s, k) + GetEdgeWeight(r)
      BY <2>1 DEF SideSearched, Settled
    <3> QED
      BY <1>3, <1>4, <2>0, <3>1
  <2>2. CASE k = n
    <3>1. CASE r \in Improving(s, n)
      <4>1. PICK q \in Best(s, n) : Far(s, q) = m /\ LengthAt(s, m)' = LengthAt(s, n) + GetEdgeWeight(q)
        BY <1>9, <3>1
      <4>2. GetEdgeWeight(q) <= GetEdgeWeight(r) /\ GetEdgeWeight(q) \in Nat
        BY <1>6, <1>7, <1>8, <3>1, <4>1
      <4> QED
        BY <1>2, <1>4, <2>0, <2>2, <4>1, <4>2
    <3>2. CASE r \notin Improving(s, n)
      <4>1. ~(LengthAt(s, n) + GetEdgeWeight(r) < LengthAt(s, m))
        BY <1>2, <2>2, <3>2, ImprovingIs
      <4> QED
        BY <1>2, <1>3, <1>4, <2>0, <2>2, <4>1
    <3> QED
      BY <3>1, <3>2
  <2> QED
    BY <1>3, <2>1, <2>2
<1> QED
  BY <1>11, <1>12, <1>13, <1>14, <1>15 DEF SideSearched

LEMMA MiddleIsSettled ==
  ASSUME IInv, QueryTypes, NEW s \in Side, NEW i \in heaps[s], Settle(s, i),
         SettledAt(s, i.node), flags' \in [Side -> [Node -> Flag]], Middle
  PROVE  Middle'
<1> DEFINE o == Other(s)
<1>0. PICK n : n = i.node
  OBVIOUS
<1>1. n \in Node /\ o \in Side /\ o # s /\ \A t \in Side : t = s \/ t = o
  BY <1>0 DEF SettledAt, Side, Other
<1> DEFINE both == LengthAt(s, n) + LengthAt(o, n)
<1>2. IF Visited(o, n) /\ both < pathLength THEN mid' = n /\ pathLength' = both
      ELSE mid' = mid /\ pathLength' = pathLength
  BY <1>0 DEF Settle, Visited, LengthAt, meeting
<1>3. both = LengthAt("start", n) + LengthAt("end", n)
  <2>1. LengthAt("start", n) \in Nat /\ LengthAt("end", n) \in Nat
    BY <1>1, FlagFacts DEF Side
  <2> QED
    BY <2>1 DEF Side, Other
<1>4. \A m \in Node : Visited(s, m) \/ m = n => LengthAt(s, m)' = LengthAt(s, m)
  BY <1>0 DEF SettledAt
<1>5. \A m \in Node : Visited(s, m)' <=> Visited(s, m) \/ m = n
  BY <1>0 DEF SettledAt
<1>6. \A m \in Node : LengthAt(o, m)' = LengthAt(o, m) /\ Visited(o, m)' = Visited(o, m)
  BY <1>1 DEF SettledAt, LengthAt, Visited
<1> DEFINE Both(m) == Visited("start", m) /\ Visited("end", m)
           sum(m) == LengthAt("start", m) + LengthAt("end", m)
<1>7. \A m \in Node : Both(m) \/ (m = n /\ Visited(o, m)) => Both(m)' /\ sum(m)' = sum(m)
  BY <1>1, <1>4, <1>5, <1>6 DEF Side
<1>8. \A m \in Node : Both(m)' => Both(m) \/ (m = n /\ Visited(o, m))
  BY <1>1, <1>5, <1>6 DEF Side
<1>9. \A m \in Node : sum(m) \in Nat
  BY FlagFacts DEF Side
<1>10. pathLength \in Nat
  BY QueryAssumption DEF QueryTypes
<1>11. /\ \A m \in Node : Both(m) => pathLength <= sum(m)
       /\ IF mid = NoNode THEN pathLength = NoLength ELSE Both(mid) /\ pathLength = sum(mid)
  BY DEF Middle
<1>12. n # NoNode /\ mid \in Node \cup {NoNode}
  BY <1>1, GraphAssumption DEF QueryTypes
<1>13. \A m \in Node : Both(m)' => pathLength' <= sum(m)'
  <2> SUFFICES ASSUME NEW m \in Node, Both(m)' PROVE pathLength' <= sum(m)'
    OBVIOUS
  <2>1. sum(m)' = sum(m) /\ (Both(m) \/ (m = n /\ Visited(o, m)))
    BY <1>7, <1>8
  <2> HIDE DEF Both, sum
  <2>2. both = sum(n)
    BY <1>3 DEF sum
  <2> HIDE DEF both, o
  <2>3. CASE Both(m)
    BY <1>2, <1>9, <1>10, <1>11, <2>1, <2>2, <2>3, <1>1
  <2>4. CASE m = n /\ Visited(o, m)
    BY <1>2, <1>9, <1>10, <2>1, <2>2, <2>4
  <2> QED
    BY <2>1, <2>3, <2>4
<1>14. IF mid' = NoNode THEN pathLength' = NoLength
       ELSE \E m \in Node : m = mid' /\ Both(m)' /\ pathLength' = sum(m)'
  <2> HIDE DEF Both, sum
  <2>2. both = sum(n)
    BY <1>3 DEF sum
  <2> HIDE DEF both, o
  <2>3. CASE mid' = n /\ pathLength' = both /\ Visited(o, n)
    BY <1>1, <1>7, <1>12, <2>2, <2>3
  <2>4. CASE mid' = mid /\ pathLength' = pathLength
    BY <1>7, <1>11, <1>12, <2>4
  <2> QED
    BY <1>2, <2>3, <2>4
<1> QED
  BY <1>13, <1>14 DEF Middle, LengthAt, Visited

LEMMA RealIsSettled ==
  ASSUME IInv, Sound, QueryTypes, NEW s \in Side, NEW n, SettledAt(s, n), Real,
         start \in Node, end \in Node, UNCHANGED request
  PROVE  Real'
<1>1. start' = start /\ end' = end
  BY DEF request
<1> SUFFICES ASSUME NEW p \in [Node -> 0..FirstLength], RoadsBound(p), p[start] = 0, NEW m \in Node
             PROVE  p[m] <= LengthAt("start", m)' /\ p[end] <= p[m] + LengthAt("end", m)'
  BY <1>1 DEF Real
<1>2. \A k \in Node : p[k] <= LengthAt("start", k) /\ p[end] <= p[k] + LengthAt("end", k)
  BY DEF Real
<1>3. \A k \in Node : p[k] \in Nat
  BY FlagFacts
<1>4. \A r \in Refs : Bound(p, r)
  <2>1. p \in [Node -> Int]
    BY <1>3
  <2> QED
    BY <2>1 DEF Sound
<1>5. \A t \in Side : t # s => LengthAt(t, m)' = LengthAt(t, m)
  BY DEF SettledAt, LengthAt
<1>6. CASE LengthAt(s, m)' = LengthAt(s, m)
  BY <1>2, <1>5, <1>6 DEF Side
<1>7. ASSUME NEW r \in Best(s, n), Far(s, r) = m, LengthAt(s, m)' = LengthAt(s, n) + GetEdgeWeight(r)
      PROVE  p[m] <= LengthAt("start", m)' /\ p[end] <= p[m] + LengthAt("end", m)'
  <2>1. r \in Refs /\ Near(s, r) = n /\ GetEdgeWeight(r) \in Nat /\ n \in Node
    <3>1. n \in Node /\ r \in Refs /\ r \in Improving(s, n)
      BY DEF SettledAt, Best, Improving, Upwards
    <3> QED
      BY <3>1, ImprovingIs, RefsOfSides
  <2>2. p[RefTo(r)] <= p[RefFrom(r)] + GetEdgeWeight(r)
    BY <1>4, <2>1 DEF Bound
  <2>3. p[n] \in Nat /\ p[m] \in Nat /\ p[end] \in Nat /\ \A t \in Side : LengthAt(t, n) \in Nat
    BY <1>3, <2>1, FlagFacts
  <2>4. CASE s = "start"
    <3>1. p[m] <= p[n] + GetEdgeWeight(r) /\ p[n] <= LengthAt("start", n)
      BY <1>2, <1>7, <2>1, <2>2, <2>4 DEF Near, Far
    <3>2. p[m] <= LengthAt("start", m)'
      BY <1>7, <2>1, <2>3, <2>4, <3>1 DEF Side
    <3> QED
      BY <1>2, <1>5, <2>4, <3>2 DEF Side
  <2>5. CASE s = "end"
    <3>1. p[n] <= p[m] + GetEdgeWeight(r) /\ p[end] <= p[n] + LengthAt("end", n)
      BY <1>2, <1>7, <2>1, <2>2, <2>5 DEF Near, Far
    <3>2. p[end] <= p[m] + LengthAt("end", m)'
      BY <1>7, <2>1, <2>3, <2>5, <3>1 DEF Side
    <3> QED
      BY <1>2, <1>5, <2>5, <3>2 DEF Side
  <2> QED
    BY <2>4, <2>5 DEF Side
<1> QED
  BY <1>6, <1>7 DEF SettledAt

\* The types after a node was settled.
LEMMA TypesAreSettled ==
  ASSUME IInv, QueryTypes, NEW s \in Side, NEW i \in heaps[s], Settle(s, i),
         flags' \in [Side -> [Node -> Flag]]
  PROVE  QueryTypes'
<1>1. PICK n \in Node : n = i.node
  BY DEF QueryTypes
<1>2. heaps' \in [Side -> SUBSET [node : Node, key : Nat]]
  <2>1. PICK late \in SUBSET Improving(s, n) :
          heaps' = [heaps EXCEPT ![s] = (@ \ {i}) \cup Reached(s, n, Best(s, n) \cup late)]
    BY <1>1 DEF Settle
  <2>2. \A r \in Improving(s, n) : Item(Far(s, r), LengthAt(s, n) + GetEdgeWeight(r)) \in [node : Node, key : Nat]
    BY RefsOfSides, FlagFacts DEF Item, Improving, Upwards
  <2>3. Reached(s, n, Best(s, n) \cup late) \subseteq [node : Node, key : Nat]
    BY <2>2 DEF Reached, Best, LengthAt
  <2> QED
    BY <2>1, <2>3 DEF QueryTypes
<1>3. mid' \in Node \cup {NoNode} /\ pathLength' \in 0..NoLength
  <2> DEFINE both == LengthAt(s, n) + LengthAt(Other(s), n)
  <2>1. \/ mid' = n /\ pathLength' = both /\ both < pathLength
        \/ UNCHANGED meeting
    BY <1>1 DEF Settle, LengthAt
  <2>2. both \in Nat
    BY FlagFacts DEF Side, Other
  <2> HIDE DEF both
  <2> QED
    BY <2>1, <2>2, QueryAssumption DEF QueryTypes, meeting
<1>4. place' \in {"start", "end"}
  BY DEF Settle, After
<1>5. mode' = mode /\ cur' = cur /\ path' = path
  BY DEF Settle, request
<1> QED
  BY <1>2, <1>3, <1>4, <1>5 DEF QueryTypes

LEMMA AloneIsSettled ==
  ASSUME IInv, QueryTypes, Phases, Alone, NEW s \in Side, NEW i \in heaps[s], Settle(s, i),
         flags' \in [Side -> [Node -> Flag]], start = end
  PROVE  Alone'
<1>1. /\ place = s /\ ~Visited(s, i.node) /\ i.node \in Node
      /\ flags' = [flags EXCEPT ![s] = Climbed(s, i.node)]
      /\ UNCHANGED <<contractionVars, request, cur, path>>
  BY DEF Settle, MayTurn, Visited, QueryTypes
<1>2. /\ start' = start /\ end' = end /\ path' = path
  BY <1>1 DEF request
<1>3. place # "idle" /\ place' = After(s, mid') /\ place' \in {"start", "end"}
  BY <1>1 DEF Settle, After, Side
<1>4. start \in Node /\ start # NoNode
  BY <1>3, GraphAssumption DEF Phases
<1>5. /\ path = <<>>
      /\ mid = NoNode =>
           /\ heaps["end"] = {Item(start, 0)} /\ ~Visited("end", start) /\ LengthAt("end", start) = 0
           /\ pathLength = NoLength
           /\ \/ place = "start" /\ heaps["start"] = {Item(start, 0)} /\ ~Visited("start", start)
              \/ place = "end" /\ heaps["start"] = {} /\ Visited("start", start)
      /\ mid # NoNode => mid = start /\ heaps["start"] = {}
      /\ \A n \in Node : Visited("start", n) => n = start
      /\ \A n \in Node : LengthAt("start", n) = FirstLength
  BY <1>3 DEF Alone
<1>6. /\ FirstLength \in Nat /\ FirstLength > 0 /\ FirstLength < NoLength
  BY FlagFacts, QueryAssumption, ContractionAssumption
<1>7. CASE s = "start"
  <2>1. mid = NoNode /\ place = "start" /\ heaps["start"] = {Item(start, 0)} /\ i = Item(start, 0)
    BY <1>1, <1>5, <1>7
  <2>2. i.node = start
    BY <2>1 DEF Item
  <2>3. mid' = mid /\ pathLength' = pathLength
    BY <1>5, <1>7, <2>1, <2>2 DEF Settle, Other, Visited, meeting
  <2>4. place' = "end"
    BY <1>3, <1>7, <2>1, <2>3 DEF After
  <2>5. Improving("start", start) = {}
    <3>1. ASSUME NEW r \in Improving("start", start) PROVE FALSE
      <4>1. /\ r \in Refs /\ Far("start", r) \in Node /\ GetEdgeWeight(r) \in Nat
            /\ LengthAt("start", start) + GetEdgeWeight(r) < LengthAt("start", Far("start", r))
        BY <1>4, ImprovingIs, RefsOfSides DEF Improving, Upwards, Side
      <4> QED
        BY <1>4, <1>5, <1>6, <4>1
    <3> QED
      BY <3>1
  <2>6. heaps'["start"] = {} /\ heaps'["end"] = heaps["end"]
    <3>1. PICK late \in SUBSET Improving("start", start) :
            heaps' = [heaps EXCEPT !["start"] = (@ \ {i}) \cup Reached("start", start, Best("start", start) \cup late)]
      BY <1>7, <2>2 DEF Settle
    <3>2. Reached("start", start, Best("start", start) \cup late) = {}
      BY <2>5 DEF Best, Reached
    <3> QED
      BY <2>1, <3>1, <3>2 DEF QueryTypes, Side
  <2>7. \A n \in Node : LengthAt("start", n)' = FirstLength /\ (Visited("start", n)' <=> n = start)
    <3>1. PICK g : g = Climbed("start", start)
      OBVIOUS
    <3>2. /\ \A n \in Node : g[n].visited <=> Visited("start", n) \/ n = start
          /\ \A n \in Node : \/ g[n].length = LengthAt("start", n)
                             \/ \E r \in Best("start", start) : TRUE
      BY <1>4, <3>1, ClimbedIs DEF Side
    <3>3. Best("start", start) = {}
      BY <2>5 DEF Best
    <3>4. flags'["start"] = g
      BY <1>1, <1>7, <2>2, <3>1 DEF QueryTypes, Side
    <3> QED
      BY <1>5, <3>2, <3>3, <3>4 DEF LengthAt, Visited
  <2>8. LengthAt("end", start)' = LengthAt("end", start) /\ Visited("end", start)' = Visited("end", start)
    <3>1. flags'["end"] = flags["end"]
      BY <1>1, <1>7 DEF QueryTypes, Side
    <3> QED
      BY <1>2, <3>1 DEF LengthAt, Visited
  <2>9. Visited("start", start)' /\ ~Visited("end", start)' /\ (LengthAt("end", start) = 0)'
    BY <1>2, <1>4, <1>5, <2>1, <2>7, <2>8 DEF Visited, LengthAt
  <2> QED
    BY <1>2, <1>5, <2>1, <2>3, <2>4, <2>6, <2>7, <2>9 DEF Alone, Visited, LengthAt
<1>8. CASE s = "end"
  <2>1. flags'["start"] = flags["start"] /\ heaps'["start"] = heaps["start"]
    <3>1. PICK H : heaps' = [heaps EXCEPT ![s] = H]
      BY DEF Settle
    <3> QED
      BY <1>1, <1>8, <3>1 DEF QueryTypes, Side
  <2>2. heaps["start"] = {}
    BY <1>1, <1>5, <1>8
  <2>3. mid' = start
    <3>1. CASE mid = NoNode
      <4>1. i = Item(start, 0) /\ Visited("start", start)
        BY <1>1, <1>5, <1>8, <3>1
      <4>2. i.node = start
        BY <4>1 DEF Item
      <4>3. flags["end"][start].length + flags["start"][start].length = FirstLength
        BY <1>4, <1>5, <1>6, <3>1 DEF LengthAt
      <4> QED
        BY <1>5, <1>6, <1>8, <3>1, <4>1, <4>2, <4>3 DEF Settle, Other, Visited
    <3>2. CASE mid # NoNode
      <4>1. mid' = mid \/ (mid' = i.node /\ Visited("start", i.node))
        BY <1>8 DEF Settle, Other, Visited, meeting
      <4> QED
        BY <1>1, <1>5, <3>2, <4>1
    <3> QED
      BY <3>1, <3>2
  <2>4. \A n \in Node : LengthAt("start", n)' = LengthAt("start", n) /\ Visited("start", n)' = Visited("start", n)
    BY <2>1 DEF LengthAt, Visited
  <2>5. place' \notin {"back", "forth", "answered"}
    BY <1>3
  <2> QED
    BY <1>2, <1>4, <1>5, <2>1, <2>2, <2>3, <2>4, <2>5 DEF Alone
<1> QED
  BY <1>7, <1>8 DEF Side

LEMMA SettleInv ==
  ASSUME IInv, Sound, QInv, NEW s \in Side, NEW i \in heaps[s], Settle(s, i)
  PROVE  QInv'
<1>1. /\ QueryTypes /\ Phases /\ Alone
      /\ place = s /\ place' \in {"start", "end"} /\ place # "idle"
      /\ UNCHANGED contractionVars /\ UNCHANGED request /\ cur' = cur /\ path' = path
  BY DEF QInv, Settle, MayTurn, After, Side
<1>2. start' = start /\ end' = end /\ mode' = mode /\ start \in Node /\ end \in Node
  BY <1>1 DEF request, Phases
<1>3. flags' \in [Side -> [Node -> Flag]]
  <2>1. i.node \in Node
    BY <1>1 DEF QueryTypes
  <2>2. Climbed(s, i.node) \in [Node -> Flag]
    BY <1>1, <2>1, ClimbedIs
  <2> QED
    BY <1>1, <2>2 DEF Settle, QueryTypes
<1>4. Phases'
  <2>1. stage' = stage /\ contracted' = contracted
    BY <1>1 DEF contractionVars, hierarchy
  <2>2. path = <<>> /\ stage = "done"
    BY <1>1 DEF Phases, Side
  <2> QED
    BY <1>1, <1>2, <2>1, <2>2 DEF Phases
<1>5. CASE start = end
  <2>1. Alone'
    BY <1>1, <1>3, <1>5, AloneIsSettled
  <2>2. QueryTypes'
    BY <1>1, <1>3, TypesAreSettled
  <2> QED
    BY <1>2, <1>4, <1>5, <2>1, <2>2 DEF QInv, Two
<1>6. CASE start # end
  <2>1. (\A t \in Side : SideSearched(t)) /\ Middle /\ Real
    BY <1>1, <1>6 DEF QInv, Two
  <2>2. SettledAt(s, i.node)
    BY <1>1, <2>1, SettleIs
  <2>3. \A t \in Side : SideSearched(t)'
    <3>1. Origin(s) \in Node
      BY <1>2 DEF Origin
    <3>2. SideSearched(s)'
      BY <1>1, <1>3, <2>1, <2>2, <3>1, SideIsSettled
    <3>3. ASSUME NEW t \in Side, t # s PROVE SideSearched(t)'
      <4>1. flags'[t] = flags[t] /\ heaps'[t] = heaps[t]
        BY <2>2, <3>3 DEF SettledAt
      <4> QED
        BY <1>1, <2>1, <4>1, SideStays
    <3> QED
      BY <3>2, <3>3
  <2>4. Middle' /\ Real' /\ QueryTypes'
    BY <1>1, <1>2, <1>3, <2>1, <2>2, MiddleIsSettled, RealIsSettled, TypesAreSettled
  <2>5. Alone' /\ Beyond' /\ Collected'
    BY <1>1, <1>2, <1>6 DEF Alone, Beyond, Collected
  <2> QED
    BY <1>4, <2>3, <2>4, <2>5 DEF QInv
<1> QED
  BY <1>5, <1>6

-----------------------------------------------------------------------------
(* The other steps. *)

LEMMA SkipInv ==
  ASSUME QInv, NEW s \in Side, NEW i \in heaps[s], Skip(s, i)
  PROVE  QInv'
<1>1. /\ QueryTypes /\ Phases /\ Alone
      /\ place = s /\ place' = "start" /\ place # "idle"
      /\ UNCHANGED <<contractionVars, request, flags, mid, pathLength, cur, path>>
      /\ Visited(s, i.node) /\ heaps' = [heaps EXCEPT ![s] = @ \ {i}]
  BY DEF QInv, Skip, MayTurn, Side, meeting, Visited
<1>2. /\ start' = start /\ end' = end /\ mode' = mode /\ stage' = stage /\ contracted' = contracted
      /\ start \in Node /\ end \in Node
  BY <1>1 DEF request, contractionVars, hierarchy, Phases
<1>3. /\ heaps'[s] = heaps[s] \ {i} /\ \A t \in Side : t # s => heaps'[t] = heaps[t]
      /\ heaps' \in [Side -> SUBSET [node : Node, key : Nat]]
  BY <1>1 DEF QueryTypes
<1>4. \A t, m : LengthAt(t, m)' = LengthAt(t, m) /\ Visited(t, m)' = Visited(t, m)
  BY <1>1 DEF LengthAt, Visited
<1>5. QueryTypes' /\ Phases'
  <2>1. QueryTypes'
    BY <1>1, <1>2, <1>3 DEF QueryTypes
  <2>2. path = <<>>
    BY <1>1 DEF Phases, Side
  <2> QED
    BY <1>1, <1>2, <2>1, <2>2 DEF Phases
<1>6. CASE start = end
  <2>1. mid # NoNode
    <3>1. ASSUME mid = NoNode PROVE FALSE
      <4>1. /\ heaps["end"] = {Item(start, 0)} /\ ~Visited("end", start)
            /\ \/ place = "start" /\ heaps["start"] = {Item(start, 0)} /\ ~Visited("start", start)
               \/ place = "end" /\ heaps["start"] = {} /\ Visited("start", start)
        BY <1>1, <1>6, <3>1 DEF Alone
      <4>2. i = Item(start, 0) /\ ~Visited(s, start)
        BY <1>1, <4>1 DEF Side
      <4> QED
        BY <1>1, <4>2 DEF Item
    <3> QED
      BY <3>1
  <2>2. heaps'["start"] = {}
    BY <1>1, <1>3, <1>6, <2>1 DEF Alone, Side
  <2>3. Alone'
    BY <1>1, <1>2, <1>4, <1>6, <2>1, <2>2 DEF Alone, LengthAt, Visited
  <2> QED
    BY <1>2, <1>5, <1>6, <2>3 DEF QInv, Two
<1>7. CASE start # end
  <2>1. (\A t \in Side : SideSearched(t)) /\ Middle /\ Real
    BY <1>1, <1>7 DEF QInv, Two
  <2>2. UNCHANGED contractionVars /\ UNCHANGED request
    BY <1>1
  <2>3. ASSUME NEW t \in Side PROVE SideSearched(t)'
    <3>1. CASE t = s
      <4>1. /\ Refs' = Refs /\ level' = level /\ Origin(s)' = Origin(s)
            /\ \A r : /\ Near(s, r)' = Near(s, r) /\ Far(s, r)' = Far(s, r)
                      /\ GetEdgeWeight(r)' = GetEdgeWeight(r)
        BY <2>2, HierarchyIsKept
      <4>2. /\ LengthAt(s, Origin(s)) = 0 /\ Treed(s) /\ Queued(s) /\ InOrder(s) /\ Settled(s)
        BY <2>1 DEF SideSearched
      <4>3. (LengthAt(s, Origin(s)) = 0)' /\ Treed(s)' /\ Settled(s)'
        BY <1>1, <4>1, <4>2 DEF Treed, Settled, LengthAt, Visited
      <4>4. InOrder(s)'
        BY <1>4, <4>2 DEF InOrder
      <4>5. Queued(s)'
        <5>1. ASSUME NEW m \in Node, ~Visited(s, m), LengthAt(s, m) < FirstLength
              PROVE  Item(m, LengthAt(s, m)) \in heaps'[s]
          <6>1. m # i.node
            BY <1>1, <5>1
          <6>2. Item(m, LengthAt(s, m)) \in heaps[s] /\ Item(m, LengthAt(s, m)).node = m
            BY <4>2, <5>1 DEF Queued, Item
          <6> QED
            BY <1>3, <6>1, <6>2
        <5>2. \A j \in heaps'[s] : LengthAt(s, j.node) < FirstLength /\ LengthAt(s, j.node) <= j.key
          BY <1>3, <4>2 DEF Queued
        <5> QED
          BY <1>1, <5>1, <5>2 DEF Queued, LengthAt, Visited
      <4> QED
        BY <3>1, <4>3, <4>4, <4>5 DEF SideSearched
    <3>2. CASE t # s
      BY <1>1, <1>3, <2>1, <2>2, <3>2, SideStays
    <3> QED
      BY <3>1, <3>2
  <2>4. Middle' /\ Real'
    <3>1. mid' = mid /\ pathLength' = pathLength /\ flags' = flags
      BY <1>1
    <3> QED
      BY <1>2, <2>1, <3>1 DEF Middle, Real, LengthAt, Visited
  <2>5. Alone' /\ Beyond' /\ Collected'
    BY <1>1, <1>2, <1>7 DEF Alone, Beyond, Collected
  <2> QED
    BY <1>5, <2>3, <2>4, <2>5 DEF QInv
<1> QED
  BY <1>6, <1>7

\* A part of the loop in which nothing is taken from a heap, and the reading back,
\* leave the searches as they are.
LEMMA SearchesStay ==
  ASSUME UNCHANGED <<contractionVars, request, heaps, flags, meeting>>,
         \A s \in Side : SideSearched(s), Middle, Real
  PROVE  (\A s \in Side : SideSearched(s)') /\ Middle' /\ Real'
<1>1. \A s \in Side : SideSearched(s)'
  BY SideStays
<1>2. /\ mid' = mid /\ pathLength' = pathLength /\ flags' = flags
      /\ start' = start /\ end' = end
  BY DEF meeting, request
<1>3. Middle' /\ Real'
  BY <1>2 DEF Middle, Real, LengthAt, Visited
<1> QED
  BY <1>1, <1>3

LEMMA NothingLeftInv == ASSUME QInv, NEW s \in Side, NothingLeft(s) PROVE QInv'
<1>1. /\ QueryTypes /\ Phases /\ Alone
      /\ place = s /\ place' \in {"start", "end"} /\ place # "idle" /\ heaps[s] = {}
      /\ UNCHANGED <<contractionVars, request, heaps, flags, meeting, cur, path>>
  BY DEF QInv, NothingLeft, MayTurn, Side, After
<1>2. /\ start' = start /\ end' = end /\ mode' = mode /\ stage' = stage /\ contracted' = contracted
      /\ mid' = mid /\ pathLength' = pathLength /\ heaps' = heaps /\ flags' = flags
      /\ cur' = cur /\ path' = path
  BY <1>1 DEF request, contractionVars, hierarchy, meeting
<1>3. QueryTypes' /\ Phases'
  <2>1. QueryTypes'
    BY <1>1, <1>2 DEF QueryTypes
  <2>2. path = <<>>
    BY <1>1 DEF Phases, Side
  <2> QED
    BY <1>1, <1>2, <2>1, <2>2 DEF Phases
<1>4. CASE start = end
  <2>1. mid # NoNode
    BY <1>1, <1>4 DEF Alone, Side
  <2>2. Alone'
    BY <1>1, <1>2, <1>4, <2>1 DEF Alone, LengthAt, Visited
  <2> QED
    BY <1>2, <1>3, <1>4, <2>2 DEF QInv, Two
<1>5. CASE start # end
  <2>1. (\A t \in Side : SideSearched(t)') /\ Middle' /\ Real'
    BY <1>1, <1>5, SearchesStay DEF QInv, Two
  <2>2. Alone' /\ Beyond' /\ Collected'
    BY <1>1, <1>2, <1>5 DEF Alone, Beyond, Collected
  <2> QED
    BY <1>3, <2>1, <2>2 DEF QInv
<1> QED
  BY <1>4, <1>5

\* The loop is left: what was not visited is beyond the path.  The flag that is
\* read for an empty heap says nothing, but then there is nothing left.
LEMMA LeftIsBeyond ==
  ASSUME QueryTypes, NEW s \in Side, Queued(s),
         heaps[s] = {} \/ \E n \in Peek(s) : LengthRead(s, n) >= pathLength,
         NEW m \in Node, ~Visited(s, m)
  PROVE  LengthAt(s, m) = FirstLength \/ LengthAt(s, m) >= pathLength
<1>1. SUFFICES ASSUME LengthAt(s, m) < FirstLength PROVE LengthAt(s, m) >= pathLength
  BY FlagFacts
<1>2. Item(m, LengthAt(s, m)) \in heaps[s]
  BY <1>1 DEF Queued
<1>3. PICK n \in Peek(s) : LengthRead(s, n) >= pathLength
  BY <1>2
<1>4. PICK i \in Tops(s) : n = i.node
  BY <1>2, <1>3 DEF Peek
<1>5. i \in heaps[s] /\ i.key <= Item(m, LengthAt(s, m)).key
  BY <1>2, <1>4 DEF Tops
<1>6. LengthAt(s, n) < FirstLength /\ LengthAt(s, n) <= i.key
  BY <1>4, <1>5 DEF Queued
<1>7. LengthRead(s, n) = LengthAt(s, n)
  BY <1>6 DEF LengthRead, LengthAt
<1>8. n \in Node /\ i.key \in Nat
  BY <1>4, <1>5 DEF QueryTypes
<1>9. LengthAt(s, m) \in Nat /\ LengthAt(s, n) \in Nat /\ pathLength \in Nat
  BY <1>8, FlagFacts, QueryAssumption DEF QueryTypes
<1> QED
  BY <1>3, <1>5, <1>6, <1>7, <1>8, <1>9 DEF Item

LEMMA LeaveInv == ASSUME QInv, Leave PROVE QInv'
<1>1. /\ QueryTypes /\ Phases /\ Alone /\ place = "start"
      /\ BothEmpty \/ BothBeyond
      /\ place' \in {"failed", "lost", "back"} /\ (place' = "back" <=> mid # NoNode)
      /\ cur' = mid
      /\ UNCHANGED <<contractionVars, request, heaps, flags, meeting, path>>
  BY DEF QInv, Leave
<1>2. /\ start' = start /\ end' = end /\ mode' = mode /\ stage' = stage /\ contracted' = contracted
      /\ mid' = mid /\ pathLength' = pathLength /\ heaps' = heaps /\ flags' = flags
      /\ path' = path /\ path = <<>>
  BY <1>1 DEF request, contractionVars, hierarchy, meeting, Phases
<1>3. QueryTypes' /\ Phases'
  <2>1. mid \in Node \cup {NoNode}
    BY <1>1 DEF QueryTypes
  <2>2. QueryTypes'
    BY <1>1, <1>2, <2>1 DEF QueryTypes
  <2> QED
    BY <1>1, <1>2, <2>1, <2>2 DEF Phases
<1>4. CASE start = end
  <2>1. mid # NoNode
    <3>1. mid = NoNode => heaps["end"] # {}
      BY <1>1, <1>4 DEF Alone
    <3> QED
      BY <1>1, <3>1 DEF BothEmpty, BothBeyond, Side
  <2>2. Alone'
    BY <1>1, <1>2, <1>4, <2>1 DEF Alone, LengthAt, Visited
  <2> QED
    BY <1>2, <1>3, <1>4, <2>2 DEF QInv, Two
<1>5. CASE start # end
  <2>0. (\A t \in Side : SideSearched(t)) /\ Middle /\ Real
    BY <1>1, <1>5 DEF QInv, Two
  <2>1. (\A t \in Side : SideSearched(t)') /\ Middle' /\ Real'
    BY <1>1, <2>0, SearchesStay
  <2>2. \A s \in Side : heaps[s] = {} \/ \E n \in Peek(s) : LengthRead(s, n) >= pathLength
    BY <1>1 DEF BothEmpty, BothBeyond
  <2>3. \A s \in Side : \A m \in Node : ~Visited(s, m) =>
          LengthAt(s, m) = FirstLength \/ LengthAt(s, m) >= pathLength
    BY <1>1, <2>0, <2>2, LeftIsBeyond DEF SideSearched
  <2>4. Beyond'
    BY <1>2, <2>3 DEF Beyond, LengthAt, Visited
  <2>5. Collected'
    <3>1. ASSUME place' = "back"
          PROVE  /\ LengthAt("start", mid) <= LengthAt("start", mid)
                 /\ RealRoute(Reverse(path), mid, mid, LengthAt("start", mid) - LengthAt("start", mid))
      <4>1. mid \in Node
        BY <1>1, <3>1 DEF QueryTypes
      <4>2. LengthAt("start", mid) \in Nat
        BY <1>1, <4>1, FlagFacts DEF Side
      <4>3. Reverse(path) = <<>>
        BY <1>2 DEF Reverse
      <4>4. LengthAt("start", mid) - LengthAt("start", mid) = 0
        BY <4>2
      <4> QED
        BY <4>2, <4>3, <4>4, EmptyRoute
    <3> QED
      BY <1>1, <1>2, <3>1 DEF Collected, LengthAt
  <2>6. Alone'
    BY <1>2, <1>5 DEF Alone
  <2> QED
    BY <1>3, <2>1, <2>4, <2>5, <2>6 DEF QInv
<1> QED
  BY <1>4, <1>5

-----------------------------------------------------------------------------
(* A query begins. *)

LEMMA RequestInv ==
  ASSUME IInv, QInv, NEW a \in Node, NEW z \in Node, NEW m \in {"calc", "steps"}, Request(a, z, m)
  PROVE  QInv'
<1>1. /\ QueryTypes /\ Phases /\ stage = "done" /\ place = "idle"
      /\ mode' = m /\ start' = a /\ end' = z /\ place' = "start"
      /\ UNCHANGED contractionVars /\ mid' = mid /\ pathLength' = pathLength /\ cur' = cur /\ path' = path
  BY DEF QInv, Request, meeting
<1>2. stage' = stage /\ contracted' = contracted
  BY <1>1 DEF contractionVars, hierarchy
<1>3. mid = NoNode /\ pathLength = NoLength /\ path = <<>>
  BY <1>1 DEF Phases
<1>4. /\ heaps'["start"] = {Item(a, 0)} /\ heaps'["end"] = {Item(z, 0)}
      /\ heaps' = [s \in Side |-> {Item(IF s = "start" THEN a ELSE z, 0)}]
  BY DEF Request, Side
<1>5. \A s \in Side, n \in Node :
        flags'[s][n] = IF (s = "end" /\ n = z) \/ (s = "start" /\ n = a /\ a # z)
                         THEN [NewFlag EXCEPT !.length = 0] ELSE NewFlag
  BY DEF Request
<1>6. flags' \in [Side -> [Node -> Flag]]
  <2>1. FirstLength \in Nat /\ FirstLength > 0
    BY QueryAssumption, ContractionAssumption
  <2>2. NewFlag \in Flag /\ [NewFlag EXCEPT !.length = 0] \in Flag
    <3>1. FirstLength \in 0..FirstLength /\ 0 \in 0..FirstLength
      BY <2>1
    <3>2. NewFlag \in Flag
      BY <3>1 DEF NewFlag, Flag
    <3>3. \A f \in Flag : [f EXCEPT !.length = 0] \in Flag
      BY <3>1 DEF Flag
    <3> QED
      BY <3>2, <3>3
  <2>3. flags' = [s \in Side |-> [n \in Node |->
           IF (s = "end" /\ n = z) \/ (s = "start" /\ n = a /\ a # z)
             THEN [NewFlag EXCEPT !.length = 0] ELSE NewFlag]]
    BY DEF Request
  <2> QED
    BY <2>2, <2>3
<1>7. \A s \in Side, n \in Node :
        /\ ~Visited(s, n)'
        /\ LengthAt(s, n)' = IF (s = "end" /\ n = z) \/ (s = "start" /\ n = a /\ a # z)
                               THEN 0 ELSE FirstLength
  BY <1>5 DEF Visited, LengthAt, NewFlag
<1>8. QueryTypes'
  <2>1. heaps' \in [Side -> SUBSET [node : Node, key : Nat]]
    BY <1>4 DEF Item
  <2> QED
    BY <1>1, <1>6, <2>1 DEF QueryTypes
<1>9. Phases'
  BY <1>1, <1>2, <1>3 DEF Phases
<1>10. CASE a = z
  <2>1. Alone'
    BY <1>1, <1>3, <1>4, <1>7, <1>10 DEF Alone, Side
  <2> QED
    BY <1>1, <1>8, <1>9, <1>10, <2>1 DEF QInv, Two
<1>11. CASE a # z
  <2>0. FirstLength \in Nat /\ FirstLength > 0
    BY QueryAssumption, ContractionAssumption
  <2>1. \A s \in Side : Origin(s)' \in Node /\ heaps'[s] = {Item(Origin(s)', 0)}
    BY <1>1, <1>4 DEF Side, Origin
  <2>2. \A s \in Side, n \in Node :
          LengthAt(s, n)' = IF n = Origin(s)' THEN 0 ELSE FirstLength
    BY <1>1, <1>7, <1>11 DEF Side, Origin
  <2>3. ASSUME NEW s \in Side PROVE SideSearched(s)'
    <3>1. (LengthAt(s, Origin(s)) = 0)' /\ Treed(s)' /\ InOrder(s)'
      BY <1>7, <2>0, <2>1, <2>2 DEF Treed, InOrder
    <3>2. Settled(s)'
      <4>1. SUFFICES ASSUME NEW r \in Refs', Visited(s, Near(s, r))' PROVE FALSE
        BY DEF Settled
      <4>2. r \in Refs /\ Near(s, r)' = Near(s, r)
        BY <1>1, <4>1, RefsStay DEF Near, contractionVars, hierarchy
      <4>3. PICK n \in Node : n = Near(s, r)'
        BY <4>2, RefsOfSides
      <4> QED
        BY <1>7, <4>1, <4>3 DEF Visited
    <3>3. Queued(s)'
      BY <2>0, <2>1, <2>2 DEF Queued, Item
    <3> QED
      BY <3>1, <3>2, <3>3 DEF SideSearched
  <2>4. Middle'
    BY <1>1, <1>3, <1>7 DEF Middle, Side
  <2>5. Real'
    <3>1. ASSUME NEW p \in [Node -> 0..FirstLength], p[a] = 0, NEW n \in Node
          PROVE  p[n] <= LengthAt("start", n)' /\ p[z] <= p[n] + LengthAt("end", n)'
      <4>1. p[n] \in Nat /\ p[n] <= FirstLength /\ p[z] \in Nat /\ p[z] <= FirstLength
        BY <2>0, <3>1
      <4>2. /\ LengthAt("start", n)' = IF n = a THEN 0 ELSE FirstLength
            /\ LengthAt("end", n)' = IF n = z THEN 0 ELSE FirstLength
        BY <1>7, <1>11 DEF Side
      <4>3. p[n] <= LengthAt("start", n)'
        BY <2>0, <3>1, <4>1, <4>2
      <4>4. p[z] <= p[n] + LengthAt("end", n)'
        BY <2>0, <4>1, <4>2
      <4> QED
        BY <4>3, <4>4
    <3> QED
      BY <1>1, <3>1 DEF Real
  <2>6. Alone' /\ Beyond' /\ Collected'
    BY <1>1, <1>11 DEF Alone, Beyond, Collected
  <2> QED
    BY <1>8, <1>9, <2>3, <2>4, <2>5, <2>6 DEF QInv
<1> QED
  BY <1>10, <1>11

\* While the graph is contracted there is no query, and when it is done there
\* is nothing left to contract.
LEMMA ContractInv == ASSUME IInv, QInv, Contract PROVE QInv'
<1>1. /\ QueryTypes /\ Phases /\ ContractionNext
      /\ UNCHANGED queryVars
  BY DEF QInv, Contract
<1>2. stage # "done"
  BY <1>1 DEF ContractionNext, Choose, SearchStep, StartSearch, SearchEnds, AddShortcuts, Contracted
<1>3. place = "idle"
  BY <1>1, <1>2 DEF Phases
<1>4. /\ mode' = mode /\ start' = start /\ end' = end /\ place' = place /\ heaps' = heaps
      /\ flags' = flags /\ mid' = mid /\ pathLength' = pathLength /\ cur' = cur /\ path' = path
  BY <1>1 DEF queryVars, request, meeting
<1>5. stage' = "done" => contracted' = Node
  BY <1>1, <1>2 DEF ContractionNext, Choose, SearchStep, StartSearch, SearchEnds, AddShortcuts, Contracted
<1>6. QueryTypes'
  BY <1>1, <1>4 DEF QueryTypes
<1>7. Phases' /\ Alone' /\ ~Two'
  BY <1>1, <1>3, <1>4, <1>5 DEF Phases, Alone, Two
<1> QED
  BY <1>6, <1>7 DEF QInv

LEMMA QueryStutters == ASSUME QInv, UNCHANGED vars PROVE QInv'
<1>1. UNCHANGED contractionVars /\ UNCHANGED queryVars
  BY DEF vars
<1>2. /\ mode' = mode /\ start' = start /\ end' = end /\ place' = place /\ heaps' = heaps
      /\ flags' = flags /\ mid' = mid /\ pathLength' = pathLength /\ cur' = cur /\ path' = path
      /\ stage' = stage /\ contracted' = contracted
  BY <1>1 DEF queryVars, request, meeting, contractionVars, hierarchy
<1>3. QueryTypes' /\ Phases' /\ Alone'
  BY <1>2 DEF QInv, QueryTypes, Phases, Alone, LengthAt, Visited
<1>4. ASSUME Two' PROVE (\A s \in Side : SideSearched(s)') /\ Middle' /\ Real' /\ Beyond' /\ Collected'
  <2>1. Two /\ (\A s \in Side : SideSearched(s)) /\ Middle /\ Real /\ Beyond /\ Collected
    BY <1>2, <1>4 DEF Two, QInv
  <2>2. UNCHANGED <<contractionVars, request, heaps, flags, meeting>>
    BY <1>1 DEF queryVars
  <2>3. (\A s \in Side : SideSearched(s)') /\ Middle' /\ Real'
    BY <2>1, <2>2, SearchesStay
  <2>4. Beyond' /\ Collected'
    BY <1>2, <2>1 DEF Beyond, Collected, LengthAt, Visited
  <2> QED
    BY <2>3, <2>4
<1> QED
  BY <1>3, <1>4 DEF QInv

LEMMA QueryStarts == Init => QInv
<1> SUFFICES ASSUME Init PROVE QInv
  OBVIOUS
<1>1. /\ mode = "calc" /\ start = NoNode /\ end = NoNode /\ place = "idle"
      /\ heaps = [s \in Side |-> {}] /\ flags = [s \in Side |-> [n \in Node |-> NewFlag]]
      /\ mid = NoNode /\ pathLength = NoLength /\ cur = NoNode /\ path = <<>> /\ stage = "choose"
  BY DEF Init, QueryInit, ContractionInit
<1>2. NewFlag \in Flag
  BY QueryAssumption, ContractionAssumption DEF NewFlag, Flag
<1>3. QueryTypes
  BY <1>1, <1>2, QueryAssumption DEF QueryTypes
<1> QED
  BY <1>1, <1>3 DEF QInv, Phases, Alone, Two

-----------------------------------------------------------------------------
(* The path that is read back. *)

LEMMA ReverseIs ==
  ASSUME NEW S, NEW p \in Seq(S)
  PROVE  /\ Reverse(p) \in Seq(S) /\ Len(Reverse(p)) = Len(p)
         /\ \A i \in 1..Len(p) : Reverse(p)[i] = p[(Len(p) - i) + 1]
<1>1. Len(p) \in Nat /\ DOMAIN p = 1..Len(p) /\ \A i \in 1..Len(p) : p[i] \in S
  OBVIOUS
<1>2. \A i \in 1..Len(p) : (Len(p) - i) + 1 \in 1..Len(p)
  BY <1>1
<1>3. Reverse(p) \in [1..Len(p) -> S]
  BY <1>1, <1>2 DEF Reverse
<1>4. Reverse(p) \in Seq(S)
  BY <1>1, <1>3, FunctionIsSeq
<1>5. DOMAIN Reverse(p) = 1..Len(p)
  BY <1>3
<1> QED
  BY <1>1, <1>4, <1>5 DEF Reverse

LEMMA SameSequence ==
  ASSUME NEW S, NEW f \in Seq(S), NEW g \in Seq(S), NEW k, Len(f) = k, Len(g) = k,
         \A i \in 1..k : f[i] = g[i]
  PROVE  f = g
<1>1. f \in [1..k -> S] /\ g \in [1..k -> S]
  OBVIOUS
<1> QED
  BY <1>1

LEMMA ReverseJoin ==
  ASSUME NEW S, NEW p \in Seq(S), NEW q \in Seq(S)
  PROVE  Reverse(p \o q) = Reverse(q) \o Reverse(p)
<1> DEFINE r == p \o q
           t == Reverse(q) \o Reverse(p)
           m == Len(p)
           n == Len(q)
<1>1. r \in Seq(S) /\ Len(r) = m + n /\ m \in Nat /\ n \in Nat
  OBVIOUS
<1>2. /\ \A i \in 1..m : r[i] = p[i]
      /\ \A i \in (m + 1)..(m + n) : r[i] = q[i - m]
  OBVIOUS
<1>3. /\ Reverse(r) \in Seq(S) /\ Len(Reverse(r)) = m + n
      /\ \A i \in 1..(m + n) : Reverse(r)[i] = r[((m + n) - i) + 1]
  <2> HIDE DEF r, m, n
  <2>1. /\ Reverse(r) \in Seq(S) /\ Len(Reverse(r)) = Len(r)
        /\ \A i \in 1..Len(r) : Reverse(r)[i] = r[(Len(r) - i) + 1]
    BY <1>1, ReverseIs
  <2> QED
    BY <1>1, <2>1
<1>4. /\ Reverse(p) \in Seq(S) /\ Len(Reverse(p)) = m
      /\ \A i \in 1..m : Reverse(p)[i] = p[(m - i) + 1]
  BY ReverseIs
<1>5. /\ Reverse(q) \in Seq(S) /\ Len(Reverse(q)) = n
      /\ \A i \in 1..n : Reverse(q)[i] = q[(n - i) + 1]
  BY ReverseIs
<1>6. /\ t \in Seq(S) /\ Len(t) = m + n
      /\ \A i \in 1..n : t[i] = Reverse(q)[i]
      /\ \A i \in (n + 1)..(m + n) : t[i] = Reverse(p)[i - n]
  <2>1. PICK f, g : f = Reverse(q) /\ g = Reverse(p)
    OBVIOUS
  <2>2. f \in Seq(S) /\ g \in Seq(S) /\ Len(f) = n /\ Len(g) = m
    BY <1>4, <1>5, <2>1
  <2>3. /\ f \o g \in Seq(S) /\ Len(f \o g) = Len(f) + Len(g)
        /\ \A i \in 1..Len(f) : (f \o g)[i] = f[i]
        /\ \A i \in (Len(f) + 1)..(Len(f) + Len(g)) : (f \o g)[i] = g[i - Len(f)]
    <3>1. f \in Seq(S) /\ g \in Seq(S)
      BY <2>2
    <3>2. f \o g \in Seq(S) /\ Len(f \o g) = Len(f) + Len(g)
      BY <3>1
    <3>3. \A i \in 1..Len(f) : (f \o g)[i] = f[i]
      BY <3>1
    <3>4. \A i \in (Len(f) + 1)..(Len(f) + Len(g)) : (f \o g)[i] = g[i - Len(f)]
      BY <3>1
    <3> QED
      BY <3>2, <3>3, <3>4
  <2>4. t = f \o g
    BY <2>1
  <2> HIDE DEF m, n, t
  <2> QED
    BY <1>1, <2>1, <2>2, <2>3, <2>4
<1> HIDE DEF r, t, m, n
<1>7. ASSUME NEW i \in 1..(m + n) PROVE Reverse(r)[i] = t[i]
  <2>1. CASE i <= n
    <3>1. i \in 1..n /\ ((m + n) - i) + 1 \in (m + 1)..(m + n) /\ (((m + n) - i) + 1) - m = (n - i) + 1
      BY <1>1, <1>7, <2>1
    <3>2. Reverse(r)[i] = r[((m + n) - i) + 1]
      BY <1>3, <1>7
    <3>3. r[((m + n) - i) + 1] = q[(((m + n) - i) + 1) - m]
      BY <1>2, <3>1
    <3>4. t[i] = Reverse(q)[i] /\ Reverse(q)[i] = q[(n - i) + 1]
      BY <1>5, <1>6, <3>1
    <3> QED
      BY <3>1, <3>2, <3>3, <3>4
  <2>2. CASE i > n
    <3>1. /\ i \in (n + 1)..(m + n) /\ ((m + n) - i) + 1 \in 1..m /\ i - n \in 1..m
          /\ (m - (i - n)) + 1 = ((m + n) - i) + 1
      BY <1>1, <1>7, <2>2
    <3>2. Reverse(r)[i] = r[((m + n) - i) + 1]
      BY <1>3, <1>7
    <3>3. r[((m + n) - i) + 1] = p[((m + n) - i) + 1]
      BY <1>2, <3>1
    <3>4. t[i] = Reverse(p)[i - n] /\ Reverse(p)[i - n] = p[(m - (i - n)) + 1]
      BY <1>4, <1>6, <3>1
    <3> QED
      BY <3>1, <3>2, <3>3, <3>4
  <2> QED
    BY <1>1, <1>7, <2>1, <2>2
<1>8. Reverse(r) = t
  <2>1. PICK f, g, k : f = Reverse(r) /\ g = t /\ k = m + n
    OBVIOUS
  <2>2. f \in Seq(S) /\ g \in Seq(S) /\ Len(f) = k /\ Len(g) = k /\ \A i \in 1..k : f[i] = g[i]
    BY <1>3, <1>6, <1>7, <2>1
  <2>3. f = g
    BY <2>2, SameSequence
  <2> QED
    BY <2>1, <2>3
<1> QED
  BY <1>8 DEF r, t

\* What edges weigh, in whatever order they are.
Weighs(p) == Followed(p, NoNode)[Len(p)].far

LEMMA WeighsIs ==
  ASSUME NEW p \in Seq(Edge)
  PROVE  /\ Weighs(p) \in Nat
         /\ \A a : Followed(p, a)[Len(p)].far = Weighs(p)
         /\ \A q \in Seq(Edge) : Weighs(p \o q) = Weighs(p) + Weighs(q)
<1>1. Len(p) \in Nat /\ Len(p) \in 0..Len(p)
  OBVIOUS
<1>2. Weighs(p) \in Nat
  BY <1>1, FarIsNumber DEF Weighs
<1>3. ASSUME NEW a PROVE Followed(p, a)[Len(p)].far = Weighs(p)
  <2>1. <<>> \in Seq(Edge) /\ <<>> \o p = p
    OBVIOUS
  <2>2. PICK e \in Seq(Edge) : e = <<>>
    BY <2>1
  <2>3. Followed(e \o p, a)[Len(e \o p)].far = Followed(e, a)[Len(e)].far + Followed(p, NoNode)[Len(p)].far
    BY FarsAdd
  <2>4. Followed(e, a)[Len(e)] = [node |-> a, far |-> 0]
    BY <2>2, EmptyRoute DEF RealRoute
  <2>5. Followed(e, a)[Len(e)].far = 0
    BY <2>4
  <2> QED
    BY <1>2, <2>1, <2>2, <2>3, <2>5 DEF Weighs
<1>4. ASSUME NEW q \in Seq(Edge) PROVE Weighs(p \o q) = Weighs(p) + Weighs(q)
  BY FarsAdd DEF Weighs
<1> QED
  BY <1>2, <1>3, <1>4

LEMMA EdgeAlone ==
  ASSUME NEW x \in Edge
  PROVE  <<x>> \in Seq(Edge) /\ Reverse(<<x>>) = <<x>> /\ Weighs(<<x>>) = Weight[x]
<1>0. <<x>> \in Seq(Edge)
  OBVIOUS
<1>1. PICK p \in Seq(Edge) : p = <<x>>
  BY <1>0
<1>2. Len(p) = 1 /\ p[1] = x
  BY <1>1
<1>3. Reverse(p) \in Seq(Edge) /\ Len(Reverse(p)) = Len(p) /\ Reverse(p)[1] = p[(Len(p) - 1) + 1]
  BY <1>2, ReverseIs
<1>4. Reverse(p) = <<x>>
  BY <1>2, <1>3
<1>5. Followed(p, NodeA[x])[Len(p)] = [node |-> NodeB[x], far |-> Weight[x]]
  BY <1>1, EdgeIsRoute DEF RealRoute
<1>6. Followed(p, NodeA[x])[Len(p)].far = Weight[x]
  BY <1>5
<1> QED
  BY <1>1, <1>4, <1>6, WeighsIs

\* Unpacked the other way a shortcut stands for the same edges, in reverse.
LEMMA UnpackTurned ==
  ASSUME Types, ShortcutsJoin
  PROVE  \A i \in DOMAIN shortcuts :
           /\ Unpack(i, FALSE) \in Seq(Edge) /\ Unpack(i, TRUE) \in Seq(Edge)
           /\ Reverse(Unpack(i, FALSE)) = Unpack(i, TRUE)
           /\ Weighs(Unpack(i, FALSE)) = shortcuts[i].weight
<1>1. PICK u : /\ u = [k \in DOMAIN shortcuts |-> Unpacked(u, k, TRUE)]
               /\ \A i \in DOMAIN shortcuts : Unpack(i, TRUE) = u[i]
  BY UnpackDef
<1>2. PICK v : /\ v = [k \in DOMAIN shortcuts |-> Unpacked(v, k, FALSE)]
               /\ \A i \in DOMAIN shortcuts : Unpack(i, FALSE) = v[i]
  BY UnpackDef
<1> DEFINE Same(k) == /\ v[k] \in Seq(Edge) /\ u[k] \in Seq(Edge)
                      /\ Reverse(v[k]) = u[k]
                      /\ Weighs(v[k]) = shortcuts[k].weight
           S == {n \in Nat : \A k \in 1..n : k \in DOMAIN shortcuts => Same(k)}
<1>3. DOMAIN shortcuts = 1..Len(shortcuts) /\ Len(shortcuts) \in Nat
  BY DEF Types
<1>4. 0 \in S
  OBVIOUS
<1>5. ASSUME NEW n \in S, NEW k \in 1..(n + 1), k \in DOMAIN shortcuts PROVE Same(k)
  <2>1. PICK first, second : first = shortcuts[k].parts[2] /\ second = shortcuts[k].parts[1]
    OBVIOUS
  <2>2. /\ first \in Refs /\ second \in Refs
        /\ IsShortcut(first) => first.id < k
        /\ IsShortcut(second) => second.id < k
        /\ shortcuts[k].weight = GetEdgeWeight(first) + GetEdgeWeight(second)
    <3>1. Joins(shortcuts[k], k)
      BY <1>5 DEF ShortcutsJoin
    <3> QED
      BY <2>1, <3>1 DEF Joins
  <2>3. /\ u[k] = PartOf(u, first) \o PartOf(u, second)
        /\ v[k] = PartOf(v, second) \o PartOf(v, first)
    BY <1>1, <1>2, <1>5, <2>1 DEF Unpacked
  <2>4. ASSUME NEW r \in Refs, IsShortcut(r) => r.id < k
        PROVE  /\ PartOf(u, r) \in Seq(Edge) /\ PartOf(v, r) \in Seq(Edge)
               /\ Reverse(PartOf(v, r)) = PartOf(u, r)
               /\ Weighs(PartOf(v, r)) = GetEdgeWeight(r)
               /\ GetEdgeWeight(r) \in Nat
    <3>1. /\ IsShortcut(r) => r.id \in DOMAIN shortcuts
          /\ ~IsShortcut(r) => r.id \in Edge
          /\ GetEdgeWeight(r) \in Nat
      BY RefFacts DEF Types
    <3>2. CASE IsShortcut(r)
      <4>1. r.id \in 1..n
        BY <1>3, <1>5, <2>4, <3>1, <3>2
      <4>2. Same(r.id)
        BY <1>5, <3>1, <3>2, <4>1
      <4> QED
        BY <3>1, <3>2, <4>2 DEF PartOf, GetEdgeWeight
    <3>3. CASE ~IsShortcut(r)
      <4>1. r.id \in Edge
        BY <3>1, <3>3
      <4>2. <<r.id>> \in Seq(Edge) /\ Reverse(<<r.id>>) = <<r.id>> /\ Weighs(<<r.id>>) = Weight[r.id]
        BY <4>1, EdgeAlone
      <4> QED
        BY <3>1, <3>3, <4>1, <4>2 DEF PartOf, GetEdgeWeight
    <3> QED
      BY <3>2, <3>3
  <2>5. /\ PartOf(u, first) \in Seq(Edge) /\ PartOf(v, first) \in Seq(Edge)
        /\ Reverse(PartOf(v, first)) = PartOf(u, first)
        /\ Weighs(PartOf(v, first)) = GetEdgeWeight(first) /\ GetEdgeWeight(first) \in Nat
    BY <2>2, <2>4
  <2>6. /\ PartOf(u, second) \in Seq(Edge) /\ PartOf(v, second) \in Seq(Edge)
        /\ Reverse(PartOf(v, second)) = PartOf(u, second)
        /\ Weighs(PartOf(v, second)) = GetEdgeWeight(second) /\ GetEdgeWeight(second) \in Nat
    BY <2>2, <2>4
  <2>7. Reverse(v[k]) = u[k]
    BY <2>3, <2>5, <2>6, ReverseJoin
  <2>8. Weighs(v[k]) = shortcuts[k].weight
    <3>1. Weighs(v[k]) = GetEdgeWeight(second) + GetEdgeWeight(first)
      BY <2>3, <2>5, <2>6, WeighsIs
    <3> QED
      BY <2>2, <2>5, <2>6, <3>1
  <2>9. u[k] \in Seq(Edge) /\ v[k] \in Seq(Edge)
    BY <2>3, <2>5, <2>6
  <2> QED
    BY <2>7, <2>8, <2>9
<1>6. \A n \in S : n + 1 \in S
  <2> HIDE DEF Same
  <2> QED
    BY <1>5
<1>7. \A n \in Nat : n \in S
  <2> HIDE DEF S
  <2>1. S \in SUBSET Nat
    BY DEF S
  <2> QED
    BY <1>4, <1>6, <2>1, Counting
<1>8. \A k \in DOMAIN shortcuts : Same(k)
  <2> HIDE DEF Same
  <2> QED
    BY <1>3, <1>7
<1> QED
  BY <1>1, <1>2, <1>8

\* What GetShortestPath collects of a reference.
LEMMA EmittedIs ==
  ASSUME IInv, NEW r \in Refs, NEW reversed
  PROVE  /\ Emitted(r, reversed) \in Seq(Edge)
         /\ Weighs(Emitted(r, reversed)) = GetEdgeWeight(r)
         /\ RealRoute(Reverse(Emitted(r, reversed)), RefFrom(r), RefTo(r), GetEdgeWeight(r))
<1>1. Types /\ ShortcutsJoin
  BY DEF IInv
<1>2. /\ IsShortcut(r) => r.id \in DOMAIN shortcuts
      /\ ~IsShortcut(r) => r.id \in Edge
  BY <1>1, RefFacts DEF Types
<1>3. CASE IsShortcut(r)
  <2>1. /\ Unpack(r.id, FALSE) \in Seq(Edge)
        /\ Reverse(Unpack(r.id, FALSE)) = Unpack(r.id, TRUE)
        /\ Weighs(Unpack(r.id, FALSE)) = shortcuts[r.id].weight
    BY <1>1, <1>2, <1>3, UnpackTurned
  <2>2. RealRoute(Unpack(r.id, TRUE), shortcuts[r.id].from, shortcuts[r.id].to, shortcuts[r.id].weight)
    BY <1>1, <1>2, <1>3, JoinedUnpack DEF ShortcutsUnpack
  <2> QED
    BY <1>3, <2>1, <2>2 DEF Emitted, GetEdgesFromShortcut, RefFrom, RefTo, GetEdgeWeight
<1>4. CASE ~IsShortcut(r)
  <2>1. r.id \in Edge
    BY <1>2, <1>4
  <2>2. RealRoute(<<r.id>>, NodeA[r.id], NodeB[r.id], Weight[r.id])
    BY <2>1, EdgeIsRoute
  <2>3. <<r.id>> \in Seq(Edge) /\ Reverse(<<r.id>>) = <<r.id>> /\ Weighs(<<r.id>>) = Weight[r.id]
    BY <2>1, EdgeAlone
  <2> QED
    BY <1>4, <2>2, <2>3 DEF Emitted, RefFrom, RefTo, GetEdgeWeight
<1> QED
  BY <1>3, <1>4

\* The reference by which a side has found the node that is read back, unless it
\* is where the side began.
LEMMA ByIs ==
  ASSUME IInv, QueryTypes, NEW s \in Side, SideSearched(s), cur \in Node, mid \in Node,
         Visited(s, mid), LengthAt(s, cur) <= LengthAt(s, mid), cur # Origin(s)
  PROVE  \E r \in Refs : /\ By(s) = r /\ Far(s, r) = cur /\ Near(s, r) \in Node
                         /\ GetEdgeWeight(r) \in Nat /\ GetEdgeWeight(r) > 0
                         /\ LengthAt(s, cur) = LengthAt(s, Near(s, r)) + GetEdgeWeight(r)
<1>1. LengthAt(s, mid) < FirstLength
  BY DEF SideSearched, InOrder
<1>2. LengthAt(s, cur) < FirstLength
  BY <1>1, FlagFacts
<1>3. PICK r \in Refs : /\ flags[s][cur].by = {r} /\ Far(s, r) = cur
                        /\ LengthAt(s, cur) = LengthAt(s, Near(s, r)) + GetEdgeWeight(r)
  BY <1>2 DEF SideSearched, Treed
<1>4. By(s) = r
  BY <1>3 DEF By
<1> QED
  BY <1>3, <1>4, RefsOfSides

LEMMA BackInv == ASSUME IInv, QInv, Back PROVE QInv'
<1>1. /\ QueryTypes /\ Phases /\ Alone /\ place = "back" /\ mid \in Node /\ cur \in Node
      /\ UNCHANGED <<contractionVars, request, heaps, flags, meeting>>
  BY DEF QInv, Back, Phases
<1>2. /\ start' = start /\ end' = end /\ mode' = mode /\ stage' = stage /\ contracted' = contracted
      /\ mid' = mid /\ pathLength' = pathLength /\ heaps' = heaps /\ flags' = flags
      /\ stage = "done" /\ start \in Node /\ end \in Node /\ path \in Seq(Edge)
  BY <1>1 DEF request, contractionVars, hierarchy, meeting, Phases, QueryTypes
<1>3. \A s, n : LengthAt(s, n)' = LengthAt(s, n) /\ Visited(s, n)' = Visited(s, n)
  BY <1>2 DEF LengthAt, Visited
<1>4. ASSUME place' \in {"back", "forth"}, cur' \in Node, path' \in Seq(Edge)
      PROVE  QueryTypes' /\ Phases'
  <2>1. QueryTypes'
    BY <1>1, <1>2, <1>4 DEF QueryTypes
  <2> QED
    BY <1>1, <1>2, <1>4, <2>1 DEF Phases
<1>5. CASE start = end
  <2>1. cur = start /\ path = <<>> /\ mid = start /\ mid # NoNode
    <3>1. mid # NoNode
      BY <1>1, GraphAssumption
    <3> QED
      BY <1>1, <1>5, <3>1 DEF Alone
  <2>2. place' = "forth" /\ cur' = start /\ path' = <<>>
    BY <2>1 DEF Back, Reverse
  <2>3. Alone'
    BY <1>1, <1>2, <1>3, <1>5, <2>1, <2>2 DEF Alone
  <2> QED
    BY <1>2, <1>4, <1>5, <2>2, <2>3 DEF QInv, Two
<1>6. CASE start # end
  <2>0. /\ \A s \in Side : SideSearched(s)
        /\ Middle /\ Real /\ Beyond /\ Collected
    BY <1>1, <1>6 DEF QInv, Two
  <2>1. (\A s \in Side : SideSearched(s)') /\ Middle' /\ Real'
    BY <1>1, <2>0, SearchesStay
  <2>2. Beyond' /\ Alone'
    <3>1. place' \in {"back", "forth"}
      BY <1>1 DEF Back
    <3> QED
      BY <1>1, <1>2, <1>3, <1>6, <2>0, <3>1 DEF Beyond, Alone
  <2>3. /\ Visited("start", mid) /\ Visited("end", mid)
        /\ pathLength = LengthAt("start", mid) + LengthAt("end", mid)
        /\ LengthAt("start", start) = 0
    BY <1>1, <2>0, GraphAssumption DEF Middle, SideSearched, Origin, Side
  <2>4. /\ LengthAt("start", mid) \in Nat /\ LengthAt("end", mid) \in Nat /\ LengthAt("start", cur) \in Nat
        /\ pathLength \in Nat
    BY <1>1, <2>3, FlagFacts DEF Side
  <2>5. /\ LengthAt("start", cur) <= LengthAt("start", mid)
        /\ RealRoute(Reverse(path), cur, mid, LengthAt("start", mid) - LengthAt("start", cur))
    BY <1>1, <2>0 DEF Collected
  <2>6. Reverse(path) \in Seq(Edge)
    BY <1>2, ReverseIs
  <2>7. CASE cur = start
    <3>1. cur' = mid /\ path' = Reverse(path) /\ place' = "forth"
      BY <1>1, <2>7 DEF Back
    <3>2. LengthAt("start", mid) - LengthAt("start", cur) = LengthAt("start", mid)
      BY <2>3, <2>4, <2>7
    <3>3. RealRoute(path', start, mid, LengthAt("start", mid))
      BY <2>5, <2>7, <3>1, <3>2
    <3>4. Followed(path', start)[Len(path')].far = LengthAt("start", mid)
      BY <3>3 DEF RealRoute
    <3>5. LengthAt("start", mid) = pathLength - LengthAt("end", mid) /\ LengthAt("end", mid) <= LengthAt("end", mid)
      BY <2>3, <2>4
    <3>6. Collected'
      BY <1>2, <1>3, <3>1, <3>3, <3>4, <3>5 DEF Collected
    <3> QED
      BY <1>1, <1>4, <2>1, <2>2, <2>6, <3>1, <3>6 DEF QInv
  <2>8. CASE cur # start
    <3>1. PICK r \in Refs : /\ By("start") = r /\ Far("start", r) = cur /\ Near("start", r) \in Node
                            /\ GetEdgeWeight(r) \in Nat /\ GetEdgeWeight(r) > 0
                            /\ LengthAt("start", cur) = LengthAt("start", Near("start", r)) + GetEdgeWeight(r)
      <4>1. cur # Origin("start")
        BY <2>8 DEF Origin
      <4> QED
        BY <1>1, <2>0, <2>3, <2>5, <4>1, ByIs DEF Side
    <3>2. RefFrom(r) \in Node /\ RefTo(r) = cur
          /\ LengthAt("start", cur) = LengthAt("start", RefFrom(r)) + GetEdgeWeight(r)
      BY <3>1 DEF Near, Far
    <3>3. cur' = RefFrom(r) /\ path' = path \o Emitted(r, TRUE) /\ place' = "back"
      BY <1>1, <2>8, <3>1 DEF Back
    <3>4. PICK e \in Seq(Edge) : /\ e = Emitted(r, TRUE)
                                 /\ RealRoute(Reverse(e), RefFrom(r), cur, GetEdgeWeight(r))
      BY <3>2, EmittedIs
    <3>5. LengthAt("start", RefFrom(r)) \in Nat
      BY <1>1, <3>2, FlagFacts DEF Side
    <3>6. Reverse(path') = Reverse(e) \o Reverse(path) /\ path' \in Seq(Edge)
      <4>1. path \in Seq(Edge)
        BY <1>2
      <4>2. path \o e \in Seq(Edge) /\ Reverse(path \o e) = Reverse(e) \o Reverse(path)
        <5>1. path \o e \in Seq(Edge)
          BY <4>1
        <5> QED
          BY <4>1, <5>1, ReverseJoin
      <4>3. path' = path \o e
        BY <3>3, <3>4
      <4> QED
        BY <4>2, <4>3
    <3>7. PICK more \in Nat : more = LengthAt("start", mid) - LengthAt("start", cur)
      BY <2>4, <2>5
    <3>8. RealRoute(Reverse(e) \o Reverse(path), RefFrom(r), mid, GetEdgeWeight(r) + more)
      <4>1. Reverse(e) \in Seq(Edge)
        BY ReverseIs
      <4> QED
        BY <2>5, <2>6, <3>1, <3>4, <3>7, <4>1, RoutesJoin
    <3>9. /\ GetEdgeWeight(r) + more = LengthAt("start", mid) - LengthAt("start", RefFrom(r))
          /\ LengthAt("start", RefFrom(r)) <= LengthAt("start", mid)
      BY <2>4, <2>5, <3>1, <3>2, <3>5, <3>7
    <3>10. /\ LengthAt("start", cur)' = LengthAt("start", RefFrom(r))
           /\ LengthAt("start", mid)' = LengthAt("start", mid)
      BY <1>2, <3>3 DEF LengthAt
    <3>11. Collected'
      BY <1>2, <3>3, <3>6, <3>8, <3>9, <3>10 DEF Collected
    <3> QED
      BY <1>4, <2>1, <2>2, <3>2, <3>3, <3>6, <3>11 DEF QInv
  <2> QED
    BY <2>7, <2>8
<1> QED
  BY <1>5, <1>6

LEMMA ForthInv == ASSUME IInv, QInv, Forth PROVE QInv'
<1>1. /\ QueryTypes /\ Phases /\ Alone /\ place = "forth" /\ mid \in Node /\ cur \in Node
      /\ UNCHANGED <<contractionVars, request, heaps, flags, meeting>>
  BY DEF QInv, Forth, Phases
<1>2. /\ start' = start /\ end' = end /\ mode' = mode /\ stage' = stage /\ contracted' = contracted
      /\ mid' = mid /\ pathLength' = pathLength /\ heaps' = heaps /\ flags' = flags
      /\ stage = "done" /\ start \in Node /\ end \in Node /\ path \in Seq(Edge)
  BY <1>1 DEF request, contractionVars, hierarchy, meeting, Phases, QueryTypes
<1>3. \A s, n : LengthAt(s, n)' = LengthAt(s, n) /\ Visited(s, n)' = Visited(s, n)
  BY <1>2 DEF LengthAt, Visited
<1>4. ASSUME place' \in {"forth", "answered"}, cur' \in Node, path' \in Seq(Edge)
      PROVE  QueryTypes' /\ Phases'
  <2>1. QueryTypes'
    BY <1>1, <1>2, <1>4 DEF QueryTypes
  <2> QED
    BY <1>1, <1>2, <1>4, <2>1 DEF Phases
<1>5. CASE start = end
  <2>1. cur = start /\ path = <<>> /\ mid = start /\ mid # NoNode
    <3>1. mid # NoNode
      BY <1>1, GraphAssumption
    <3> QED
      BY <1>1, <1>5, <3>1 DEF Alone
  <2>2. place' = "answered" /\ cur' = start /\ path' = <<>>
    BY <1>5, <2>1 DEF Forth
  <2>3. Alone'
    BY <1>1, <1>2, <1>3, <1>5, <2>1, <2>2 DEF Alone
  <2> QED
    BY <1>2, <1>4, <1>5, <2>2, <2>3 DEF QInv, Two
<1>6. CASE start # end
  <2>0. /\ \A s \in Side : SideSearched(s)
        /\ Middle /\ Real /\ Beyond /\ Collected
    BY <1>1, <1>6 DEF QInv, Two
  <2>1. (\A s \in Side : SideSearched(s)') /\ Middle' /\ Real'
    BY <1>1, <2>0, SearchesStay
  <2>2. Beyond' /\ Alone'
    <3>1. place' \in {"forth", "answered"}
      BY <1>1 DEF Forth
    <3> QED
      BY <1>1, <1>2, <1>3, <1>6, <2>0, <3>1 DEF Beyond, Alone
  <2>3. /\ Visited("start", mid) /\ Visited("end", mid)
        /\ pathLength = LengthAt("start", mid) + LengthAt("end", mid)
        /\ LengthAt("end", end) = 0
    BY <1>1, <2>0, GraphAssumption DEF Middle, SideSearched, Origin, Side
  <2>4. /\ LengthAt("start", mid) \in Nat /\ LengthAt("end", mid) \in Nat /\ LengthAt("end", cur) \in Nat
        /\ pathLength \in Nat
    BY <1>1, <2>3, FlagFacts DEF Side
  <2>5. /\ LengthAt("end", cur) <= LengthAt("end", mid)
        /\ Followed(path, start)[Len(path)].far = pathLength - LengthAt("end", cur)
    BY <1>1, <2>0 DEF Collected
  <2>6. CASE cur = end
    <3>1. cur' = cur /\ path' = path /\ place' = "answered"
      BY <1>1, <2>6 DEF Forth
    <3>2. Followed(path, start)[Len(path)].far = pathLength
      BY <2>3, <2>4, <2>5, <2>6
    <3>3. Collected'
      BY <1>2, <3>1, <3>2 DEF Collected
    <3> QED
      BY <1>1, <1>2, <1>4, <2>1, <2>2, <3>1, <3>3 DEF QInv
  <2>7. CASE cur # end
    <3>1. PICK r \in Refs : /\ By("end") = r /\ Far("end", r) = cur /\ Near("end", r) \in Node
                            /\ GetEdgeWeight(r) \in Nat /\ GetEdgeWeight(r) > 0
                            /\ LengthAt("end", cur) = LengthAt("end", Near("end", r)) + GetEdgeWeight(r)
      <4>1. cur # Origin("end")
        BY <2>7 DEF Origin
      <4> QED
        BY <1>1, <2>0, <2>3, <2>5, <4>1, ByIs DEF Side
    <3>2. RefTo(r) \in Node
          /\ LengthAt("end", cur) = LengthAt("end", RefTo(r)) + GetEdgeWeight(r)
      BY <3>1 DEF Near
    <3>3. cur' = RefTo(r) /\ path' = path \o Emitted(r, FALSE) /\ place' = "forth"
      BY <1>1, <2>7, <3>1 DEF Forth
    <3>4. PICK e \in Seq(Edge) : e = Emitted(r, FALSE) /\ Weighs(e) = GetEdgeWeight(r)
      BY EmittedIs
    <3>5. LengthAt("end", RefTo(r)) \in Nat
      BY <1>1, <3>2, FlagFacts DEF Side
    <3>6. path' \in Seq(Edge) /\ Followed(path', start)[Len(path')].far = Weighs(path) + GetEdgeWeight(r)
      <4>0. path \in Seq(Edge)
        BY <1>2
      <4>1. PICK q \in Seq(Edge) : q = path \o e
        <5>1. path \o e \in Seq(Edge)
          BY <4>0
        <5> QED
          BY <5>1
      <4>2. Followed(q, start)[Len(q)].far = Weighs(q) /\ Weighs(q) = Weighs(path) + Weighs(e)
        BY <1>2, <4>1, WeighsIs
      <4> QED
        BY <3>3, <3>4, <4>1, <4>2
    <3>7. Weighs(path) = pathLength - LengthAt("end", cur)
      BY <1>2, <2>5, WeighsIs
    <3>8. /\ LengthAt("end", RefTo(r)) < LengthAt("end", mid)
          /\ Weighs(path) + GetEdgeWeight(r) = pathLength - LengthAt("end", RefTo(r))
      BY <2>4, <2>5, <3>1, <3>2, <3>5, <3>7
    <3>9. RefTo(r) # mid /\ LengthAt("end", RefTo(r)) <= LengthAt("end", mid)
      BY <2>4, <3>5, <3>8
    <3>10. /\ LengthAt("end", cur)' = LengthAt("end", RefTo(r))
           /\ LengthAt("end", mid)' = LengthAt("end", mid)
      BY <1>2, <3>3 DEF LengthAt
    <3>11. Collected'
      BY <1>2, <3>3, <3>6, <3>8, <3>9, <3>10 DEF Collected
    <3> QED
      BY <1>4, <2>1, <2>2, <3>2, <3>3, <3>6, <3>11 DEF QInv
  <2> QED
    BY <2>6, <2>7
<1> QED
  BY <1>5, <1>6

-----------------------------------------------------------------------------
(* The theorems. *)

AllInv == IInv /\ PInv /\ Replaced /\ QInv

LEMMA QueryStep == ASSUME AllInv, [Next]_vars PROVE AllInv'
<1>1. IInv /\ PInv /\ Replaced /\ QInv /\ Sound
  BY DEF AllInv, PInv
<1>2. [ContractionNext]_contractionVars
  BY DEF Next, vars, Contract, Request, Leave, NothingLeft, Skip, Settle, Back, Forth
<1>3. IInv' /\ PInv' /\ Replaced'
  BY <1>1, <1>2, StepInv, StepPotentials
<1>4. QInv'
  <2>1. CASE Contract
    BY <1>1, <2>1, ContractInv
  <2>2. ASSUME NEW a \in Node, NEW z \in Node, NEW m \in {"calc", "steps"}, Request(a, z, m)
        PROVE  QInv'
    BY <1>1, <2>2, RequestInv
  <2>3. CASE Leave
    BY <1>1, <2>3, LeaveInv
  <2>4. ASSUME NEW s \in Side, NothingLeft(s) PROVE QInv'
    BY <1>1, <2>4, NothingLeftInv
  <2>5. ASSUME NEW s \in Side, NEW i \in heaps[s], Skip(s, i) PROVE QInv'
    BY <1>1, <2>5, SkipInv
  <2>6. ASSUME NEW s \in Side, NEW i \in heaps[s], Settle(s, i) PROVE QInv'
    BY <1>1, <2>6, SettleInv
  <2>7. CASE Back
    BY <1>1, <2>7, BackInv
  <2>8. CASE Forth
    BY <1>1, <2>8, ForthInv
  <2>9. CASE UNCHANGED vars
    BY <1>1, <2>9, QueryStutters
  <2> QED
    BY <2>1, <2>2, <2>3, <2>4, <2>5, <2>6, <2>7, <2>8, <2>9 DEF Next
<1> QED
  BY <1>3, <1>4 DEF AllInv

LEMMA QueryInductive == Spec => []AllInv
<1>1. Init => AllInv
  BY InitInv, InitPotentials, QueryStarts DEF Init, AllInv
<1>2. AllInv /\ [Next]_vars => AllInv'
  BY QueryStep
<1> QED
  BY <1>1, <1>2, PTL DEF Spec

\* No label is less than the distance.
LEMMA LabelsAreReal ==
  ASSUME QInv, Two
  PROVE  /\ Distance(start, end) \in Nat /\ Distance(start, end) <= FirstLength
         /\ mid # NoNode => Distance(start, end) <= pathLength
<1>1. PICK roads : roads = {Arc(EdgeRef(x)) : x \in Edge}
  OBVIOUS
<1>2. PICK D : D = DistancesFrom(start, Node, roads, FirstLength)
  OBVIOUS
<1>3. QueryTypes /\ start \in Node /\ end \in Node /\ Middle /\ Real
  BY DEF QInv, Two, Phases
<1>4. FirstLength \in Nat
  BY FlagFacts, <1>3
<1>5. D \in [Node -> 0..FirstLength] /\ D[start] = 0 /\ RoadsBound(D)
  BY <1>1, <1>2, <1>3, <1>4, RoadsAre, NodesAssumption, DistancesArePotential
<1>6. Distance(start, end) = D[end]
  BY <1>1, <1>2 DEF Distance
<1>7. D[end] \in Nat /\ D[end] <= FirstLength
  BY <1>3, <1>4, <1>5
<1>8. ASSUME mid # NoNode PROVE D[end] <= pathLength
  <2>1. mid \in Node /\ pathLength = LengthAt("start", mid) + LengthAt("end", mid)
    BY <1>3, <1>8 DEF QueryTypes, Middle
  <2>2. D[mid] <= LengthAt("start", mid) /\ D[end] <= D[mid] + LengthAt("end", mid)
    BY <1>3, <1>5, <2>1 DEF Real
  <2>3. LengthAt("start", mid) \in Nat /\ LengthAt("end", mid) \in Nat /\ D[mid] \in Nat
    BY <1>3, <1>4, <1>5, <2>1, FlagFacts DEF Side
  <2> QED
    BY <1>7, <2>1, <2>2, <2>3
<1> QED
  BY <1>6, <1>7, <1>8

\* And when the loop has been left, nothing is nearer than what was found: the
\* labels of the two sides, as far as that, frame a potential of the roads.
LEMMA NothingIsNearer ==
  ASSUME AllInv, Two, place \notin {"start", "end"}, NEW c \in 0..FirstLength,
         c = IF pathLength < FirstLength THEN pathLength ELSE FirstLength
  PROVE  c <= Distance(start, end)
<1> DEFINE Capped(s) == [n \in Node |-> IF LengthAt(s, n) < c THEN LengthAt(s, n) ELSE c]
<1>1. /\ IInv /\ Extendable /\ QueryTypes /\ start \in Node /\ end \in Node
      /\ (\A s \in Side : SideSearched(s)) /\ Middle /\ Beyond
      /\ contracted = Node
  BY DEF AllInv, PInv, QInv, Two, Phases
<1>2. FirstLength \in Nat /\ FirstLength <= Unlabelled /\ Unlabelled \in Nat /\ c \in 0..Unlabelled
  BY QueryAssumption, ContractionAssumption
<1>3. pathLength \in Nat /\ c <= pathLength /\ c <= FirstLength
  BY <1>1, <1>2, QueryAssumption DEF QueryTypes
<1>4. \A s \in Side, n \in Node : LengthAt(s, n) \in Nat
  BY <1>1, FlagFacts
<1>5. PICK f : f = Capped("start")
  OBVIOUS
<1>6. PICK b : b = Capped("end")
  OBVIOUS
<1>7. \A n \in Node : /\ f[n] = IF LengthAt("start", n) < c THEN LengthAt("start", n) ELSE c
                      /\ b[n] = IF LengthAt("end", n) < c THEN LengthAt("end", n) ELSE c
  BY <1>5, <1>6
<1>8. f \in Potential /\ b \in Potential
  <2>1. \A s \in Side : Capped(s) \in [Node -> 0..Unlabelled]
    BY <1>2, <1>4
  <2> QED
    BY <1>5, <1>6, <2>1 DEF Potential, Side
<1> HIDE DEF Capped
<1>9. \A s \in Side, n \in Node : ~Visited(s, n) => LengthAt(s, n) >= c
  <2> TAKE s \in Side, n \in Node
  <2>1. ~Visited(s, n) => LengthAt(s, n) = FirstLength \/ LengthAt(s, n) >= pathLength
    BY <1>1 DEF Beyond
  <2> QED
    BY <1>2, <1>3, <1>4, <2>1
<1>10. ASSUME NEW s \in Side, NEW r \in Refs, level[Far(s, r)] > level[Near(s, r)]
       PROVE  /\ Near(s, r) \in Node /\ Far(s, r) \in Node /\ GetEdgeWeight(r) \in Nat
              /\ \/ LengthAt(s, Near(s, r)) >= c
                 \/ LengthAt(s, Far(s, r)) <= LengthAt(s, Near(s, r)) + GetEdgeWeight(r)
  <2>1. Near(s, r) \in Node /\ Far(s, r) \in Node /\ GetEdgeWeight(r) \in Nat
    BY <1>1, RefsOfSides
  <2> QED
    BY <1>1, <1>9, <1>10, <2>1 DEF SideSearched, Settled
<1>11. level \in [Node -> Nat]
  BY <1>1 DEF IInv, Types
<1>12. Climbs(f)
  <2> SUFFICES ASSUME NEW r \in Refs, ClimbsFrom(RefFrom(r), RefTo(r)) PROVE Bound(f, r)
    BY DEF Climbs
  <2>1. PICK m, n \in Node : m = RefFrom(r) /\ n = RefTo(r)
    BY <1>1, RefsOfSides DEF Near, Far, Side
  <2>2. /\ GetEdgeWeight(r) \in Nat
        /\ LengthAt("start", m) >= c \/ LengthAt("start", n) <= LengthAt("start", m) + GetEdgeWeight(r)
    <3>1. level[n] > level[m]
      BY <1>1, <1>11, <2>1 DEF ClimbsFrom
    <3> QED
      BY <1>10, <2>1, <3>1 DEF Near, Far, Side
  <2>3. LengthAt("start", m) \in Nat /\ LengthAt("start", n) \in Nat
    BY <1>4 DEF Side
  <2>4. f[n] <= f[m] + GetEdgeWeight(r)
    BY <1>2, <1>7, <2>2, <2>3
  <2> QED
    BY <2>1, <2>4 DEF Bound
<1>13. ClimbsBack(b)
  <2> SUFFICES ASSUME NEW r \in Refs, ClimbsFrom(RefTo(r), RefFrom(r))
               PROVE  b[RefFrom(r)] <= b[RefTo(r)] + GetEdgeWeight(r)
    BY DEF ClimbsBack
  <2>1. PICK m, n \in Node : m = RefTo(r) /\ n = RefFrom(r)
    BY <1>1, RefsOfSides DEF Near, Far, Side
  <2>2. /\ GetEdgeWeight(r) \in Nat
        /\ LengthAt("end", m) >= c \/ LengthAt("end", n) <= LengthAt("end", m) + GetEdgeWeight(r)
    <3>1. level[n] > level[m]
      BY <1>1, <1>11, <2>1 DEF ClimbsFrom
    <3> QED
      BY <1>10, <2>1, <3>1 DEF Near, Far, Side
  <2>3. LengthAt("end", m) \in Nat /\ LengthAt("end", n) \in Nat
    BY <1>4 DEF Side
  <2>4. b[n] <= b[m] + GetEdgeWeight(r)
    BY <1>2, <1>7, <2>2, <2>3
  <2> QED
    BY <2>1, <2>4
<1>14. ASSUME NEW n \in Node PROVE f[n] + b[n] >= c
  <2>1. LengthAt("start", n) \in Nat /\ LengthAt("end", n) \in Nat
    BY <1>4 DEF Side
  <2>2. \/ LengthAt("start", n) >= c \/ LengthAt("end", n) >= c
        \/ pathLength <= LengthAt("start", n) + LengthAt("end", n)
    BY <1>1, <1>9 DEF Middle, Side
  <2> QED
    BY <1>2, <1>3, <1>7, <2>1, <2>2
<1>15. PICK q \in Potential : RoadsBound(q) /\ Between(q, f, b, c, Node)
  <2>1. Remaining = {} /\ Among(Remaining) = {}
    BY <1>1 DEF Remaining, Among
  <2>2. Frames(f, b, c)
    BY <1>1, <1>12, <1>13, <1>14 DEF Frames
  <2>3. Between(f, f, b, c, Remaining) /\ \A r \in Among(Remaining) : Bound(f, r)
    BY <2>1 DEF Between
  <2> QED
    BY <1>1, <1>2, <1>8, <2>2, <2>3 DEF Extendable, Completed
<1>16. q[start] <= f[start] /\ q[end] <= f[end] /\ q[end] + b[end] >= c
  BY <1>1, <1>15 DEF Between
<1>17. LengthAt("start", start) = 0 /\ LengthAt("end", end) = 0
  BY <1>1 DEF SideSearched, Origin, Side
<1>18. f[start] = 0 /\ b[end] = 0 /\ f[end] <= c
  BY <1>1, <1>2, <1>4, <1>7, <1>17 DEF Side
<1>19. q \in [Node -> Int] /\ q[start] <= 0 /\ q[end] <= FirstLength /\ q[end] >= c
  <2>1. q \in [Node -> Int] /\ q[start] \in Nat /\ q[end] \in Nat /\ f[start] \in Nat /\ f[end] \in Nat
    BY <1>1, <1>2, <1>8 DEF Potential
  <2> QED
    BY <1>2, <1>3, <1>16, <1>18, <2>1
<1>20. PICK roads : roads = {Arc(EdgeRef(x)) : x \in Edge}
  OBVIOUS
<1>21. roads \in SUBSET ArcsOn(Node) /\ Bounds(q, roads)
  BY <1>15, <1>20, RoadsAre
<1>22. q[end] <= DistancesFrom(start, Node, roads, FirstLength)[end]
  BY <1>1, <1>2, <1>19, <1>21, NodesAssumption, DistancesAreGreatest
<1>23. Distance(start, end) = DistancesFrom(start, Node, roads, FirstLength)[end]
  BY <1>20 DEF Distance
<1>24. Distance(start, end) \in Nat
  <2>1. QInv
    BY DEF AllInv
  <2> QED
    BY <2>1, LabelsAreReal
<1>25. q[end] \in Int
  BY <1>1, <1>19
<1> QED
  BY <1>2, <1>19, <1>22, <1>23, <1>24, <1>25

(***************************************************************************)
(* In every query on every hierarchy that is built of a graph, between any *)
(* two nodes and whichever of equal items comes first, the length that is  *)
(* found is the distance in the road graph, unless that is no less than    *)
(* what stands for unreached; and a query that finds nothing has nothing   *)
(* to find.                                                                *)
(***************************************************************************)
THEOREM ResultAlwaysRight == Spec => []ResultIsRight
<1>1. AllInv => ResultIsRight
  <2> SUFFICES ASSUME AllInv PROVE ResultIsRight
    OBVIOUS
  <2>0. QInv /\ QueryTypes /\ Phases /\ Alone /\ pathLength \in Nat /\ FirstLength \in Nat
    BY FlagFacts, QueryAssumption DEF AllInv, QInv, QueryTypes
  <2>1. PICK c \in 0..FirstLength : c = IF pathLength < FirstLength THEN pathLength ELSE FirstLength
    BY <2>0
  <2>2. ASSUME place \in {"back", "forth", "answered"}, start # end PROVE Distance(start, end) = c
    <3>1. Two /\ mid # NoNode
      BY <2>0, <2>2, GraphAssumption DEF Two, Phases
    <3>2. c <= Distance(start, end)
      BY <2>1, <2>2, <3>1, NothingIsNearer
    <3>3. /\ Distance(start, end) \in Nat /\ Distance(start, end) <= FirstLength
          /\ Distance(start, end) <= pathLength
      BY <2>0, <3>1, LabelsAreReal
    <3> QED
      BY <2>0, <2>1, <3>2, <3>3
  <2>3. ASSUME place \in {"failed", "lost"} PROVE start # end /\ Distance(start, end) >= FirstLength
    <3>1. mid = NoNode
      BY <2>0, <2>3 DEF Phases
    <3>2. start # end
      BY <2>0, <2>3, <3>1 DEF Alone
    <3>3. Two /\ pathLength = NoLength
      BY <2>0, <2>3, <3>1, <3>2 DEF Two, QInv, Middle
    <3>4. c = FirstLength
      BY <2>0, <2>1, <3>3, QueryAssumption
    <3>5. c <= Distance(start, end) /\ Distance(start, end) \in Nat
      BY <2>0, <2>1, <2>3, <3>3, NothingIsNearer, LabelsAreReal
    <3> QED
      BY <2>0, <3>2, <3>4, <3>5
  <2> QED
    BY <2>1, <2>2, <2>3 DEF ResultIsRight
<1> QED
  BY <1>1, QueryInductive, PTL

(***************************************************************************)
(* In every such query the references that lead from the middle back to    *)
(* the start, with all their shortcuts unpacked and turned round, are a    *)
(* route of roads as long as the label of the middle, and with those that  *)
(* lead on to the end they weigh what the query has found.                 *)
(***************************************************************************)
THEOREM PathAlwaysMade == Spec => []PathIsMade
<1>1. AllInv => PathIsMade
  <2> SUFFICES ASSUME AllInv PROVE PathIsMade
    OBVIOUS
  <2>1. QInv /\ Phases /\ Alone
    BY DEF AllInv, QInv
  <2>2. ASSUME place = "forth", cur = mid, start # end
        PROVE  RealRoute(path, start, mid, flags["start"][mid].length)
    BY <2>1, <2>2 DEF QInv, Two, Collected, LengthAt
  <2>3. ASSUME place = "answered"
        PROVE  IF start = end THEN path = <<>> ELSE Followed(path, start)[Len(path)].far = pathLength
    BY <2>1, <2>3 DEF QInv, Two, Collected, Alone
  <2> QED
    BY <2>2, <2>3 DEF PathIsMade
<1> QED
  BY <1>1, QueryInductive, PTL

-----------------------------------------------------------------------------
(***************************************************************************)
(* The one-to-many searches.  A search of the solvers corrects labels: it  *)
(* may visit a node more than once, so that a node either has an item in   *)
(* the heap or cannot bring its neighbours any nearer (Spent).  No flag is *)
(* less than any potential of the open roads (NoneTooNear), which bounds   *)
(* it from below; from above it is bounded by a potential that is made of  *)
(* the flags: directly if the solver follows the roads, else with what the *)
(* search has found (Outlines) and, back from the target, what the sweep   *)
(* has brought down, for which the hierarchy has a potential (Extendable). *)
(***************************************************************************)

(* The flags that are reset by a counter. *)

NodeFlags == [entries : [Node -> [data : 0..Unreached, count : Nat]], default : {Unreached}, count : Nat]

\* No entry was written under a count that is still to come.
Counted(g) == \A n \in Node : g.entries[n].count <= g.count

LEMMA GetFacts ==
  ASSUME NEW g \in NodeFlags, NEW n \in Node PROVE F!Get(g, n) \in 0..Unreached
<1>1. /\ g.entries \in [Node -> [data : 0..Unreached, count : Nat]]
      /\ g.default = Unreached /\ Unreached \in 0..Unreached
  BY ManyAssumption, ContractionAssumption DEF NodeFlags
<1>2. g.entries[n].data \in 0..Unreached
  BY <1>1
<1> QED
  BY <1>1, <1>2 DEF F!Get

LEMMA ResetFacts ==
  ASSUME NEW g \in NodeFlags, Counted(g)
  PROVE  /\ F!Reset(g) \in NodeFlags /\ Counted(F!Reset(g))
         /\ \A n \in Node : F!Get(F!Reset(g), n) = Unreached
<1>1. /\ g.entries \in [Node -> [data : 0..Unreached, count : Nat]]
      /\ g.default = Unreached /\ Unreached \in 0..Unreached /\ g.count \in Nat
      /\ g = [entries |-> g.entries, default |-> g.default, count |-> g.count]
  BY ManyAssumption, ContractionAssumption DEF NodeFlags
<1>2. CASE g.count + 1 > MaxCount
  <2> DEFINE fresh == [n \in Node |-> [data |-> Unreached, count |-> 0]]
  <2>1. F!Reset(g) = [entries |-> fresh, default |-> Unreached, count |-> 0]
    BY <1>1, <1>2 DEF F!Reset, F!Entry
  <2>2. fresh \in [Node -> [data : 0..Unreached, count : Nat]]
    BY <1>1
  <2>3. \A n \in Node : fresh[n].data = Unreached /\ fresh[n].count = 0
    OBVIOUS
  <2> HIDE DEF fresh
  <2> QED
    BY <1>1, <2>1, <2>2, <2>3 DEF NodeFlags, Counted, F!Get
<1>3. CASE ~(g.count + 1 > MaxCount)
  <2>1. F!Reset(g) = [entries |-> g.entries, default |-> Unreached, count |-> g.count + 1]
    BY <1>1, <1>3 DEF F!Reset
  <2>2. \A n \in Node : g.entries[n].count \in Nat /\ g.entries[n].count <= g.count
    BY <1>1 DEF Counted
  <2> QED
    BY <1>1, <2>1, <2>2 DEF NodeFlags, Counted, F!Get
<1> QED
  BY <1>2, <1>3

LEMMA PutFacts ==
  ASSUME NEW g \in NodeFlags, Counted(g), NEW n \in Node, NEW d \in 0..Unreached
  PROVE  /\ F!Put(g, n, d) \in NodeFlags /\ Counted(F!Put(g, n, d))
         /\ \A m \in Node : F!Get(F!Put(g, n, d), m) = IF m = n THEN d ELSE F!Get(g, m)
<1> DEFINE e == [g.entries EXCEPT ![n] = [data |-> d, count |-> g.count]]
<1>1. /\ g.entries \in [Node -> [data : 0..Unreached, count : Nat]]
      /\ g.default = Unreached /\ g.count \in Nat
      /\ g = [entries |-> g.entries, default |-> g.default, count |-> g.count]
  BY DEF NodeFlags
<1>2. F!Put(g, n, d) = [entries |-> e, default |-> Unreached, count |-> g.count]
  BY <1>1 DEF F!Put, F!Entry
<1>3. e \in [Node -> [data : 0..Unreached, count : Nat]]
  BY <1>1
<1>4. \A m \in Node : e[m] = IF m = n THEN [data |-> d, count |-> g.count] ELSE g.entries[m]
  BY <1>1
<1> HIDE DEF e
<1> QED
  BY <1>1, <1>2, <1>3, <1>4 DEF NodeFlags, Counted, F!Get

LEMMA PutAllFacts ==
  ASSUME NEW g \in NodeFlags, Counted(g), NEW items,
         \A x \in items : x.node \in Node /\ x.dist \in 0..Unreached
  PROVE  /\ F!PutAll(g, items) \in NodeFlags /\ Counted(F!PutAll(g, items))
         /\ \A m \in Node :
              \/ F!Get(F!PutAll(g, items), m) = F!Get(g, m) /\ \A x \in items : x.node # m
              \/ \E x \in items : x.node = m /\ F!Get(F!PutAll(g, items), m) = x.dist
<1> DEFINE Of(m) == CHOOSE x \in items : x.node = m
           At(m) == IF \E x \in items : x.node = m
                      THEN [data |-> Of(m).dist, count |-> g.count] ELSE g.entries[m]
           e == [m \in Node |-> At(m)]
<1>1. /\ g.entries \in [Node -> [data : 0..Unreached, count : Nat]] /\ DOMAIN g.entries = Node
      /\ g.default = Unreached /\ g.count \in Nat
      /\ g = [entries |-> g.entries, default |-> g.default, count |-> g.count]
  BY DEF NodeFlags
<1>2. F!PutAll(g, items) = [entries |-> e, default |-> Unreached, count |-> g.count]
  <2> DEFINE d == [m \in DOMAIN g.entries |->
                     IF \E x \in items : x.node = m
                       THEN F!Entry((CHOOSE x \in items : x.node = m).dist, g.count) ELSE g.entries[m]]
  <2>1. F!PutAll(g, items) = [g EXCEPT !.entries = d]
    BY DEF F!PutAll
  <2>2. d = e
    BY <1>1 DEF F!Entry
  <2> HIDE DEF d, e
  <2> QED
    BY <1>1, <2>1, <2>2
<1>3. \A m \in Node : (\E x \in items : x.node = m) => Of(m) \in items /\ Of(m).node = m
  OBVIOUS
<1>4. \A m \in Node : e[m] = At(m)
  OBVIOUS
<1> HIDE DEF e, Of
<1>5. \A m \in Node : \/ /\ e[m] = [data |-> Of(m).dist, count |-> g.count]
                         /\ Of(m) \in items /\ Of(m).node = m
                      \/ /\ e[m] = g.entries[m]
                         /\ \A x \in items : x.node # m
  BY <1>3, <1>4
<1> HIDE DEF At
<1>6. \A m \in Node : e[m] \in [data : 0..Unreached, count : Nat] /\ e[m].count <= g.count
  <2> TAKE m \in Node
  <2>1. CASE e[m] = [data |-> Of(m).dist, count |-> g.count] /\ Of(m) \in items
    BY <1>1, <2>1
  <2>2. CASE e[m] = g.entries[m]
    BY <1>1, <2>2 DEF Counted
  <2> QED
    BY <1>5, <2>1, <2>2
<1>7. e \in [Node -> [data : 0..Unreached, count : Nat]]
  <2>1. e = [m \in Node |-> e[m]]
    BY DEF e
  <2> QED
    BY <1>6, <2>1
<1>8. ASSUME NEW m \in Node
      PROVE  \/ F!Get(F!PutAll(g, items), m) = F!Get(g, m) /\ \A x \in items : x.node # m
             \/ \E x \in items : x.node = m /\ F!Get(F!PutAll(g, items), m) = x.dist
  <2>1. F!Get(F!PutAll(g, items), m) = IF e[m].count = g.count THEN e[m].data ELSE Unreached
    BY <1>2 DEF F!Get
  <2>2. CASE e[m] = [data |-> Of(m).dist, count |-> g.count] /\ Of(m) \in items /\ Of(m).node = m
    BY <2>1, <2>2
  <2>3. CASE e[m] = g.entries[m] /\ \A x \in items : x.node # m
    BY <1>1, <2>1, <2>3 DEF F!Get
  <2> QED
    BY <1>5, <2>2, <2>3
<1> QED
  BY <1>1, <1>2, <1>6, <1>7, <1>8 DEF NodeFlags, Counted

-----------------------------------------------------------------------------
(* The invariant. *)

Source == sources[row]
Blocked == solver = "avoid" /\ Source \in AvoidedNodes

\* What is further than the range is not told apart.
Seen(n) == IF GetDistance(n) <= range THEN GetDistance(n) ELSE range + 1

SolverTypes ==
  /\ solver \in {"dijkstra", "avoid", "phast", "range"} /\ range \in Nat
  /\ sources \in Seq(Node \cup {NoNode}) /\ targets \in Seq(Node \cup {NoNode})
  /\ at \in {"none", "worker", "search", "sweep", "answered"}
  /\ row \in 0..Len(sources)
  /\ nodeFlags \in NodeFlags /\ Counted(nodeFlags)
  /\ heap \subseteq [node : Node, dist : Nat]
  /\ matrix \in Seq([DOMAIN targets -> Int])
  /\ downEdges = IF OnHierarchy(solver) THEN TargetSelection(ToSet(targets)) ELSE {}
  /\ unswept \subseteq downEdges

\* A request is worked on when the hierarchy is finished, a row after the other.
Turns ==
  /\ stage = "done" => contracted = Node
  /\ at = "none" => solver = "dijkstra" /\ matrix = <<>>
  /\ at # "none" => stage = "done"
  /\ at \in {"none", "worker", "answered"} => heap = {} /\ Len(matrix) = row
  /\ at \in {"search", "sweep"} => row >= 1 /\ Source \in Node /\ Len(matrix) = row - 1
  /\ at = "sweep" => heap = {}

OpenBound(p) == \A r \in OpenRoads(solver) : Bound(p, r)

NoneTooNear ==
  \A p \in [Node -> 0..Unreached] : OpenBound(p) /\ p[Source] = 0 =>
    \A n \in Node : p[n] <= GetDistance(n)

Spent(n) == \A r \in References(n) : Seen(RefTo(r)) <= Seen(n) + GetEdgeWeight(r)

\* What the search has found bounds what the sweep finds, and climbs.
Outlines(f) ==
  /\ f[Source] = 0
  /\ \A n \in Node : Seen(n) <= f[n] /\ \A r \in References(n) : Bound(f, r)

Swept == downEdges \ unswept
SweepInv ==
  /\ \E f \in [Node -> 0..Unreached] : Outlines(f)
  /\ \A r \in Swept : Seen(RefTo(r)) <= Seen(RefFrom(r)) + GetEdgeWeight(r)
  /\ \A r \in Swept, q \in unswept : level[RefFrom(q)] <= level[RefFrom(r)]

Approached ==
  /\ GetDistance(Source) = 0
  /\ NoneTooNear
  /\ \A i \in heap : GetDistance(i.node) <= i.dist /\ (solver = "avoid" => i.node \notin AvoidedNodes)
  /\ at = "search" => \A n \in Node : [node |-> n, dist |-> GetDistance(n)] \in heap \/ Spent(n)
  /\ at = "sweep" => SweepInv

Sought ==
  at \in {"search", "sweep"} =>
    IF Blocked THEN heap = {} /\ \A n \in Node : GetDistance(n) = Unreached ELSE Approached

RowIs(cells, s) ==
  \A j \in DOMAIN targets :
    cells[j] = IF NoNode \in {s, targets[j]} \/ TrueDistances(s)[targets[j]] > range
                 THEN -1 ELSE TrueDistances(s)[targets[j]]

Rows == \A i \in DOMAIN matrix : RowIs(matrix[i], sources[i])

ManyInv == OInv /\ OPInv /\ SolverTypes /\ Turns /\ Sought /\ Rows

-----------------------------------------------------------------------------
LEMMA DistanceIsTyped ==
  ASSUME SolverTypes, NEW n \in Node
  PROVE  /\ GetDistance(n) \in Nat /\ GetDistance(n) \in 0..Unreached /\ Unreached \in Nat
         /\ Seen(n) \in Nat /\ Seen(n) \in 0..Unreached /\ range \in Nat
         /\ Seen(n) = IF GetDistance(n) <= range THEN GetDistance(n) ELSE range + 1
<1>1. GetDistance(n) \in 0..Unreached /\ range \in Nat /\ Unreached \in Nat
  BY GetFacts, ManyAssumption, ContractionAssumption DEF SolverTypes, GetDistance
<1>2. Seen(n) = IF GetDistance(n) <= range THEN GetDistance(n) ELSE range + 1
  BY DEF Seen
<1> QED
  BY <1>1, <1>2

LEMMA ReferenceFacts ==
  ASSUME IInv, SolverTypes, NEW n \in Node, NEW r \in References(n)
  PROVE  /\ r \in Refs /\ RefFrom(r) = n /\ RefTo(r) \in Node
         /\ GetEdgeWeight(r) \in Nat
<1>1. r \in Refs /\ RefFrom(r) = n
  BY DEF References, SolverTypes, OnHierarchy
<1> QED
  BY <1>1, RefFacts DEF IInv, Types

LEMMA RoadFacts ==
  ASSUME NEW r \in Roads
  PROVE  /\ r \in Refs /\ ~IsShortcut(r) /\ r.id \in Edge /\ r = EdgeRef(r.id)
         /\ RefFrom(r) = NodeA[r.id] /\ RefTo(r) = NodeB[r.id] /\ GetEdgeWeight(r) = Weight[r.id]
         /\ RefFrom(r) \in Node /\ RefTo(r) \in Node /\ GetEdgeWeight(r) \in Nat
<1>1. PICK x \in Edge : r = EdgeRef(x)
  BY DEF Roads
<1> QED
  BY <1>1, GraphAssumption DEF EdgeRef, Refs, IsShortcut, RefFrom, RefTo, GetEdgeWeight

LEMMA BaseIsRoad ==
  ASSUME IInv, NEW r \in Refs, ~IsShortcut(r) PROVE r \in Roads
BY DEF Refs, Roads, ShortcutRef, IsShortcut

\* The search only goes where roads lead.
LEMMA ReferencesBound ==
  ASSUME IInv, Sound, SolverTypes, NEW n \in Node, solver = "avoid" => n \notin AvoidedNodes,
         NEW r \in References(n), NEW p \in [Node -> 0..Unreached], OpenBound(p)
  PROVE  Bound(p, r) /\ (solver = "avoid" => RefTo(r) \notin AvoidedNodes)
<1>1. r \in Refs /\ RefFrom(r) = n
  BY ReferenceFacts
<1>2. CASE OnHierarchy(solver)
  <2>1. solver # "avoid"
    BY <1>2 DEF OnHierarchy
  <2>2. RoadsBound(p)
    <3> SUFFICES ASSUME NEW x \in Edge PROVE p[NodeB[x]] <= p[NodeA[x]] + Weight[x]
      BY DEF RoadsBound
    <3>1. EdgeRef(x) \in OpenRoads(solver) /\ EdgeRef(x) \in Roads /\ EdgeRef(x).id = x
      BY <2>1 DEF OpenRoads, Roads, EdgeRef
    <3> QED
      BY <3>1, RoadFacts DEF OpenBound, Bound
  <2>3. p \in [Node -> Int]
    OBVIOUS
  <2> QED
    BY <1>1, <2>1, <2>2, <2>3 DEF Sound
<1>3. CASE solver = "dijkstra"
  <2>1. r \in Roads
    BY <1>1, <1>3, BaseIsRoad DEF References, OnHierarchy
  <2> QED
    BY <1>3, <2>1 DEF OpenRoads, OpenBound
<1>4. CASE solver = "avoid"
  <2>1. ~IsShortcut(r) /\ r.id \notin AvoidedEdges /\ RefTo(r) \notin AvoidedNodes
    BY <1>4 DEF References, OnHierarchy
  <2>2. r \in Roads
    BY <1>1, <2>1, BaseIsRoad
  <2> QED
    BY <1>1, <1>4, <2>1, <2>2 DEF OpenRoads, OpenBound
<1> QED
  BY <1>2, <1>3, <1>4 DEF SolverTypes, OnHierarchy

\* And it goes wherever they do.
LEMMA OpenIsFollowed ==
  ASSUME IInv, SolverTypes, ~OnHierarchy(solver), NEW r \in OpenRoads(solver)
  PROVE  RefFrom(r) \in Node /\ r \in References(RefFrom(r))
<1>1. r \in Roads /\ (solver = "avoid" => r.id \notin AvoidedEdges /\ RefTo(r) \notin AvoidedNodes)
  BY DEF OpenRoads
<1>2. r \in Refs /\ ~IsShortcut(r) /\ RefFrom(r) \in Node
  BY <1>1, RoadFacts
<1>3. solver \in {"dijkstra", "avoid"}
  BY DEF SolverTypes, OnHierarchy
<1> QED
  BY <1>1, <1>2, <1>3 DEF References, OnHierarchy

-----------------------------------------------------------------------------
(* The steps. *)

\* What a visit of n does to the distances.
LEMMA VisitFacts ==
  ASSUME IInv, SolverTypes, NEW n \in Node
  PROVE  /\ \A x \in Closer(n) : /\ x \in [node : Node, dist : Nat] /\ x.dist \in 0..Unreached
                                 /\ x.dist < GetDistance(x.node)
                                 /\ \E r \in References(n) : /\ RefTo(r) = x.node
                                                             /\ x.dist = GetDistance(n) + GetEdgeWeight(r)
         /\ \A r \in References(n), g \in Nat :
              /\ g <= GetDistance(RefTo(r))
              /\ \A x \in Closer(n) : x.node = RefTo(r) => g = x.dist
              /\ InRange(GetDistance(n) + GetEdgeWeight(r))
              => g <= GetDistance(n) + GetEdgeWeight(r)
<1>1. \A m \in Node : GetDistance(m) \in 0..Unreached /\ GetDistance(m) \in Nat /\ Unreached \in Nat
  BY DistanceIsTyped
<1>2. \A r \in References(n) : RefTo(r) \in Node /\ GetEdgeWeight(r) \in Nat
  BY ReferenceFacts
<1>3. ASSUME NEW x \in Closer(n)
      PROVE  /\ x \in [node : Node, dist : Nat] /\ x.dist \in 0..Unreached
             /\ x.dist < GetDistance(x.node)
             /\ \E r \in References(n) : /\ RefTo(r) = x.node
                                         /\ x.dist = GetDistance(n) + GetEdgeWeight(r)
  <2>1. PICK r \in Shortening(n) : x = [node |-> RefTo(r), dist |-> GetDistance(n) + GetEdgeWeight(r)]
    BY <1>3 DEF Closer, Shortest
  <2>2. r \in References(n) /\ GetDistance(n) + GetEdgeWeight(r) < GetDistance(RefTo(r))
    BY <2>1 DEF Shortening
  <2>3. x.node = RefTo(r) /\ x.dist = GetDistance(n) + GetEdgeWeight(r)
    BY <2>1
  <2>4. /\ RefTo(r) \in Node /\ GetDistance(n) \in Nat /\ GetEdgeWeight(r) \in Nat
        /\ GetDistance(RefTo(r)) \in 0..Unreached /\ Unreached \in Nat
    BY <1>1, <1>2, <2>2
  <2>5. x.dist \in Nat /\ x.dist \in 0..Unreached
    BY <2>2, <2>3, <2>4
  <2> QED
    BY <2>1, <2>2, <2>3, <2>4, <2>5
<1>4. ASSUME NEW r \in References(n), NEW g \in Nat, g <= GetDistance(RefTo(r)),
             \A x \in Closer(n) : x.node = RefTo(r) => g = x.dist,
             InRange(GetDistance(n) + GetEdgeWeight(r))
      PROVE  g <= GetDistance(n) + GetEdgeWeight(r)
  <2>1. CASE r \in Shortening(n)
    <3> DEFINE same == {q \in Shortening(n) : RefTo(q) = RefTo(r)}
               T == {GetEdgeWeight(q) : q \in same}
    <3>1. T \in SUBSET Nat /\ GetEdgeWeight(r) \in T
      BY <1>2, <2>1 DEF Shortening
    <3>2. PICK w \in T : \A v \in T : w <= v
      <4> HIDE DEF T
      <4> QED
        BY <3>1, LeastNumber
    <3>3. PICK q \in same : GetEdgeWeight(q) = w
      BY <3>2
    <3>4. q \in Shortest(Shortening(n))
      BY <3>2, <3>3 DEF Shortest
    <3>5. [node |-> RefTo(q), dist |-> GetDistance(n) + GetEdgeWeight(q)] \in Closer(n)
      BY <3>4 DEF Closer
    <3>6. g = GetDistance(n) + GetEdgeWeight(q)
      BY <1>4, <3>3, <3>5
    <3>7. w <= GetEdgeWeight(r) /\ w \in Nat /\ GetEdgeWeight(r) \in Nat /\ GetDistance(n) \in Nat
      BY <1>1, <1>2, <3>1, <3>2
    <3> HIDE DEF same, T
    <3> QED
      BY <3>3, <3>6, <3>7
  <2>2. CASE r \notin Shortening(n)
    <3>1. ~(GetDistance(n) + GetEdgeWeight(r) < GetDistance(RefTo(r)))
      BY <1>4, <2>2 DEF Shortening
    <3> QED
      BY <1>1, <1>2, <1>4, <3>1
  <2> QED
    BY <2>1, <2>2
<1> QED
  BY <1>3, <1>4

\* It brings one distance to each.
LEMMA CloserAgrees ==
  ASSUME IInv, SolverTypes, NEW n \in Node, NEW x \in Closer(n), NEW y \in Closer(n), x.node = y.node
  PROVE  x = y
<1>1. PICK q \in Shortest(Shortening(n)) : y = [node |-> RefTo(q), dist |-> GetDistance(n) + GetEdgeWeight(q)]
  BY DEF Closer
<1>2. PICK o \in Shortest(Shortening(n)) : x = [node |-> RefTo(o), dist |-> GetDistance(n) + GetEdgeWeight(o)]
  BY DEF Closer
<1>3. RefTo(q) = RefTo(o) /\ q \in Shortening(n) /\ o \in Shortening(n)
  BY <1>1, <1>2 DEF Shortest
<1>4. GetEdgeWeight(q) <= GetEdgeWeight(o) /\ GetEdgeWeight(o) <= GetEdgeWeight(q)
  BY <1>3 DEF Shortest
<1>5. GetEdgeWeight(q) \in Nat /\ GetEdgeWeight(o) \in Nat
  BY <1>3, ReferenceFacts DEF Shortening
<1>6. GetEdgeWeight(q) = GetEdgeWeight(o)
  BY <1>4, <1>5
<1> QED
  BY <1>1, <1>2, <1>3, <1>6

\* What a step of the worker leaves as it is.
LEMMA AskedStays ==
  ASSUME UNCHANGED <<orderedVars, asked>>
  PROVE  /\ Refs' = Refs /\ level' = level /\ UNCHANGED asked
         /\ \A r : RefFrom(r)' = RefFrom(r) /\ RefTo(r)' = RefTo(r) /\ GetEdgeWeight(r)' = GetEdgeWeight(r)
         /\ \A n : References(n)' = References(n)
         /\ \A p, r : Bound(p, r)' <=> Bound(p, r)
         /\ \A p : OpenBound(p)' <=> OpenBound(p)
         /\ \A s : TrueDistances(s)' = TrueDistances(s)
         /\ \A cells, s : RowIs(cells, s)' <=> RowIs(cells, s)
         /\ \A nodes : TargetSelection(nodes)' = TargetSelection(nodes)
<1>1. /\ UNCHANGED <<level, contracted, shortcuts, stage>>
      /\ UNCHANGED <<solver, range, sources, targets, downEdges>>
  BY DEF orderedVars, contractionVars, hierarchy, asked
<1>2. /\ Refs' = Refs
      /\ \A r : RefFrom(r)' = RefFrom(r) /\ RefTo(r)' = RefTo(r) /\ GetEdgeWeight(r)' = GetEdgeWeight(r)
  BY <1>1, RefsStay
<1>3. \A n : References(n)' = References(n)
  BY <1>1, <1>2 DEF References, OnHierarchy
<1>4. \A p, r : Bound(p, r)' <=> Bound(p, r)
  BY <1>2 DEF Bound
<1>5. \A kind : OpenRoads(kind)' = OpenRoads(kind)
  BY <1>2 DEF OpenRoads, Roads
<1>6. \A p : OpenBound(p)' <=> OpenBound(p)
  BY <1>1, <1>4, <1>5 DEF OpenBound
<1>7. \A r : Arc(r)' = Arc(r)
  BY <1>2 DEF Arc
<1>8. \A s : TrueDistances(s)' = TrueDistances(s)
  BY <1>1, <1>5, <1>7 DEF TrueDistances
<1>9. \A cells, s : RowIs(cells, s)' <=> RowIs(cells, s)
  BY <1>1, <1>8 DEF RowIs
<1>10. \A r : Higher(r)' <=> Higher(r)
  BY <1>1, <1>2 DEF Higher
<1>11. PHASTIndex' = PHASTIndex
  BY <1>2, <1>10 DEF PHASTIndex
<1>12. \A nodes : Above(nodes)' = Above(nodes)
  BY <1>2, <1>11 DEF Above
<1>13. \A nodes : TargetSelection(nodes)' = TargetSelection(nodes)
  BY <1>2, <1>11, <1>12 DEF TargetSelection
<1> QED
  BY <1>1, <1>2, <1>3, <1>4, <1>6, <1>8, <1>9, <1>13 DEF asked

LEMMA ManyStays ==
  ASSUME ManyInv, UNCHANGED orderedVars PROVE OInv' /\ OPInv' /\ (stage' = "done" => contracted' = Node)
<1>1. OInv' /\ OPInv'
  BY OrderedStep, OrderedPotentialsStep DEF ManyInv
<1> QED
  BY <1>1 DEF ManyInv, Turns, orderedVars, contractionVars, hierarchy

LEMMA SkipItemInv == ASSUME ManyInv, NEW i \in heap, SkipItem(i) PROVE ManyInv'
<1>1. OInv /\ OPInv /\ IInv /\ SolverTypes /\ Turns /\ Sought /\ Rows
  BY DEF ManyInv, OInv
<1>2. /\ at = "search" /\ at' = at /\ heap' = heap \ {i} /\ GetDistance(i.node) < i.dist
      /\ UNCHANGED <<orderedVars, asked>> /\ UNCHANGED <<unswept, nodeFlags, row, matrix>>
  BY DEF SkipItem
<1>3. UNCHANGED <<solver, range, sources, targets, downEdges, stage, contracted>>
  BY <1>2 DEF asked, orderedVars, contractionVars, hierarchy
<1>4. SolverTypes'
  BY <1>1, <1>2, <1>3, AskedStays DEF SolverTypes, OnHierarchy
<1>5. Turns'
  BY <1>1, <1>2, <1>3 DEF Turns, Source
<1>6. /\ \A n : GetDistance(n)' = GetDistance(n) /\ Seen(n)' = Seen(n)
      /\ Source' = Source /\ Blocked' = Blocked
  BY <1>2, <1>3 DEF GetDistance, Seen, Source, Blocked
<1>7. Sought'
  <2>1. CASE Blocked
    BY <1>1, <1>2, <1>6, <2>1 DEF Sought
  <2>2. CASE ~Blocked
    <3>1. Approached
      BY <1>1, <1>2, <2>2 DEF Sought
    <3>2. NoneTooNear'
      BY <1>2, <1>6, <3>1, AskedStays DEF Approached, NoneTooNear
    <3>3. \A n : Spent(n)' <=> Spent(n)
      BY <1>2, <1>6, AskedStays DEF Spent
    <3>4. ASSUME NEW n \in Node PROVE [node |-> n, dist |-> GetDistance(n)] \in heap' \/ Spent(n)
      <4>1. GetDistance(n) \in Nat
        BY <1>1, DistanceIsTyped
      <4>2. i.node \in Node /\ i.dist \in Nat
        BY <1>1 DEF SolverTypes
      <4>3. [node |-> n, dist |-> GetDistance(n)] # i
        <5>1. PICK d \in Nat : d = GetDistance(n)
          BY <4>1
        <5>2. [node |-> n, dist |-> d] = i => i.node = n /\ i.dist = d
          OBVIOUS
        <5> QED
          BY <1>2, <4>2, <5>1, <5>2
      <4> QED
        BY <1>2, <3>1, <4>3 DEF Approached
    <3>5. Approached'
      BY <1>2, <1>3, <1>6, <3>1, <3>2, <3>3, <3>4 DEF Approached
    <3> QED
      BY <1>6, <2>2, <3>5 DEF Sought
  <2> QED
    BY <2>1, <2>2
<1>8. Rows'
  BY <1>1, <1>2, <1>3, AskedStays DEF Rows
<1> QED
  BY <1>2, <1>4, <1>5, <1>7, <1>8, ManyStays DEF ManyInv

LEMMA VisitInv == ASSUME ManyInv, NEW i \in heap, Visit(i) PROVE ManyInv'
<1>1. OInv /\ OPInv /\ IInv /\ Sound /\ SolverTypes /\ Turns /\ Sought /\ Rows
  BY DEF ManyInv, OInv, OPInv, PInv
<1>2. /\ at = "search" /\ at' = at /\ GetDistance(i.node) >= i.dist
      /\ nodeFlags' = F!PutAll(nodeFlags, Closer(i.node))
      /\ heap' = (heap \cup Closer(i.node)) \ {i}
      /\ UNCHANGED <<orderedVars, asked>> /\ UNCHANGED <<unswept, row, matrix>>
  BY DEF Visit
<1>3. UNCHANGED <<solver, range, sources, targets, downEdges, stage, contracted>>
  BY <1>2 DEF asked, orderedVars, contractionVars, hierarchy
<1>4. ~Blocked /\ Approached
  BY <1>1, <1>2 DEF Sought
<1>5. PICK n \in Node : n = i.node
  BY <1>1 DEF SolverTypes
<1>6. i.dist = GetDistance(n) /\ GetDistance(n) \in Nat /\ (solver = "avoid" => n \notin AvoidedNodes)
  <2>1. i.dist \in Nat /\ GetDistance(n) \in Nat
    BY <1>1, <1>5, DistanceIsTyped DEF SolverTypes
  <2> QED
    BY <1>2, <1>4, <1>5, <2>1 DEF Approached
<1>7. \A x \in Closer(n) :
        /\ x \in [node : Node, dist : Nat] /\ x.dist \in 0..Unreached
        /\ x.dist < GetDistance(x.node)
        /\ \E r \in References(n) : RefTo(r) = x.node /\ x.dist = GetDistance(n) + GetEdgeWeight(r)
  BY <1>1, VisitFacts
<1>8. /\ nodeFlags' \in NodeFlags /\ Counted(nodeFlags')
      /\ \A m \in Node :
           \/ F!Get(nodeFlags', m) = F!Get(nodeFlags, m) /\ \A x \in Closer(n) : x.node # m
           \/ \E x \in Closer(n) : x.node = m /\ F!Get(nodeFlags', m) = x.dist
  <2>1. \A x \in Closer(n) : x.node \in Node /\ x.dist \in 0..Unreached
    BY <1>7
  <2>2. nodeFlags \in NodeFlags /\ Counted(nodeFlags)
    BY <1>1 DEF SolverTypes
  <2> QED
    BY <1>2, <1>5, <2>1, <2>2, PutAllFacts
<1>9. SolverTypes'
  <2>1. heap' \subseteq [node : Node, dist : Nat]
    BY <1>1, <1>2, <1>5, <1>7 DEF SolverTypes
  <2> QED
    BY <1>1, <1>2, <1>3, <1>8, <2>1, AskedStays DEF SolverTypes, OnHierarchy
<1>10. Turns'
  BY <1>1, <1>2, <1>3 DEF Turns, Source
<1>11. ASSUME NEW m \in Node
       PROVE  /\ GetDistance(m) \in Nat /\ GetDistance(m)' \in Nat /\ GetDistance(m)' <= GetDistance(m)
              /\ Seen(m) \in Nat /\ Seen(m)' \in Nat /\ Seen(m)' <= Seen(m)
              /\ \/ GetDistance(m)' = GetDistance(m) /\ \A x \in Closer(n) : x.node # m
                 \/ \E x \in Closer(n) : x.node = m /\ GetDistance(m)' = x.dist
  <2>1. GetDistance(m) = F!Get(nodeFlags, m) /\ GetDistance(m)' = F!Get(nodeFlags', m)
    BY DEF GetDistance
  <2>2. \/ GetDistance(m)' = GetDistance(m) /\ \A x \in Closer(n) : x.node # m
        \/ \E x \in Closer(n) : x.node = m /\ GetDistance(m)' = x.dist
    BY <1>8, <2>1
  <2>3. GetDistance(m) \in Nat /\ range \in Nat
    BY <1>1, DistanceIsTyped
  <2>4. GetDistance(m)' \in Nat /\ GetDistance(m)' <= GetDistance(m)
    BY <1>7, <2>2, <2>3
  <2>5. /\ Seen(m) = IF GetDistance(m) <= range THEN GetDistance(m) ELSE range + 1
        /\ Seen(m)' = IF GetDistance(m)' <= range THEN GetDistance(m)' ELSE range + 1
    BY <1>3 DEF Seen
  <2> QED
    BY <2>2, <2>3, <2>4, <2>5
<1>12. Source' = Source /\ Blocked' = Blocked
  BY <1>2, <1>3 DEF Source, Blocked
<1>13. \A r \in References(n) : r \in Refs /\ RefFrom(r) = n /\ RefTo(r) \in Node /\ GetEdgeWeight(r) \in Nat
  BY <1>1, ReferenceFacts
<1>14. GetDistance(n)' = GetDistance(n) /\ Seen(n)' = Seen(n)
  <2>1. \A x \in Closer(n) : x.node # n
    <3> SUFFICES ASSUME NEW x \in Closer(n), x.node = n PROVE FALSE
      OBVIOUS
    <3>1. PICK r \in References(n) : x.dist = GetDistance(n) + GetEdgeWeight(r) /\ x.dist < GetDistance(n)
      BY <1>7
    <3> QED
      BY <1>6, <1>13, <3>1
  <2>2. GetDistance(n)' = GetDistance(n)
    BY <1>11, <2>1
  <2> QED
    BY <1>3, <2>2 DEF Seen
<1>15. NoneTooNear'
  <2> SUFFICES ASSUME NEW p \in [Node -> 0..Unreached], OpenBound(p)', p[Source'] = 0, NEW m \in Node
               PROVE  p[m] <= GetDistance(m)'
    BY DEF NoneTooNear
  <2>1. OpenBound(p) /\ p[Source] = 0
    BY <1>2, <1>12, AskedStays
  <2>2. p[m] <= GetDistance(m) /\ p[n] <= GetDistance(n)
    BY <1>4, <2>1 DEF Approached, NoneTooNear
  <2>3. CASE GetDistance(m)' = GetDistance(m)
    BY <2>2, <2>3
  <2>4. ASSUME NEW x \in Closer(n), x.node = m, GetDistance(m)' = x.dist PROVE p[m] <= GetDistance(m)'
    <3>1. PICK r \in References(n) : RefTo(r) = m /\ x.dist = GetDistance(n) + GetEdgeWeight(r)
      BY <1>7, <2>4
    <3>2. Bound(p, r)
      BY <1>1, <1>6, <2>1, ReferencesBound
    <3>3. p[m] <= p[n] + GetEdgeWeight(r)
      BY <1>13, <3>1, <3>2 DEF Bound
    <3>4. p[m] \in Int /\ p[n] \in Int /\ GetEdgeWeight(r) \in Nat
      BY <1>13
    <3> QED
      BY <1>6, <2>2, <2>4, <3>1, <3>3, <3>4
  <2> QED
    BY <1>11, <2>3, <2>4
<1>16. ASSUME NEW j \in heap'
       PROVE  GetDistance(j.node)' <= j.dist /\ (solver = "avoid" => j.node \notin AvoidedNodes)
  <2>1. CASE j \in heap
    <3>1. j.node \in Node /\ j.dist \in Nat
      BY <1>1, <2>1 DEF SolverTypes
    <3>2. GetDistance(j.node) <= j.dist /\ (solver = "avoid" => j.node \notin AvoidedNodes)
      BY <1>4, <2>1 DEF Approached
    <3> QED
      BY <1>11, <3>1, <3>2
  <2>2. CASE j \in Closer(n)
    <3>1. j.node \in Node /\ j.dist \in Nat /\ \E r \in References(n) : RefTo(r) = j.node
      BY <1>7, <2>2
    <3>2. solver = "avoid" => j.node \notin AvoidedNodes
      BY <3>1 DEF References, OnHierarchy
    <3>3. PICK x \in Closer(n) : x.node = j.node /\ GetDistance(j.node)' = x.dist
      BY <1>11, <2>2, <3>1
    <3>4. x = j
      BY <1>1, <2>2, <3>3, CloserAgrees
    <3> QED
      BY <3>1, <3>2, <3>3, <3>4
  <2> QED
    BY <1>2, <1>5, <2>1, <2>2
<1>17. Spent(n)'
  <2> SUFFICES ASSUME NEW r \in References(n) PROVE Seen(RefTo(r))' <= Seen(n)' + GetEdgeWeight(r)
    BY <1>2, AskedStays DEF Spent
  <2>1. PICK m \in Node : m = RefTo(r)
    BY <1>13
  <2>2. /\ GetDistance(m)' \in Nat /\ GetDistance(m)' <= GetDistance(m) /\ GetEdgeWeight(r) \in Nat
        /\ GetDistance(n) \in Nat /\ range \in Nat
    BY <1>1, <1>11, <1>13, DistanceIsTyped
  <2>3. \A x \in Closer(n) : x.node = m => GetDistance(m)' = x.dist
    <3> SUFFICES ASSUME NEW x \in Closer(n), x.node = m PROVE GetDistance(m)' = x.dist
      OBVIOUS
    <3>1. PICK y \in Closer(n) : y.node = m /\ GetDistance(m)' = y.dist
      BY <1>11
    <3> QED
      BY <1>1, <3>1, CloserAgrees
  <2>4. InRange(GetDistance(n) + GetEdgeWeight(r)) => GetDistance(m)' <= GetDistance(n) + GetEdgeWeight(r)
    BY <1>1, <2>1, <2>2, <2>3, VisitFacts
  <2>5. ~InRange(GetDistance(n) + GetEdgeWeight(r)) => GetDistance(n) + GetEdgeWeight(r) > range
    BY <2>2 DEF InRange
  <2>6. /\ Seen(m)' = IF GetDistance(m)' <= range THEN GetDistance(m)' ELSE range + 1
        /\ Seen(n)' = IF GetDistance(n) <= range THEN GetDistance(n) ELSE range + 1
    BY <1>3, <1>14 DEF Seen
  <2>7. Seen(m)' <= Seen(n)' + GetEdgeWeight(r)
    BY <2>2, <2>4, <2>5, <2>6
  <2>8. RefTo(r)' = m
    BY <1>2, <2>1, AskedStays
  <2> QED
    BY <2>7, <2>8 DEF Seen, GetDistance
<1>18. ASSUME NEW m \in Node
       PROVE  [node |-> m, dist |-> GetDistance(m)'] \in heap' \/ Spent(m)'
  <2>1. CASE m = n
    BY <1>17, <2>1
  <2>2. CASE m # n
    <3>1. [node |-> m, dist |-> GetDistance(m)'] # i
      BY <1>5, <2>2
    <3>2. CASE \E x \in Closer(n) : x.node = m /\ GetDistance(m)' = x.dist
      <4>1. PICK x \in Closer(n) : x.node = m /\ GetDistance(m)' = x.dist
        BY <3>2
      <4>2. x = [node |-> m, dist |-> GetDistance(m)']
        BY <1>7, <4>1
      <4> QED
        BY <1>2, <1>5, <3>1, <4>2
    <3>3. CASE GetDistance(m)' = GetDistance(m)
      <4>1. CASE [node |-> m, dist |-> GetDistance(m)] \in heap
        BY <1>2, <3>1, <3>3, <4>1
      <4>2. CASE Spent(m)
        <5> SUFFICES ASSUME NEW r \in References(m) PROVE Seen(RefTo(r))' <= Seen(m)' + GetEdgeWeight(r)
          BY <1>2, AskedStays DEF Spent
        <5>1. PICK k \in Node : k = RefTo(r)
          BY <1>1, ReferenceFacts
        <5>2. Seen(k) <= Seen(m) + GetEdgeWeight(r) /\ GetEdgeWeight(r) \in Nat
          BY <1>1, <4>2, <5>1, ReferenceFacts DEF Spent
        <5>3. Seen(m)' = Seen(m) /\ Seen(m) \in Nat
          BY <1>3, <1>11, <3>3 DEF Seen
        <5>4. Seen(k)' <= Seen(m)' + GetEdgeWeight(r)
          BY <1>11, <5>2, <5>3
        <5>5. RefTo(r)' = k
          BY <1>2, <5>1, AskedStays
        <5> QED
          BY <5>4, <5>5 DEF Seen, GetDistance
      <4> QED
        BY <1>2, <1>4, <4>1, <4>2 DEF Approached
    <3> QED
      BY <1>11, <3>2, <3>3
  <2> QED
    BY <2>1, <2>2
<1>19. GetDistance(Source)' = 0
  <2>1. Source \in Node /\ GetDistance(Source) = 0
    BY <1>1, <1>2, <1>4 DEF Turns, Approached
  <2>2. PICK m \in Node : m = Source
    BY <2>1
  <2>3. GetDistance(m)' = 0
    BY <1>11, <2>1, <2>2
  <2> QED
    BY <1>12, <2>2, <2>3 DEF GetDistance
<1>20. Approached'
  BY <1>2, <1>3, <1>15, <1>16, <1>18, <1>19 DEF Approached
<1>21. Sought'
  BY <1>4, <1>12, <1>20 DEF Sought
<1>22. Rows'
  BY <1>1, <1>2, <1>3, AskedStays DEF Rows
<1> QED
  BY <1>2, <1>9, <1>10, <1>21, <1>22, ManyStays DEF ManyInv

-----------------------------------------------------------------------------
(* The sweep. *)

LEMMA HighestNode ==
  ASSUME NEW f \in [Node -> Nat], NEW N \in SUBSET Node, N # {}
  PROVE  \E m \in N : \A n \in N : f[n] <= f[m]
<1> DEFINE Highest(M) == \E m \in M : \A n \in M : f[n] <= f[m]
           S == {k \in Nat : \A M \in SUBSET Node : Cardinality(M) = k /\ M # {} => Highest(M)}
<1>1. \A M \in SUBSET Node : IsFiniteSet(M) /\ Cardinality(M) \in Nat
  BY NodesAssumption, FS_Subset, FS_CardinalityType
<1>2. 0 \in S
  BY <1>1, FS_EmptySet
<1>3. ASSUME NEW k \in S PROVE k + 1 \in S
  <2> SUFFICES ASSUME NEW M \in SUBSET Node, Cardinality(M) = k + 1, M # {} PROVE Highest(M)
    OBVIOUS
  <2>1. PICK x \in M : TRUE
    OBVIOUS
  <2>2. M \ {x} \in SUBSET Node /\ Cardinality(M \ {x}) = k
    BY <1>1, <2>1, FS_RemoveElement
  <2>3. CASE M \ {x} = {}
    BY <2>1, <2>3
  <2>4. CASE M \ {x} # {}
    <3>1. PICK m \in M \ {x} : \A n \in M \ {x} : f[n] <= f[m]
      BY <2>2, <2>4
    <3>2. f[m] \in Nat /\ f[x] \in Nat /\ \A n \in M : f[n] \in Nat
      BY <2>1
    <3>3. CASE f[x] <= f[m]
      BY <3>1, <3>3
    <3>4. CASE ~(f[x] <= f[m])
      BY <2>1, <3>1, <3>2, <3>4
    <3> QED
      BY <3>3, <3>4
  <2> QED
    BY <2>3, <2>4
<1>4. \A k \in Nat : k \in S
  <2> HIDE DEF S
  <2>1. S \in SUBSET Nat
    BY DEF S
  <2> QED
    BY <1>2, <1>3, <2>1, Counting
<1> QED
  BY <1>1, <1>4

LEMMA FirstDownIs ==
  ASSUME IInv, NEW edges \in SUBSET Refs, edges # {}
  PROVE  /\ FirstDown(edges) \in edges
         /\ \A q \in edges : level[RefFrom(q)] <= level[RefFrom(FirstDown(edges))]
<1>1. {RefFrom(r) : r \in edges} \in SUBSET Node /\ {RefFrom(r) : r \in edges} # {} /\ level \in [Node -> Nat]
  BY RefFacts DEF IInv, Types
<1>2. PICK m \in {RefFrom(r) : r \in edges} : \A n \in {RefFrom(r) : r \in edges} : level[n] <= level[m]
  BY <1>1, HighestNode
<1>3. \E r \in edges : \A q \in edges : level[RefFrom(q)] <= level[RefFrom(r)]
  BY <1>2
<1> QED
  BY <1>3 DEF FirstDown

\* The nodes that lead down to a target are closed against the references that
\* lead down.
LEMMA AboveFacts ==
  ASSUME IInv, NEW nodes \in SUBSET (Node \cup {NoNode})
  PROVE  /\ nodes \ {NoNode} \subseteq Above(nodes) /\ Above(nodes) \subseteq Node
         /\ \A r \in Refs : Higher(r) /\ RefTo(r) \in Above(nodes) => RefFrom(r) \in Above(nodes)
         /\ TargetSelection(nodes) = {r \in Refs : Higher(r) /\ RefFrom(r) \in Above(nodes)}
<1>1. \A r \in Refs : RefFrom(r) \in Node /\ RefTo(r) \in Node
  BY RefFacts DEF IInv, Types
<1>2. nodes \ {NoNode} \subseteq Above(nodes) /\ Above(nodes) \subseteq Node
  BY DEF Above
<1>3. ASSUME NEW r \in Refs, Higher(r), RefTo(r) \in Above(nodes) PROVE RefFrom(r) \in Above(nodes)
  <2>1. r \in PHASTIndex
    BY <1>3 DEF PHASTIndex
  <2> QED
    BY <1>1, <1>3, <2>1 DEF Above
<1>4. TargetSelection(nodes) = {r \in Refs : Higher(r) /\ RefFrom(r) \in Above(nodes)}
  BY DEF TargetSelection, PHASTIndex
<1> QED
  BY <1>2, <1>3, <1>4

LEMMA SearchDoneInv == ASSUME ManyInv, SearchDone PROVE ManyInv'
<1>1. OInv /\ OPInv /\ IInv /\ SolverTypes /\ Turns /\ Sought /\ Rows
  BY DEF ManyInv, OInv
<1>2. /\ at = "search" /\ at' = "sweep" /\ heap = {} /\ unswept' = downEdges
      /\ UNCHANGED <<orderedVars, asked>> /\ UNCHANGED <<nodeFlags, row, heap, matrix>>
  BY DEF SearchDone
<1>3. UNCHANGED <<solver, range, sources, targets, downEdges, stage, contracted>>
  BY <1>2 DEF asked, orderedVars, contractionVars, hierarchy
<1>4. SolverTypes'
  BY <1>1, <1>2, <1>3, AskedStays DEF SolverTypes, OnHierarchy
<1>5. Turns'
  BY <1>1, <1>2, <1>3 DEF Turns, Source
<1>6. /\ \A n : GetDistance(n)' = GetDistance(n) /\ Seen(n)' = Seen(n)
      /\ Source' = Source /\ Blocked' = Blocked
  BY <1>2, <1>3 DEF GetDistance, Seen, Source, Blocked
<1>7. Sought'
  <2>1. CASE Blocked
    BY <1>1, <1>2, <1>6, <2>1 DEF Sought
  <2>2. CASE ~Blocked
    <3>1. Approached /\ \A n \in Node : Spent(n)
      BY <1>1, <1>2, <2>2 DEF Sought, Approached
    <3>2. NoneTooNear'
      BY <1>2, <1>6, <3>1, AskedStays DEF Approached, NoneTooNear
    <3>3. \E f \in [Node -> 0..Unreached] : Outlines(f)'
      <4>1. \A n \in Node : Seen(n) \in 0..Unreached /\ Seen(n) <= Seen(n)
        <5> TAKE n \in Node
        <5>1. Seen(n) \in 0..Unreached /\ Seen(n) \in Nat
          BY <1>1, DistanceIsTyped
        <5> QED
          BY <5>1
      <4>2. PICK g \in [Node -> 0..Unreached] : \A n \in Node : g[n] = Seen(n)
        <5> DEFINE seen == [n \in Node |-> Seen(n)]
        <5>1. seen \in [Node -> 0..Unreached] /\ \A n \in Node : seen[n] = Seen(n)
          BY <4>1
        <5> QED
          BY <5>1
      <4>3. Source \in Node /\ Seen(Source) = 0
        <5>1. Source \in Node /\ GetDistance(Source) = 0 /\ range \in Nat
          BY <1>1, <1>2, <3>1 DEF Turns, Approached, SolverTypes
        <5> QED
          BY <5>1 DEF Seen
      <4>4. \A n \in Node : \A r \in References(n) : Bound(g, r)
        <5> SUFFICES ASSUME NEW n \in Node, NEW r \in References(n) PROVE Bound(g, r)
          OBVIOUS
        <5>1. RefFrom(r) = n /\ RefTo(r) \in Node
          BY <1>1, ReferenceFacts
        <5>2. Seen(RefTo(r)) <= Seen(n) + GetEdgeWeight(r)
          BY <3>1 DEF Spent
        <5> QED
          BY <4>2, <5>1, <5>2 DEF Bound
      <4>5. Outlines(g)
        BY <4>1, <4>2, <4>3, <4>4 DEF Outlines
      <4>6. Outlines(g)'
        <5>1. /\ g[Source'] = 0
              /\ \A n \in Node : Seen(n)' <= g[n] /\ \A r \in References(n)' : Bound(g, r)'
          BY <1>2, <1>6, <4>5, AskedStays DEF Outlines
        <5> QED
          BY <5>1 DEF Outlines
      <4> QED
        BY <4>2, <4>6
    <3>4. Swept' = {}
      BY <1>2, <1>3 DEF Swept
    <3>5. SweepInv'
      BY <3>3, <3>4 DEF SweepInv
    <3>6. Approached'
      BY <1>2, <1>3, <1>6, <3>1, <3>2, <3>5 DEF Approached
    <3> QED
      BY <1>6, <2>2, <3>6 DEF Sought
  <2> QED
    BY <2>1, <2>2
<1>8. Rows'
  BY <1>1, <1>2, <1>3, AskedStays DEF Rows
<1> QED
  BY <1>2, <1>4, <1>5, <1>7, <1>8, ManyStays DEF ManyInv

\* What a step of the sweep does to the distances.
LEMMA SweepStepInv == ASSUME ManyInv, Sweep PROVE ManyInv'
<1>1. OInv /\ OPInv /\ IInv /\ Sound /\ SolverTypes /\ Turns /\ Sought /\ Rows
  BY DEF ManyInv, OInv, OPInv, PInv
<1>2. PICK e : e = FirstDown(unswept)
  OBVIOUS
<1>3. /\ at = "sweep" /\ at' = at /\ unswept # {} /\ unswept' = unswept \ {e}
      /\ nodeFlags' = IF /\ InRange(GetDistance(RefFrom(e)) + GetEdgeWeight(e))
                         /\ GetDistance(RefFrom(e)) + GetEdgeWeight(e) < GetDistance(RefTo(e))
                        THEN F!Put(nodeFlags, RefTo(e), GetDistance(RefFrom(e)) + GetEdgeWeight(e)) ELSE nodeFlags
      /\ UNCHANGED <<orderedVars, asked>> /\ UNCHANGED <<row, heap, matrix>>
  BY <1>2 DEF Sweep
<1>4. UNCHANGED <<solver, range, sources, targets, downEdges, stage, contracted>>
  BY <1>3 DEF asked, orderedVars, contractionVars, hierarchy
<1>5. /\ OnHierarchy(solver) /\ downEdges = TargetSelection(ToSet(targets))
      /\ unswept \in SUBSET downEdges /\ downEdges \in SUBSET Refs
      /\ \A r \in downEdges : Higher(r)
  BY <1>1, <1>3 DEF SolverTypes, TargetSelection, PHASTIndex
<1>6. e \in unswept /\ \A q \in unswept : level[RefFrom(q)] <= level[RefFrom(e)]
  BY <1>1, <1>2, <1>3, <1>5, FirstDownIs
<1>7. ~Blocked /\ Approached /\ SweepInv
  BY <1>1, <1>3, <1>5 DEF Sought, Blocked, OnHierarchy, Approached
<1>8. \A r \in Refs : RefFrom(r) \in Node /\ RefTo(r) \in Node /\ GetEdgeWeight(r) \in Nat
  BY <1>1, RefFacts DEF IInv, Types
<1>9. PICK a, b \in Node : a = RefFrom(e) /\ b = RefTo(e)
  BY <1>5, <1>6, <1>8
<1>10. PICK w \in Nat : w = GetEdgeWeight(e)
  BY <1>5, <1>6, <1>8
<1>11. level \in [Node -> Nat] /\ level[a] > level[b]
  BY <1>1, <1>5, <1>6, <1>9 DEF IInv, Types, Higher
<1>12. \A n \in Node : /\ GetDistance(n) \in Nat /\ GetDistance(n) \in 0..Unreached /\ Unreached \in Nat
                       /\ Seen(n) \in Nat /\ range \in Nat
  BY <1>1, DistanceIsTyped
<1>13. /\ nodeFlags' \in NodeFlags /\ Counted(nodeFlags')
       /\ \A n \in Node : GetDistance(n)' =
            IF n = b /\ InRange(GetDistance(a) + w) /\ GetDistance(a) + w < GetDistance(b)
              THEN GetDistance(a) + w ELSE GetDistance(n)
  <2>1. \A n : GetDistance(n) = F!Get(nodeFlags, n) /\ GetDistance(n)' = F!Get(nodeFlags', n)
    BY DEF GetDistance
  <2>2. nodeFlags \in NodeFlags /\ Counted(nodeFlags)
    BY <1>1 DEF SolverTypes
  <2>3. CASE InRange(GetDistance(a) + w) /\ GetDistance(a) + w < GetDistance(b)
    <3>1. PICK d \in 0..Unreached : d = GetDistance(a) + w
      <4>1. GetDistance(a) \in Nat /\ GetDistance(b) \in 0..Unreached /\ Unreached \in Nat
        BY <1>12
      <4> QED
        BY <2>3, <4>1
    <3>2. nodeFlags' = F!Put(nodeFlags, b, d)
      BY <1>3, <1>9, <1>10, <2>3, <3>1
    <3> QED
      BY <2>1, <2>2, <2>3, <3>1, <3>2, PutFacts
  <2>4. CASE ~(InRange(GetDistance(a) + w) /\ GetDistance(a) + w < GetDistance(b))
    <3>1. nodeFlags' = nodeFlags
      BY <1>3, <1>9, <1>10, <2>4
    <3> QED
      BY <2>1, <2>2, <2>4, <3>1
  <2> QED
    BY <2>3, <2>4
<1>14. SolverTypes'
  BY <1>1, <1>3, <1>4, <1>13, AskedStays DEF SolverTypes, OnHierarchy
<1>15. Turns'
  BY <1>1, <1>3, <1>4 DEF Turns, Source
<1>16. Source' = Source /\ Blocked' = Blocked /\ Source \in Node
  BY <1>1, <1>3, <1>4 DEF Source, Blocked, Turns
<1>17. ASSUME NEW n \in Node
       PROVE  /\ GetDistance(n)' \in Nat /\ GetDistance(n)' <= GetDistance(n)
              /\ Seen(n)' \in Nat /\ Seen(n)' <= Seen(n)
              /\ n # b => GetDistance(n)' = GetDistance(n) /\ Seen(n)' = Seen(n)
  <2>1. /\ GetDistance(n)' \in Nat /\ GetDistance(n)' <= GetDistance(n)
        /\ n # b => GetDistance(n)' = GetDistance(n)
    BY <1>12, <1>13
  <2>2. /\ Seen(n) = IF GetDistance(n) <= range THEN GetDistance(n) ELSE range + 1
        /\ Seen(n)' = IF GetDistance(n)' <= range THEN GetDistance(n)' ELSE range + 1
    BY <1>4 DEF Seen
  <2> QED
    BY <1>12, <2>1, <2>2
<1>18. NoneTooNear'
  <2> SUFFICES ASSUME NEW p \in [Node -> 0..Unreached], OpenBound(p)', p[Source'] = 0, NEW m \in Node
               PROVE  p[m] <= GetDistance(m)'
    BY DEF NoneTooNear
  <2>1. OpenBound(p) /\ p[Source] = 0
    BY <1>3, <1>16, AskedStays
  <2>2. p[m] <= GetDistance(m) /\ p[a] <= GetDistance(a)
    BY <1>7, <2>1 DEF Approached, NoneTooNear
  <2>3. p[b] <= p[a] + w
    <3>1. RoadsBound(p)
      <4> SUFFICES ASSUME NEW x \in Edge PROVE p[NodeB[x]] <= p[NodeA[x]] + Weight[x]
        BY DEF RoadsBound
      <4>1. EdgeRef(x) \in OpenRoads(solver) /\ EdgeRef(x) \in Roads /\ EdgeRef(x).id = x
        BY <1>5 DEF OpenRoads, Roads, EdgeRef, OnHierarchy
      <4> QED
        BY <2>1, <4>1, RoadFacts DEF OpenBound, Bound
    <3>2. p \in [Node -> Int]
      OBVIOUS
    <3>3. Bound(p, e)
      BY <1>1, <1>5, <1>6, <3>1, <3>2 DEF Sound
    <3> QED
      BY <1>9, <1>10, <3>3 DEF Bound
  <2>4. p[m] \in Int /\ p[a] \in Int /\ p[b] \in Int
    OBVIOUS
  <2> QED
    BY <1>12, <1>13, <2>2, <2>3, <2>4
<1>19. \E f \in [Node -> 0..Unreached] : Outlines(f)'
  <2>1. PICK f \in [Node -> 0..Unreached] : Outlines(f)
    BY <1>7 DEF SweepInv
  <2>2. \A n \in Node : Seen(n)' <= f[n]
    <3> TAKE n \in Node
    <3>1. Seen(n) <= f[n] /\ f[n] \in Int
      BY <2>1 DEF Outlines
    <3> QED
      BY <1>12, <1>17, <3>1
  <2>3. f[Source'] = 0
    BY <1>16, <2>1 DEF Outlines
  <2>4. \A n \in Node : \A r \in References(n)' : Bound(f, r)'
    BY <1>3, <2>1, AskedStays DEF Outlines
  <2>5. Outlines(f)'
    BY <2>2, <2>3, <2>4 DEF Outlines
  <2> QED
    BY <2>5
<1>20. Swept' = Swept \cup {e} /\ Swept \in SUBSET Refs
  BY <1>3, <1>4, <1>5, <1>6 DEF Swept
<1>21. \A r \in Swept' : Seen(RefTo(r))' <= Seen(RefFrom(r))' + GetEdgeWeight(r)'
  <2> SUFFICES ASSUME NEW r \in Swept', NEW m \in Node, m = RefFrom(r), NEW n \in Node, n = RefTo(r)
               PROVE  Seen(n)' <= Seen(m)' + GetEdgeWeight(r)
    <3>1. \A r \in Swept' : r \in Refs
      BY <1>5, <1>6, <1>20
    <3>2. \A r : RefFrom(r)' = RefFrom(r) /\ RefTo(r)' = RefTo(r) /\ GetEdgeWeight(r)' = GetEdgeWeight(r)
      BY <1>3, AskedStays
    <3> QED
      BY <1>8, <3>1, <3>2 DEF Seen, GetDistance
  <2>1. GetEdgeWeight(r) \in Nat
    BY <1>5, <1>6, <1>8, <1>20
  <2>2. CASE r \in Swept
    <3>1. Seen(n) <= Seen(m) + GetEdgeWeight(r)
      BY <1>7, <2>2 DEF SweepInv
    <3>2. m # b
      <4>1. level[a] <= level[m]
        BY <1>6, <1>7, <1>9, <2>2 DEF SweepInv
      <4> QED
        BY <1>11, <4>1
    <3> QED
      BY <1>12, <1>17, <2>1, <3>1, <3>2
  <2>3. CASE r = e
    <3>1. m = a /\ n = b /\ GetEdgeWeight(r) = w /\ a # b
      BY <1>9, <1>10, <1>11, <2>3
    <3>2. /\ GetDistance(a)' = GetDistance(a) /\ GetDistance(a) \in Nat /\ GetDistance(b)' \in Nat
          /\ InRange(GetDistance(a) + w) => GetDistance(b)' <= GetDistance(a) + w
      BY <1>12, <1>13, <1>17, <3>1
    <3>3. ~InRange(GetDistance(a) + w) => GetDistance(a) + w > range
      BY <1>12 DEF InRange
    <3>4. /\ Seen(a)' = IF GetDistance(a)' <= range THEN GetDistance(a)' ELSE range + 1
          /\ Seen(b)' = IF GetDistance(b)' <= range THEN GetDistance(b)' ELSE range + 1
      BY <1>4 DEF Seen
    <3>5. Seen(b)' <= Seen(a)' + w
      BY <1>12, <3>2, <3>3, <3>4
    <3> QED
      BY <3>1, <3>5
  <2> QED
    BY <1>20, <2>2, <2>3
<1>22. \A r \in Swept', q \in unswept' : level[RefFrom(q)] <= level[RefFrom(r)]
  BY <1>3, <1>6, <1>7, <1>20 DEF SweepInv
<1>23. SweepInv'
  BY <1>3, <1>19, <1>21, <1>22, AskedStays DEF SweepInv
<1>24. GetDistance(Source)' = 0
  <2>1. PICK m \in Node : m = Source
    BY <1>16
  <2>2. GetDistance(m) = 0
    BY <1>7, <2>1 DEF Approached
  <2>3. GetDistance(m)' = 0
    BY <1>17, <2>2
  <2> QED
    BY <1>16, <2>1, <2>3 DEF GetDistance
<1>25. heap' = {}
  BY <1>1, <1>3 DEF Turns
<1>26. Approached'
  BY <1>3, <1>18, <1>23, <1>24, <1>25 DEF Approached
<1>27. Sought'
  BY <1>7, <1>16, <1>26 DEF Sought
<1>28. Rows'
  BY <1>1, <1>3, <1>4, AskedStays DEF Rows
<1> QED
  BY <1>3, <1>14, <1>15, <1>27, <1>28, ManyStays DEF ManyInv

-----------------------------------------------------------------------------
(* A row. *)

\* The roads of a solver as arcs.
LEMMA OpenRoadsAre ==
  ASSUME NEW arcs, arcs = {Arc(r) : r \in OpenRoads(solver)}
  PROVE  /\ arcs \in SUBSET ArcsOn(Node)
         /\ \A p : Bounds(p, arcs) <=> OpenBound(p)
<1>1. \A r \in OpenRoads(solver) :
        /\ RefFrom(r) \in Node /\ RefTo(r) \in Node /\ GetEdgeWeight(r) \in Nat
        /\ Arc(r) = [from |-> RefFrom(r), to |-> RefTo(r), weight |-> GetEdgeWeight(r)]
  BY RoadFacts DEF OpenRoads, Arc
<1>2. arcs \in SUBSET ArcsOn(Node)
  BY <1>1 DEF ArcsOn
<1>3. \A p : Bounds(p, arcs) <=> OpenBound(p)
  BY <1>1 DEF Bounds, OpenBound, Bound
<1> QED
  BY <1>2, <1>3

\* When all is swept, a potential bounds what is seen of a target.
LEMMA SeenIsBounded ==
  ASSUME ManyInv, at = "sweep", unswept = {}, ~Blocked,
         NEW t \in Node, t \in ToSet(targets), t # NoNode
  PROVE  \E q \in [Node -> Int] : /\ OpenBound(q) /\ q[Source] <= 0
                                  /\ q[t] <= Unreached /\ Seen(t) <= q[t]
<1>1. IInv /\ Types /\ Extendable /\ SolverTypes /\ Turns /\ Source \in Node /\ stage = "done" /\ contracted = Node
  BY DEF ManyInv, OInv, OPInv, PInv, Turns, IInv
<1>2. Approached /\ SweepInv
  BY DEF ManyInv, Sought, Approached
<1>3. PICK f \in [Node -> 0..Unreached] : Outlines(f)
  BY <1>2 DEF SweepInv
<1>4. \A n \in Node : /\ Seen(n) \in Nat /\ Seen(n) \in 0..Unreached /\ Unreached \in Nat
                      /\ Seen(n) <= f[n] /\ f[n] \in 0..Unreached
  BY <1>1, <1>3, DistanceIsTyped DEF Outlines
<1>5. f \in [Node -> Int] /\ f[Source] <= 0 /\ f[t] <= Unreached
  <2>1. f[Source] = 0 /\ f[t] \in 0..Unreached /\ Unreached \in Nat
    BY <1>3, <1>4 DEF Outlines
  <2>2. f \in [Node -> Int]
    OBVIOUS
  <2> QED
    BY <2>1, <2>2
<1>6. CASE ~OnHierarchy(solver)
  <2>1. OpenBound(f)
    BY <1>1, <1>3, <1>6, OpenIsFollowed DEF OpenBound, Outlines
  <2> QED
    BY <1>4, <1>5, <2>1
<1>7. CASE OnHierarchy(solver)
  <2>1. PICK A : A = Above(ToSet(targets))
    OBVIOUS
  <2>2. /\ t \in A /\ A \subseteq Node
        /\ \A r \in Refs : Higher(r) /\ RefTo(r) \in A => RefFrom(r) \in A /\ r \in Swept
    <3>1. ToSet(targets) \in SUBSET (Node \cup {NoNode})
      BY <1>1 DEF SolverTypes, ToSet
    <3>2. Swept = TargetSelection(ToSet(targets))
      BY <1>1, <1>7 DEF Swept, SolverTypes
    <3> QED
      BY <1>1, <2>1, <3>1, <3>2, AboveFacts
  <2>3. PICK c \in 0..Unlabelled : c = Seen(t)
    BY <1>4, ManyAssumption, ContractionAssumption
  <2>4. PICK b \in Potential :
          \A n \in Node : b[n] = IF n \in A THEN IF Seen(n) <= c THEN c - Seen(n) ELSE 0 ELSE c
    <3> DEFINE back == [n \in Node |-> IF n \in A THEN IF Seen(n) <= c THEN c - Seen(n) ELSE 0 ELSE c]
    <3>1. \A n \in Node : back[n] \in 0..Unlabelled
      BY <1>4, ContractionAssumption
    <3>2. back \in Potential
      <4>1. back = [n \in Node |-> back[n]]
        OBVIOUS
      <4> HIDE DEF back
      <4> QED
        BY <3>1, <4>1 DEF Potential
    <3> QED
      BY <3>2
  <2>5. f \in Potential
    BY <1>3, ManyAssumption, ContractionAssumption DEF Potential
  <2>6. \A r \in Refs : RefFrom(r) \in Node /\ RefTo(r) \in Node /\ GetEdgeWeight(r) \in Nat
    BY <1>1, RefFacts DEF Types
  <2>7. Climbs(f)
    <3> SUFFICES ASSUME NEW r \in Refs, ClimbsFrom(RefFrom(r), RefTo(r)) PROVE Bound(f, r)
      BY DEF Climbs
    <3>1. PICK m, n \in Node : m = RefFrom(r) /\ n = RefTo(r)
      BY <2>6
    <3>2. level[m] < level[n] /\ level[m] \in Nat /\ level[n] \in Nat
      BY <1>1, <3>1 DEF ClimbsFrom, Types
    <3>3. r \in References(m)
      <4>1. level[n] > level[m]
        BY <3>2
      <4> QED
        BY <1>7, <3>1, <4>1 DEF References, OnHierarchy
    <3> QED
      BY <1>3, <3>3 DEF Outlines
  <2>8. ClimbsBack(b)
    <3> SUFFICES ASSUME NEW r \in Refs, ClimbsFrom(RefTo(r), RefFrom(r))
                 PROVE  b[RefFrom(r)] <= b[RefTo(r)] + GetEdgeWeight(r)
      BY DEF ClimbsBack
    <3>1. PICK m, n \in Node : m = RefFrom(r) /\ n = RefTo(r)
      BY <2>6
    <3>2. PICK w \in Nat : w = GetEdgeWeight(r)
      BY <2>6
    <3>3. Higher(r)
      <4>1. level[n] < level[m] /\ level[m] \in Nat /\ level[n] \in Nat
        BY <1>1, <3>1 DEF ClimbsFrom, Types
      <4>2. level[m] > level[n]
        BY <4>1
      <4> QED
        BY <3>1, <4>2 DEF Higher
    <3>4. Seen(m) \in Nat /\ Seen(n) \in Nat /\ c \in Nat
      BY <1>4, <2>3
    <3>5. CASE n \in A
      <4>1. m \in A /\ Seen(n) <= Seen(m) + w
        BY <1>2, <2>2, <3>1, <3>2, <3>3, <3>5 DEF SweepInv
      <4>2. b[m] <= b[n] + w
        BY <2>4, <3>2, <3>4, <3>5, <4>1
      <4> QED
        BY <3>1, <3>2, <4>2
    <3>6. CASE n \notin A
      <4>1. b[m] <= c /\ b[n] = c
        BY <2>4, <3>4, <3>6
      <4>2. b[m] <= b[n] + w
        BY <2>4, <3>2, <3>4, <4>1
      <4> QED
        BY <3>1, <3>2, <4>2
    <3> QED
      BY <3>5, <3>6
  <2>9. ASSUME NEW n \in Node PROVE f[n] + b[n] >= c
    <3>1. Seen(n) \in Nat /\ Seen(n) <= f[n] /\ f[n] \in Nat /\ c \in Nat
      BY <1>4, <2>3
    <3> QED
      BY <2>4, <3>1
  <2>10. PICK q \in Potential : RoadsBound(q) /\ Between(q, f, b, c, Node)
    <3>1. Remaining = {} /\ Among(Remaining) = {}
      BY <1>1 DEF Remaining, Among
    <3>2. Frames(f, b, c)
      BY <1>1, <2>7, <2>8, <2>9 DEF Frames
    <3>3. Between(f, f, b, c, Remaining) /\ \A r \in Among(Remaining) : Bound(f, r)
      BY <3>1 DEF Between
    <3> QED
      BY <1>1, <2>4, <2>5, <3>2, <3>3 DEF Extendable, Completed
  <2>11. OpenBound(q)
    <3> SUFFICES ASSUME NEW r \in OpenRoads(solver) PROVE Bound(q, r)
      BY DEF OpenBound
    <3>1. r \in Roads
      BY DEF OpenRoads
    <3> QED
      BY <2>10, <3>1, RoadFacts DEF RoadsBound, Bound
  <2>12. q[Source] <= f[Source] /\ q[t] <= f[t] /\ q[t] + b[t] >= c
    BY <1>1, <2>10 DEF Between
  <2>13. b[t] = 0
    BY <1>4, <2>2, <2>3, <2>4
  <2>14. q \in [Node -> Int] /\ q[t] \in Int /\ q[Source] \in Int
    BY <1>1 DEF Potential
  <2>15. q[Source] <= 0 /\ q[t] <= Unreached /\ c <= q[t]
    <3>1. f[t] \in Int /\ f[Source] \in Int /\ Unreached \in Nat /\ c \in Int
      BY <1>1, <1>4, <2>3
    <3> QED
      BY <1>5, <2>12, <2>13, <2>14, <3>1
  <2> QED
    BY <2>3, <2>11, <2>14, <2>15
<1> QED
  BY <1>6, <1>7

\* When all is swept, the flags of the targets say their distances.
LEMMA CellIsRight ==
  ASSUME ManyInv, at = "sweep", unswept = {}, NEW t \in Node, t \in ToSet(targets), t # NoNode,
         NEW d, d = TrueDistances(Source)[t], Source # NoNode
  PROVE  Cell(t) = IF d > range THEN -1 ELSE d
<1>1. SolverTypes /\ Turns /\ Source \in Node /\ range \in Nat /\ GetDistance(t) \in Nat
  <2>1. SolverTypes /\ Turns /\ Source \in Node
    BY DEF ManyInv, Turns
  <2> QED
    BY <2>1, DistanceIsTyped
<1>2. Cell(t) = IF GetDistance(t) > range THEN -1 ELSE GetDistance(t)
  BY DEF Cell
<1>3. CASE Blocked
  <2>1. GetDistance(t) = Unreached /\ d = Unreached
    BY <1>3 DEF ManyInv, Sought, TrueDistances, Blocked
  <2> QED
    BY <1>2, <2>1
<1>4. CASE ~Blocked
  <2>1. PICK arcs : arcs = {Arc(r) : r \in OpenRoads(solver)}
    OBVIOUS
  <2>2. arcs \in SUBSET ArcsOn(Node) /\ \A p : Bounds(p, arcs) <=> OpenBound(p)
    BY <2>1, OpenRoadsAre
  <2>3. PICK D : D = DistancesFrom(Source, Node, arcs, Unreached)
    OBVIOUS
  <2>4. d = D[t]
    BY <1>4, <2>1, <2>3 DEF TrueDistances, Blocked
  <2>5. Unreached \in Nat /\ IsFiniteSet(Node)
    BY ManyAssumption, ContractionAssumption, NodesAssumption
  <2>6. D \in [Node -> 0..Unreached] /\ D[Source] = 0 /\ OpenBound(D)
    <3>1. D \in [Node -> 0..Unreached] /\ D[Source] = 0 /\ Bounds(D, arcs)
      BY <1>1, <2>2, <2>3, <2>5, DistancesArePotential
    <3> QED
      BY <2>2, <3>1
  <2>7. D[t] <= GetDistance(t)
    BY <1>4, <2>6 DEF ManyInv, Sought, Approached, NoneTooNear
  <2>8. PICK q \in [Node -> Int] : OpenBound(q) /\ q[Source] <= 0 /\ q[t] <= Unreached /\ Seen(t) <= q[t]
    BY <1>4, SeenIsBounded
  <2>9. q[t] <= D[t]
    <3>1. Bounds(q, arcs)
      BY <2>2, <2>8
    <3> QED
      BY <1>1, <2>2, <2>3, <2>5, <2>8, <3>1, DistancesAreGreatest
  <2>10. Seen(t) = IF GetDistance(t) <= range THEN GetDistance(t) ELSE range + 1
    BY DEF Seen
  <2>11. D[t] \in Int /\ q[t] \in Int
    BY <2>6
  <2> QED
    BY <1>1, <1>2, <2>4, <2>7, <2>8, <2>9, <2>10, <2>11
<1> QED
  BY <1>3, <1>4

LEMMA WriteRowInv == ASSUME ManyInv, WriteRow PROVE ManyInv'
<1>1. OInv /\ OPInv /\ IInv /\ SolverTypes /\ Turns /\ Rows
  BY DEF ManyInv, OInv
<1>2. /\ at = "sweep" /\ unswept = {} /\ at' = "worker"
      /\ matrix' = Append(matrix, [t \in DOMAIN targets |-> Cell(targets[t])])
      /\ UNCHANGED <<orderedVars, asked>> /\ UNCHANGED <<unswept, nodeFlags, row, heap>>
  BY DEF WriteRow
<1>3. UNCHANGED <<solver, range, sources, targets, downEdges, stage, contracted>>
  BY <1>2 DEF asked, orderedVars, contractionVars, hierarchy
<1>4. PICK cells : cells = [t \in DOMAIN targets |-> Cell(targets[t])]
  OBVIOUS
<1>5. \A j \in DOMAIN targets : targets[j] \in Node \cup {NoNode} /\ targets[j] \in ToSet(targets)
  BY <1>1 DEF SolverTypes, ToSet
<1>6. Source \in Node /\ Source # NoNode /\ heap = {} /\ Len(matrix) = row - 1 /\ row \in Nat
  BY <1>1, <1>2, GraphAssumption DEF Turns, SolverTypes
<1>7. cells \in [DOMAIN targets -> Int]
  <2>1. \A t \in Node \cup {NoNode} : Cell(t) \in Int
    <3> TAKE t \in Node \cup {NoNode}
    <3>1. t \in Node => GetDistance(t) \in Nat
      BY <1>1, DistanceIsTyped
    <3> QED
      BY <3>1 DEF Cell
  <2> QED
    BY <1>4, <1>5, <2>1
<1>8. matrix \in Seq([DOMAIN targets -> Int]) /\ matrix' = Append(matrix, cells)
  BY <1>1, <1>2, <1>4 DEF SolverTypes
<1>9. /\ matrix' \in Seq([DOMAIN targets -> Int]) /\ Len(matrix') = row
      /\ \A i \in DOMAIN matrix' : IF i = row THEN matrix'[i] = cells
                                              ELSE i \in DOMAIN matrix /\ matrix'[i] = matrix[i]
  BY <1>6, <1>7, <1>8
<1>10. SolverTypes'
  BY <1>1, <1>2, <1>3, <1>9, AskedStays DEF SolverTypes, OnHierarchy
<1>11. Turns'
  BY <1>1, <1>2, <1>3, <1>6, <1>9 DEF Turns, Source
<1>12. RowIs(cells, Source)
  <2> SUFFICES ASSUME NEW j \in DOMAIN targets
               PROVE  cells[j] = IF NoNode \in {Source, targets[j]} \/ TrueDistances(Source)[targets[j]] > range
                                   THEN -1 ELSE TrueDistances(Source)[targets[j]]
    BY DEF RowIs
  <2>1. PICK t : t = targets[j]
    OBVIOUS
  <2>2. cells[j] = Cell(t)
    BY <1>4, <2>1
  <2>3. CASE t = NoNode
    BY <2>1, <2>2, <2>3 DEF Cell
  <2>4. CASE t # NoNode
    <3>1. PICK d : d = TrueDistances(Source)[t]
      OBVIOUS
    <3>2. t \in Node /\ t \in ToSet(targets)
      BY <1>5, <2>1, <2>4
    <3>3. Cell(t) = IF d > range THEN -1 ELSE d
      BY <1>2, <1>6, <2>4, <3>1, <3>2, CellIsRight
    <3> QED
      BY <1>6, <2>1, <2>2, <2>4, <3>1, <3>3
  <2> QED
    BY <2>3, <2>4
<1>13. Rows'
  <2> SUFFICES ASSUME NEW i \in DOMAIN matrix' PROVE RowIs(matrix'[i], sources[i])
    BY <1>2, <1>3, AskedStays DEF Rows
  <2>1. CASE i = row
    BY <1>9, <1>12, <2>1 DEF Source
  <2>2. CASE i # row
    BY <1>1, <1>9, <2>2 DEF Rows
  <2> QED
    BY <2>1, <2>2
<1>14. Sought'
  BY <1>2 DEF Sought
<1> QED
  BY <1>2, <1>10, <1>11, <1>13, <1>14, ManyStays DEF ManyInv

-----------------------------------------------------------------------------
(* The worker. *)

LEMMA TakeSourceInv == ASSUME ManyInv, TakeSource PROVE ManyInv'
<1>1. OInv /\ OPInv /\ IInv /\ SolverTypes /\ Turns /\ Rows
  BY DEF ManyInv, OInv
<1>2. /\ at = "worker" /\ row < Len(sources) /\ row' = row + 1
      /\ UNCHANGED <<orderedVars, asked>> /\ UNCHANGED unswept
  BY DEF TakeSource
<1>3. UNCHANGED <<solver, range, sources, targets, downEdges, stage, contracted>>
  BY <1>2 DEF asked, orderedVars, contractionVars, hierarchy
<1>4. /\ heap = {} /\ Len(matrix) = row /\ row \in Nat /\ row' \in 0..Len(sources) /\ row' >= 1
      /\ sources \in Seq(Node \cup {NoNode}) /\ matrix \in Seq([DOMAIN targets -> Int])
      /\ stage = "done" /\ contracted = Node
  BY <1>1, <1>2 DEF SolverTypes, Turns
<1>5. PICK s : s = sources[row']
  OBVIOUS
<1>6. s \in Node \cup {NoNode} /\ Source' = s
  BY <1>3, <1>4, <1>5 DEF Source
<1>7. CASE s = NoNode
  <2>1. /\ matrix' = Append(matrix, [t \in DOMAIN targets |-> -1])
        /\ UNCHANGED <<nodeFlags, heap, at>>
    BY <1>5, <1>7 DEF TakeSource
  <2>2. PICK cells \in [DOMAIN targets -> Int] : cells = [t \in DOMAIN targets |-> -1]
    <3>1. -1 \in Int
      OBVIOUS
    <3>2. [t \in DOMAIN targets |-> -1] \in [DOMAIN targets -> Int]
      BY <3>1, Zenon
    <3> QED
      BY <3>2, Zenon
  <2>3. matrix' = Append(matrix, cells)
    BY <2>1, <2>2
  <2>4. /\ matrix' \in Seq([DOMAIN targets -> Int]) /\ Len(matrix') = row'
        /\ \A i \in DOMAIN matrix' : IF i = row' THEN matrix'[i] = cells
                                                 ELSE i \in DOMAIN matrix /\ matrix'[i] = matrix[i]
    BY <1>2, <1>4, <2>3
  <2>5. SolverTypes'
    BY <1>1, <1>2, <1>3, <1>4, <2>1, <2>4, AskedStays DEF SolverTypes, OnHierarchy
  <2>6. Turns'
    BY <1>1, <1>2, <1>3, <1>4, <2>1, <2>4 DEF Turns
  <2>7. RowIs(cells, s)
    BY <1>7, <2>2 DEF RowIs
  <2>8. Rows'
    <3> SUFFICES ASSUME NEW i \in DOMAIN matrix' PROVE RowIs(matrix'[i], sources[i])
      BY <1>2, <1>3, AskedStays DEF Rows
    <3>1. CASE i = row'
      BY <1>5, <2>4, <2>7, <3>1
    <3>2. CASE i # row'
      BY <1>1, <2>4, <3>2 DEF Rows
    <3> QED
      BY <3>1, <3>2
  <2>9. Sought'
    BY <1>2, <2>1 DEF Sought
  <2> QED
    BY <1>2, <2>5, <2>6, <2>8, <2>9, ManyStays DEF ManyInv
<1>8. CASE s # NoNode
  <2>1. Begin(s) /\ at' = "search" /\ matrix' = matrix /\ s \in Node
    BY <1>5, <1>6, <1>8 DEF TakeSource
  <2>2. PICK fresh : fresh = F!Reset(nodeFlags)
    OBVIOUS
  <2>3. fresh \in NodeFlags /\ Counted(fresh) /\ \A n \in Node : F!Get(fresh, n) = Unreached
    BY <1>1, <2>2, ResetFacts DEF SolverTypes
  <2>4. Unreached \in Nat /\ 0 \in 0..Unreached /\ range \in Nat
    BY <1>1, ManyAssumption, ContractionAssumption DEF SolverTypes
  <2>5. Blocked' <=> solver = "avoid" /\ s \in AvoidedNodes
    BY <1>3, <1>6 DEF Blocked
  <2>6. Turns'
    BY <1>1, <1>2, <1>3, <1>4, <1>6, <2>1 DEF Turns
  <2>7. Rows'
    BY <1>1, <1>2, <1>3, <2>1, AskedStays DEF Rows
  <2>8. \A n : GetDistance(n)' = F!Get(nodeFlags', n)
    BY DEF GetDistance
  <2>9. CASE Blocked'
    <3>1. nodeFlags' = fresh /\ heap' = heap
      BY <2>1, <2>2, <2>5, <2>9 DEF Begin
    <3>2. SolverTypes'
      BY <1>1, <1>2, <1>3, <1>4, <2>1, <2>3, <3>1, AskedStays DEF SolverTypes, OnHierarchy
    <3>3. Sought'
      BY <1>4, <2>3, <2>8, <2>9, <3>1 DEF Sought
    <3> QED
      BY <1>2, <2>6, <2>7, <3>2, <3>3, ManyStays DEF ManyInv
  <2>10. CASE ~Blocked'
    <3>1. nodeFlags' = F!Put(fresh, s, 0) /\ heap' = {[node |-> s, dist |-> 0]}
      BY <2>1, <2>2, <2>5, <2>10 DEF Begin
    <3>2. /\ nodeFlags' \in NodeFlags /\ Counted(nodeFlags')
          /\ \A n \in Node : GetDistance(n)' = IF n = s THEN 0 ELSE Unreached
      BY <2>1, <2>3, <2>4, <2>8, <3>1, PutFacts
    <3>3. SolverTypes'
      BY <1>1, <1>2, <1>3, <1>4, <2>1, <3>1, <3>2, AskedStays DEF SolverTypes, OnHierarchy
    <3>4. NoneTooNear'
      <4> SUFFICES ASSUME NEW p \in [Node -> 0..Unreached], p[s] = 0, NEW n \in Node
                   PROVE  p[n] <= GetDistance(n)'
        BY <1>6 DEF NoneTooNear
      <4>1. p[n] <= Unreached
        BY <2>4
      <4> QED
        BY <2>4, <3>2, <4>1
    <3>5. GetDistance(Source)' = 0
      BY <1>6, <2>1, <3>2 DEF GetDistance
    <3>6. ASSUME NEW n \in Node PROVE [node |-> n, dist |-> GetDistance(n)'] \in heap' \/ Spent(n)'
      <4>1. CASE n = s
        BY <3>1, <3>2, <4>1
      <4>2. CASE n # s
        <5> SUFFICES ASSUME NEW r \in References(n) PROVE Seen(RefTo(r))' <= Seen(n)' + GetEdgeWeight(r)
          BY <1>2, AskedStays DEF Spent
        <5>1. PICK m \in Node : m = RefTo(r)
          BY <1>1, ReferenceFacts
        <5>2. PICK w \in Nat : w = GetEdgeWeight(r)
          BY <1>1, ReferenceFacts
        <5>3. /\ Seen(m)' = IF GetDistance(m)' <= range THEN GetDistance(m)' ELSE range + 1
              /\ Seen(n)' = IF GetDistance(n)' <= range THEN GetDistance(n)' ELSE range + 1
          BY <1>3 DEF Seen
        <5>4. Seen(m)' <= Seen(n)' + w
          BY <2>4, <3>2, <4>2, <5>3
        <5>5. RefTo(r)' = m
          BY <1>2, <5>1, AskedStays
        <5> QED
          BY <5>2, <5>4, <5>5 DEF Seen, GetDistance
      <4> QED
        BY <4>1, <4>2
    <3>7. \A i \in heap' : GetDistance(i.node)' <= i.dist /\ (solver' = "avoid" => i.node \notin AvoidedNodes)
      BY <1>3, <2>1, <2>5, <2>10, <3>1, <3>2
    <3>8. Approached'
      BY <2>1, <3>4, <3>5, <3>6, <3>7 DEF Approached
    <3>9. Sought'
      BY <2>10, <3>8 DEF Sought
    <3> QED
      BY <1>2, <2>6, <2>7, <3>3, <3>9, ManyStays DEF ManyInv
  <2> QED
    BY <2>9, <2>10
<1> QED
  BY <1>7, <1>8

LEMMA AnswerInv == ASSUME ManyInv, Answer PROVE ManyInv'
<1>1. OInv /\ OPInv /\ SolverTypes /\ Turns /\ Rows
  BY DEF ManyInv
<1>2. /\ at = "worker" /\ at' = "answered"
      /\ UNCHANGED <<orderedVars, asked>> /\ UNCHANGED <<unswept, nodeFlags, row, heap, matrix>>
  BY DEF Answer
<1>3. UNCHANGED <<solver, range, sources, targets, downEdges, stage, contracted>>
  BY <1>2 DEF asked, orderedVars, contractionVars, hierarchy
<1>4. SolverTypes'
  BY <1>1, <1>2, <1>3, AskedStays DEF SolverTypes, OnHierarchy
<1>5. Turns'
  BY <1>1, <1>2, <1>3 DEF Turns
<1>6. Rows' /\ Sought'
  BY <1>1, <1>2, <1>3, AskedStays DEF Rows, Sought
<1> QED
  BY <1>2, <1>4, <1>5, <1>6, ManyStays DEF ManyInv

LEMMA MatrixRequestInv ==
  ASSUME ManyInv, NEW kind \in Solvers, NEW limited \in Ranges, NEW places \in Requests,
         HandleMatrixRequest(kind, limited, places)
  PROVE  ManyInv'
<1>1. OInv /\ OPInv /\ SolverTypes /\ Turns
  BY DEF ManyInv
<1>2. /\ stage = "done" /\ at = "none" /\ at' = "worker"
      /\ solver' = kind /\ range' = limited /\ sources' = places[1] /\ targets' = places[2]
      /\ downEdges' = IF OnHierarchy(kind) THEN TargetSelection(ToSet(places[2])) ELSE {}
      /\ UNCHANGED orderedVars /\ UNCHANGED <<unswept, nodeFlags, row, heap, matrix>>
  BY DEF HandleMatrixRequest
<1>3. /\ kind \in {"dijkstra", "avoid", "phast", "range"} /\ limited \in Nat
      /\ places[1] \in Seq(Node \cup {NoNode}) /\ places[2] \in Seq(Node \cup {NoNode})
  BY ManyAssumption
<1>4. /\ UNCHANGED <<stage, contracted>> /\ matrix = <<>> /\ heap = {} /\ row = 0 /\ unswept = {}
  BY <1>1, <1>2 DEF SolverTypes, OnHierarchy, Turns, orderedVars, contractionVars, hierarchy
<1>5. TargetSelection(ToSet(places[2]))' = TargetSelection(ToSet(places[2]))
  <2>1. /\ Refs' = Refs /\ level' = level
        /\ \A r : RefFrom(r)' = RefFrom(r) /\ RefTo(r)' = RefTo(r)
    BY <1>2, RefsStay DEF orderedVars, contractionVars, hierarchy
  <2>2. \A r : Higher(r)' <=> Higher(r)
    BY <2>1 DEF Higher
  <2>3. PHASTIndex' = PHASTIndex
    BY <2>1, <2>2 DEF PHASTIndex
  <2>4. \A nodes : Above(nodes)' = Above(nodes)
    BY <2>1, <2>3 DEF Above
  <2> QED
    BY <2>1, <2>3, <2>4 DEF TargetSelection
<1>6. SolverTypes'
  <2>1. matrix' \in Seq([DOMAIN targets' -> Int])
    BY <1>2, <1>4
  <2>2. row' \in 0..Len(sources')
    BY <1>2, <1>3, <1>4
  <2>3. downEdges' = IF OnHierarchy(solver)' THEN TargetSelection(ToSet(targets))' ELSE {}
    <3>1. TargetSelection(ToSet(targets))' = TargetSelection(ToSet(places[2]))
      <4>1. TargetSelection(ToSet(targets))' = TargetSelection(ToSet(places[2]))'
        BY <1>2 DEF TargetSelection, Above, PHASTIndex, ToSet
      <4> QED
        BY <1>5, <4>1
    <3> QED
      BY <1>2, <3>1 DEF OnHierarchy
  <2> QED
    BY <1>1, <1>2, <1>3, <1>4, <2>1, <2>2, <2>3 DEF SolverTypes
<1>7. Turns'
  BY <1>1, <1>2, <1>4 DEF Turns
<1>8. Rows' /\ Sought'
  BY <1>2, <1>4 DEF Rows, Sought
<1> QED
  BY <1>2, <1>6, <1>7, <1>8, ManyStays DEF ManyInv

\* While the graph is contracted there is no request, and when it is done there
\* is nothing left to contract.
LEMMA BuildInv == ASSUME ManyInv, Build PROVE ManyInv'
<1>1. /\ OInv /\ OPInv /\ SolverTypes /\ Turns /\ OrderedNext
      /\ UNCHANGED asked /\ UNCHANGED <<unswept, nodeFlags, row, heap, matrix, at>>
  BY DEF ManyInv, Build, manyVars
<1>2. stage # "done" /\ (stage' = "done" => contracted' = Node)
  BY <1>1 DEF OrderedNext, PassOver, Take, TakeGiven, TakeRefreshed, NextRound, Rate, CountShortcuts, Rated,
     Ready, Search, StartSearch, SearchStep, SearchEnds, Add, AddShortcuts, Goes, Contracted, Panic, Choose,
     contractionVars, hierarchy
<1>3. at = "none" /\ at' = "none"
  BY <1>1, <1>2 DEF Turns
<1>4. UNCHANGED <<solver, range, sources, targets, downEdges>>
  BY <1>1 DEF asked
<1>5. solver = "dijkstra" /\ ~OnHierarchy(solver)
  BY <1>1, <1>3 DEF Turns, OnHierarchy
<1>6. SolverTypes'
  BY <1>1, <1>4, <1>5 DEF SolverTypes, OnHierarchy
<1>7. Turns'
  BY <1>1, <1>2, <1>3, <1>4 DEF Turns
<1>8. Rows' /\ Sought'
  BY <1>1, <1>3 DEF Turns, Rows, Sought
<1>9. OInv' /\ OPInv'
  BY <1>1, OrderedStep, OrderedPotentialsStep
<1> QED
  BY <1>6, <1>7, <1>8, <1>9 DEF ManyInv

LEMMA ManyStutters == ASSUME ManyInv, UNCHANGED allVars PROVE ManyInv'
<1>1. OInv /\ OPInv /\ SolverTypes /\ Turns /\ Sought /\ Rows
  BY DEF ManyInv
<1>2. UNCHANGED <<orderedVars, asked>> /\ UNCHANGED <<unswept, nodeFlags, row, heap, matrix, at>>
  BY DEF allVars, manyVars
<1>3. UNCHANGED <<solver, range, sources, targets, downEdges, stage, contracted>>
  BY <1>2 DEF asked, orderedVars, contractionVars, hierarchy
<1>4. SolverTypes'
  BY <1>1, <1>2, <1>3, AskedStays DEF SolverTypes, OnHierarchy
<1>5. Turns'
  BY <1>1, <1>2, <1>3 DEF Turns, Source
<1>6. /\ \A n : GetDistance(n)' = GetDistance(n) /\ Seen(n)' = Seen(n)
      /\ Source' = Source /\ Blocked' = Blocked /\ Swept' = Swept
  BY <1>2, <1>3 DEF GetDistance, Seen, Source, Blocked, Swept
<1>7. Approached => Approached'
  <2> SUFFICES ASSUME Approached PROVE Approached'
    OBVIOUS
  <2>1. NoneTooNear'
    BY <1>2, <1>6, AskedStays DEF Approached, NoneTooNear
  <2>2. \A n : Spent(n)' <=> Spent(n)
    BY <1>2, <1>6, AskedStays DEF Spent
  <2>3. \A f : Outlines(f)' <=> Outlines(f)
    BY <1>2, <1>6, AskedStays DEF Outlines
  <2>4. SweepInv => SweepInv'
    BY <1>2, <1>6, <2>3, AskedStays DEF SweepInv
  <2> QED
    BY <1>2, <1>3, <1>6, <2>1, <2>2, <2>4 DEF Approached
<1>8. Sought'
  BY <1>1, <1>2, <1>6, <1>7 DEF Sought
<1>9. Rows'
  BY <1>1, <1>2, <1>3, AskedStays DEF Rows
<1> QED
  BY <1>2, <1>4, <1>5, <1>8, <1>9, ManyStays DEF ManyInv

LEMMA ManyStarts == ManyInit => ManyInv
<1> SUFFICES ASSUME ManyInit PROVE ManyInv
  OBVIOUS
<1>1. /\ OrderInit /\ solver = "dijkstra" /\ range = 0 /\ sources = <<>> /\ targets = <<>>
      /\ downEdges = {} /\ unswept = {} /\ nodeFlags = F!NewFlags(Node, Unreached)
      /\ row = 0 /\ heap = {} /\ matrix = <<>> /\ at = "none"
  BY DEF ManyInit
<1>2. OInv /\ OPInv
  BY <1>1, OrderedStarts, OrderedPotentialsStart
<1>3. stage = "choose"
  BY <1>1 DEF OrderInit, ContractionInit
<1>4. nodeFlags \in NodeFlags /\ Counted(nodeFlags)
  <2>1. PICK e : e = [n \in Node |-> [data |-> Unreached, count |-> 0]]
    OBVIOUS
  <2>2. nodeFlags = [entries |-> e, default |-> Unreached, count |-> 0]
    BY <1>1, <2>1 DEF F!NewFlags, F!Entry
  <2>3. e \in [Node -> [data : 0..Unreached, count : Nat]] /\ \A n \in Node : e[n].count = 0
    <3>1. Unreached \in 0..Unreached
      BY ManyAssumption, ContractionAssumption
    <3> QED
      BY <2>1, <3>1
  <2> QED
    BY <2>2, <2>3 DEF NodeFlags, Counted
<1>5. SolverTypes
  BY <1>1, <1>4 DEF SolverTypes, OnHierarchy
<1>6. Turns /\ Sought /\ Rows
  BY <1>1, <1>3 DEF Turns, Sought, Rows
<1> QED
  BY <1>2, <1>5, <1>6 DEF ManyInv

LEMMA ManyInductive == ManySpec => []ManyInv
<1>1. ASSUME ManyInv, [ManyNext]_allVars PROVE ManyInv'
  <2>1. ASSUME NEW i \in heap, SkipItem(i) \/ Visit(i) PROVE ManyInv'
    BY <1>1, <2>1, SkipItemInv, VisitInv
  <2>2. CASE Work
    BY <1>1, <2>1, <2>2, TakeSourceInv, AnswerInv, SearchDoneInv, SweepStepInv, WriteRowInv DEF Work
  <2>3. CASE Build
    BY <1>1, <2>3, BuildInv
  <2>4. ASSUME NEW kind \in Solvers, NEW r \in Ranges, NEW places \in Requests,
               HandleMatrixRequest(kind, r, places)
        PROVE  ManyInv'
    BY <1>1, <2>4, MatrixRequestInv
  <2>5. CASE UNCHANGED allVars
    BY <1>1, <2>5, ManyStutters
  <2> QED
    BY <1>1, <2>2, <2>3, <2>4, <2>5 DEF ManyNext
<1> QED
  BY <1>1, ManyStarts, PTL DEF ManySpec

(***************************************************************************)
(* Of every graph, with whatever levels and shortcuts its hierarchy was    *)
(* made by any of the seven functions, for every solver, every range, all  *)
(* sources and targets and whatever the flags still hold: each cell of the *)
(* answer is the distance of the roads that are open to the solver, and -1 *)
(* when that is beyond the range or the source or the target is near none. *)
(***************************************************************************)
THEOREM MatrixAlwaysRight == ManySpec => []MatrixIsRight
<1>1. ManyInv => MatrixIsRight
  BY DEF ManyInv, Rows, RowIs, MatrixIsRight
<1> QED
  BY <1>1, ManyInductive, PTL
=============================================================================
