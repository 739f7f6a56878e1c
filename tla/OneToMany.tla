----------------------------- MODULE OneToMany -----------------------------
(***************************************************************************)
(* matrix.go over batched/onetomany: a request for the distances from each *)
(* of the sources to each of the targets.  The sources are in a channel;   *)
(* one worker takes them out, has its solver search from each, and writes  *)
(* a row of the matrix.  The solver keeps its flags from one source to the *)
(* next.  The kinds of solver:                                             *)
(*   "dijkstra"  range_dijkstra.go                                         *)
(*   "avoid"     avoid_dijkstra.go, past avoided roads and an avoided area *)
(*   "phast"     rphast.go, without a range                                *)
(*   "range"     range_rphast.go                                           *)
(* The last two climb the hierarchy from the source and then sweep its     *)
(* down edges from the highest level to the lowest, as far as they can     *)
(* lead to a target.                                                       *)
(***************************************************************************)
EXTENDS ContractionOrder

CONSTANTS Solvers,   \* the kinds explored
          Ranges,    \* the ranges asked for
          Requests,  \* pairs of sources and targets: sequences of nodes, or
                     \* NoNode for a place that is near none
          AvoidedEdges, AvoidedNodes,
          Unreached, \* the first distance of a flag
          MaxCount   \* of the flags, before they start over

F == INSTANCE Flags

ASSUME ManyAssumption ==
  /\ Solvers \subseteq {"dijkstra", "avoid", "phast", "range"}
  /\ Ranges \subseteq Nat /\ Unreached \in 0..Unlabelled /\ MaxCount \in Nat
  /\ Requests \subseteq Seq(Node \cup {NoNode}) \X Seq(Node \cup {NoNode})
  /\ AvoidedEdges \subseteq Edge /\ AvoidedNodes \subseteq Node

VARIABLES
  solver, range, sources, targets, \* the request
  downEdges, \* of the hierarchy, those that lead to the targets
  nodeFlags,     \* of the solver
  row,       \* how many sources were taken
  heap,
  matrix,    \* the rows written: for each a distance or -1 to each target
  unswept,   \* the down edges the sweep has still to go over
  at         \* "none", "worker", "search", "sweep", "answered"

asked == <<solver, range, sources, targets, downEdges>>
manyVars == <<asked, unswept, nodeFlags, row, heap, matrix, at>>
allVars == <<orderedVars, manyVars>>

GetDistance(n) == F!Get(nodeFlags, n)

ManyInit ==
  /\ OrderInit
  /\ solver = "dijkstra" /\ range = 0 /\ sources = <<>> /\ targets = <<>>
  /\ downEdges = {} /\ unswept = {}
  /\ nodeFlags = F!NewFlags(Node, Unreached)
  /\ row = 0
  /\ heap = {}
  /\ matrix = <<>>
  /\ at = "none"

-----------------------------------------------------------------------------
(* The hierarchy made ready. *)

Higher(r) == level[RefFrom(r)] > level[RefTo(r)]

\* PreparePHASTIndex, forwards: the references that lead down.
PHASTIndex == {r \in Refs : Higher(r)}

\* Mutant: it is not sorted.
FirstDownUnsorted(edges) == CHOOSE r \in edges : TRUE

\* It is sorted: those from the highest nodes come first.
FirstDown(edges) == CHOOSE r \in edges : \A q \in edges : level[RefFrom(q)] <= level[RefFrom(r)]

\* The nodes from which the targets are reached by climbing against the
\* references: the least set that holds the targets and is closed so.
Above(nodes) ==
  {n \in Node : \A marked \in SUBSET Node :
     /\ nodes \ {NoNode} \subseteq marked
     /\ \A r \in PHASTIndex : RefTo(r) \in marked => RefFrom(r) \in marked
     => n \in marked}

\* _TargetSelection.
TargetSelection(nodes) == {r \in PHASTIndex : RefFrom(r) \in Above(nodes)}

-----------------------------------------------------------------------------
(* The handler. *)

OnHierarchy(kind) == kind \in {"phast", "range"}

\* HandleMatrixRequest up to the worker, with a new solver.
HandleMatrixRequest(kind, limited, places) ==
  /\ stage = "done" /\ at = "none"
  /\ solver' = kind /\ range' = limited
  /\ sources' = places[1] /\ targets' = places[2]
  /\ downEdges' = IF OnHierarchy(kind) THEN TargetSelection(ToSet(places[2])) ELSE {}
  /\ at' = "worker"
  /\ UNCHANGED <<orderedVars, unswept, nodeFlags, row, heap, matrix>>

\* A search begins: the flags are reset, and the source is put in the heap if
\* it does not lie in an avoided area.
Begin(s) ==
  LET fresh == F!Reset(nodeFlags) IN
  IF solver = "avoid" /\ s \in AvoidedNodes
    THEN nodeFlags' = fresh /\ UNCHANGED heap
    ELSE nodeFlags' = F!Put(fresh, s, 0) /\ heap' = {[node |-> s, dist |-> 0]}

\* Mutant: a source that is near no node is passed over.
TakeSourceSkipped ==
  /\ at = "worker"
  /\ row < Len(sources)
  /\ row' = row + 1
  /\ IF sources[row'] = NoNode
       THEN UNCHANGED <<nodeFlags, heap, at, matrix>>
       ELSE Begin(sources[row']) /\ at' = "search" /\ UNCHANGED matrix
  /\ UNCHANGED <<orderedVars, asked, unswept>>

\* The worker takes a source; the row of one that is near no node is -1.
TakeSource ==
  /\ at = "worker"
  /\ row < Len(sources)
  /\ row' = row + 1
  /\ IF sources[row'] = NoNode
       THEN matrix' = Append(matrix, [t \in DOMAIN targets |-> -1]) /\ UNCHANGED <<nodeFlags, heap, at>>
       ELSE Begin(sources[row']) /\ at' = "search" /\ UNCHANGED matrix
  /\ UNCHANGED <<orderedVars, asked, unswept>>

Answer ==
  /\ at = "worker"
  /\ row = Len(sources)
  /\ at' = "answered"
  /\ UNCHANGED <<orderedVars, asked, unswept, nodeFlags, row, heap, matrix>>

-----------------------------------------------------------------------------
(* A search. *)

\* The references that the solver follows from n.
References(n) ==
  LET from == {r \in Refs : RefFrom(r) = n} IN
  CASE OnHierarchy(solver) -> {r \in from : level[RefTo(r)] > level[n]}
    [] solver = "dijkstra" -> {r \in from : ~IsShortcut(r)}
    [] solver = "avoid" -> {r \in from : /\ ~IsShortcut(r)
                                         /\ r.id \notin AvoidedEdges
                                         /\ RefTo(r) \notin AvoidedNodes}

InRange(length) == solver # "phast" => length <= range

\* The references of n that make a distance shorter.
Shortening(n) ==
  {r \in References(n) : LET length == GetDistance(n) + GetEdgeWeight(r) IN
                       InRange(length) /\ length < GetDistance(RefTo(r))}

\* The least distance that n brings to each node, of parallel references the
\* shortest one.  (A longer one that is relaxed first leaves another item, which
\* is then skipped.)
Closer(n) ==
  {[node |-> RefTo(r), dist |-> GetDistance(n) + GetEdgeWeight(r)] : r \in Shortest(Shortening(n))}

FirstItem(i) == i \in heap /\ \A j \in heap : i.dist <= j.dist

SkipItem(i) ==
  /\ at = "search"
  /\ FirstItem(i)
  /\ GetDistance(i.node) < i.dist
  /\ heap' = heap \ {i}
  /\ UNCHANGED <<orderedVars, asked, unswept, nodeFlags, row, matrix, at>>

Visit(i) ==
  /\ at = "search"
  /\ FirstItem(i)
  /\ GetDistance(i.node) >= i.dist
  /\ nodeFlags' = F!PutAll(nodeFlags, Closer(i.node))
  /\ heap' = (heap \cup Closer(i.node)) \ {i}
  /\ UNCHANGED <<orderedVars, asked, unswept, row, matrix, at>>

SearchDone ==
  /\ at = "search"
  /\ heap = {}
  /\ unswept' = downEdges
  /\ at' = "sweep"
  /\ UNCHANGED <<orderedVars, asked, nodeFlags, row, heap, matrix>>

Sweep ==
  /\ at = "sweep" /\ unswept # {}
  /\ LET r == FirstDown(unswept)
         length == GetDistance(RefFrom(r)) + GetEdgeWeight(r)
     IN /\ nodeFlags' = IF InRange(length) /\ length < GetDistance(RefTo(r))
                          THEN F!Put(nodeFlags, RefTo(r), length) ELSE nodeFlags
        /\ unswept' = unswept \ {r}
  /\ UNCHANGED <<orderedVars, asked, row, heap, matrix, at>>

Cell(t) == IF t = NoNode \/ GetDistance(t) > range THEN -1 ELSE GetDistance(t)

WriteRow ==
  /\ at = "sweep" /\ unswept = {}
  /\ matrix' = Append(matrix, [t \in DOMAIN targets |-> Cell(targets[t])])
  /\ at' = "worker"
  /\ UNCHANGED <<orderedVars, asked, unswept, nodeFlags, row, heap>>

Work ==
  \/ TakeSource \/ Answer
  \/ \E i \in heap : SkipItem(i) \/ Visit(i)
  \/ SearchDone \/ Sweep \/ WriteRow

Build == OrderedNext /\ UNCHANGED manyVars

ManyNext ==
  \/ Build
  \/ \E kind \in Solvers, r \in Ranges, places \in Requests : HandleMatrixRequest(kind, r, places)
  \/ Work

ManySpec == ManyInit /\ [][ManyNext]_allVars /\ WF_allVars(Build) /\ WF_allVars(Work)

-----------------------------------------------------------------------------
(***************************************************************************)
(* The types of the hierarchy, of the solver and of the matrix.  An item   *)
(* in the heap is never shorter than the flag of its node.                 *)
(***************************************************************************)
ManyTypeOK ==
  /\ OrderTypeOK
  /\ solver \in {"dijkstra", "avoid", "phast", "range"} /\ range \in Ranges \cup {0}
  /\ sources \in Seq(Node \cup {NoNode}) /\ targets \in Seq(Node \cup {NoNode})
  /\ downEdges \subseteq Refs /\ unswept \subseteq downEdges
  /\ nodeFlags.count \in 0..MaxCount
  /\ nodeFlags.entries \in [Node -> [data : 0..Unreached, count : 0..MaxCount]]
  /\ \A i \in heap : i.node \in Node /\ GetDistance(i.node) <= i.dist
  /\ row \in 0..Len(sources) /\ Len(matrix) <= row
  /\ at \in {"none", "worker", "search", "sweep", "answered"}

Roads == {EdgeRef(x) : x \in Edge}
OpenRoads(kind) == IF kind # "avoid" THEN Roads
  ELSE {r \in Roads : r.id \notin AvoidedEdges /\ {RefFrom(r), RefTo(r)} \cap AvoidedNodes = {}}
TrueDistances(s) ==
  IF s = NoNode \/ (solver = "avoid" /\ s \in AvoidedNodes) THEN [t \in Node |-> Unreached]
  ELSE DistancesFrom(s, Node, {Arc(r) : r \in OpenRoads(solver)}, Unreached)

(***************************************************************************)
(* However the hierarchy was made, whatever the solver and whatever it has *)
(* searched before: a cell of the matrix is the distance from the source   *)
(* to the target if that is within the range, and -1 if there is none or   *)
(* it is not (a range above the first distance of a flag apart, for which  *)
(* the flag's distance is given where there is no way).                    *)
(***************************************************************************)
MatrixIsRight ==
  at = "answered" =>
    \A i \in DOMAIN matrix :
      LET distance == TrueDistances(sources[i]) IN
      \A j \in DOMAIN targets :
        matrix[i][j] = IF \/ NoNode \in {sources[i], targets[j]}
                          \/ distance[targets[j]] > range
                         THEN -1 ELSE distance[targets[j]]

(***************************************************************************)
(* The worker gets through the channel: a request is answered, with a row  *)
(* for each source.                                                        *)
(***************************************************************************)
MatrixIsAnswered ==
  at = "worker" ~> at = "answered" /\ Len(matrix) = Len(sources)
=============================================================================
