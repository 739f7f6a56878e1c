------------------------------ MODULE CHQuery ------------------------------
(***************************************************************************)
(* routing/ch.go over graph/ch_graph.go: one query on the hierarchy that   *)
(* Contraction has built.  Two searches, from the start along edges and    *)
(* shortcuts and from the end against them, take turns and only climb to   *)
(* nodes of a higher level.  The shortest path goes up to the node where   *)
(* they meet at the least length (mid_id), and down from there.            *)
(*                                                                         *)
(* CalcShortestPath runs to the end.  Steps, for a drawn search, leaves    *)
(* its loop after the part of the start once the searches have met, so     *)
(* that from then on the search of the end stands still; as the stop test  *)
(* looks at both, Steps may then never return false.                       *)
(***************************************************************************)
EXTENDS Contraction

CONSTANTS FirstNode,   \* node 0, which Peek gives when the heap is empty
          FirstLength, \* path_length1 and 2 of a new flag
          NoLength     \* path_length of the query before the searches meet

ASSUME QueryAssumption ==
  /\ FirstNode \in Node
  /\ FirstLength \in 1..Unlabelled /\ NoLength \in Nat
  /\ 2 * FirstLength <= NoLength

VARIABLES mode, start, end, \* the request: CalcShortestPath or Steps
          place, \* "idle", "start", "end", "back", "forth", "answered", "failed", "lost"
          heaps, flags, \* of each side: items; of each node length, by and visited
          mid, pathLength, \* mid_id and path_length
          cur, path \* of GetShortestPath

request == <<mode, start, end>>
meeting == <<mid, pathLength>>
queryVars == <<request, place, heaps, flags, meeting, cur, path>>
vars == <<contractionVars, queryVars>>

Side == {"start", "end"}
Other(s) == IF s = "start" THEN "end" ELSE "start"
Item(n, k) == [node |-> n, key |-> k]
NewFlag == [length |-> FirstLength, by |-> {}, visited |-> FALSE]

QueryInit ==
  /\ mode = "calc" /\ start = NoNode /\ end = NoNode
  /\ place = "idle"
  /\ heaps = [s \in Side |-> {}]
  /\ flags = [s \in Side |-> [n \in Node |-> NewFlag]]
  /\ mid = NoNode /\ pathLength = NoLength
  /\ cur = NoNode
  /\ path = <<>>

\* NewCH.  If the two are one node, its flag is written twice, and the second
\* time without the length 0 of the start's side.
Request(a, z, m) ==
  /\ stage = "done" /\ place = "idle"
  /\ mode' = m /\ start' = a /\ end' = z
  /\ heaps' = [s \in Side |-> {Item(IF s = "start" THEN a ELSE z, 0)}]
  /\ flags' = [s \in Side |-> [n \in Node |->
       IF (s = "end" /\ n = z) \/ (s = "start" /\ n = a /\ a # z)
         THEN [NewFlag EXCEPT !.length = 0] ELSE NewFlag]]
  /\ place' = "start"
  /\ UNCHANGED <<contractionVars, meeting, cur, path>>

-----------------------------------------------------------------------------
(* The loop of CalcShortestPath and of Steps. *)

BothEmpty == \A s \in Side : heaps[s] = {}
Tops(s) == {i \in heaps[s] : \A j \in heaps[s] : i.key <= j.key}
Peek(s) == IF heaps[s] = {} THEN {FirstNode} ELSE {i.node : i \in Tops(s)}

\* The length the flags give, 0 for a node that is not in the map yet.
LengthRead(s, n) ==
  IF n \in {start, end} \/ \E t \in Side : flags[t][n].length < FirstLength
    THEN flags[s][n].length ELSE 0

\* Mutant: one of the two searches is enough.
EitherBeyond == mid # NoNode /\ \E s \in Side : \E n \in Peek(s) : LengthRead(s, n) >= pathLength

BothBeyond == mid # NoNode /\ \A s \in Side : \E n \in Peek(s) : LengthRead(s, n) >= pathLength

\* Steps then returns false, which its caller takes for the end of the search
\* even if nothing was found: GetShortestPath begins at mid_id -1 and collects
\* edge 0 for ever ("lost").
Leave ==
  /\ place = "start"
  /\ BothEmpty \/ BothBeyond
  /\ place' = IF mode = "calc" /\ mid = NoNode THEN "failed"
              ELSE IF mid = NoNode THEN "lost" ELSE "back"
  /\ cur' = mid
  /\ UNCHANGED <<contractionVars, request, heaps, flags, meeting, path>>

GoesOn == ~BothEmpty /\ (mid # NoNode => \E s \in Side : \E n \in Peek(s) : LengthRead(s, n) < pathLength)
MayTurn(s) == place = s /\ (s = "start" => GoesOn)

\* Where it goes on after the part of s, if the middle is m.
After(s, m) == IF s = "start" /\ ~(mode = "steps" /\ m # NoNode) THEN "end" ELSE "start"

Leads(s, n, r) == IF s = "start" THEN RefFrom(r) = n ELSE RefTo(r) = n
Far(s, r) == IF s = "start" THEN RefTo(r) ELSE RefFrom(r)

Upwards(s, n) == {r \in Refs : Leads(s, n, r) /\ level[Far(s, r)] > level[n]}

\* The references out of n that make a flag shorter, and of those the shortest
\* to each node.
Improving(s, n) ==
  {r \in Upwards(s, n) : flags[s][n].length + GetEdgeWeight(r) < flags[s][Far(s, r)].length}
Best(s, n) ==
  {r \in Improving(s, n) : \A q \in Improving(s, n) :
                            Far(s, q) = Far(s, r) => GetEdgeWeight(r) <= GetEdgeWeight(q)}
Reached(s, n, refs) == {Item(Far(s, r), flags[s][n].length + GetEdgeWeight(r)) : r \in refs}

\* The flags of side s when n has been visited and its references relaxed in turn.
Climbed(s, n) ==
  [m \in Node |->
     LET best == {r \in Best(s, n) : Far(s, r) = m} IN
     IF best # {}
       THEN [flags[s][m] EXCEPT !.length = flags[s][n].length + GetEdgeWeight(CHOOSE r \in best : TRUE),
                                !.by = {CHOOSE r \in best : TRUE}]
       ELSE [flags[s][m] EXCEPT !.visited = @ \/ m = n]]

\* An item whose node was visited: `continue` also skips the other side's part.
Skip(s, i) ==
  /\ MayTurn(s)
  /\ i \in Tops(s)
  /\ flags[s][i.node].visited
  /\ heaps' = [heaps EXCEPT ![s] = @ \ {i}]
  /\ place' = "start"
  /\ UNCHANGED <<contractionVars, request, flags, meeting, cur, path>>

\* A reference that made a flag shorter only until the best one came has left its
\* item in the heap.
Settle(s, i) ==
  LET n == i.node
      both == flags[s][n].length + flags[Other(s)][n].length
  IN
  /\ MayTurn(s)
  /\ i \in Tops(s)
  /\ ~flags[s][n].visited
  /\ IF flags[Other(s)][n].visited /\ both < pathLength
       THEN mid' = n /\ pathLength' = both ELSE UNCHANGED meeting
  /\ flags' = [flags EXCEPT ![s] = Climbed(s, n)]
  /\ \E late \in SUBSET Improving(s, n) :
       heaps' = [heaps EXCEPT ![s] = (@ \ {i}) \cup Reached(s, n, Best(s, n) \cup late)]
  /\ place' = After(s, mid')
  /\ UNCHANGED <<contractionVars, request, cur, path>>

NothingLeft(s) ==
  /\ MayTurn(s)
  /\ heaps[s] = {}
  /\ place' = After(s, mid)
  /\ UNCHANGED <<contractionVars, request, heaps, flags, meeting, cur, path>>

-----------------------------------------------------------------------------
(* GetShortestPath. *)

\* CHGraph hands on `false` for reversed, whatever it was given.
GetEdgesFromShortcut(i, reversed) == Unpack(i, FALSE)

By(s) == CHOOSE r \in flags[s][cur].by : TRUE
Emitted(r, reversed) == IF IsShortcut(r) THEN GetEdgesFromShortcut(r.id, reversed) ELSE <<r.id>>

\* Mutant: what was collected is not turned round.
BackUnturned ==
  /\ place = "back"
  /\ IF cur = start
       THEN cur' = mid /\ place' = "forth" /\ UNCHANGED path
       ELSE cur' = RefFrom(By("start")) /\ path' = path \o Emitted(By("start"), TRUE) /\ UNCHANGED place
  /\ UNCHANGED <<contractionVars, request, heaps, flags, meeting>>

\* Down from the middle to the start, in reverse.
Back ==
  /\ place = "back"
  /\ IF cur = start
       THEN cur' = mid /\ path' = Reverse(path) /\ place' = "forth"
       ELSE cur' = RefFrom(By("start")) /\ path' = path \o Emitted(By("start"), TRUE) /\ UNCHANGED place
  /\ UNCHANGED <<contractionVars, request, heaps, flags, meeting>>

Forth ==
  /\ place = "forth"
  /\ IF cur = end
       THEN place' = "answered" /\ UNCHANGED <<cur, path>>
       ELSE cur' = RefTo(By("end")) /\ path' = path \o Emitted(By("end"), FALSE) /\ UNCHANGED place
  /\ UNCHANGED <<contractionVars, request, heaps, flags, meeting>>

Contract == ContractionNext /\ UNCHANGED queryVars

Next ==
  \/ Contract
  \/ \E a, z \in Node, m \in {"calc", "steps"} : Request(a, z, m)
  \/ Leave
  \/ \E s \in Side : NothingLeft(s)
  \/ \E s \in Side : \E i \in heaps[s] : Skip(s, i) \/ Settle(s, i)
  \/ Back
  \/ Forth

Init == ContractionInit /\ QueryInit

Spec == Init /\ [][Next]_vars

-----------------------------------------------------------------------------
(***************************************************************************)
(* The types of the hierarchy and of the query.  No label is longer than   *)
(* an item of the heap that belongs to it.                                 *)
(***************************************************************************)
TypeOK ==
  /\ HierarchyTypeOK
  /\ mode \in {"calc", "steps"}
  /\ start \in Node \cup {NoNode} /\ end \in Node \cup {NoNode}
  /\ place \in {"idle", "start", "end", "back", "forth", "answered", "failed", "lost"}
  /\ heaps \in [Side -> SUBSET [node : Node, key : Nat]]
  /\ flags \in [Side -> [Node -> [length : 0..FirstLength, by : SUBSET Refs, visited : BOOLEAN]]]
  /\ \A s \in Side : \A i \in heaps[s] : (flags[s][i.node].length <= i.key \/ start = end)
  /\ mid \in Node \cup {NoNode} /\ pathLength \in 0..NoLength
  /\ cur \in Node \cup {NoNode}
  /\ place \in {"back", "forth", "answered"} => cur \in Node /\ mid \in Node
  /\ path \in Seq(Edge)

Distance(n, m) ==
  DistancesFrom(n, Node, {Arc(EdgeRef(x)) : x \in Edge}, FirstLength)[m]

(***************************************************************************)
(* Whatever the order of contraction and of the turns: when the loop is    *)
(* left with a middle, path_length is the distance in the road graph, if   *)
(* that is less than the number that stands for unreached; when it is left *)
(* without one the end cannot be reached, or is as far as that.  A query   *)
(* from a node to itself keeps the length of the flag that was written     *)
(* twice.                                                                  *)
(***************************************************************************)
ResultIsRight ==
  /\ place \in {"back", "forth", "answered"} /\ start # end =>
       Distance(start, end) = IF pathLength < FirstLength THEN pathLength ELSE FirstLength
  /\ place \in {"failed", "lost"} => start # end /\ Distance(start, end) >= FirstLength

(***************************************************************************)
(* What GetShortestPath collects on its way back from the middle is, once  *)
(* turned round, a route from the start to the middle of the length of its *)
(* label, and in all it weighs what the query has found.                   *)
(***************************************************************************)
PathIsMade ==
  /\ place = "forth" /\ cur = mid /\ start # end =>
       RealRoute(path, start, mid, flags["start"][mid].length)
  /\ place = "answered" =>
       IF start = end THEN path = <<>> ELSE Followed(path, start)[Len(path)].far = pathLength
=============================================================================
