--------------------------- MODULE BidirectProofs ---------------------------
(***************************************************************************)
(* Two theorems about the bidirectional searches: the labels of the nodes  *)
(* that each side of a bidirectional Dijkstra has visited are distances as *)
(* long as the searches have not met, and the answer of either search is a *)
(* route, of the length that its labels say.                               *)
(***************************************************************************)
EXTENDS Bidirect, DistancesProofs

TailOf(s, x) == IF s = "start" THEN NodeA[x] ELSE NodeB[x]
Seen(s) == {n \in Node : seen[s][n]}

Types ==
  /\ alg \in {"Dijkstra", "A*"} /\ mode \in {"calc", "steps"}
  /\ start \in Node /\ end \in Node
  /\ heaps \in [Side -> SUBSET [node : Node, key : Int]]
  /\ lens \in [Side -> [Node -> Nat]]
  /\ prevs \in [Side -> [Node -> Edge]]
  /\ seen \in [Side -> [Node -> BOOLEAN]]
  /\ mid \in Node /\ finished \in BOOLEAN
  /\ turn \in Side
  /\ place \in {"search", "relax", "back", "on", "answered", "panic"}
  /\ cur \in Node \cup {NoNode}
  /\ place # "panic" => cur \in Node
  /\ todo \subseteq Edge
  /\ \A x \in todo : TailOf(turn, x) = cur
  /\ place # "relax" => todo = {}
  /\ place \in {"search", "relax"} => route = <<>>
  /\ place = "search" => ~finished
  /\ route \in Seq(Edge)

\* A side visits its origin first, whose label is zero and stays zero.
Opened ==
  /\ \A s \in Side :
       /\ lens[s][Origin(s)] = 0
       /\ ~seen[s][Origin(s)] /\ place \in {"search", "relax"} =>
            /\ \A n \in Node : ~seen[s][n]
            /\ heaps[s] = {Item(Origin(s), 0)}
  /\ place = "relax" => seen[turn][cur]

\* The flags of each side are a tree: a label comes along an edge from a node
\* that has been visited, and whose label never changes again.
Treed ==
  \A s \in Side, n \in Node :
    lens[s][n] < Unreached /\ n # Origin(s) =>
      LET x == prevs[s][n] IN
      /\ OtherEnd(s, x) = n
      /\ seen[s][TailOf(s, x)]
      /\ lens[s][n] = lens[s][TailOf(s, x)] + Weight[x]

\* Nodes are visited one after the other, parents before children.
Grown ==
  \A s \in Side : \E depth \in [Seen(s) -> 0..(Cardinality(Seen(s)) - 1)] :
    \A n \in Seen(s) : lens[s][n] < Unreached /\ n # Origin(s) =>
      depth[TailOf(s, prevs[s][n])] < depth[n]

\* What is collected is a route, from the node at work to the middle, then from
\* the start to the node at work.
Collected ==
  (\A s \in Side : lens[s][mid] < Unreached) =>
    /\ place # "panic"
    /\ place = "back" =>
         /\ lens["start"][cur] <= lens["start"][mid]
         /\ RealRoute(route, cur, mid, lens["start"][mid] - lens["start"][cur])
    /\ place = "on" =>
         /\ lens["end"][cur] <= lens["end"][mid]
         /\ RealRoute(route, start, cur,
                      lens["start"][mid] + lens["end"][mid] - lens["end"][cur])
    /\ place = "answered" =>
         RealRoute(route, start, end, lens["start"][mid] + lens["end"][mid])

\* As long as the searches have not met, each side is a Dijkstra of its own.
OnItsOwn == alg = "Dijkstra" /\ ~finished

\* A node that has a label and was not visited is in the heap with it, and no
\* other item has a shorter key.
Queued ==
  OnItsOwn => \A s \in Side :
    /\ \A n \in Node : lens[s][n] <= Unreached
    /\ \A n \in Node : ~seen[s][n] /\ lens[s][n] < Unreached => Item(n, 2 * lens[s][n]) \in heaps[s]
    /\ \A i \in heaps[s] : lens[s][i.node] < Unreached /\ 2 * lens[s][i.node] <= i.key

\* Nodes are visited in the order of their labels.
InOrder ==
  OnItsOwn =>
    /\ \A s \in Side, m, n \in Node : seen[s][m] /\ ~seen[s][n] => lens[s][m] <= lens[s][n]
    /\ place = "relax" => \A m \in Node : seen[turn][m] => lens[turn][m] <= lens[turn][cur]

\* The edges of a node that has been visited are relaxed, but for those at work.
Settled ==
  OnItsOwn => \A s \in Side, x \in Edge :
    seen[s][TailOf(s, x)] /\ ~(place = "relax" /\ s = turn /\ x \in todo) =>
      lens[s][OtherEnd(s, x)] <= lens[s][TailOf(s, x)] + Weight[x]

IInv ==
  /\ Types /\ Opened /\ Treed /\ Grown /\ Collected
  /\ Queued /\ InOrder /\ Settled

-----------------------------------------------------------------------------
LEMMA SideFacts ==
  /\ \A s \in Side, x \in Edge : TailOf(s, x) \in Node /\ OtherEnd(s, x) \in Node /\ Weight[x] \in Nat
  /\ "start" \in Side /\ "end" \in Side
  /\ \A s \in Side : Opposite(s) \in Side
  /\ \A n \in Node : Around("start", n) = {x \in Edge : TailOf("start", x) = n}
  /\ \A n \in Node : Around("end", n) = {x \in Edge : TailOf("end", x) = n}
  /\ Unreached \in Nat \ {0} /\ FirstNode \in Node /\ FirstEdge \in Edge
BY GraphAssumption, BidirectAssumption
   DEF Side, TailOf, OtherEnd, Opposite, Around, Forward, Backward

LEMMA AroundIs ==
  ASSUME NEW s \in Side, NEW n \in Node
  PROVE  Around(s, n) = {x \in Edge : TailOf(s, x) = n}
BY SideFacts DEF Side

LEMMA OtherIsNode ==
  ASSUME NEW x \in Edge, NEW n
  PROVE  GetOtherNode(x, n) \in Node \cup {NoNode}
BY GraphAssumption DEF GetOtherNode

LEMMA KeyIsInt ==
  ASSUME Types, NEW s \in Side, NEW n \in Node, NEW length \in Nat
  PROVE  Key(s, n, length) \in Int
<1>1. /\ Lambda[end][n] \in Nat /\ Lambda[start][n] \in Nat
      /\ Air[start][end] \in Nat
  BY BidirectAssumption DEF Types
<1>2. CASE alg # "A*"
  BY <1>2 DEF Key
<1>3. CASE alg = "A*" /\ s = "start"
  BY <1>1, <1>3 DEF Key
<1>4. CASE alg = "A*" /\ s # "start"
  BY <1>1, <1>4 DEF Key
<1> QED
  BY <1>2, <1>3, <1>4

\* What a step takes from a heap is an item of the side whose turn it is, or
\* nothing and node 0.
LEMMA TakesFacts ==
  ASSUME Types, NEW n \in Node, Takes(turn, n)
  PROVE  /\ heaps' \in [Side -> SUBSET [node : Node, key : Int]]
         /\ \A s \in Side : s # turn => heaps'[s] = heaps[s]
         /\ \/ heaps[turn] = {} /\ heaps'[turn] = {} /\ n = FirstNode
            \/ \E i \in heaps[turn] :
                 /\ i.node = n /\ heaps'[turn] = heaps[turn] \ {i}
                 /\ \A j \in heaps[turn] : i.key <= j.key
<1>1. turn \in Side /\ heaps \in [Side -> SUBSET [node : Node, key : Int]]
  BY DEF Types
<1>2. CASE heaps[turn] = {}
  BY <1>1, <1>2 DEF Takes
<1>3. CASE heaps[turn] # {}
  <2>1. PICK i \in Tops(turn) : n = i.node /\ heaps' = [heaps EXCEPT ![turn] = @ \ {i}]
    BY <1>3 DEF Takes
  <2>2. i \in heaps[turn] /\ \A j \in heaps[turn] : i.key <= j.key
    BY DEF Tops
  <2>3. /\ heaps' \in [Side -> SUBSET [node : Node, key : Int]]
        /\ \A s \in Side : s # turn => heaps'[s] = heaps[s]
        /\ heaps'[turn] = heaps[turn] \ {i}
    BY <1>1, <2>1
  <2> QED
    BY <2>1, <2>2, <2>3
<1> QED
  BY <1>2, <1>3

\* The end of an edge that is relaxed gets a new label only if it has not been
\* visited; as long as the searches have not met, it gets it if it is shorter.
LEMMA RelaxFacts ==
  ASSUME Types, Opened, NEW x \in todo, Relax(x),
         NEW o, o = OtherEnd(turn, x), NEW new, new = lens[turn][cur] + Weight[x]
  PROVE  /\ x \in Edge /\ o \in Node /\ new \in Nat /\ turn \in Side /\ cur \in Node
         /\ place = "relax" /\ TailOf(turn, x) = cur /\ seen[turn][cur]
         /\ todo' = todo \ {x}
         /\ UNCHANGED <<request, seen, turn, place, cur, route>>
         /\ \/ mid' = mid /\ finished' = finished
            \/ mid' = o /\ finished'
         /\ \/ lens' = lens /\ prevs' = prevs
            \/ /\ ~seen[turn][o] /\ o # cur
               /\ lens' = [lens EXCEPT ![turn][o] = new]
               /\ prevs' = [prevs EXCEPT ![turn][o] = x]
         /\ \/ heaps' = heaps
            \/ heaps' = [heaps EXCEPT ![turn] = @ \cup {Item(o, Key(turn, o, new))}]
         /\ ~finished' =>
              IF ~seen[turn][o] /\ o # cur /\ lens[turn][o] > new
                THEN /\ lens' = [lens EXCEPT ![turn][o] = new]
                     /\ heaps' = [heaps EXCEPT ![turn] = @ \cup {Item(o, Key(turn, o, new))}]
                ELSE lens' = lens /\ heaps' = heaps
<1>1. /\ x \in Edge /\ turn \in Side /\ cur \in Node /\ place = "relax"
      /\ TailOf(turn, x) = cur /\ seen[turn][cur]
  BY DEF Types, Opened, Relax
<1>2. o \in Node /\ Weight[x] \in Nat
  BY <1>1, SideFacts
<1>3. lens[turn][cur] \in Nat /\ lens[turn][o] \in Nat
  BY <1>1, <1>2 DEF Types
<1>4. new \in Nat
  BY <1>2, <1>3
<1> DEFINE closed == seen[turn][o] /\ o # cur
<1>5. PICK stop \in BOOLEAN :
        /\ IF stop THEN mid' = o /\ finished' = TRUE ELSE UNCHANGED <<mid, finished>>
        /\ IF ~closed /\ o # cur /\ (stop \/ lens[turn][o] > new)
             THEN /\ lens' = [lens EXCEPT ![turn][o] = new]
                  /\ prevs' = [prevs EXCEPT ![turn][o] = x]
             ELSE UNCHANGED <<lens, prevs>>
        /\ heaps' = IF ~closed /\ ~stop /\ lens[turn][o] > new
                      THEN [heaps EXCEPT ![turn] = @ \cup {Item(o, Key(turn, o, new))}]
                      ELSE heaps
  BY DEF Relax
<1>6. o = cur => ~(lens[turn][o] > new)
  BY <1>2, <1>3
<1>7. todo' = todo \ {x} /\ UNCHANGED <<request, seen, turn, place, cur, route>>
  BY DEF Relax
<1>8. ~finished' =>
        IF ~seen[turn][o] /\ o # cur /\ lens[turn][o] > new
          THEN /\ lens' = [lens EXCEPT ![turn][o] = new]
               /\ heaps' = [heaps EXCEPT ![turn] = @ \cup {Item(o, Key(turn, o, new))}]
          ELSE lens' = lens /\ heaps' = heaps
  BY <1>5, <1>6
<1>9. \/ mid' = mid /\ finished' = finished
      \/ mid' = o /\ finished'
  BY <1>5
<1>10. \/ lens' = lens /\ prevs' = prevs
       \/ /\ ~seen[turn][o] /\ o # cur
          /\ lens' = [lens EXCEPT ![turn][o] = new]
          /\ prevs' = [prevs EXCEPT ![turn][o] = x]
  BY <1>5
<1>11. \/ heaps' = heaps
       \/ heaps' = [heaps EXCEPT ![turn] = @ \cup {Item(o, Key(turn, o, new))}]
  BY <1>5
<1> QED
  BY <1>1, <1>2, <1>4, <1>7, <1>8, <1>9, <1>10, <1>11

\* The same, label by label.
LEMMA RelaxedLabels ==
  ASSUME Types, Opened, NEW x \in todo, Relax(x),
         NEW o, o = OtherEnd(turn, x), NEW new, new = lens[turn][cur] + Weight[x]
  PROVE  \/ lens' = lens /\ prevs' = prevs
         \/ /\ ~seen[turn][o] /\ o # cur
            /\ \A s \in Side, n \in Node :
                 /\ lens'[s][n] = IF s = turn /\ n = o THEN new ELSE lens[s][n]
                 /\ prevs'[s][n] = IF s = turn /\ n = o THEN x ELSE prevs[s][n]
<1>1. /\ o \in Node /\ turn \in Side
      /\ \/ lens' = lens /\ prevs' = prevs
         \/ /\ ~seen[turn][o] /\ o # cur
            /\ lens' = [lens EXCEPT ![turn][o] = new]
            /\ prevs' = [prevs EXCEPT ![turn][o] = x]
  BY RelaxFacts
<1>2. lens \in [Side -> [Node -> Nat]] /\ prevs \in [Side -> [Node -> Edge]]
  BY DEF Types
<1> QED
  BY <1>1, <1>2

\* A node is visited, or the searches have crossed at it.
LEMMA SettleFacts ==
  ASSUME Types, Settle
  PROVE  \E n \in Node :
           /\ ~seen[turn][n] /\ Takes(turn, n) /\ cur' = n
           /\ place = "search" /\ todo = {} /\ turn \in Side
           /\ UNCHANGED <<request, lens, prevs, turn, route>>
           /\ mid' = (IF Crossed(n) THEN n ELSE mid) /\ finished' = Crossed(n)
           /\ \/ /\ place' = "back" /\ UNCHANGED <<seen, todo>>
                 /\ mid' = n /\ finished'
              \/ /\ place' = "relax" /\ todo' = {x \in Edge : TailOf(turn, x) = n}
                 /\ \A s \in Side, m \in Node : seen'[s][m] = (seen[s][m] \/ (s = turn /\ m = n))
<1>1. PICK n \in Node :
        /\ ~seen[turn][n]
        /\ Takes(turn, n)
        /\ mid' = IF Crossed(n) THEN n ELSE mid
        /\ finished' = Crossed(n)
        /\ IF Crossed(n) /\ turn = "end"
             THEN place' = "back" /\ cur' = n /\ UNCHANGED <<seen, todo>>
             ELSE /\ place' = "relax" /\ cur' = n
                  /\ seen' = [seen EXCEPT ![turn][n] = TRUE]
                  /\ todo' = Around(turn, n)
  BY DEF Settle
<1>2. /\ todo = {} /\ place = "search" /\ turn \in Side
      /\ UNCHANGED <<request, lens, prevs, turn, route>>
  BY DEF Types, Settle
<1>3. CASE Crossed(n) /\ turn = "end"
  BY <1>1, <1>2, <1>3
<1>4. CASE ~(Crossed(n) /\ turn = "end")
  <2>1. /\ place' = "relax" /\ cur' = n
        /\ seen' = [seen EXCEPT ![turn][n] = TRUE]
        /\ todo' = Around(turn, n)
    BY <1>1, <1>4
  <2>2. \A s \in Side, m \in Node : seen'[s][m] = (seen[s][m] \/ (s = turn /\ m = n))
    <3>1. seen \in [Side -> [Node -> BOOLEAN]]
      BY DEF Types
    <3> QED
      BY <1>2, <2>1, <3>1
  <2> QED
    BY <1>1, <1>2, <2>1, <2>2, AroundIs
<1> QED
  BY <1>3, <1>4

LEMMA TypesStep == Types /\ Opened /\ [BidirectNext]_vars => Types'
<1> SUFFICES ASSUME Types, Opened, [BidirectNext]_vars PROVE Types'
  OBVIOUS
<1>1. CASE Continue
  <2>1. PICK n \in Node : seen[turn][n] /\ Takes(turn, n)
    BY <1>1 DEF Continue
  <2>2. heaps' \in [Side -> SUBSET [node : Node, key : Int]]
    BY <2>1, TakesFacts
  <2>3. todo = {} /\ place = "search"
    BY <1>1 DEF Types, Continue
  <2> QED
    BY <1>1, <2>2, <2>3, SideFacts DEF Types, Continue, request, flags
<1>2. CASE Settle
  <2>1. PICK n \in Node :
          /\ ~seen[turn][n]
          /\ Takes(turn, n)
          /\ mid' = IF Crossed(n) THEN n ELSE mid
          /\ finished' = Crossed(n)
          /\ IF Crossed(n) /\ turn = "end"
               THEN place' = "back" /\ cur' = n /\ UNCHANGED <<seen, todo>>
               ELSE /\ place' = "relax" /\ cur' = n
                    /\ seen' = [seen EXCEPT ![turn][n] = TRUE]
                    /\ todo' = Around(turn, n)
    BY <1>2 DEF Settle
  <2>2. heaps' \in [Side -> SUBSET [node : Node, key : Int]]
    BY <2>1, TakesFacts
  <2>3. todo = {} /\ place = "search" /\ UNCHANGED <<request, lens, prevs, turn, route>>
    BY <1>2 DEF Types, Settle
  <2>4. mid' \in Node /\ finished' \in BOOLEAN /\ cur' = n
    BY <2>1 DEF Types, Crossed
  <2>5. CASE Crossed(n) /\ turn = "end"
    BY <2>1, <2>2, <2>3, <2>4, <2>5 DEF Types, request
  <2>6. CASE ~(Crossed(n) /\ turn = "end")
    <3>1. place' = "relax" /\ seen' = [seen EXCEPT ![turn][n] = TRUE] /\ todo' = Around(turn, n)
      BY <2>1, <2>6
    <3>2. seen' \in [Side -> [Node -> BOOLEAN]]
      BY <3>1 DEF Types
    <3>3. todo' \subseteq Edge /\ \A x \in todo' : TailOf(turn', x) = cur'
      <4>1. turn \in Side
        BY DEF Types
      <4> QED
        BY <2>3, <2>4, <3>1, <4>1, AroundIs
    <3> QED
      BY <2>2, <2>3, <2>4, <3>1, <3>2, <3>3 DEF Types, request
  <2> QED
    BY <2>5, <2>6
<1>3. ASSUME NEW x \in todo, Relax(x) PROVE Types'
  <2>1. PICK o, new : o = OtherEnd(turn, x) /\ new = lens[turn][cur] + Weight[x]
    OBVIOUS
  <2>2. /\ x \in Edge /\ o \in Node /\ new \in Nat /\ turn \in Side /\ cur \in Node
        /\ place = "relax" /\ TailOf(turn, x) = cur /\ seen[turn][cur]
        /\ todo' = todo \ {x}
        /\ UNCHANGED <<request, seen, turn, place, cur, route>>
        /\ \/ mid' = mid /\ finished' = finished
           \/ mid' = o /\ finished'
        /\ \/ lens' = lens /\ prevs' = prevs
           \/ /\ ~seen[turn][o] /\ o # cur
              /\ lens' = [lens EXCEPT ![turn][o] = new]
              /\ prevs' = [prevs EXCEPT ![turn][o] = x]
        /\ \/ heaps' = heaps
           \/ heaps' = [heaps EXCEPT ![turn] = @ \cup {Item(o, Key(turn, o, new))}]
    BY <1>3, <2>1, RelaxFacts
  <2>3. lens' \in [Side -> [Node -> Nat]] /\ prevs' \in [Side -> [Node -> Edge]]
    <3>1. lens \in [Side -> [Node -> Nat]] /\ prevs \in [Side -> [Node -> Edge]]
      BY DEF Types
    <3>2. [lens EXCEPT ![turn][o] = new] \in [Side -> [Node -> Nat]]
      BY <2>2, <3>1
    <3>3. [prevs EXCEPT ![turn][o] = x] \in [Side -> [Node -> Edge]]
      BY <2>2, <3>1
    <3> QED
      BY <2>2, <3>1, <3>2, <3>3
  <2>4. heaps' \in [Side -> SUBSET [node : Node, key : Int]]
    <3>1. Key(turn, o, new) \in Int
      BY <2>2, KeyIsInt
    <3>2. Item(o, Key(turn, o, new)) \in [node : Node, key : Int]
      BY <2>2, <3>1 DEF Item
    <3>3. heaps \in [Side -> SUBSET [node : Node, key : Int]]
      BY DEF Types
    <3>4. [heaps EXCEPT ![turn] = @ \cup {Item(o, Key(turn, o, new))}]
            \in [Side -> SUBSET [node : Node, key : Int]]
      BY <2>2, <3>2, <3>3
    <3> QED
      BY <2>2, <3>3, <3>4
  <2>5. mid' \in Node /\ finished' \in BOOLEAN
    <3>1. finished' \in BOOLEAN
      BY <1>3 DEF Relax, Types
    <3> QED
      BY <2>2, <3>1 DEF Types
  <2>6. todo' \subseteq Edge /\ \A y \in todo' : TailOf(turn', y) = cur'
    BY <2>2 DEF Types
  <2> QED
    BY <2>2, <2>3, <2>4, <2>5, <2>6 DEF Types, request
<1>4. CASE Relaxed
  BY <1>4, SideFacts DEF Types, Relaxed, request, flags
<1>5. CASE WalkBack
  <2>1. /\ place = "back" /\ cur \in Node /\ todo = {}
        /\ UNCHANGED <<request, heaps, flags, mid, finished, turn, todo>>
    BY <1>5 DEF Types, WalkBack
  <2>2. CASE cur = start
    BY <1>5, <2>1, <2>2 DEF Types, WalkBack, request, flags
  <2>3. CASE cur # start
    <3>1. prevs["start"][cur] \in Edge
      BY <2>1, SideFacts DEF Types
    <3>2. /\ route' = <<prevs["start"][cur]>> \o route
          /\ cur' = GetOtherNode(prevs["start"][cur], cur)
          /\ place' = IF cur' = NoNode THEN "panic" ELSE "back"
      BY <1>5, <2>3 DEF WalkBack
    <3>3. cur' \in Node \cup {NoNode} /\ route' \in Seq(Edge)
      BY <3>1, <3>2, OtherIsNode DEF Types
    <3> QED
      BY <2>1, <3>2, <3>3 DEF Types, request, flags
  <2> QED
    BY <2>2, <2>3
<1>6. CASE WalkOn
  <2>1. /\ place = "on" /\ cur \in Node /\ todo = {}
        /\ UNCHANGED <<request, heaps, flags, mid, finished, turn, todo>>
    BY <1>6 DEF Types, WalkOn
  <2>2. CASE cur = end
    BY <1>6, <2>1, <2>2 DEF Types, WalkOn, request, flags
  <2>3. CASE cur # end
    <3>1. prevs["end"][cur] \in Edge
      BY <2>1, SideFacts DEF Types
    <3>2. /\ route' = Append(route, prevs["end"][cur])
          /\ cur' = GetOtherNode(prevs["end"][cur], cur)
          /\ place' = IF cur' = NoNode THEN "panic" ELSE "on"
      BY <1>6, <2>3 DEF WalkOn
    <3>3. cur' \in Node \cup {NoNode} /\ route' \in Seq(Edge)
      BY <3>1, <3>2, OtherIsNode DEF Types
    <3> QED
      BY <2>1, <3>2, <3>3 DEF Types, request, flags
  <2> QED
    BY <2>2, <2>3
<1>7. CASE UNCHANGED vars
  BY <1>7 DEF Types, vars, request, flags
<1> QED
  BY <1>1, <1>2, <1>3, <1>4, <1>5, <1>6, <1>7 DEF BidirectNext

\* No step of a walk, no item that is passed over and no turn changes what the
\* sides know of the nodes.
LEMMA OtherSteps ==
  ASSUME Continue \/ Relaxed \/ WalkBack \/ WalkOn \/ UNCHANGED vars
  PROVE  /\ UNCHANGED <<request, lens, prevs, seen, mid, finished, todo>>
         /\ Continue \/ UNCHANGED heaps
         /\ place' = "relax" => place = "relax" /\ UNCHANGED <<cur, turn>>
         /\ place' = "search" => place \in {"search", "relax"}
BY DEF Continue, Relaxed, WalkBack, WalkOn, vars, request, flags

LEMMA OpenedStep == Types /\ Opened /\ [BidirectNext]_vars => Opened'
<1> SUFFICES ASSUME Types, Opened, [BidirectNext]_vars PROVE Opened'
  OBVIOUS
<1>0. /\ turn \in Side /\ Origin("start") \in Node /\ Origin("end") \in Node
      /\ \A s \in Side : Origin(s) \in Node
  BY DEF Types, Origin
<1>1. CASE Continue \/ Relaxed \/ WalkBack \/ WalkOn \/ UNCHANGED vars
  <2>1. /\ UNCHANGED <<request, lens, prevs, seen, mid, finished, todo>>
        /\ Continue \/ UNCHANGED heaps
        /\ place' = "relax" => place = "relax" /\ UNCHANGED <<cur, turn>>
        /\ place' = "search" => place \in {"search", "relax"}
    BY <1>1, OtherSteps
  <2>2. \A s \in Side : Origin(s)' = Origin(s)
    BY <2>1 DEF Origin, request
  <2>3. ASSUME NEW s \in Side, ~seen[s][Origin(s)], place' \in {"search", "relax"}
        PROVE  heaps'[s] = heaps[s]
    <3>1. CASE Continue
      <4>1. PICK n \in Node : seen[turn][n] /\ Takes(turn, n)
        BY <3>1 DEF Continue
      <4>2. place = "search"
        BY <3>1 DEF Continue
      <4>3. s # turn
        BY <1>0, <2>3, <4>1, <4>2 DEF Opened
      <4> QED
        BY <4>1, <4>3, TakesFacts
    <3> QED
      BY <2>1, <3>1
  <2>4. ASSUME NEW s \in Side
        PROVE  /\ lens'[s][Origin(s)'] = 0
               /\ ~seen'[s][Origin(s)'] /\ place' \in {"search", "relax"} =>
                    /\ \A n \in Node : ~seen'[s][n]
                    /\ heaps'[s] = {Item(Origin(s)', 0)}
    BY <2>1, <2>2, <2>3 DEF Opened
  <2>5. place' = "relax" => seen'[turn'][cur']
    BY <2>1 DEF Opened
  <2> QED
    BY <2>4, <2>5 DEF Opened, Item
<1>2. CASE Settle
  <2>1. PICK n \in Node :
           /\ ~seen[turn][n] /\ Takes(turn, n) /\ cur' = n
           /\ place = "search" /\ todo = {} /\ turn \in Side
           /\ UNCHANGED <<request, lens, prevs, turn, route>>
           /\ mid' = (IF Crossed(n) THEN n ELSE mid) /\ finished' = Crossed(n)
           /\ \/ /\ place' = "back" /\ UNCHANGED <<seen, todo>>
                 /\ mid' = n /\ finished'
              \/ /\ place' = "relax" /\ todo' = {x \in Edge : TailOf(turn, x) = n}
                 /\ \A s \in Side, m \in Node : seen'[s][m] = (seen[s][m] \/ (s = turn /\ m = n))
    BY <1>2, SettleFacts
  <2>2. \A s \in Side : Origin(s)' = Origin(s)
    BY <2>1 DEF Origin, request
  <2>3. ASSUME NEW s \in Side, ~seen'[s][Origin(s)], place' = "relax"
        PROVE  heaps'[s] = heaps[s] /\ \A m \in Node : ~seen'[s][m]
    <3>1. ~seen[s][Origin(s)]
      BY <1>0, <2>1, <2>3
    <3>2. (\A m \in Node : ~seen[s][m]) /\ heaps[s] = {Item(Origin(s), 0)}
      BY <2>1, <3>1 DEF Opened
    <3>3. s # turn
      <4> SUFFICES ASSUME s = turn PROVE FALSE
        OBVIOUS
      <4>1. heaps[turn] # {}
        BY <3>2
      <4>2. PICK i \in heaps[turn] : i.node = n
        BY <2>1, <4>1, TakesFacts
      <4>3. n = Origin(s)
        BY <3>2, <4>2 DEF Item
      <4> QED
        BY <1>0, <2>1, <2>3, <4>3
    <3> QED
      BY <2>1, <2>3, <3>2, <3>3, TakesFacts
  <2>4. ASSUME NEW s \in Side
        PROVE  /\ lens'[s][Origin(s)'] = 0
               /\ ~seen'[s][Origin(s)'] /\ place' \in {"search", "relax"} =>
                    /\ \A m \in Node : ~seen'[s][m]
                    /\ heaps'[s] = {Item(Origin(s)', 0)}
    <3>1. lens'[s][Origin(s)'] = 0
      BY <2>1, <2>2 DEF Opened
    <3>2. ASSUME ~seen'[s][Origin(s)'], place' \in {"search", "relax"}
          PROVE  /\ \A m \in Node : ~seen'[s][m]
                 /\ heaps'[s] = {Item(Origin(s)', 0)}
      <4>1. place' = "relax" /\ ~seen'[s][Origin(s)]
        BY <2>1, <2>2, <3>2
      <4>2. ~seen[s][Origin(s)]
        BY <1>0, <2>1, <4>1
      <4> QED
        BY <2>1, <2>2, <2>3, <4>1, <4>2 DEF Opened
    <3> QED
      BY <3>1, <3>2
  <2>5. place' = "relax" => seen'[turn'][cur']
    BY <2>1
  <2> QED
    BY <2>4, <2>5 DEF Opened, Item
<1>3. ASSUME NEW x \in todo, Relax(x) PROVE Opened'
  <2>1. PICK o, new : o = OtherEnd(turn, x) /\ new = lens[turn][cur] + Weight[x]
    OBVIOUS
  <2>2. /\ turn \in Side /\ cur \in Node /\ place = "relax" /\ seen[turn][cur]
        /\ UNCHANGED <<request, seen, turn, place, cur, route>>
        /\ \/ heaps' = heaps
           \/ heaps' = [heaps EXCEPT ![turn] = @ \cup {Item(o, Key(turn, o, new))}]
    BY <1>3, <2>1, RelaxFacts
  <2>3. \/ lens' = lens /\ prevs' = prevs
        \/ /\ ~seen[turn][o] /\ o # cur
           /\ \A s \in Side, n \in Node :
                /\ lens'[s][n] = IF s = turn /\ n = o THEN new ELSE lens[s][n]
                /\ prevs'[s][n] = IF s = turn /\ n = o THEN x ELSE prevs[s][n]
    BY <1>3, <2>1, RelaxedLabels
  <2>4. \A s \in Side : Origin(s)' = Origin(s)
    BY <2>2 DEF Origin, request
  <2>5. seen[turn][Origin(turn)]
    BY <1>0, <2>2 DEF Opened
  <2>6. ASSUME NEW s \in Side PROVE lens'[s][Origin(s)] = 0
    <3>1. lens[s][Origin(s)] = 0
      BY DEF Opened
    <3> QED
      BY <1>0, <2>3, <2>5, <3>1
  <2>7. ASSUME NEW s \in Side, ~seen[s][Origin(s)] PROVE heaps'[s] = heaps[s]
    <3>1. s # turn
      BY <2>5, <2>7
    <3>2. heaps \in [Side -> SUBSET [node : Node, key : Int]]
      BY DEF Types
    <3> QED
      BY <2>2, <3>1, <3>2
  <2>8. ASSUME NEW s \in Side
        PROVE  /\ lens'[s][Origin(s)'] = 0
               /\ ~seen'[s][Origin(s)'] /\ place' \in {"search", "relax"} =>
                    /\ \A m \in Node : ~seen'[s][m]
                    /\ heaps'[s] = {Item(Origin(s)', 0)}
    BY <2>2, <2>4, <2>6, <2>7 DEF Opened
  <2>9. place' = "relax" => seen'[turn'][cur']
    BY <2>2
  <2> QED
    BY <2>8, <2>9 DEF Opened, Item
<1> QED
  BY <1>1, <1>2, <1>3 DEF BidirectNext

LEMMA TreedStep == Types /\ Opened /\ Treed /\ [BidirectNext]_vars => Treed'
<1> SUFFICES ASSUME Types, Opened, Treed, [BidirectNext]_vars, NEW s \in Side, NEW n \in Node,
                    lens'[s][n] < Unreached, n # Origin(s)'
             PROVE  /\ OtherEnd(s, prevs'[s][n]) = n
                    /\ seen'[s][TailOf(s, prevs'[s][n])]
                    /\ lens'[s][n] = lens'[s][TailOf(s, prevs'[s][n])] + Weight[prevs'[s][n]]
  BY DEF Treed, OtherEnd, TailOf
<1>0. prevs[s][n] \in Edge /\ TailOf(s, prevs[s][n]) \in Node
  BY SideFacts DEF Types
<1>1. CASE Continue \/ Relaxed \/ WalkBack \/ WalkOn \/ UNCHANGED vars
  <2>1. UNCHANGED <<request, lens, prevs, seen>>
    BY <1>1, OtherSteps
  <2>2. Origin(s)' = Origin(s)
    BY <2>1 DEF Origin, request
  <2> QED
    BY <2>1, <2>2 DEF Treed
<1>2. CASE Settle
  <2>1. UNCHANGED <<request, lens, prevs>>
    BY <1>2 DEF Settle
  <2>2. \A m \in Node : seen[s][m] => seen'[s][m]
    BY <1>2, SettleFacts
  <2>3. Origin(s)' = Origin(s)
    BY <2>1 DEF Origin, request
  <2> QED
    BY <1>0, <2>1, <2>2, <2>3 DEF Treed
<1>3. ASSUME NEW x \in todo, Relax(x)
      PROVE  /\ OtherEnd(s, prevs'[s][n]) = n
             /\ seen'[s][TailOf(s, prevs'[s][n])]
             /\ lens'[s][n] = lens'[s][TailOf(s, prevs'[s][n])] + Weight[prevs'[s][n]]
  <2>1. PICK o, new : o = OtherEnd(turn, x) /\ new = lens[turn][cur] + Weight[x]
    OBVIOUS
  <2>2. /\ turn \in Side /\ cur \in Node /\ TailOf(turn, x) = cur /\ seen[turn][cur]
        /\ UNCHANGED <<request, seen, turn, place, cur, route>>
    BY <1>3, <2>1, RelaxFacts
  <2>3. Origin(s)' = Origin(s)
    BY <2>2 DEF Origin, request
  <2>4. CASE lens' = lens /\ prevs' = prevs
    BY <2>2, <2>3, <2>4 DEF Treed
  <2>5. CASE /\ ~seen[turn][o] /\ o # cur
             /\ \A t \in Side, m \in Node :
                  /\ lens'[t][m] = IF t = turn /\ m = o THEN new ELSE lens[t][m]
                  /\ prevs'[t][m] = IF t = turn /\ m = o THEN x ELSE prevs[t][m]
    <3>1. CASE s = turn /\ n = o
      BY <2>1, <2>2, <2>5, <3>1
    <3>2. CASE ~(s = turn /\ n = o)
      <4>1. lens'[s][n] = lens[s][n] /\ prevs'[s][n] = prevs[s][n]
        BY <2>5, <3>2
      <4>2. /\ OtherEnd(s, prevs[s][n]) = n
            /\ seen[s][TailOf(s, prevs[s][n])]
            /\ lens[s][n] = lens[s][TailOf(s, prevs[s][n])] + Weight[prevs[s][n]]
        BY <2>3, <4>1 DEF Treed
      <4>3. lens'[s][TailOf(s, prevs[s][n])] = lens[s][TailOf(s, prevs[s][n])]
        BY <1>0, <2>5, <4>2
      <4> QED
        BY <2>2, <4>1, <4>2, <4>3
    <3> QED
      BY <3>1, <3>2
  <2> QED
    BY <1>3, <2>1, <2>4, <2>5, RelaxedLabels
<1> QED
  BY <1>1, <1>2, <1>3 DEF BidirectNext

\* The number of the nodes that a side has visited.
LEMMA SeenIsFinite ==
  ASSUME NEW s \in Side
  PROVE  IsFiniteSet(Seen(s)) /\ Cardinality(Seen(s)) \in Nat /\ Cardinality(Seen(s)) <= Cardinality(Node)
<1>1. Seen(s) \in SUBSET Node
  BY DEF Seen
<1> QED
  BY <1>1, NodesAssumption, FS_Subset, FS_CardinalityType

LEMMA GrownStep == Types /\ Opened /\ Treed /\ Grown /\ [BidirectNext]_vars => Grown'
<1> SUFFICES ASSUME Types, Opened, Treed, Grown, [BidirectNext]_vars, NEW s \in Side
             PROVE  \E depth \in [Seen(s)' -> 0..(Cardinality(Seen(s)') - 1)] :
                      \A n \in Seen(s)' : lens'[s][n] < Unreached /\ n # Origin(s)' =>
                        depth[TailOf(s, prevs'[s][n])] < depth[n]
  BY DEF Grown, TailOf
<1>0. PICK depth \in [Seen(s) -> 0..(Cardinality(Seen(s)) - 1)] :
        \A n \in Seen(s) : lens[s][n] < Unreached /\ n # Origin(s) =>
          depth[TailOf(s, prevs[s][n])] < depth[n]
  BY DEF Grown
<1>1. CASE Continue \/ Relaxed \/ WalkBack \/ WalkOn \/ UNCHANGED vars
  <2>1. UNCHANGED <<request, lens, prevs, seen>>
    BY <1>1, OtherSteps
  <2>2. Origin(s)' = Origin(s) /\ Seen(s)' = Seen(s)
    BY <2>1 DEF Origin, request, Seen
  <2> QED
    BY <1>0, <2>1, <2>2
<1>2. CASE Settle
  <2>1. UNCHANGED <<request, lens, prevs>>
    BY <1>2 DEF Settle
  <2>2. Origin(s)' = Origin(s)
    BY <2>1 DEF Origin, request
  <2>3. CASE Seen(s)' = Seen(s)
    BY <1>0, <2>1, <2>2, <2>3
  <2>4. ASSUME NEW n \in Node, n \notin Seen(s), Seen(s)' = Seen(s) \cup {n}
        PROVE  \E deep \in [Seen(s)' -> 0..(Cardinality(Seen(s)') - 1)] :
                 \A m \in Seen(s)' : lens'[s][m] < Unreached /\ m # Origin(s)' =>
                   deep[TailOf(s, prevs'[s][m])] < deep[m]
    <3>1. Cardinality(Seen(s)) \in Nat /\ Cardinality(Seen(s)') = Cardinality(Seen(s)) + 1
      BY <2>4, SeenIsFinite, FS_AddElement
    <3> DEFINE deep == [m \in Seen(s)' |-> IF m = n THEN Cardinality(Seen(s)) ELSE depth[m]]
    <3>2. deep \in [Seen(s)' -> 0..(Cardinality(Seen(s)') - 1)]
      BY <1>0, <2>4, <3>1
    <3>3. ASSUME NEW m \in Seen(s)', lens[s][m] < Unreached, m # Origin(s)
          PROVE  deep[TailOf(s, prevs[s][m])] < deep[m]
      <4>1. m \in Node /\ TailOf(s, prevs[s][m]) \in Seen(s)
        <5>1. m \in Node
          BY <2>4 DEF Seen
        <5>2. prevs[s][m] \in Edge
          BY <5>1 DEF Types
        <5> QED
          BY <3>3, <5>1, <5>2, SideFacts DEF Treed, Seen
      <4>2. deep[TailOf(s, prevs[s][m])] = depth[TailOf(s, prevs[s][m])]
        BY <2>4, <4>1
      <4>3. depth[TailOf(s, prevs[s][m])] \in 0..(Cardinality(Seen(s)) - 1)
        BY <1>0, <4>1
      <4>4. CASE m = n
        BY <3>1, <4>2, <4>3, <4>4
      <4>5. CASE m # n
        <5>1. m \in Seen(s) /\ deep[m] = depth[m]
          BY <2>4, <4>5
        <5> QED
          BY <1>0, <3>3, <4>2, <5>1
      <4> QED
        BY <4>4, <4>5
    <3> HIDE DEF deep
    <3> QED
      BY <2>1, <2>2, <3>2, <3>3
  <2> QED
    <3>1. PICK n \in Node :
            /\ ~seen[turn][n]
            /\ \/ UNCHANGED seen
               \/ \A t \in Side, m \in Node : seen'[t][m] = (seen[t][m] \/ (t = turn /\ m = n))
      BY <1>2, SettleFacts
    <3>2. CASE UNCHANGED seen \/ s # turn
      <4>1. Seen(s)' = Seen(s)
        BY <3>1, <3>2 DEF Seen
      <4> QED
        BY <2>3, <4>1
    <3>3. CASE ~UNCHANGED seen /\ s = turn
      <4>1. n \notin Seen(s) /\ Seen(s)' = Seen(s) \cup {n}
        BY <3>1, <3>3 DEF Seen
      <4> QED
        BY <2>4, <4>1
    <3> QED
      BY <3>2, <3>3
<1>3. ASSUME NEW x \in todo, Relax(x)
      PROVE  \E deep \in [Seen(s)' -> 0..(Cardinality(Seen(s)') - 1)] :
               \A m \in Seen(s)' : lens'[s][m] < Unreached /\ m # Origin(s)' =>
                 deep[TailOf(s, prevs'[s][m])] < deep[m]
  <2>1. PICK o, new : o = OtherEnd(turn, x) /\ new = lens[turn][cur] + Weight[x]
    OBVIOUS
  <2>2. UNCHANGED <<request, seen>>
    BY <1>3, <2>1, RelaxFacts
  <2>3. Origin(s)' = Origin(s) /\ Seen(s)' = Seen(s)
    BY <2>2 DEF Origin, request, Seen
  <2>4. \A m \in Seen(s) : lens'[s][m] = lens[s][m] /\ prevs'[s][m] = prevs[s][m]
    <3>1. \/ lens' = lens /\ prevs' = prevs
          \/ /\ ~seen[turn][o] /\ o # cur
             /\ \A t \in Side, m \in Node :
                  /\ lens'[t][m] = IF t = turn /\ m = o THEN new ELSE lens[t][m]
                  /\ prevs'[t][m] = IF t = turn /\ m = o THEN x ELSE prevs[t][m]
      BY <1>3, <2>1, RelaxedLabels
    <3> QED
      BY <3>1 DEF Seen
  <2> QED
    BY <1>0, <2>3, <2>4
<1> QED
  BY <1>1, <1>2, <1>3 DEF BidirectNext

\* Going back from a node that has a label, one comes to a node that has a
\* shorter one, along an edge that joins the two.
LEMMA ParentFacts ==
  ASSUME Types, Treed, NEW s \in Side, NEW n \in Node, lens[s][n] < Unreached, n # Origin(s)
  PROVE  LET x == prevs[s][n] IN
         /\ x \in Edge /\ OtherEnd(s, x) = n /\ TailOf(s, x) \in Node
         /\ GetOtherNode(x, n) = TailOf(s, x)
         /\ lens[s][n] = lens[s][TailOf(s, x)] + Weight[x]
         /\ lens[s][TailOf(s, x)] \in Nat /\ Weight[x] \in Nat
<1> DEFINE x == prevs[s][n]
<1>1. x \in Edge
  BY DEF Types
<1>2. /\ OtherEnd(s, x) = n /\ lens[s][n] = lens[s][TailOf(s, x)] + Weight[x]
  BY DEF Treed
<1>3. TailOf(s, x) \in Node /\ Weight[x] \in Nat
  BY <1>1, SideFacts
<1>4. GetOtherNode(x, n) = TailOf(s, x)
  BY <1>1, <1>2, GraphAssumption DEF GetOtherNode, OtherEnd, TailOf
<1> QED
  BY <1>1, <1>2, <1>3, <1>4 DEF Types

\* A walk begins at the middle, with nothing collected.
LEMMA WalkBegins ==
  ASSUME Types, place' = "back", route' = <<>>, cur' = mid', mid' \in Node,
         UNCHANGED lens
  PROVE  Collected'
<1>1. lens["start"][mid'] \in Nat
  BY SideFacts DEF Types
<1>2. lens["start"][mid'] - lens["start"][mid'] = 0
  BY <1>1
<1>3. RealRoute(<<>>, mid', mid', 0)
  BY EmptyRoute
<1> QED
  BY <1>1, <1>2, <1>3 DEF Collected

LEMMA CollectedStep == Types /\ Opened /\ Treed /\ Collected /\ [BidirectNext]_vars => Collected'
<1> SUFFICES ASSUME Types, Opened, Treed, Collected, [BidirectNext]_vars PROVE Collected'
  OBVIOUS
<1>1. CASE Continue
  <2>1. place' = "search"
    BY <1>1 DEF Continue
  <2> QED
    BY <2>1 DEF Collected
<1>2. CASE Settle
  <2>1. PICK n \in Node :
           /\ cur' = n /\ place = "search"
           /\ UNCHANGED <<lens, route>>
           /\ \/ place' = "back" /\ mid' = n
              \/ place' = "relax"
    BY <1>2, SettleFacts
  <2>2. CASE place' = "back" /\ mid' = n
    <3>1. route' = <<>>
      BY <2>1 DEF Types
    <3> QED
      BY <2>1, <2>2, <3>1, WalkBegins
  <2>3. CASE place' = "relax"
    BY <2>3 DEF Collected
  <2> QED
    BY <2>1, <2>2, <2>3
<1>3. ASSUME NEW x \in todo, Relax(x) PROVE Collected'
  <2>1. place' = "relax"
    BY <1>3 DEF Relax
  <2> QED
    BY <2>1 DEF Collected
<1>4. CASE Relaxed
  <2>1. CASE finished
    <3>1. place' = "back" /\ cur' = mid /\ UNCHANGED <<lens, mid, route>> /\ route = <<>>
      BY <1>4, <2>1 DEF Relaxed, flags, Types
    <3>2. mid' \in Node
      BY <3>1 DEF Types
    <3> QED
      BY <3>1, <3>2, WalkBegins
  <2>2. CASE ~finished
    <3>1. place' = "search"
      BY <1>4, <2>2 DEF Relaxed
    <3> QED
      BY <3>1 DEF Collected
  <2> QED
    BY <2>1, <2>2
<1>5. CASE WalkBack
  <2>1. place = "back" /\ UNCHANGED <<lens, mid, request>>
    BY <1>5 DEF WalkBack, flags
  <2> SUFFICES ASSUME \A s \in Side : lens[s][mid] < Unreached
               PROVE  /\ place' # "panic"
                      /\ place' = "back" =>
                           /\ lens["start"][cur'] <= lens["start"][mid]
                           /\ RealRoute(route', cur', mid, lens["start"][mid] - lens["start"][cur'])
                      /\ place' = "on" =>
                           /\ lens["end"][cur'] <= lens["end"][mid]
                           /\ RealRoute(route', start, cur',
                                        lens["start"][mid] + lens["end"][mid] - lens["end"][cur'])
                      /\ place' # "answered"
    BY <2>1 DEF Collected, request
  <2>2. /\ lens["start"][cur] <= lens["start"][mid]
        /\ RealRoute(route, cur, mid, lens["start"][mid] - lens["start"][cur])
    BY <2>1 DEF Collected
  <2>3. /\ cur \in Node /\ lens["start"][cur] \in Nat /\ lens["start"][mid] \in Nat
        /\ lens["end"][mid] \in Nat /\ lens["start"][mid] < Unreached /\ route \in Seq(Edge)
    BY <2>1, SideFacts DEF Types
  <2>4. CASE cur = start
    <3>1. place' = "on" /\ cur' = mid /\ route' = route
      BY <1>5, <2>4 DEF WalkBack
    <3>2. lens["start"][cur] = 0
      BY <2>4, SideFacts DEF Opened, Origin
    <3>3. /\ lens["start"][mid] - lens["start"][cur] = lens["start"][mid]
          /\ lens["start"][mid] + lens["end"][mid] - lens["end"][mid] = lens["start"][mid]
      BY <2>3, <3>2
    <3> QED
      BY <2>2, <2>3, <2>4, <3>1, <3>3
  <2>5. CASE cur # start
    <3> DEFINE x == prevs["start"][cur]
               p == TailOf("start", x)
    <3>1. lens["start"][cur] < Unreached /\ cur # Origin("start")
      BY <2>2, <2>3, <2>5, SideFacts DEF Origin
    <3>2. /\ x \in Edge /\ OtherEnd("start", x) = cur /\ p \in Node
          /\ GetOtherNode(x, cur) = p
          /\ lens["start"][cur] = lens["start"][p] + Weight[x]
          /\ lens["start"][p] \in Nat /\ Weight[x] \in Nat
      BY <2>3, <3>1, ParentFacts, SideFacts
    <3>3. place' = "back" /\ cur' = p /\ route' = <<x>> \o route
      BY <1>5, <2>5, <3>2, GraphAssumption DEF WalkBack
    <3>4. NodeA[x] = p /\ NodeB[x] = cur
      BY <3>2 DEF OtherEnd, TailOf
    <3>5. RealRoute(<<x>>, p, cur, Weight[x])
      BY <3>2, <3>4, EdgeIsRoute
    <3> HIDE DEF x, p
    <3>6. /\ lens["start"][p] <= lens["start"][mid]
          /\ lens["start"][mid] - lens["start"][cur] \in Nat
          /\ Weight[x] + (lens["start"][mid] - lens["start"][cur]) = lens["start"][mid] - lens["start"][p]
      BY <2>2, <2>3, <3>2
    <3>7. <<x>> \in Seq(Edge)
      BY <3>2
    <3>8. RealRoute(<<x>> \o route, p, mid, Weight[x] + (lens["start"][mid] - lens["start"][cur]))
      BY <2>2, <2>3, <3>2, <3>5, <3>6, <3>7, RoutesJoin
    <3> QED
      BY <3>3, <3>6, <3>8
  <2> QED
    BY <2>4, <2>5
<1>6. CASE WalkOn
  <2>1. place = "on" /\ UNCHANGED <<lens, mid, request>>
    BY <1>6 DEF WalkOn, flags
  <2> SUFFICES ASSUME \A s \in Side : lens[s][mid] < Unreached
               PROVE  /\ place' # "panic"
                      /\ place' # "back"
                      /\ place' = "on" =>
                           /\ lens["end"][cur'] <= lens["end"][mid]
                           /\ RealRoute(route', start, cur',
                                        lens["start"][mid] + lens["end"][mid] - lens["end"][cur'])
                      /\ place' = "answered" =>
                           RealRoute(route', start, end, lens["start"][mid] + lens["end"][mid])
    BY <2>1 DEF Collected, request
  <2>2. /\ lens["end"][cur] <= lens["end"][mid]
        /\ RealRoute(route, start, cur, lens["start"][mid] + lens["end"][mid] - lens["end"][cur])
    BY <2>1 DEF Collected
  <2>3. /\ cur \in Node /\ lens["end"][cur] \in Nat /\ lens["start"][mid] \in Nat
        /\ lens["end"][mid] \in Nat /\ lens["end"][mid] < Unreached /\ route \in Seq(Edge)
    BY <2>1, SideFacts DEF Types
  <2>4. CASE cur = end
    <3>1. place' = "answered" /\ route' = route
      BY <1>6, <2>4 DEF WalkOn
    <3>2. lens["end"][cur] = 0
      BY <2>4, SideFacts DEF Opened, Origin
    <3>3. lens["start"][mid] + lens["end"][mid] - lens["end"][cur] = lens["start"][mid] + lens["end"][mid]
      BY <2>3, <3>2
    <3> QED
      BY <2>2, <2>4, <3>1, <3>3
  <2>5. CASE cur # end
    <3> DEFINE x == prevs["end"][cur]
               p == TailOf("end", x)
    <3>1. lens["end"][cur] < Unreached /\ cur # Origin("end")
      BY <2>2, <2>3, <2>5, SideFacts DEF Origin
    <3>2. /\ x \in Edge /\ OtherEnd("end", x) = cur /\ p \in Node
          /\ GetOtherNode(x, cur) = p
          /\ lens["end"][cur] = lens["end"][p] + Weight[x]
          /\ lens["end"][p] \in Nat /\ Weight[x] \in Nat
      BY <2>3, <3>1, ParentFacts, SideFacts
    <3>3. place' = "on" /\ cur' = p /\ route' = route \o <<x>>
      <4>1. Append(route, x) = route \o <<x>>
        BY <2>3, <3>2
      <4> QED
        BY <1>6, <2>5, <3>2, <4>1, GraphAssumption DEF WalkOn
    <3>4. NodeA[x] = cur /\ NodeB[x] = p
      BY <3>2 DEF OtherEnd, TailOf
    <3>5. RealRoute(<<x>>, cur, p, Weight[x])
      BY <3>2, <3>4, EdgeIsRoute
    <3> HIDE DEF x, p
    <3>6. /\ lens["end"][p] <= lens["end"][mid]
          /\ lens["start"][mid] + lens["end"][mid] - lens["end"][cur] \in Nat
          /\ (lens["start"][mid] + lens["end"][mid] - lens["end"][cur]) + Weight[x]
               = lens["start"][mid] + lens["end"][mid] - lens["end"][p]
      BY <2>2, <2>3, <3>2
    <3>7. <<x>> \in Seq(Edge)
      BY <3>2
    <3>8. RealRoute(route \o <<x>>, start, p,
                    (lens["start"][mid] + lens["end"][mid] - lens["end"][cur]) + Weight[x])
      BY <2>2, <2>3, <3>2, <3>5, <3>6, <3>7, RoutesJoin
    <3> QED
      BY <3>3, <3>6, <3>8
  <2> QED
    BY <2>4, <2>5
<1>7. CASE UNCHANGED vars
  BY <1>7 DEF Collected, vars, request, flags
<1> QED
  BY <1>1, <1>2, <1>3, <1>4, <1>5, <1>6, <1>7 DEF BidirectNext

-----------------------------------------------------------------------------
(* What only holds of a bidirectional Dijkstra before its searches meet.   *)

\* In front of the heap is the shortest of the labels of the nodes that have not
\* been visited; if the heap is empty none of them has a label.
LEMMA ShortestIsTaken ==
  ASSUME Types, Queued, OnItsOwn, NEW n \in Node, ~seen[turn][n], Takes(turn, n),
         NEW m \in Node, ~seen[turn][m]
  PROVE  lens[turn][n] <= lens[turn][m]
<1>1. turn \in Side /\ lens[turn][n] \in Nat /\ lens[turn][m] \in Nat
  BY DEF Types
<1>2. lens[turn][n] <= Unreached /\ Unreached \in Nat
  BY <1>1, SideFacts DEF Queued
<1>3. CASE lens[turn][m] >= Unreached
  BY <1>1, <1>2, <1>3
<1>4. CASE lens[turn][m] < Unreached
  <2>1. Item(m, 2 * lens[turn][m]) \in heaps[turn]
    BY <1>1, <1>4 DEF Queued
  <2>2. PICK i \in heaps[turn] : i.node = n /\ \A j \in heaps[turn] : i.key <= j.key
    BY <2>1, TakesFacts
  <2>3. i.key <= 2 * lens[turn][m]
    BY <2>1, <2>2 DEF Item
  <2>4. 2 * lens[turn][n] <= i.key
    BY <1>1, <2>2 DEF Queued
  <2>5. i.key \in Int
    BY <1>1 DEF Types
  <2> QED
    BY <1>1, <2>3, <2>4, <2>5
<1> QED
  BY <1>1, <1>2, <1>3, <1>4

LEMMA QueuedStep == Types /\ Opened /\ Queued /\ [BidirectNext]_vars => Queued'
<1> SUFFICES ASSUME Types, Opened, Queued, [BidirectNext]_vars, OnItsOwn'
             PROVE  Queued'
  BY DEF Queued
<1> DEFINE Good(s) ==
      /\ \A n \in Node : lens'[s][n] <= Unreached
      /\ \A n \in Node : ~seen'[s][n] /\ lens'[s][n] < Unreached =>
           [node |-> n, key |-> 2 * lens'[s][n]] \in heaps'[s]
      /\ \A i \in heaps'[s] : lens'[s][i.node] < Unreached /\ 2 * lens'[s][i.node] <= i.key
<1> SUFFICES ASSUME NEW s \in Side PROVE Good(s)
  BY DEF Queued, Item
<1>0. ASSUME OnItsOwn
      PROVE  /\ \A n \in Node : lens[s][n] <= Unreached
             /\ \A n \in Node : ~seen[s][n] /\ lens[s][n] < Unreached =>
                  [node |-> n, key |-> 2 * lens[s][n]] \in heaps[s]
             /\ \A i \in heaps[s] : lens[s][i.node] < Unreached /\ 2 * lens[s][i.node] <= i.key
  BY <1>0 DEF Queued, Item
<1>1. CASE Continue
  <2>1. UNCHANGED <<lens, seen>> /\ OnItsOwn
    BY <1>1 DEF Continue, flags, request, OnItsOwn
  <2>2. PICK n \in Node : seen[turn][n] /\ Takes(turn, n)
    BY <1>1 DEF Continue
  <2>3. CASE s # turn
    BY <1>0, <2>1, <2>2, <2>3, TakesFacts
  <2>4. CASE s = turn
    <3>1. heaps'[s] \subseteq heaps[s] /\ \A i \in heaps[s] : i.node # n => i \in heaps'[s]
      BY <2>2, <2>4, TakesFacts
    <3>2. ASSUME NEW m \in Node, ~seen[s][m], lens[s][m] < Unreached
          PROVE  [node |-> m, key |-> 2 * lens[s][m]] \in heaps'[s]
      <4>1. m # n
        BY <2>2, <2>4, <3>2
      <4>2. [node |-> m, key |-> 2 * lens[s][m]] \in heaps[s]
        BY <1>0, <2>1, <3>2
      <4> QED
        BY <3>1, <4>1, <4>2
    <3> QED
      BY <1>0, <2>1, <3>1, <3>2
  <2> QED
    BY <2>3, <2>4
<1>2. CASE Settle
  <2>1. PICK n \in Node :
           /\ Takes(turn, n)
           /\ UNCHANGED <<request, lens>>
           /\ ~finished' => \A t \in Side, m \in Node :
                seen'[t][m] = (seen[t][m] \/ (t = turn /\ m = n))
    BY <1>2, SettleFacts
  <2>2. \A t \in Side, m \in Node : seen'[t][m] = (seen[t][m] \/ (t = turn /\ m = n))
    BY <2>1 DEF OnItsOwn
  <2>3. OnItsOwn
    <3>1. place = "search" /\ alg' = alg
      BY <1>2 DEF Settle, request
    <3>2. ~finished
      BY <3>1 DEF Types
    <3> QED
      BY <3>1, <3>2 DEF OnItsOwn
  <2>4. CASE OnItsOwn
    <3>1. CASE s # turn
      BY <1>0, <2>1, <2>2, <2>4, <3>1, TakesFacts
    <3>2. CASE s = turn
      <4>1. heaps'[s] \subseteq heaps[s] /\ \A i \in heaps[s] : i.node # n => i \in heaps'[s]
        BY <2>1, <3>2, TakesFacts
      <4>2. ASSUME NEW m \in Node, ~seen'[s][m], lens[s][m] < Unreached
            PROVE  [node |-> m, key |-> 2 * lens[s][m]] \in heaps'[s]
        <5>1. m # n /\ ~seen[s][m]
          BY <2>2, <3>2, <4>2
        <5>2. [node |-> m, key |-> 2 * lens[s][m]] \in heaps[s]
          BY <1>0, <2>4, <4>2, <5>1
        <5> QED
          BY <4>1, <5>1, <5>2
      <4> QED
        BY <1>0, <2>1, <2>4, <4>1, <4>2
    <3> QED
      BY <3>1, <3>2
  <2> QED
    BY <2>3, <2>4
<1>3. ASSUME NEW x \in todo, Relax(x) PROVE Good(s)
  <2>1. PICK o, new : o = OtherEnd(turn, x) /\ new = lens[turn][cur] + Weight[x]
    OBVIOUS
  <2>2. /\ o \in Node /\ new \in Nat /\ turn \in Side
        /\ UNCHANGED <<request, seen>>
        /\ \/ mid' = mid /\ finished' = finished
           \/ mid' = o /\ finished'
        /\ ~finished' =>
              IF ~seen[turn][o] /\ o # cur /\ lens[turn][o] > new
                THEN /\ lens' = [lens EXCEPT ![turn][o] = new]
                     /\ heaps' = [heaps EXCEPT ![turn] = @ \cup {Item(o, Key(turn, o, new))}]
                ELSE lens' = lens /\ heaps' = heaps
    BY <1>3, <2>1, RelaxFacts
  <2>3. OnItsOwn /\ alg = "Dijkstra" /\ ~finished'
    BY <2>2 DEF OnItsOwn, request
  <2>4. CASE lens' = lens /\ heaps' = heaps
    BY <1>0, <2>2, <2>3, <2>4
  <2>5. CASE /\ lens[turn][o] > new
             /\ lens' = [lens EXCEPT ![turn][o] = new]
             /\ heaps' = [heaps EXCEPT ![turn] = @ \cup {Item(o, Key(turn, o, new))}]
    <3>1. lens \in [Side -> [Node -> Nat]] /\ heaps \in [Side -> SUBSET [node : Node, key : Int]]
      BY DEF Types
    <3>2. CASE s # turn
      <4>1. lens'[s] = lens[s] /\ heaps'[s] = heaps[s]
        BY <2>2, <2>5, <3>1, <3>2
      <4> QED
        BY <1>0, <2>2, <2>3, <4>1
    <3>3. CASE s = turn
      <4>1. heaps'[s] = heaps[s] \cup {[node |-> o, key |-> 2 * new]}
        BY <2>2, <2>3, <2>5, <3>1, <3>3 DEF Item, Key
      <4>2. \A n \in Node : lens'[s][n] = IF n = o THEN new ELSE lens[s][n]
        BY <2>2, <2>5, <3>1, <3>3
      <4>3. lens[s][o] \in Nat /\ lens[s][o] <= Unreached /\ Unreached \in Nat /\ new < lens[s][o]
        BY <1>0, <2>2, <2>3, <2>5, <3>1, <3>3, SideFacts
      <4>4. new < Unreached
        BY <2>2, <4>3
      <4>5. \A n \in Node : lens'[s][n] <= Unreached
        <5>1. \A n \in Node : lens[s][n] <= Unreached
          BY <1>0, <2>3
        <5>2. new <= Unreached
          BY <2>2, <4>3, <4>4
        <5> QED
          BY <4>2, <5>1, <5>2
      <4>6. ASSUME NEW n \in Node, ~seen'[s][n], lens'[s][n] < Unreached
            PROVE  [node |-> n, key |-> 2 * lens'[s][n]] \in heaps'[s]
        BY <1>0, <2>2, <2>3, <4>1, <4>2, <4>6
      <4>7. ASSUME NEW i \in heaps'[s]
            PROVE  lens'[s][i.node] < Unreached /\ 2 * lens'[s][i.node] <= i.key
        <5>1. CASE i = [node |-> o, key |-> 2 * new]
          <6>1. i.node = o /\ i.key = 2 * new
            BY <5>1
          <6> QED
            BY <2>2, <4>2, <4>4, <6>1
        <5>2. CASE i \in heaps[s]
          <6>1. i.node \in Node /\ i.key \in Int
            BY <3>1, <5>2
          <6>2. lens[s][i.node] < Unreached /\ 2 * lens[s][i.node] <= i.key
            BY <1>0, <2>3, <5>2
          <6>3. CASE i.node = o
            <7>1. lens'[s][i.node] = new /\ 2 * lens[s][o] <= i.key
              BY <4>2, <6>1, <6>2, <6>3
            <7>2. 2 * new <= i.key
              BY <2>2, <4>3, <6>1, <7>1
            <7> QED
              BY <4>4, <7>1, <7>2
          <6>4. CASE i.node # o
            BY <4>2, <6>1, <6>2, <6>4
          <6> QED
            BY <6>3, <6>4
        <5> QED
          BY <4>1, <5>1, <5>2
      <4> QED
        BY <4>5, <4>6, <4>7
    <3> QED
      BY <3>2, <3>3
  <2> QED
    BY <2>2, <2>3, <2>4, <2>5
<1>4. CASE Relaxed \/ WalkBack \/ WalkOn \/ UNCHANGED vars
  <2>1. UNCHANGED <<lens, seen, heaps>> /\ OnItsOwn
    BY <1>4 DEF Relaxed, WalkBack, WalkOn, vars, flags, request, OnItsOwn
  <2> QED
    BY <1>0, <2>1
<1> QED
  BY <1>1, <1>2, <1>3, <1>4 DEF BidirectNext

LEMMA InOrderStep ==
  Types /\ Opened /\ Queued /\ InOrder /\ [BidirectNext]_vars => InOrder'
<1> SUFFICES ASSUME Types, Opened, Queued, InOrder, [BidirectNext]_vars, OnItsOwn'
             PROVE  /\ \A s \in Side, m, n \in Node :
                         seen'[s][m] /\ ~seen'[s][n] => lens'[s][m] <= lens'[s][n]
                    /\ place' = "relax" =>
                         \A m \in Node : seen'[turn'][m] => lens'[turn'][m] <= lens'[turn'][cur']
  BY DEF InOrder
<1>1. CASE Continue \/ Relaxed \/ WalkBack \/ WalkOn \/ UNCHANGED vars
  <2>1. /\ UNCHANGED <<request, lens, prevs, seen, mid, finished, todo>>
        /\ place' = "relax" => place = "relax" /\ UNCHANGED <<cur, turn>>
    BY <1>1, OtherSteps
  <2>2. OnItsOwn
    BY <2>1 DEF OnItsOwn, request
  <2> QED
    BY <2>1, <2>2 DEF InOrder
<1>2. CASE Settle
  <2>1. PICK n \in Node :
           /\ ~seen[turn][n] /\ Takes(turn, n) /\ cur' = n /\ turn \in Side /\ place = "search"
           /\ UNCHANGED <<request, lens, prevs, turn, route>>
           /\ \/ finished'
              \/ \A s \in Side, m \in Node : seen'[s][m] = (seen[s][m] \/ (s = turn /\ m = n))
    BY <1>2, SettleFacts
  <2>2. OnItsOwn /\ ~finished'
    BY <2>1 DEF OnItsOwn, request, Types
  <2>3. \A m \in Node : ~seen[turn][m] => lens[turn][n] <= lens[turn][m]
    BY <2>1, <2>2, ShortestIsTaken
  <2>4. \A s \in Side, m, k \in Node : seen[s][m] /\ ~seen[s][k] => lens[s][m] <= lens[s][k]
    BY <2>2 DEF InOrder
  <2>5. lens[turn][n] <= lens[turn][n]
    BY <2>1 DEF Types
  <2> QED
    BY <2>1, <2>2, <2>3, <2>4, <2>5
<1>3. ASSUME NEW x \in todo, Relax(x)
      PROVE  /\ \A s \in Side, m, n \in Node :
                  seen'[s][m] /\ ~seen'[s][n] => lens'[s][m] <= lens'[s][n]
             /\ place' = "relax" =>
                  \A m \in Node : seen'[turn'][m] => lens'[turn'][m] <= lens'[turn'][cur']
  <2>1. PICK o, new : o = OtherEnd(turn, x) /\ new = lens[turn][cur] + Weight[x]
    OBVIOUS
  <2>2. /\ o \in Node /\ new \in Nat /\ turn \in Side /\ cur \in Node /\ x \in Edge
        /\ place = "relax" /\ UNCHANGED <<request, seen, turn, place, cur, route>>
        /\ \/ mid' = mid /\ finished' = finished
           \/ mid' = o /\ finished'
    BY <1>3, <2>1, RelaxFacts
  <2>3. OnItsOwn
    BY <2>2 DEF OnItsOwn, request
  <2>4. /\ \A s \in Side, m, n \in Node : seen[s][m] /\ ~seen[s][n] => lens[s][m] <= lens[s][n]
        /\ \A m \in Node : seen[turn][m] => lens[turn][m] <= lens[turn][cur]
    BY <2>2, <2>3 DEF InOrder
  <2>5. CASE lens' = lens
    BY <2>2, <2>4, <2>5
  <2>6. CASE /\ ~seen[turn][o] /\ o # cur
             /\ \A s \in Side, n \in Node :
                  lens'[s][n] = IF s = turn /\ n = o THEN new ELSE lens[s][n]
    <3>1. ASSUME NEW m \in Node, seen[turn][m] PROVE lens[turn][m] <= new
      <4>1. lens[turn][m] <= lens[turn][cur] /\ Weight[x] \in Nat
        BY <2>2, <2>4, <3>1, SideFacts
      <4>2. lens[turn][m] \in Nat /\ lens[turn][cur] \in Nat
        BY <2>2 DEF Types
      <4> QED
        BY <2>1, <4>1, <4>2
    <3>2. \A s \in Side, m, n \in Node :
            seen[s][m] /\ ~seen[s][n] => lens'[s][m] <= lens'[s][n]
      BY <2>4, <2>6, <3>1
    <3>3. \A m \in Node : seen[turn][m] => lens'[turn][m] <= lens'[turn][cur]
      BY <2>2, <2>4, <2>6
    <3> QED
      BY <2>2, <3>2, <3>3
  <2> QED
    BY <1>3, <2>1, <2>5, <2>6, RelaxedLabels
<1> QED
  BY <1>1, <1>2, <1>3 DEF BidirectNext

LEMMA SettledStep ==
  Types /\ Opened /\ InOrder /\ Settled /\ [BidirectNext]_vars => Settled'
<1> SUFFICES ASSUME Types, Opened, InOrder, Settled, [BidirectNext]_vars, OnItsOwn',
                    NEW s \in Side, NEW y \in Edge, seen'[s][TailOf(s, y)],
                    ~(place' = "relax" /\ s = turn' /\ y \in todo')
             PROVE  lens'[s][OtherEnd(s, y)] <= lens'[s][TailOf(s, y)] + Weight[y]
  BY DEF Settled, OtherEnd, TailOf
<1> DEFINE a == TailOf(s, y)
           b == OtherEnd(s, y)
<1>0. a \in Node /\ b \in Node /\ Weight[y] \in Nat
  BY SideFacts
<1>1. CASE Continue \/ Relaxed \/ WalkBack \/ WalkOn \/ UNCHANGED vars
  <2>1. UNCHANGED <<request, lens, seen, finished, todo>>
    BY <1>1, OtherSteps
  <2>2. OnItsOwn
    BY <2>1 DEF OnItsOwn, request
  <2>3. ~(place = "relax" /\ s = turn /\ y \in todo)
    BY <1>1 DEF Types, Continue, Relaxed, WalkBack, WalkOn, vars
  <2> QED
    BY <2>1, <2>2, <2>3 DEF Settled
<1>2. CASE Settle
  <2>1. PICK n \in Node :
           /\ place = "search" /\ UNCHANGED <<request, lens, turn>>
           /\ \/ finished'
              \/ /\ place' = "relax" /\ todo' = {x \in Edge : TailOf(turn, x) = n}
                 /\ \A t \in Side, m \in Node : seen'[t][m] = (seen[t][m] \/ (t = turn /\ m = n))
    BY <1>2, SettleFacts
  <2>2. OnItsOwn /\ ~finished'
    BY <2>1 DEF OnItsOwn, request, Types
  <2>3. seen[s][a]
    BY <1>0, <2>1, <2>2
  <2> HIDE DEF a, b
  <2> QED
    BY <2>1, <2>2, <2>3 DEF Settled, a, b
<1>3. ASSUME NEW x \in todo, Relax(x) PROVE lens'[s][b] <= lens'[s][a] + Weight[y]
  <2>1. PICK o, new : o = OtherEnd(turn, x) /\ new = lens[turn][cur] + Weight[x]
    OBVIOUS
  <2>2. /\ o \in Node /\ new \in Nat /\ turn \in Side /\ cur \in Node /\ x \in Edge
        /\ TailOf(turn, x) = cur /\ todo' = todo \ {x}
        /\ place = "relax" /\ UNCHANGED <<request, seen, turn, place, cur, route>>
        /\ \/ mid' = mid /\ finished' = finished
           \/ mid' = o /\ finished'
        /\ ~finished' =>
              IF ~seen[turn][o] /\ o # cur /\ lens[turn][o] > new
                THEN lens' = [lens EXCEPT ![turn][o] = new]
                ELSE lens' = lens
    BY <1>3, <2>1, RelaxFacts
  <2>3. OnItsOwn /\ ~finished' /\ seen[s][a]
    BY <2>2 DEF OnItsOwn, request
  <2>4. lens \in [Side -> [Node -> Nat]]
    BY DEF Types
  <2>5. \A t \in Side, m \in Node : lens'[t][m] <= lens[t][m] /\ (seen[t][m] => lens'[t][m] = lens[t][m])
    <3>1. CASE lens' = lens
      BY <2>4, <3>1
    <3>2. CASE /\ ~seen[turn][o] /\ lens[turn][o] > new
               /\ lens' = [lens EXCEPT ![turn][o] = new]
      <4>1. \A t \in Side, m \in Node :
              lens'[t][m] = IF t = turn /\ m = o THEN new ELSE lens[t][m]
        BY <2>2, <2>4, <3>2
      <4>2. new <= lens[turn][o]
        BY <2>2, <2>4, <3>2
      <4> QED
        BY <2>4, <3>2, <4>1, <4>2
    <3> QED
      BY <2>2, <2>3, <3>1, <3>2
  <2>6. lens'[s][a] = lens[s][a] /\ lens'[s][b] <= lens[s][b] /\ lens'[s][b] \in Nat
    <3>1. lens'[s][b] \in Nat
      BY <1>0, <2>2, <2>3, <2>4
    <3> QED
      BY <1>0, <2>3, <2>5, <3>1
  <2>7. lens[s][a] \in Nat /\ lens[s][b] \in Nat
    BY <1>0, <2>4
  <2>8. CASE y = x /\ s = turn
    <3>1. a = cur /\ b = o
      BY <2>1, <2>2, <2>8
    <3>2. CASE lens'[s][b] = new
      BY <2>1, <2>6, <2>7, <2>8, <3>1, <3>2, <1>0
    <3>3. CASE seen[s][b] \/ b = a
      <4>1. lens[s][b] <= lens[s][a]
        BY <1>0, <2>2, <2>3, <2>7, <2>8, <3>1, <3>3 DEF InOrder
      <4> QED
        BY <1>0, <2>6, <2>7, <4>1
    <3>4. CASE lens[s][b] <= new
      BY <1>0, <2>1, <2>6, <2>7, <2>8, <3>1, <3>4
    <3> HIDE DEF a, b
    <3>5. lens'[s][b] = new \/ seen[s][b] \/ b = a \/ lens[s][b] <= new
      BY <2>2, <2>3, <2>4, <2>7, <2>8, <3>1
    <3> QED
      BY <3>2, <3>3, <3>4, <3>5
  <2>9. CASE ~(y = x /\ s = turn)
    <3>1. ~(place = "relax" /\ s = turn /\ y \in todo)
      BY <2>2, <2>9
    <3>2. lens[s][b] <= lens[s][a] + Weight[y]
      BY <2>3, <3>1 DEF Settled
    <3> HIDE DEF a, b
    <3> QED
      BY <1>0, <2>6, <2>7, <3>2
  <2> QED
    BY <2>8, <2>9
<1> QED
  BY <1>1, <1>2, <1>3 DEF BidirectNext

-----------------------------------------------------------------------------
LEMMA Begins == BidirectInit => IInv
<1> SUFFICES ASSUME BidirectInit PROVE IInv
  OBVIOUS
<1>0. \A s \in Side : Origin(s) \in Node
  BY DEF BidirectInit, Origin
<1>1. /\ heaps = [s \in Side |-> {Item(Origin(s), 0)}]
      /\ lens = [s \in Side |-> [n \in Node |-> IF n = Origin(s) THEN 0 ELSE Unreached]]
      /\ prevs = [s \in Side |-> [n \in Node |-> FirstEdge]]
      /\ seen = [s \in Side |-> [n \in Node |-> FALSE]]
      /\ place = "search" /\ todo = {} /\ route = <<>> /\ ~finished
  BY DEF BidirectInit, Origin
<1>2. Types
  <2>1. \A s \in Side : Item(Origin(s), 0) \in [node : Node, key : Int]
    BY <1>0 DEF Item
  <2>2. heaps \in [Side -> SUBSET [node : Node, key : Int]]
    BY <1>1, <2>1
  <2>3. lens \in [Side -> [Node -> Nat]]
    BY <1>1, SideFacts
  <2>4. prevs \in [Side -> [Node -> Edge]] /\ seen \in [Side -> [Node -> BOOLEAN]]
    BY <1>1, SideFacts
  <2>5. /\ alg \in {"Dijkstra", "A*"} /\ mode \in {"calc", "steps"}
        /\ start \in Node /\ end \in Node /\ mid \in Node /\ finished \in BOOLEAN
        /\ turn \in Side /\ cur \in Node /\ route \in Seq(Edge)
    <3>1. route \in Seq(Edge)
      BY <1>1
    <3>2. turn \in Side
      BY SideFacts DEF BidirectInit
    <3>3. mid \in Node /\ cur \in Node
      BY SideFacts DEF BidirectInit
    <3>4. finished \in BOOLEAN
      BY DEF BidirectInit
    <3> QED
      BY <3>1, <3>2, <3>3, <3>4 DEF BidirectInit
  <2> QED
    BY <1>1, <2>2, <2>3, <2>4, <2>5 DEF Types
<1>3. Opened
  BY <1>0, <1>1 DEF Opened
<1>4. Treed
  BY <1>1, SideFacts DEF Treed
<1>5. Grown
  <2> SUFFICES ASSUME NEW s \in Side
               PROVE  \E depth \in [Seen(s) -> 0..(Cardinality(Seen(s)) - 1)] :
                        \A n \in Seen(s) : lens[s][n] < Unreached /\ n # Origin(s) =>
                          depth[TailOf(s, prevs[s][n])] < depth[n]
    BY DEF Grown
  <2>1. Seen(s) = {}
    BY <1>1 DEF Seen
  <2> DEFINE depth == [n \in Seen(s) |-> 0]
  <2>2. depth \in [Seen(s) -> 0..(Cardinality(Seen(s)) - 1)]
    BY <2>1
  <2> HIDE DEF depth
  <2> QED
    BY <2>1, <2>2
<1>6. Collected
  BY <1>1 DEF Collected
<1>7. Queued
  <2> SUFFICES ASSUME NEW s \in Side
               PROVE  /\ \A n \in Node : lens[s][n] <= Unreached
                      /\ \A n \in Node : ~seen[s][n] /\ lens[s][n] < Unreached =>
                           Item(n, 2 * lens[s][n]) \in heaps[s]
                      /\ \A i \in heaps[s] : lens[s][i.node] < Unreached /\ 2 * lens[s][i.node] <= i.key
    BY DEF Queued
  <2>1. heaps[s] = {Item(Origin(s), 0)} /\ lens[s][Origin(s)] = 0 /\ Unreached > 0
    BY <1>0, <1>1, SideFacts
  <2>2. \A n \in Node : lens[s][n] <= Unreached /\ (lens[s][n] < Unreached => n = Origin(s))
    BY <1>1, SideFacts
  <2> QED
    BY <2>1, <2>2 DEF Item
<1>8. InOrder /\ Settled
  BY <1>1, SideFacts DEF InOrder, Settled
<1> QED
  BY <1>2, <1>3, <1>4, <1>5, <1>6, <1>7, <1>8 DEF IInv

LEMMA Invariance == BidirectSpec => []IInv
<1>1. IInv /\ [BidirectNext]_vars => IInv'
  BY TypesStep, OpenedStep, TreedStep, GrownStep, CollectedStep, QueuedStep, InOrderStep, SettledStep
     DEF IInv
<1> QED
  BY Begins, <1>1, PTL DEF BidirectSpec

(***************************************************************************)
(* In every graph, whatever the estimates, the numbers of the nodes and    *)
(* the order in which items of the same key leave the heaps, the edges     *)
(* that GetShortestPath of the bidirectional searches collects join the    *)
(* start to the end and weigh what the two labels of the middle add up to. *)
(***************************************************************************)
THEOREM RouteAlwaysReal == BidirectSpec => []RouteIsReal
<1>1. IInv => RouteIsReal
  BY DEF IInv, Collected, RouteIsReal
<1> QED
  BY Invariance, <1>1, PTL

\* Cut off at the label of a node that was visited, the labels of a side are a
\* potential: they are its distances at the most.
LEMMA CutOffBounds ==
  ASSUME IInv, OnItsOwn, NEW s \in Side, NEW n \in Node, seen[s][n],
         NEW p, p = [m \in Node |-> IF lens[s][m] <= lens[s][n] THEN lens[s][m] ELSE lens[s][n]]
  PROVE  p \in [Node -> Int] /\ p[Origin(s)] <= 0 /\ Bounds(p, Arcs(s))
<1>1. \A m \in Node : lens[s][m] \in Nat
  BY DEF IInv, Types
<1>2. Origin(s) \in Node /\ lens[s][Origin(s)] = 0
  BY DEF IInv, Types, Opened, Origin
<1>3. ASSUME NEW x \in Edge
      PROVE  p[OtherEnd(s, x)] <= p[TailOf(s, x)] + Weight[x]
  <2>1. TailOf(s, x) \in Node /\ OtherEnd(s, x) \in Node /\ Weight[x] \in Nat
    BY SideFacts
  <2>2. lens[s][OtherEnd(s, x)] <= lens[s][TailOf(s, x)] + Weight[x] \/ lens[s][n] <= lens[s][TailOf(s, x)]
    <3>1. CASE ~seen[s][TailOf(s, x)]
      BY <2>1, <3>1 DEF IInv, InOrder
    <3>2. CASE seen[s][TailOf(s, x)] /\ ~(place = "relax" /\ s = turn /\ x \in todo)
      BY <3>2 DEF IInv, Settled
    <3>3. CASE place = "relax" /\ s = turn /\ x \in todo
      <4>1. TailOf(s, x) = cur
        BY <3>3 DEF IInv, Types
      <4> QED
        BY <3>3, <4>1 DEF IInv, InOrder
    <3> QED
      BY <3>1, <3>2, <3>3
  <2> QED
    BY <1>1, <2>1, <2>2
<1>4. Bounds(p, Arcs(s))
  <2> SUFFICES ASSUME NEW x \in Edge
               PROVE  p[OtherEnd(s, x)] <= p[TailOf(s, x)] + Weight[x]
    BY DEF Bounds, Arcs, TailOf
  <2> QED
    BY <1>3
<1> QED
  BY <1>1, <1>2, <1>4

\* The tree of the flags shows the labels to be the distances at the least.
LEMMA TreeBounds ==
  ASSUME IInv, NEW s \in Side, NEW n \in Node, seen[s][n], lens[s][n] < Unreached
  PROVE  \E l \in Labellings(Origin(s), Arcs(s), Cardinality(Node))[Cardinality(Node)] :
           l.node = n /\ l.dist <= lens[s][n]
<1>1. PICK depth \in [Seen(s) -> 0..(Cardinality(Seen(s)) - 1)] :
        \A m \in Seen(s) : lens[s][m] < Unreached /\ m # Origin(s) =>
          depth[TailOf(s, prevs[s][m])] < depth[m]
  BY DEF IInv, Grown
<1>2. Cardinality(Node) \in Nat /\ Cardinality(Seen(s)) \in Nat /\ Cardinality(Seen(s)) <= Cardinality(Node)
  BY SeenIsFinite, NodesAssumption, FS_CardinalityType
<1> DEFINE T == {m \in Seen(s) : lens[s][m] < Unreached}
           far == [m \in T |-> lens[s][m]]
           deep == [m \in T |-> depth[m]]
           N == Cardinality(Node)
<1>3. T \in SUBSET Node /\ n \in T
  BY DEF Seen
<1>4. far \in [T -> Nat]
  BY <1>3 DEF IInv, Types
<1>5. deep \in [T -> 0..N]
  BY <1>1, <1>2
<1>6. ASSUME NEW m \in T, m # Origin(s)
      PROVE  \E r \in Arcs(s) : /\ r.to = m /\ r.from \in T
                                /\ deep[r.from] < deep[m]
                                /\ far[r.from] + r.weight <= far[m]
  <2> DEFINE x == prevs[s][m]
             q == TailOf(s, x)
             r == [from |-> q, to |-> OtherEnd(s, x), weight |-> Weight[x]]
  <2>1. m \in Node /\ lens[s][m] < Unreached /\ m \in Seen(s)
    BY <1>3
  <2>2. /\ x \in Edge /\ OtherEnd(s, x) = m /\ q \in Node
        /\ lens[s][m] = lens[s][q] + Weight[x]
        /\ lens[s][q] \in Nat /\ Weight[x] \in Nat
    BY <1>6, <2>1, ParentFacts DEF IInv
  <2>3. q \in Seen(s)
    BY <1>6, <2>1, <2>2 DEF IInv, Treed, Seen
  <2>4. depth[q] < depth[m]
    BY <1>1, <1>6, <2>1
  <2>5. r \in Arcs(s)
    BY <2>2 DEF Arcs, TailOf
  <2>6. r.from = q /\ r.to = m /\ r.weight = Weight[x]
    BY <2>2
  <2> HIDE DEF x, q, r
  <2>7. lens[s][q] < Unreached
    BY <2>1, <2>2, SideFacts
  <2>8. q \in T
    BY <2>3, <2>7
  <2>9. far[q] = lens[s][q] /\ far[m] = lens[s][m] /\ deep[q] = depth[q] /\ deep[m] = depth[m]
    BY <2>8
  <2>10. far[q] + Weight[x] <= far[m]
    BY <2>2, <2>9
  <2> HIDE DEF T, far, deep
  <2> QED
    BY <2>4, <2>5, <2>6, <2>8, <2>9, <2>10
<1>7. Origin(s) \in Node /\ Arcs(s) \in SUBSET ArcsOn(Node)
  <2>1. Origin(s) \in Node
    BY DEF IInv, Types, Origin
  <2>2. Arcs(s) \in SUBSET ArcsOn(Node)
    BY SideFacts DEF Arcs, ArcsOn, TailOf
  <2> QED
    BY <2>1, <2>2
<1>8. far[n] = lens[s][n]
  BY <1>3
<1> HIDE DEF T, far, deep
<1>9. \A m \in T : \/ m = Origin(s)
                   \/ \E r \in Arcs(s) : /\ r.to = m /\ r.from \in T
                                         /\ deep[r.from] < deep[m]
                                         /\ far[r.from] + r.weight <= far[m]
  BY <1>6
<1>10. \A m \in T : \E l \in Labellings(Origin(s), Arcs(s), N)[N] : l.node = m /\ l.dist <= far[m]
  <2> HIDE DEF N
  <2>1. N \in Nat
    BY <1>2 DEF N
  <2> QED
    BY <1>3, <1>4, <1>5, <1>7, <1>9, <2>1, TreeIsFollowed
<1> QED
  BY <1>3, <1>8, <1>10

(***************************************************************************)
(* In every graph, until the searches of a bidirectional Dijkstra meet,    *)
(* the label of a node that a side has visited is the length of a shortest *)
(* path between its end and the node: neither the turns nor the items that *)
(* are passed over, nor a heap that runs dry, make it visit a node early.  *)
(***************************************************************************)
THEOREM SettledAlwaysExact == BidirectSpec => []SettledIsExact
<1>1. IInv => SettledIsExact
  <2> SUFFICES ASSUME IInv, OnItsOwn, NEW s \in Side, NEW n \in Node,
                      seen[s][n], lens[s][n] < Unreached
               PROVE  lens[s][n] = DistancesFrom(Origin(s), Node, Arcs(s), Unreached)[n]
    BY DEF SettledIsExact, OnItsOwn
  <2>1. PICK p : p = [m \in Node |-> IF lens[s][m] <= lens[s][n] THEN lens[s][m] ELSE lens[s][n]]
    OBVIOUS
  <2>2. p \in [Node -> Int] /\ p[Origin(s)] <= 0 /\ Bounds(p, Arcs(s))
    BY <2>1, CutOffBounds
  <2>3. lens[s][n] \in Nat /\ p[n] = lens[s][n] /\ lens[s][n] <= Unreached /\ Unreached \in Nat
    <3>1. lens[s][n] \in Nat
      BY DEF IInv, Types
    <3>2. p[n] = lens[s][n]
      BY <2>1, <3>1
    <3> QED
      BY <3>1, <3>2, SideFacts
  <2>4. Origin(s) \in Node /\ Arcs(s) \in SUBSET ArcsOn(Node)
    <3>1. Origin(s) \in Node
      BY DEF IInv, Types, Origin
    <3>2. Arcs(s) \in SUBSET ArcsOn(Node)
      BY SideFacts DEF Arcs, ArcsOn, TailOf
    <3> QED
      BY <3>1, <3>2
  <2>5. \E l \in Labellings(Origin(s), Arcs(s), Cardinality(Node))[Cardinality(Node)] :
          l.node = n /\ l.dist <= lens[s][n]
    BY TreeBounds
  <2>6. lens[s][n] <= p[n]
    BY <2>3
  <2> QED
    BY <2>2, <2>3, <2>4, <2>5, <2>6, NodesAssumption, DistanceIs
<1> QED
  BY Invariance, <1>1, PTL
=============================================================================
