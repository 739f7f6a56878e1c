--------------------- MODULE DistributedDijkstraProofs ---------------------
(***************************************************************************)
(* Proofs about the distributed search, for every net, any number of       *)
(* queries and tiles, and every interleaving of the goroutines.            *)
(*                                                                         *)
(* The invariant is built in layers, each of them kept by every step that  *)
(* starts where the layers before it hold: types, what a runner that is    *)
(* not made yet looks like, the counters, the lengths of labels, the way   *)
(* the path is walked back, what keeps a shortest path from being lost     *)
(* while its pieces are in heaps, messages and flags, and that every label *)
(* leads back to the start over flags that are there.                      *)
(***************************************************************************)
EXTENDS DistributedDijkstra, DistancesProofs, FunctionTheorems

\* The last edge of the path to a node leads to the node.
GoodLabels == {l \in Labels : l.prev # NoEdge => NodeB[l.prev] = l.node}
GoodRequests == [key : Key, label : GoodLabels]
FirstMsg == Request(NoKey, Unreached(NoNode))

Waking == {"setRunning", "release", "sending"}
Adding == {"get", "add", "isTaken", "clearing"} \cup Waking
RoutePlaces == {"pop", "empty", "asleep", "find", "create", "start", "dec", "decWrite"} \cup Adding
Working == {"stopRun", "stopReq", "bound", "tell", "settle", "relax"}
Places == {"none", "new", "loop", "dequeue", "idle", "idleWrite", "take", "receiving", "done"} \cup Working
WalkerStates == [at : {"none", "wait", "walk", "done"}, node : Node \cup {NoNode}]

(***************************************************************************)
(* Types, of what each goroutine works with too.                           *)
(***************************************************************************)
ClientTypes ==
  /\ client \in [Key -> {"idle", "waiting", "reading", "done"}]
  /\ start \in [Key -> Node \cup {NoNode}] /\ end \in [Key -> Node \cup {NoNode}]
  /\ \A k \in Key : client[k] # "idle" => start[k] \in Node /\ end[k] \in Node
  /\ answer \in [Key -> Seq(Edge)] /\ blind \subseteq Key
  /\ pathChan \in [Key -> {"none", "open", "closed"}]
ManagerTypes ==
  /\ awaited \subseteq Key /\ stoped \subseteq Key
  /\ runCount \in [Key -> Int] /\ reqCount \in [Key -> Int]
  /\ routingChan \in Seq(GoodRequests)
  /\ stopChan \in Seq(Key \cup {NoKey}) /\ Len(stopChan) <= ChanCap
  /\ retrivelChan \in Seq(Key \X Node) /\ exitChan \in Seq(Key)
  /\ maxLengths \in [Runner -> 0..Unlimited]
  /\ runners \subseteq Runner
LoopTypes ==
  /\ route \in [at : RoutePlaces, msg : GoodRequests \cup {FirstMsg}]
  /\ route.at \notin {"pop", "empty", "asleep"} => route.msg \in GoodRequests
  /\ stop \in [at : {"receive", "notify", "spread", "get", "tell"}, key : Key \cup {NoKey},
               todo : SUBSET Tile, tile : Tile \cup {NoTile}]
  /\ stop.at \in {"spread", "get", "tell"} => stop.key \in Key
  /\ stop.at \in {"get", "tell"} => stop.tile \in Tile
  /\ exit \in [key : Key \cup {NoKey}, todo : SUBSET Tile]
  /\ exit.todo # {} => exit.key \in Key
SearchTypes ==
  /\ pc \in [Runner -> Places]
  /\ cur \in [Runner -> GoodLabels \cup {Unreached(NoNode)}]
  /\ \A r \in Runner : pc[r] \in Working => cur[r] \in GoodLabels
  /\ idx \in [Runner -> Nat \ {0}]
  /\ heap \in [Runner -> SUBSET GoodLabels]
  /\ flag \in [Runner -> [Node -> GoodLabels]]
  /\ \A r \in Runner, n \in Node : flag[r][n].node = n
  /\ maxLength \in [Runner -> 0..Unlimited]
  /\ spread \in [Runner -> [todo : SUBSET Tile, tile : Tile \cup {NoTile}]]
  /\ \A r \in Runner : pc[r] = "tell" => spread[r].tile \in Tile
HelperTypes ==
  /\ finished \in [Runner -> BOOLEAN] /\ isEnd \in [Runner -> BOOLEAN]
  /\ isLocked \in [Runner -> BOOLEAN]
  /\ releaseLock \in [Runner -> {"free", "route", "stopper"}]
  /\ stopper \in [Runner -> {"none", "wait", "stop", "release", "sending", "clearing", "report", "done"}]
  /\ walker \in [Runner -> WalkerStates]
  /\ \A r \in Runner : walker[r].at = "walk" => walker[r].node \in Node

Types == ClientTypes /\ ManagerTypes /\ LoopTypes /\ SearchTypes /\ HelperTypes

(***************************************************************************)
(* Only queries that were asked have requests, stops and runners, and a    *)
(* runner that is not made yet is empty.                                   *)
(***************************************************************************)
Asked(k) == client[k] # "idle"
RequestsAsked == \A i \in 1..Len(routingChan) : Asked(routingChan[i].key)
ServedAsked == route.msg.key \in Key => Asked(route.msg.key)
StopsAsked ==
  /\ \A i \in 1..Len(stopChan) : stopChan[i] # NoKey => Asked(stopChan[i])
  /\ stop.at # "receive" /\ stop.key # NoKey => Asked(stop.key)
MadeAsked == \A r \in Runner : pc[r] # "none" => Asked(KeyOf(r))
RunnersMade ==
  /\ \A r \in runners : pc[r] # "none"
  /\ route.at \in Adding \cup {"start"} => pc[Served] # "none"
EmptyAtFirst ==
  \A r \in Runner : pc[r] = "none" =>
    /\ cur[r] = Unreached(NoNode) /\ heap[r] = {}
    /\ \A n \in Node : flag[r][n] = Unreached(n)
    /\ ~finished[r] /\ ~isEnd[r] /\ stopper[r] = "none" /\ walker[r].at = "none"

Begun == RequestsAsked /\ ServedAsked /\ StopsAsked /\ MadeAsked /\ RunnersMade /\ EmptyAtFirst

(***************************************************************************)
(* A query is stopped once, and only then are its runners told; a runner   *)
(* that is being woken sleeps, unless it has been told to stop.            *)
(***************************************************************************)
StopedLeft == \A k \in Key : k \in stoped <=> client[k] \in {"reading", "done"}
WaitingIsAwaited == \A k \in Key : client[k] = "waiting" => k \in awaited
StopOnce ==
  /\ stop.at = "notify" /\ stop.key # NoKey => client[stop.key] = "waiting"
  /\ stop.at \in {"spread", "get", "tell"} => stop.key \in stoped
ToldIsStoped ==
  \A r \in Runner :
    /\ finished[r] \/ stopper[r] \notin {"none", "wait"} => KeyOf(r) \in stoped
    /\ stopper[r] \in {"release", "sending", "clearing", "report", "done"} => finished[r]
ExitIsLate ==
  /\ \A i \in 1..Len(exitChan) : client[exitChan[i]] = "done"
  /\ exit.todo # {} => client[exit.key] = "done"
KnownUntilStoped == \A r \in Runner : pc[r] # "none" /\ KeyOf(r) \notin stoped => r \in runners
MadeOnce ==
  /\ route.at = "create" => pc[Served] = "none"
  /\ route.at = "start" => pc[Served] = "new"
WokenSleeps == route.at \in Waking => isLocked[Served] \/ finished[Served]

Stopping ==
  /\ StopedLeft /\ WaitingIsAwaited /\ StopOnce /\ ToldIsStoped /\ ExitIsLate
  /\ KnownUntilStoped /\ MadeOnce /\ WokenSleeps

(***************************************************************************)
(* A runner that the running counter counts: one that was woken only to be *)
(* told that it is to end was not counted again.                           *)
(***************************************************************************)
Works(r) == Awake(r) /\ ~(pc[r] = "loop" /\ finished[r])
WorkersOf(k) == {r \in RunnersOf(k) : Works(r)}
WorkersCounted ==
  \A k \in Key : runCount[k] >= Cardinality(WorkersOf(k)) + IF BeingWoken(k) THEN 1 ELSE 0

Counts == RequestsCounted /\ RunnersCounted /\ WorkersCounted

(***************************************************************************)
(* A potential rises by no more than its weight along an edge; one that is *)
(* zero at the start of a query bounds the labels of the query from below. *)
(* So does the distance, which is one; and a query that is not asked has   *)
(* no labels.                                                              *)
(***************************************************************************)
Potentials == {p \in [Node -> 0..Unlimited] : \A x \in Edge : p[NodeB[x]] <= p[NodeA[x]] + Weight[x]}
Keeps(k, l) == l.node \in Node => \A p \in Potentials : p[start[k]] = 0 => l.len >= p[l.node]
CurKept == \A r \in Runner : Keeps(KeyOf(r), cur[r])
HeapKept == \A r \in Runner : \A l \in heap[r] : Keeps(KeyOf(r), l)
FlagKept == \A r \in Runner, n \in Node : Keeps(KeyOf(r), flag[r][n])
QueueKept == \A i \in 1..Len(routingChan) : Keeps(routingChan[i].key, routingChan[i].label)
RouteKept == route.msg.key \in Key => Keeps(route.msg.key, route.msg.label)
Kept == CurKept /\ HeapKept /\ FlagKept /\ QueueKept /\ RouteKept

(***************************************************************************)
(* A path is walked back by one goroutine at a time, which begins at the   *)
(* end, in the one tile that has seen it, and has read a path from its     *)
(* node to the end.                                                        *)
(***************************************************************************)
InTile ==
  \A r \in Runner :
    /\ \A l \in heap[r] : TileOf[l.node] = TileOfRunner(r)
    /\ cur[r].node \in Node => TileOf[cur[r].node] = TileOfRunner(r)
    /\ isEnd[r] => TileOfRunner(r) = TileOf[end[KeyOf(r)]]
Last(k) == <<k, TileOf[end[k]]>>
Walking(r) == walker[r].at = "walk"
Leads(k, n) ==
  IF answer[k] = <<>> THEN n = end[k]
  ELSE /\ NodeA[answer[k][1]] = n /\ NodeB[answer[k][Len(answer[k])]] = end[k]
       /\ \A i \in 1..(Len(answer[k]) - 1) : NodeB[answer[k][i]] = NodeA[answer[k][i + 1]]
\* Of a walk that has read a missing flag nothing is promised.
Led(k, n) == k \in blind \/ Leads(k, n)
NotBegun(k) ==
  /\ answer[k] = <<>>
  /\ pathChan[k] # "closed" /\ client[k] # "done"
  /\ \A r \in RunnersOf(k) : ~Walking(r)
  /\ \A i \in 1..Len(retrivelChan) : retrivelChan[i][1] # k
BegunOnce == \A k \in Key : Asked(k) => NotBegun(k) \/ stopper[Last(k)] = "done"
OneWalks ==
  /\ \A q, r \in Runner : KeyOf(q) = KeyOf(r) /\ Walking(q) /\ Walking(r) => q = r
  /\ \A i, j \in 1..Len(retrivelChan) : retrivelChan[i][1] = retrivelChan[j][1] => i = j
  /\ \A r \in Runner, i \in 1..Len(retrivelChan) : Walking(r) => retrivelChan[i][1] # KeyOf(r)
  /\ \A k \in Key : pathChan[k] = "closed" \/ client[k] = "done" =>
       /\ \A r \in RunnersOf(k) : ~Walking(r)
       /\ \A i \in 1..Len(retrivelChan) : retrivelChan[i][1] # k
WalkLeads ==
  /\ \A r \in Runner : Walking(r) =>
      Led(KeyOf(r), walker[r].node) /\ TileOf[walker[r].node] = TileOfRunner(r)
  /\ \A i \in 1..Len(retrivelChan) : Led(retrivelChan[i][1], retrivelChan[i][2])
  /\ \A k \in Key : pathChan[k] = "closed" \/ client[k] = "done" => Led(k, start[k])
NoneUnasked ==
  /\ \A r \in Runner : Walking(r) => Asked(KeyOf(r))
  /\ \A i \in 1..Len(retrivelChan) : Asked(retrivelChan[i][1])
  /\ \A k \in Key : ~Asked(k) => answer[k] = <<>>

PathInv == InTile /\ BegunOnce /\ OneWalks /\ WalkLeads /\ NoneUnasked

(***************************************************************************)
(* What is known of the length of a node in a tile: that of the label at   *)
(* work, before it is in the flag of its node.  It only ever falls.        *)
(***************************************************************************)
Known(r, n) == IF pc[r] \in Working /\ cur[r].node = n THEN cur[r].len ELSE flag[r][n].len
Home(k, n) == <<k, TileOf[n]>>
\* Nothing from this length on is of use to the query any more.
Bound(k) == Known(Home(k, end[k]), end[k])

(***************************************************************************)
(* A path of length m to n is not lost: its node knows it or a shorter     *)
(* one, or will be told, or it is too long to be of use.                   *)
(***************************************************************************)
Serves(l, n, m) == l.node = n /\ l.len <= m
InHeap(r, n, m) == \E l \in heap[r] : Serves(l, n, m)
InQueue(k, n, m) ==
  \E i \in 1..Len(routingChan) : routingChan[i].key = k /\ Serves(routingChan[i].label, n, m)
InRoute(k, n, m) ==
  route.at \in {"find", "get", "add", "create"} /\ route.msg.key = k /\ Serves(route.msg.label, n, m)
Reached(k, n, m) ==
  \/ Bound(k) <= m
  \/ Known(Home(k, n), n) <= m
  \/ InHeap(Home(k, n), n, m)
  \/ InQueue(k, n, m)
  \/ InRoute(k, n, m)

\* The edges out of a node are still to be relaxed; or those before the one at
\* work have been, and their ends are reached.
Waits(r, n) == InHeap(r, n, flag[r][n].len) \/ (pc[r] \in Working \ {"relax"} /\ cur[r].node = n)
IsDone(r, n, i) == pc[r] = "relax" /\ cur[r].node = n => i < idx[r]
Relaxes(r, n) ==
  \A i \in 1..Len(Out[n]) : IsDone(r, n, i) /\ Usable(r, Out[n][i]) =>
    Reached(KeyOf(r), NodeB[Out[n][i]], flag[r][n].len + Weight[Out[n][i]])

CurIsShort ==
  \A r \in Runner :
    /\ pc[r] \in Working => cur[r].len <= flag[r][cur[r].node].len
    /\ pc[r] = "relax" => cur[r].len = flag[r][cur[r].node].len
SpreadIsEnd ==
  \A r \in Runner : pc[r] \in {"stopRun", "stopReq", "bound", "tell"} => cur[r].node = end[KeyOf(r)]
DoneIsStoped == \A r \in Runner : pc[r] = "done" => KeyOf(r) \in stoped
NewIsStarted == \A r \in Runner : pc[r] = "new" => route.at = "start" /\ r = Served
Unbounded == \A r \in Runner : ~Asked(KeyOf(r)) => maxLength[r] = Unlimited /\ maxLengths[r] = Unlimited
Calm == CurIsShort /\ SpreadIsEnd /\ DoneIsStoped /\ NewIsStarted /\ Unbounded

(***************************************************************************)
(* While the client waits no path is lost: every bound is the length of a  *)
(* path to the end or above it, and what a flag of a node promises of its  *)
(* neighbours has been, or is going to be, looked at.                      *)
(***************************************************************************)
Searching(k) == client[k] = "waiting"
Bounded ==
  \A r \in Runner : Searching(KeyOf(r)) =>
    maxLength[r] >= Bound(KeyOf(r)) /\ maxLengths[r] >= Bound(KeyOf(r))
StartReached == \A k \in Key : Searching(k) => Reached(k, start[k], 0)
FlagsReached ==
  \A r \in Runner, n \in Node : Searching(KeyOf(r)) => Reached(KeyOf(r), n, flag[r][n].len)
FlagsRelaxed ==
  \A r \in Runner, n \in Node :
    Searching(KeyOf(r)) /\ TileOf[n] = TileOfRunner(r) => Waits(r, n) \/ Relaxes(r, n)
Covered == Calm /\ Bounded /\ StartReached /\ FlagsReached /\ FlagsRelaxed

(***************************************************************************)
(* A label is that of the start, or the node its last edge comes from has  *)
(* a flag with an edge, in the tile of that node, and so back to the       *)
(* start.  The end has one too, once the runner that has seen it has come  *)
(* to flags.Set; and so has each node a walk stands on.                    *)
(***************************************************************************)
Has(k, n) == n = start[k] \/ flag[Home(k, n)][n].prev # NoEdge
Rooted(k, l) == IF l.prev = NoEdge THEN l.node = start[k] ELSE Has(k, NodeA[l.prev])
Settling(r) == pc[r] \in Working \ {"relax"} /\ cur[r].node = end[KeyOf(r)]
CurRooted ==
  \A r \in Runner :
    /\ pc[r] \in Working => Rooted(KeyOf(r), cur[r])
    /\ pc[r] = "relax" => Has(KeyOf(r), cur[r].node)
HeapRooted == \A r \in Runner : \A l \in heap[r] : Rooted(KeyOf(r), l)
FlagRooted ==
  \A r \in Runner, n \in Node : flag[r][n].prev # NoEdge => Has(KeyOf(r), NodeA[flag[r][n].prev])
QueueRooted == \A i \in 1..Len(routingChan) : Rooted(routingChan[i].key, routingChan[i].label)
RouteRooted == route.msg.key \in Key => Rooted(route.msg.key, route.msg.label)
EndKnown == \A r \in Runner : isEnd[r] => Has(KeyOf(r), end[KeyOf(r)]) \/ Settling(r)
WalkKnown ==
  /\ \A r \in Runner : Walking(r) /\ KeyOf(r) \notin blind =>
       Has(KeyOf(r), walker[r].node) \/ (walker[r].node = end[KeyOf(r)] /\ Settling(r))
  /\ \A i \in 1..Len(retrivelChan) :
       retrivelChan[i][1] \notin blind => Has(retrivelChan[i][1], retrivelChan[i][2])
LabelsRooted == CurRooted /\ HeapRooted /\ FlagRooted /\ QueueRooted /\ RouteRooted
RootInv == LabelsRooted /\ EndKnown /\ WalkKnown

IInv == Types /\ Begun /\ Stopping /\ Counts /\ Kept /\ PathInv /\ Covered /\ RootInv

-----------------------------------------------------------------------------
(* The net, and the pairs that name runners.                               *)

LEMMA NetFacts ==
  /\ \A n \in Node : Len(Out[n]) \in Nat
  /\ \A n \in Node : \A i \in 1..Len(Out[n]) : Out[n][i] \in Forward(n)
  /\ \A n \in Node : \A x \in Forward(n) : \E i \in 1..Len(Out[n]) : x = Out[n][i]
  /\ \A n \in Node : \A x \in Forward(n) :
       x \in Edge /\ x # NoEdge /\ NodeA[x] = n /\ NodeB[x] \in Node /\ Weight[x] \in Nat
  /\ \A x \in Edge : x \in Forward(NodeA[x]) /\ NodeA[x] \in Node /\ NodeB[x] \in Node
                       /\ Weight[x] \in Nat /\ x # NoEdge
<1>1. ASSUME NEW n \in Node
      PROVE  /\ Len(Out[n]) \in Nat
             /\ \A i \in 1..Len(Out[n]) : Out[n][i] \in Forward(n)
             /\ \A x \in Forward(n) : \E i \in 1..Len(Out[n]) : x = Out[n][i]
  <2>1. Out[n] \in Seq(Edge) /\ {Out[n][i] : i \in 1..Len(Out[n])} = Forward(n)
    BY NetAssumption
  <2> QED
    BY <2>1
<1>2. \A x \in Edge : x \in Forward(NodeA[x]) /\ NodeA[x] \in Node /\ NodeB[x] \in Node
                       /\ Weight[x] \in Nat /\ x # NoEdge
  BY GraphAssumption, NetAssumption DEF Forward
<1>3. \A n \in Node : \A x \in Forward(n) : x \in Edge /\ NodeA[x] = n
  BY DEF Forward
<1> QED
  BY <1>1, <1>2, <1>3

LEMMA RunnerFacts ==
  /\ \A r \in Runner : KeyOf(r) \in Key /\ TileOfRunner(r) \in Tile /\ r = <<KeyOf(r), TileOfRunner(r)>>
  /\ \A k \in Key, t \in Tile :
       <<k, t>> \in Runner /\ KeyOf(<<k, t>>) = k /\ TileOfRunner(<<k, t>>) = t /\ <<k, t>> \in RunnersOf(k)
  /\ \A k \in Key : \A r : r \in RunnersOf(k) <=> r \in Runner /\ KeyOf(r) = k
  /\ \A n \in Node : TileOf[n] \in Tile
BY NetAssumption DEF Runner, KeyOf, TileOfRunner, RunnersOf

LEMMA LabelFacts ==
  /\ \A l \in GoodLabels :
       /\ l \in Labels /\ l.node \in Node /\ l.len \in 0..Unlimited
       /\ l.prev \in Edge \cup {NoEdge} /\ (l.prev # NoEdge => NodeB[l.prev] = l.node)
  /\ \A n \in Node : Unreached(n) \in GoodLabels /\ Label(n, 0, NoEdge) \in GoodLabels
  /\ \A x \in Edge : \A len \in 0..Unlimited : Label(NodeB[x], len, x) \in GoodLabels
  /\ \A n : Unreached(n).node = n /\ Unreached(n).len = Unlimited /\ Unreached(n).prev = NoEdge
  /\ \A m \in GoodRequests : m.key \in Key /\ m.label \in GoodLabels
  /\ \A k \in Key, l \in GoodLabels : Request(k, l) \in GoodRequests
  /\ FirstMsg.key = NoKey /\ FirstMsg.label = Unreached(NoNode)
BY NetFacts, NetAssumption
   DEF GoodLabels, Labels, Unreached, Label, GoodRequests, Request, FirstMsg

\* What serving a request needs.
LEMMA ServedFacts ==
  ASSUME Types, route.at \notin {"pop", "empty", "asleep"}
  PROVE  /\ route.msg \in GoodRequests /\ route.msg.key \in Key /\ route.msg.label \in GoodLabels
         /\ Served \in Runner /\ KeyOf(Served) = route.msg.key
         /\ TileOfRunner(Served) = TileOf[route.msg.label.node]
BY RunnerFacts, LabelFacts DEF Types, LoopTypes, Served

-----------------------------------------------------------------------------
(* The steps.                                                              *)

\* What each goroutine leaves alone.
LEMMA Untouched ==
  /\ \A k \in Key : Client(k) => 
       UNCHANGED <<answer, blind, stoped, runCount, stopChan, retrivelChan, route, stop, exit, maxLengths,
                    runners, pc, cur, idx, heap, flag, maxLength, finished, isEnd, isLocked,
                    releaseLock, spread, stopper, walker, crashed>>
  /\ RoutingLoop => 
       UNCHANGED <<client, start, end, answer, blind, pathChan, awaited, retrivelChan, exitChan, stop, exit,
                    maxLengths, cur, idx, flag, finished, isEnd, spread>>
  /\ \A r \in Runner : Search(r) => 
       UNCHANGED <<client, start, end, answer, blind, pathChan, awaited, stoped, retrivelChan, exitChan,
                    route, stop, exit, runners, finished, releaseLock, stopper, walker>>
  /\ \A r \in Runner : Stopper(r) => 
       UNCHANGED <<client, start, end, answer, blind, pathChan, awaited, stoped, runCount, reqCount,
                    routingChan, stopChan, retrivelChan, exitChan, route, stop, exit,
                    maxLengths, runners, cur, idx, heap, flag, maxLength, isEnd, spread,
                    crashed>>
  /\ \A r \in Runner : Walker(r) => 
       UNCHANGED <<client, start, end, awaited, stoped, runCount, reqCount, routingChan, stopChan,
                    exitChan, route, stop, exit, maxLengths, runners, pc, cur, idx, heap, flag,
                    maxLength, finished, isEnd, isLocked, releaseLock, spread, stopper>>
  /\ StopLoop => 
       UNCHANGED <<start, end, answer, blind, pathChan, runCount, reqCount, routingChan, retrivelChan,
                    exitChan, route, exit, maxLengths, runners, pc, cur, idx, heap, flag,
                    maxLength, finished, isEnd, isLocked, releaseLock, spread, walker>>
  /\ RetrievalLoop => 
       UNCHANGED <<client, start, end, answer, blind, pathChan, awaited, stoped, runCount, reqCount,
                    routingChan, stopChan, exitChan, route, stop, exit, maxLengths, runners,
                    pc, cur, idx, heap, flag, maxLength, finished, isEnd, isLocked,
                    releaseLock, spread, stopper>>
  /\ ExitLoop => 
       UNCHANGED <<client, start, end, answer, blind, pathChan, awaited, stoped, runCount, reqCount,
                    routingChan, stopChan, retrivelChan, route, stop, pc, cur, idx, heap, flag,
                    maxLength, isEnd, isLocked, releaseLock, spread, stopper, crashed>>
  /\ QueueFault =>
       UNCHANGED <<client, start, end, answer, blind, pathChan, awaited, stoped, maxLengths, runners,
                    runCount, reqCount, routingChan, retrivelChan, exitChan, stop, exit, pc, cur, idx, heap, flag,
                    maxLength, finished, isEnd, isLocked, releaseLock, spread, stopper, walker, crashed>>
<1>1. \A k \in Key : Client(k) =>
       UNCHANGED <<answer, blind, stoped, runCount, stopChan, retrivelChan, route, stop, exit, maxLengths,
                    runners, pc, cur, idx, heap, flag, maxLength, finished, isEnd, isLocked,
                    releaseLock, spread, stopper, walker, crashed>>
  BY DEF otherVars, clientVars, managerVars, loopVars, managerLoops, sharedVars, countVars,
         runnerVars, searchVars, blockVars, helperVars, RouteGoes, Goes, SendStop,
         Client, RunRouting, LeavePath
<1>2. RoutingLoop =>
       UNCHANGED <<client, start, end, answer, blind, pathChan, awaited, retrivelChan, exitChan, stop, exit,
                    maxLengths, cur, idx, flag, finished, isEnd, spread>>
  BY DEF otherVars, clientVars, managerVars, loopVars, managerLoops, sharedVars, countVars,
         runnerVars, searchVars, blockVars, helperVars, RouteGoes, Goes, SendStop,
         RoutingLoop, RoutePop, RouteFind, RouteGet, RouteAdd, RouteIsTaken, RouteSetRunning, RouteRelease,
         RouteWakes, RouteClears, RouteCreate, RouteStart, RouteDecCheck, RouteDecWrite
<1>3. \A r \in Runner : Search(r) =>
       UNCHANGED <<client, start, end, answer, blind, pathChan, awaited, stoped, retrivelChan, exitChan,
                    route, stop, exit, runners, finished, releaseLock, stopper, walker>>
  BY DEF otherVars, clientVars, managerVars, loopVars, managerLoops, sharedVars, countVars,
         runnerVars, searchVars, blockVars, helperVars, RouteGoes, Goes, SendStop,
         Search, Loop, DequeueNothing, Dequeue, StopReadRun, StopReadReq, SpreadBound, TellBound,
         BoundSpread, Settle, Relax, Relaxed, IdleCheck, IdleWrite, Take
<1>4. \A r \in Runner : Stopper(r) =>
       UNCHANGED <<client, start, end, answer, blind, pathChan, awaited, stoped, runCount, reqCount,
                    routingChan, stopChan, retrivelChan, exitChan, route, stop, exit,
                    maxLengths, runners, cur, idx, heap, flag, maxLength, isEnd, spread,
                    crashed>>
  BY DEF otherVars, clientVars, managerVars, loopVars, managerLoops, sharedVars, countVars,
         runnerVars, searchVars, blockVars, helperVars, RouteGoes, Goes, SendStop,
         Stopper, SetFinished, StopperRelease, StopperWakes, StopperClears, StopperReports
<1>5. \A r \in Runner : Walker(r) =>
       UNCHANGED <<client, start, end, awaited, stoped, runCount, reqCount, routingChan, stopChan,
                    exitChan, route, stop, exit, maxLengths, runners, pc, cur, idx, heap, flag,
                    maxLength, finished, isEnd, isLocked, releaseLock, spread, stopper>>
  BY DEF otherVars, clientVars, managerVars, loopVars, managerLoops, sharedVars, countVars,
         runnerVars, searchVars, blockVars, helperVars, RouteGoes, Goes, SendStop,
         Walker, WalkEnds, WalkEdge, ClientReads
<1>6. StopLoop =>
       UNCHANGED <<start, end, answer, blind, pathChan, runCount, reqCount, routingChan, retrivelChan,
                    exitChan, route, exit, maxLengths, runners, pc, cur, idx, heap, flag,
                    maxLength, finished, isEnd, isLocked, releaseLock, spread, walker>>
  BY DEF otherVars, clientVars, managerVars, loopVars, managerLoops, sharedVars, countVars,
         runnerVars, searchVars, blockVars, helperVars, RouteGoes, Goes, SendStop,
         StopLoop, StopReceive, StopNotify, StopSpread, StopGet, StopTell, StopDone
<1>7. RetrievalLoop =>
       UNCHANGED <<client, start, end, answer, blind, pathChan, awaited, stoped, runCount, reqCount,
                    routingChan, stopChan, exitChan, route, stop, exit, maxLengths, runners,
                    pc, cur, idx, heap, flag, maxLength, finished, isEnd, isLocked,
                    releaseLock, spread, stopper>>
  BY DEF otherVars, clientVars, managerVars, loopVars, managerLoops, sharedVars, countVars,
         runnerVars, searchVars, blockVars, helperVars, RouteGoes, Goes, SendStop,
         RetrievalLoop
<1>8. ExitLoop =>
       UNCHANGED <<client, start, end, answer, blind, pathChan, awaited, stoped, runCount, reqCount,
                    routingChan, stopChan, retrivelChan, route, stop, pc, cur, idx, heap, flag,
                    maxLength, isEnd, isLocked, releaseLock, spread, stopper, crashed>>
  BY DEF otherVars, clientVars, managerVars, loopVars, managerLoops, sharedVars, countVars,
         runnerVars, searchVars, blockVars, helperVars, RouteGoes, Goes, SendStop,
         ExitLoop, ExitReceive, ExitRunner
<1>9. QueueFault =>
       UNCHANGED <<client, start, end, answer, blind, pathChan, awaited, stoped, maxLengths, runners,
                    runCount, reqCount, routingChan, retrivelChan, exitChan, stop, exit, pc, cur, idx, heap, flag,
                    maxLength, finished, isEnd, isLocked, releaseLock, spread, stopper, walker, crashed>>
  BY DEF QueueFault, RouteOversleeps, RouteZero, clientVars, managerVars, loopVars, managerLoops,
         sharedVars, countVars, runnerVars, searchVars, blockVars, helperVars, RouteGoes, SendStop
<1> QED
  BY <1>1, <1>2, <1>3, <1>4, <1>5, <1>6, <1>7, <1>8, <1>9

\* What can change each variable.
LEMMA Changes ==
  ASSUME [Next]_vars
  PROVE
    /\ UNCHANGED client \/ StopNotify \/ (\E k \in Key, s, e \in Node : RunRouting(k, s, e))
          \/ (\E k \in Key : LeavePath(k))
    /\ UNCHANGED start \/ (\E k \in Key, s, e \in Node : RunRouting(k, s, e))
    /\ UNCHANGED end \/ (\E k \in Key, s, e \in Node : RunRouting(k, s, e))
    /\ UNCHANGED answer \/ (\E r \in Runner : WalkEdge(r))
    /\ UNCHANGED pathChan \/ (\E r \in Runner : WalkEnds(r))
          \/ (\E k \in Key, s, e \in Node : RunRouting(k, s, e))
          \/ (\E k \in Key : LeavePath(k))
    /\ UNCHANGED awaited \/ StopNotify \/ (\E k \in Key, s, e \in Node : RunRouting(k, s, e))
    /\ UNCHANGED stoped \/ RoutePop \/ StopNotify
    /\ UNCHANGED runCount \/ RouteSetRunning \/ RouteStart \/ (\E r \in Runner : IdleWrite(r))
    /\ UNCHANGED reqCount \/ RouteDecWrite \/ (\E r \in Runner : Relax(r))
          \/ (\E k \in Key, s, e \in Node : RunRouting(k, s, e))
    /\ UNCHANGED routingChan \/ RoutePop \/ (\E r \in Runner : Relax(r))
          \/ (\E k \in Key, s, e \in Node : RunRouting(k, s, e))
    /\ UNCHANGED stopChan \/ RouteDecCheck \/ StopReceive
          \/ RouteZero \/ (\E r \in Runner : StopReadReq(r) \/ IdleCheck(r))
    /\ UNCHANGED retrivelChan \/ RetrievalLoop \/ (\E r \in Runner : WalkEdge(r))
    /\ UNCHANGED exitChan \/ ExitReceive \/ (\E k \in Key : LeavePath(k))
    /\ UNCHANGED route \/ RoutePop \/ RouteFind \/ RouteGet \/ RouteAdd \/ RouteIsTaken
          \/ RouteSetRunning \/ RouteRelease \/ RouteWakes \/ RouteClears \/ RouteCreate
          \/ RouteStart \/ RouteDecCheck \/ RouteDecWrite \/ RouteOversleeps
    /\ UNCHANGED stop \/ StopReceive \/ StopNotify \/ StopGet \/ StopTell \/ StopDone
          \/ (\E t \in Tile : StopSpread(t))
    /\ UNCHANGED exit \/ ExitReceive \/ (\E t \in Tile : ExitRunner(t))
    /\ UNCHANGED maxLengths \/ (\E r \in Runner, t \in Tile : SpreadBound(r, t))
          \/ (\E t \in Tile : ExitRunner(t))
    /\ UNCHANGED runners \/ RouteCreate \/ (\E t \in Tile : ExitRunner(t))
    /\ UNCHANGED pc \/ RouteWakes \/ RouteCreate \/ RouteStart
          \/ (\E r \in Runner : Loop(r) \/ DequeueNothing(r) \/ Dequeue(r) \/ StopReadRun(r))
          \/ (\E r \in Runner : StopReadReq(r) \/ TellBound(r) \/ BoundSpread(r) \/ Settle(r))
          \/ (\E r \in Runner : Relaxed(r) \/ IdleCheck(r) \/ IdleWrite(r) \/ Take(r))
          \/ (\E r \in Runner : StopperWakes(r))
          \/ (\E r \in Runner, t \in Tile : SpreadBound(r, t))
    /\ UNCHANGED cur \/ (\E r \in Runner : Dequeue(r))
    /\ UNCHANGED idx \/ (\E r \in Runner : Settle(r) \/ Relax(r))
    /\ UNCHANGED heap \/ RouteAdd \/ RouteCreate \/ (\E r \in Runner : Dequeue(r) \/ Relax(r))
    /\ UNCHANGED flag \/ (\E r \in Runner : Settle(r) \/ Relax(r))
    /\ UNCHANGED maxLength \/ RouteCreate \/ (\E r \in Runner : Dequeue(r) \/ TellBound(r))
    /\ UNCHANGED finished \/ (\E r \in Runner : SetFinished(r))
          \/ (\E t \in Tile : ExitRunner(t))
    /\ UNCHANGED isEnd \/ (\E r \in Runner : Dequeue(r))
    /\ UNCHANGED isLocked \/ RouteClears \/ (\E r \in Runner : Take(r) \/ StopperClears(r))
    /\ UNCHANGED releaseLock \/ RouteRelease \/ RouteClears
          \/ (\E r \in Runner : StopperRelease(r) \/ StopperClears(r))
    /\ UNCHANGED spread \/ (\E r \in Runner : StopReadRun(r))
          \/ (\E r \in Runner, t \in Tile : SpreadBound(r, t))
    /\ UNCHANGED stopper \/ RouteCreate \/ StopTell
          \/ (\E r \in Runner : SetFinished(r) \/ StopperRelease(r) \/ StopperWakes(r) \/ StopperClears(r))
          \/ (\E r \in Runner : StopperReports(r))
    /\ UNCHANGED walker \/ RouteCreate \/ RetrievalLoop
          \/ (\E r \in Runner : StopperReports(r) \/ WalkEnds(r)  \/ WalkEdge(r))
          \/ (\E t \in Tile : ExitRunner(t))
    /\ UNCHANGED crashed \/ RouteGet \/ StopGet \/ RetrievalLoop
          \/ (\E r \in Runner : TellBound(r) \/ WalkEdge(r))
    /\ UNCHANGED blind \/ (\E r \in Runner : WalkEdge(r))
<1>1. UNCHANGED client \/ StopNotify \/ (\E k \in Key, s, e \in Node : RunRouting(k, s, e))
      \/ (\E k \in Key : LeavePath(k))
  BY Untouched DEF Next, Steps, vars, Client, StopLoop, otherVars, clientVars, managerVars, loopVars,
     managerLoops, sharedVars,
         countVars, runnerVars, searchVars, blockVars, helperVars, RouteGoes, Goes, SendStop,
         StopReceive, StopSpread, StopGet, StopTell, StopDone
<1>2. UNCHANGED start \/ (\E k \in Key, s, e \in Node : RunRouting(k, s, e))
  BY Untouched DEF Next, Steps, vars, Client, otherVars, clientVars, managerVars, loopVars,
     managerLoops, sharedVars, countVars,
         runnerVars, searchVars, blockVars, helperVars, RouteGoes, Goes, SendStop, LeavePath
<1>3. UNCHANGED end \/ (\E k \in Key, s, e \in Node : RunRouting(k, s, e))
  BY Untouched DEF Next, Steps, vars, Client, otherVars, clientVars, managerVars, loopVars,
     managerLoops, sharedVars, countVars,
         runnerVars, searchVars, blockVars, helperVars, RouteGoes, Goes, SendStop, LeavePath
<1>4. UNCHANGED answer \/ (\E r \in Runner : WalkEdge(r))
  BY Untouched DEF Next, Steps, vars, Walker, otherVars, clientVars, managerVars, loopVars,
     managerLoops, sharedVars, countVars,
         runnerVars, searchVars, blockVars, helperVars, RouteGoes, Goes, SendStop, WalkEnds
<1>5. UNCHANGED pathChan \/ (\E r \in Runner : WalkEnds(r))
      \/ (\E k \in Key, s, e \in Node : RunRouting(k, s, e)) \/ (\E k \in Key : LeavePath(k))
  BY Untouched DEF Next, Steps, vars, Client, Walker, otherVars, clientVars, managerVars, loopVars,
     managerLoops, sharedVars, countVars,
         runnerVars, searchVars, blockVars, helperVars, RouteGoes, Goes, SendStop, WalkEdge,
         ClientReads
<1>6. UNCHANGED awaited \/ StopNotify \/ (\E k \in Key, s, e \in Node : RunRouting(k, s, e))
  BY Untouched DEF Next, Steps, vars, Client, StopLoop, otherVars, clientVars, managerVars, loopVars,
     managerLoops, sharedVars,
         countVars, runnerVars, searchVars, blockVars, helperVars, RouteGoes, Goes, SendStop,
         LeavePath, StopReceive, StopSpread, StopGet, StopTell, StopDone
<1>7. UNCHANGED stoped \/ RoutePop \/ StopNotify
  BY Untouched DEF Next, Steps, vars, RoutingLoop, StopLoop, otherVars, clientVars, managerVars,
     loopVars, managerLoops, sharedVars,
         countVars, runnerVars, searchVars, blockVars, helperVars, RouteGoes, Goes, SendStop,
         RouteFind, RouteGet, RouteAdd, RouteIsTaken, RouteSetRunning, RouteRelease, RouteWakes,
         RouteClears, RouteCreate, RouteStart, RouteDecCheck, RouteDecWrite, StopReceive,
         StopSpread, StopGet, StopTell, StopDone
<1>8. UNCHANGED runCount \/ RouteSetRunning \/ RouteStart \/ (\E r \in Runner : IdleWrite(r))
  BY Untouched DEF Next, Steps, vars, RoutingLoop, Search, otherVars, clientVars, managerVars, loopVars,
     managerLoops, sharedVars,
         countVars, runnerVars, searchVars, blockVars, helperVars, RouteGoes, Goes, SendStop,
         RoutePop, RouteFind, RouteGet, RouteAdd, RouteIsTaken, RouteRelease, RouteWakes,
         RouteClears, RouteCreate, RouteDecCheck, RouteDecWrite, Loop, DequeueNothing, Dequeue,
         StopReadRun, StopReadReq, SpreadBound, TellBound, BoundSpread, Settle, Relax, Relaxed,
         IdleCheck, Take
<1>9. UNCHANGED reqCount \/ RouteDecWrite \/ (\E r \in Runner : Relax(r))
      \/ (\E k \in Key, s, e \in Node : RunRouting(k, s, e))
  BY Untouched DEF Next, Steps, vars, Client, RoutingLoop, Search, otherVars, clientVars, managerVars,
     loopVars, managerLoops,
         sharedVars, countVars, runnerVars, searchVars, blockVars, helperVars, RouteGoes, Goes,
         SendStop, LeavePath, RoutePop, RouteFind, RouteGet, RouteAdd, RouteIsTaken,
         RouteSetRunning, RouteRelease, RouteWakes, RouteClears, RouteCreate, RouteStart,
         RouteDecCheck, Loop, DequeueNothing, Dequeue, StopReadRun, StopReadReq, SpreadBound,
         TellBound, BoundSpread, Settle, Relaxed, IdleCheck, IdleWrite, Take
<1>10. UNCHANGED routingChan \/ RoutePop \/ (\E r \in Runner : Relax(r))
      \/ (\E k \in Key, s, e \in Node : RunRouting(k, s, e))
  BY Untouched DEF Next, Steps, vars, Client, RoutingLoop, Search, otherVars, clientVars, managerVars,
     loopVars, managerLoops,
         sharedVars, countVars, runnerVars, searchVars, blockVars, helperVars, RouteGoes, Goes,
         SendStop, LeavePath, RouteFind, RouteGet, RouteAdd, RouteIsTaken, RouteSetRunning,
         RouteRelease, RouteWakes, RouteClears, RouteCreate, RouteStart, RouteDecCheck,
         RouteDecWrite, Loop, DequeueNothing, Dequeue, StopReadRun, StopReadReq, SpreadBound,
         TellBound, BoundSpread, Settle, Relaxed, IdleCheck, IdleWrite, Take
<1>11. UNCHANGED stopChan \/ RouteDecCheck \/ StopReceive
      \/ RouteZero \/ (\E r \in Runner : StopReadReq(r) \/ IdleCheck(r))
  BY Untouched DEF Next, Steps, vars, RoutingLoop, QueueFault, RouteOversleeps, Search, StopLoop, otherVars, clientVars, managerVars,
     loopVars, managerLoops,
         sharedVars, countVars, runnerVars, searchVars, blockVars, helperVars, RouteGoes, Goes,
         SendStop, RoutePop, RouteFind, RouteGet, RouteAdd, RouteIsTaken, RouteSetRunning,
         RouteRelease, RouteWakes, RouteClears, RouteCreate, RouteStart, RouteDecWrite, Loop,
         DequeueNothing, Dequeue, StopReadRun, SpreadBound, TellBound, BoundSpread, Settle, Relax,
         Relaxed, IdleWrite, Take, StopNotify, StopSpread, StopGet, StopTell, StopDone
<1>12. UNCHANGED retrivelChan \/ RetrievalLoop \/ (\E r \in Runner : WalkEdge(r))
  BY Untouched DEF Next, Steps, vars, Walker, otherVars, clientVars, managerVars, loopVars,
     managerLoops, sharedVars, countVars,
         runnerVars, searchVars, blockVars, helperVars, RouteGoes, Goes, SendStop, WalkEnds
<1>13. UNCHANGED exitChan \/ ExitReceive \/ (\E k \in Key : LeavePath(k))
  BY Untouched DEF Next, Steps, vars, Client, ExitLoop, otherVars, clientVars, managerVars, loopVars,
     managerLoops, sharedVars,
         countVars, runnerVars, searchVars, blockVars, helperVars, RouteGoes, Goes, SendStop,
         RunRouting, ExitRunner
<1>14. UNCHANGED route \/ RoutePop \/ RouteFind \/ RouteGet \/ RouteAdd \/ RouteIsTaken
      \/ RouteSetRunning \/ RouteRelease \/ RouteWakes \/ RouteClears \/ RouteCreate
      \/ RouteStart \/ RouteDecCheck \/ RouteDecWrite \/ RouteOversleeps
  BY Untouched DEF Next, Steps, vars, RoutingLoop, QueueFault, RouteZero, otherVars, clientVars, managerVars, loopVars,
     managerLoops, sharedVars, countVars,
         runnerVars, searchVars, blockVars, helperVars, RouteGoes, Goes, SendStop
<1>15. UNCHANGED stop \/ StopReceive \/ StopNotify \/ StopGet \/ StopTell \/ StopDone
      \/ (\E t \in Tile : StopSpread(t))
  BY Untouched DEF Next, Steps, vars, StopLoop, otherVars, clientVars, managerVars, loopVars,
     managerLoops, sharedVars, countVars,
         runnerVars, searchVars, blockVars, helperVars, RouteGoes, Goes, SendStop
<1>16. UNCHANGED exit \/ ExitReceive \/ (\E t \in Tile : ExitRunner(t))
  BY Untouched DEF Next, Steps, vars, ExitLoop, otherVars, clientVars, managerVars, loopVars,
     managerLoops, sharedVars, countVars,
         runnerVars, searchVars, blockVars, helperVars, RouteGoes, Goes, SendStop
<1>17. UNCHANGED maxLengths \/ (\E r \in Runner, t \in Tile : SpreadBound(r, t))
      \/ (\E t \in Tile : ExitRunner(t))
  BY Untouched DEF Next, Steps, vars, Search, ExitLoop, otherVars, clientVars, managerVars, loopVars,
     managerLoops, sharedVars,
         countVars, runnerVars, searchVars, blockVars, helperVars, RouteGoes, Goes, SendStop,
         Loop, DequeueNothing, Dequeue, StopReadRun, StopReadReq, TellBound, BoundSpread, Settle,
         Relax, Relaxed, IdleCheck, IdleWrite, Take, ExitReceive
<1>18. UNCHANGED runners \/ RouteCreate \/ (\E t \in Tile : ExitRunner(t))
  BY Untouched DEF Next, Steps, vars, RoutingLoop, ExitLoop, otherVars, clientVars, managerVars,
     loopVars, managerLoops, sharedVars,
         countVars, runnerVars, searchVars, blockVars, helperVars, RouteGoes, Goes, SendStop,
         RoutePop, RouteFind, RouteGet, RouteAdd, RouteIsTaken, RouteSetRunning, RouteRelease,
         RouteWakes, RouteClears, RouteStart, RouteDecCheck, RouteDecWrite, ExitReceive
<1>19. UNCHANGED pc \/ RouteWakes \/ RouteCreate \/ RouteStart
      \/ (\E r \in Runner : Loop(r) \/ DequeueNothing(r) \/ Dequeue(r) \/ StopReadRun(r))
      \/ (\E r \in Runner : StopReadReq(r) \/ TellBound(r) \/ BoundSpread(r) \/ Settle(r))
      \/ (\E r \in Runner : Relaxed(r) \/ IdleCheck(r) \/ IdleWrite(r) \/ Take(r))
      \/ (\E r \in Runner : StopperWakes(r))
      \/ (\E r \in Runner, t \in Tile : SpreadBound(r, t))
  BY Untouched DEF Next, Steps, vars, RoutingLoop, Search, Stopper, otherVars, clientVars, managerVars,
     loopVars, managerLoops,
         sharedVars, countVars, runnerVars, searchVars, blockVars, helperVars, RouteGoes, Goes,
         SendStop, RoutePop, RouteFind, RouteGet, RouteAdd, RouteIsTaken, RouteSetRunning,
         RouteRelease, RouteClears, RouteDecCheck, RouteDecWrite, Relax, SetFinished,
         StopperRelease, StopperClears, StopperReports
<1>20. UNCHANGED cur \/ (\E r \in Runner : Dequeue(r))
  BY Untouched DEF Next, Steps, vars, Search, otherVars, clientVars, managerVars, loopVars,
     managerLoops, sharedVars, countVars,
         runnerVars, searchVars, blockVars, helperVars, RouteGoes, Goes, SendStop, Loop,
         DequeueNothing, StopReadRun, StopReadReq, SpreadBound, TellBound, BoundSpread, Settle,
         Relax, Relaxed, IdleCheck, IdleWrite, Take
<1>21. UNCHANGED idx \/ (\E r \in Runner : Settle(r) \/ Relax(r))
  BY Untouched DEF Next, Steps, vars, Search, otherVars, clientVars, managerVars, loopVars,
     managerLoops, sharedVars, countVars,
         runnerVars, searchVars, blockVars, helperVars, RouteGoes, Goes, SendStop, Loop,
         DequeueNothing, Dequeue, StopReadRun, StopReadReq, SpreadBound, TellBound, BoundSpread,
         Relaxed, IdleCheck, IdleWrite, Take
<1>22. UNCHANGED heap \/ RouteAdd \/ RouteCreate \/ (\E r \in Runner : Dequeue(r) \/ Relax(r))
  BY Untouched DEF Next, Steps, vars, RoutingLoop, Search, otherVars, clientVars, managerVars, loopVars,
     managerLoops, sharedVars,
         countVars, runnerVars, searchVars, blockVars, helperVars, RouteGoes, Goes, SendStop,
         RoutePop, RouteFind, RouteGet, RouteIsTaken, RouteSetRunning, RouteRelease, RouteWakes,
         RouteClears, RouteStart, RouteDecCheck, RouteDecWrite, Loop, DequeueNothing, StopReadRun,
         StopReadReq, SpreadBound, TellBound, BoundSpread, Settle, Relaxed, IdleCheck, IdleWrite,
         Take
<1>23. UNCHANGED flag \/ (\E r \in Runner : Settle(r) \/ Relax(r))
  BY Untouched DEF Next, Steps, vars, Search, otherVars, clientVars, managerVars, loopVars,
     managerLoops, sharedVars, countVars,
         runnerVars, searchVars, blockVars, helperVars, RouteGoes, Goes, SendStop, Loop,
         DequeueNothing, Dequeue, StopReadRun, StopReadReq, SpreadBound, TellBound, BoundSpread,
         Relaxed, IdleCheck, IdleWrite, Take
<1>24. UNCHANGED maxLength \/ RouteCreate \/ (\E r \in Runner : Dequeue(r) \/ TellBound(r))
  BY Untouched DEF Next, Steps, vars, RoutingLoop, Search, otherVars, clientVars, managerVars, loopVars,
     managerLoops, sharedVars,
         countVars, runnerVars, searchVars, blockVars, helperVars, RouteGoes, Goes, SendStop,
         RoutePop, RouteFind, RouteGet, RouteAdd, RouteIsTaken, RouteSetRunning, RouteRelease,
         RouteWakes, RouteClears, RouteStart, RouteDecCheck, RouteDecWrite, Loop, DequeueNothing,
         StopReadRun, StopReadReq, SpreadBound, BoundSpread, Settle, Relax, Relaxed, IdleCheck,
         IdleWrite, Take
<1>25. UNCHANGED finished \/ (\E r \in Runner : SetFinished(r))
      \/ (\E t \in Tile : ExitRunner(t))
  BY Untouched DEF Next, Steps, vars, Stopper, ExitLoop, otherVars, clientVars, managerVars, loopVars,
     managerLoops, sharedVars,
         countVars, runnerVars, searchVars, blockVars, helperVars, RouteGoes, Goes, SendStop,
         StopperRelease, StopperWakes, StopperClears, StopperReports, ExitReceive
<1>26. UNCHANGED isEnd \/ (\E r \in Runner : Dequeue(r))
  BY Untouched DEF Next, Steps, vars, Search, otherVars, clientVars, managerVars, loopVars,
     managerLoops, sharedVars, countVars,
         runnerVars, searchVars, blockVars, helperVars, RouteGoes, Goes, SendStop, Loop,
         DequeueNothing, StopReadRun, StopReadReq, SpreadBound, TellBound, BoundSpread, Settle,
         Relax, Relaxed, IdleCheck, IdleWrite, Take
<1>27. UNCHANGED isLocked \/ RouteClears \/ (\E r \in Runner : Take(r) \/ StopperClears(r))
  <2>1. ASSUME RoutingLoop PROVE UNCHANGED isLocked \/ RouteClears
    BY <2>1 DEF RoutingLoop, otherVars, clientVars, managerVars, loopVars, managerLoops, sharedVars,
       countVars,
         runnerVars, searchVars, blockVars, helperVars, RouteGoes, Goes, SendStop, RoutePop,
         RouteFind, RouteGet, RouteAdd, RouteIsTaken, RouteSetRunning, RouteRelease, RouteWakes,
         RouteCreate, RouteStart, RouteDecCheck, RouteDecWrite
  <2>2. ASSUME NEW r \in Runner, Search(r) PROVE UNCHANGED isLocked \/ Take(r)
    BY <2>2 DEF Search, otherVars, clientVars, managerVars, loopVars, managerLoops, sharedVars, countVars,
         runnerVars, searchVars, blockVars, helperVars, RouteGoes, Goes, SendStop, Loop,
         DequeueNothing, Dequeue, StopReadRun, StopReadReq, SpreadBound, TellBound, BoundSpread,
         Settle, Relax, Relaxed, IdleCheck, IdleWrite
  <2>3. ASSUME NEW r \in Runner, Stopper(r) PROVE UNCHANGED isLocked \/ StopperClears(r)
    BY <2>3 DEF Stopper, otherVars, clientVars, managerVars, loopVars, managerLoops, sharedVars, countVars,
         runnerVars, searchVars, blockVars, helperVars, RouteGoes, Goes, SendStop, SetFinished,
         StopperRelease, StopperWakes, StopperReports
  <2> QED
    BY Untouched, <2>1, <2>2, <2>3 DEF Next, Steps, vars, blockVars
<1>28. UNCHANGED releaseLock \/ RouteRelease \/ RouteClears
      \/ (\E r \in Runner : StopperRelease(r) \/ StopperClears(r))
  BY Untouched DEF Next, Steps, vars, RoutingLoop, Stopper, otherVars, clientVars, managerVars,
     loopVars, managerLoops, sharedVars,
         countVars, runnerVars, searchVars, blockVars, helperVars, RouteGoes, Goes, SendStop,
         RoutePop, RouteFind, RouteGet, RouteAdd, RouteIsTaken, RouteSetRunning, RouteWakes,
         RouteCreate, RouteStart, RouteDecCheck, RouteDecWrite, SetFinished, StopperWakes,
         StopperReports
<1>29. UNCHANGED spread \/ (\E r \in Runner : StopReadRun(r))
      \/ (\E r \in Runner, t \in Tile : SpreadBound(r, t))
  BY Untouched DEF Next, Steps, vars, Search, otherVars, clientVars, managerVars, loopVars,
     managerLoops, sharedVars, countVars,
         runnerVars, searchVars, blockVars, helperVars, RouteGoes, Goes, SendStop, Loop,
         DequeueNothing, Dequeue, StopReadReq, TellBound, BoundSpread, Settle, Relax, Relaxed,
         IdleCheck, IdleWrite, Take
<1>30. UNCHANGED stopper \/ RouteCreate \/ StopTell
      \/ (\E r \in Runner : SetFinished(r) \/ StopperRelease(r) \/ StopperWakes(r) \/ StopperClears(r))
      \/ (\E r \in Runner : StopperReports(r))
  BY Untouched DEF Next, Steps, vars, RoutingLoop, Stopper, StopLoop, otherVars, clientVars,
     managerVars, loopVars, managerLoops,
         sharedVars, countVars, runnerVars, searchVars, blockVars, helperVars, RouteGoes, Goes,
         SendStop, RoutePop, RouteFind, RouteGet, RouteAdd, RouteIsTaken, RouteSetRunning,
         RouteRelease, RouteWakes, RouteClears, RouteStart, RouteDecCheck, RouteDecWrite,
         StopReceive, StopNotify, StopSpread, StopGet, StopDone
<1>31. UNCHANGED walker \/ RouteCreate \/ RetrievalLoop
      \/ (\E r \in Runner : StopperReports(r) \/ WalkEnds(r)  \/ WalkEdge(r))
      \/ (\E t \in Tile : ExitRunner(t))
  BY Untouched DEF Next, Steps, vars, RoutingLoop, Stopper, Walker, ExitLoop, otherVars, clientVars,
     managerVars, loopVars,
         managerLoops, sharedVars, countVars, runnerVars, searchVars, blockVars, helperVars,
         RouteGoes, Goes, SendStop, RoutePop, RouteFind, RouteGet, RouteAdd, RouteIsTaken,
         RouteSetRunning, RouteRelease, RouteWakes, RouteClears, RouteStart, RouteDecCheck,
         RouteDecWrite, SetFinished, StopperRelease, StopperWakes, StopperClears, ExitReceive
<1>32. UNCHANGED crashed \/ RouteGet \/ StopGet \/ RetrievalLoop
      \/ (\E r \in Runner : TellBound(r) \/ WalkEdge(r))
  BY Untouched DEF Next, Steps, vars, RoutingLoop, Walker, WalkEnds, Search, StopLoop, otherVars, clientVars, managerVars,
     loopVars, managerLoops,
         sharedVars, countVars, runnerVars, searchVars, blockVars, helperVars, RouteGoes, Goes,
         SendStop, RoutePop, RouteFind, RouteAdd, RouteIsTaken, RouteSetRunning, RouteRelease,
         RouteWakes, RouteClears, RouteCreate, RouteStart, RouteDecCheck, RouteDecWrite, Loop,
         DequeueNothing, Dequeue, StopReadRun, StopReadReq, SpreadBound, BoundSpread, Settle,
         Relax, Relaxed, IdleCheck, IdleWrite, Take, StopReceive, StopNotify, StopSpread,
         StopTell, StopDone
<1>33. UNCHANGED blind \/ (\E r \in Runner : WalkEdge(r))
  BY Untouched DEF Next, Steps, vars, Walker, WalkEnds, clientVars
<1> QED
  BY <1>1, <1>2, <1>3, <1>4, <1>5, <1>6, <1>7, <1>8, <1>9, <1>10, <1>11, <1>12, <1>13, <1>14, <1>15,
     <1>16, <1>17, <1>18, <1>19, <1>20, <1>21, <1>22, <1>23, <1>24, <1>25, <1>26, <1>27, <1>28,
     <1>29, <1>30, <1>31, <1>32, <1>33

-----------------------------------------------------------------------------
(* Types.                                                                  *)

LEMMA TypesInit == Init => Types
<1> SUFFICES ASSUME Init PROVE Types
  OBVIOUS
<1> USE NetAssumption DEF Init
<1>1. ClientTypes
  BY DEF ClientTypes
<1>2. ManagerTypes
  BY DEF ManagerTypes
<1>3. LoopTypes
  BY DEF LoopTypes, RoutePlaces, FirstMsg
<1>4. SearchTypes
  BY LabelFacts DEF SearchTypes, Places, Working
<1>5. HelperTypes
  BY DEF HelperTypes, WalkerStates
<1> QED
  BY <1>1, <1>2, <1>3, <1>4, <1>5 DEF Types

\* The names of places.
LEMMA PlaceFacts ==
  /\ {"pop", "empty", "asleep", "find", "create", "start", "dec", "decWrite", "get", "add", "isTaken", "clearing",
      "setRunning", "release", "sending"} = RoutePlaces
  /\ {"none", "new", "loop", "dequeue", "idle", "idleWrite", "take", "receiving", "done"} \subseteq Places
  /\ Working \subseteq Places
  /\ \A p \in Working : p \notin {"none", "new", "loop", "dequeue", "idle", "idleWrite", "take",
      "receiving", "done"}
  /\ {"stopRun", "stopReq", "bound", "tell", "settle", "relax"} = Working
BY DEF RoutePlaces, Places, Adding, Waking, Working


\* A stop is sent only if the channel has room.
LEMMA SendStopFacts ==
  ASSUME NEW k \in Key \cup {NoKey}, SendStop(k), stopChan \in Seq(Key \cup {NoKey})
  PROVE  /\ stopChan' = Append(stopChan, k) /\ stopChan' \in Seq(Key \cup {NoKey})
         /\ Len(stopChan') <= ChanCap
<1>1. stopChan' = Append(stopChan, k) /\ Len(stopChan) < ChanCap
  BY DEF SendStop
<1>2. Len(stopChan') = Len(stopChan) + 1 /\ Len(stopChan) \in Nat
  BY <1>1
<1> QED
  BY <1>1, <1>2, NetAssumption

\* A label becomes the flag of its node.
Put(f, r, l) == [f EXCEPT ![r][l.node] = l]

LEMMA FlagUpdate ==
  ASSUME NEW f \in [Runner -> [Node -> GoodLabels]], \A q \in Runner, n \in Node : f[q][n].node = n,
         NEW r \in Runner, NEW l \in GoodLabels
  PROVE  /\ Put(f, r, l) \in [Runner -> [Node -> GoodLabels]]
         /\ \A q \in Runner, n \in Node : Put(f, r, l)[q][n].node = n
         /\ \A q \in Runner, n \in Node :
              Put(f, r, l)[q][n] = IF q = r /\ n = l.node THEN l ELSE f[q][n]
<1>1. l.node \in Node
  BY LabelFacts
<1>2. Put(f, r, l) = [f EXCEPT ![r] = [f[r] EXCEPT ![l.node] = l]]
  BY <1>1 DEF Put
<1>3. [f[r] EXCEPT ![l.node] = l] \in [Node -> GoodLabels]
  BY <1>1
<1>4. Put(f, r, l) \in [Runner -> [Node -> GoodLabels]]
  BY <1>2, <1>3
<1>5. \A q \in Runner, n \in Node : Put(f, r, l)[q][n] = IF q = r /\ n = l.node THEN l ELSE f[q][n]
  BY <1>1, <1>2
<1> QED
  BY <1>1, <1>4, <1>5

LEMMA FlagSet ==
  ASSUME Types, NEW r \in Runner, NEW l \in GoodLabels, flag' = Put(flag, r, l)
  PROVE  /\ flag' \in [Runner -> [Node -> GoodLabels]]
         /\ \A q \in Runner, n \in Node : flag'[q][n].node = n
         /\ \A q \in Runner, n \in Node :
              flag'[q][n] = IF q = r /\ n = l.node THEN l ELSE flag[q][n]
<1>1. flag \in [Runner -> [Node -> GoodLabels]] /\ \A q \in Runner, n \in Node : flag[q][n].node = n
  BY DEF Types, SearchTypes
<1>2. /\ Put(flag, r, l) \in [Runner -> [Node -> GoodLabels]]
      /\ \A q \in Runner, n \in Node : Put(flag, r, l)[q][n].node = n
      /\ \A q \in Runner, n \in Node :
           Put(flag, r, l)[q][n] = IF q = r /\ n = l.node THEN l ELSE flag[q][n]
  BY <1>1, FlagUpdate
<1> QED
  BY <1>2

\* What the steps that concern a path do to its walker.
WalkerGoes(r, a) ==
  /\ a \in WalkerStates
  /\ walker' \in [Runner -> WalkerStates]
  /\ \A q \in Runner : walker'[q] = IF q = r THEN a ELSE walker[q]

LEMMA WalkerUpdate ==
  ASSUME Types, NEW r \in Runner, NEW a \in WalkerStates, walker' = [walker EXCEPT ![r] = a]
  PROVE  WalkerGoes(r, a)
BY DEF WalkerGoes, Types, HelperTypes

\* The edge a walk reads, and the node it leads to.
Read(r) == EdgeRead(r, walker[r].node)
Other(r) == GetOtherNode(Read(r), walker[r].node)

LEMMA WalkerSteps ==
  ASSUME Types, NEW r \in Runner
  PROVE  /\ WalkEnds(r) => WalkerGoes(r, [at |-> "wait", node |-> walker[r].node])
         /\ WalkEdge(r) =>
              /\ walker[r].node \in Node /\ Read(r) \in Edge
              /\ ~Missing(r, walker[r].node) =>
                   NodeB[Read(r)] = walker[r].node /\ Other(r) = NodeA[Read(r)]
              /\ \/ Other(r) \notin Node /\ UNCHANGED <<walker, retrivelChan>>
                 \/ /\ Other(r) \in Node /\ TileOf[Other(r)] # TileOfRunner(r)
                    /\ WalkerGoes(r, [at |-> "wait", node |-> walker[r].node])
                    /\ retrivelChan' = Append(retrivelChan, <<KeyOf(r), Other(r)>>)
                 \/ /\ Other(r) \in Node /\ TileOf[Other(r)] = TileOfRunner(r)
                    /\ WalkerGoes(r, [at |-> "walk", node |-> Other(r)])
                    /\ UNCHANGED retrivelChan
         /\ StopperReports(r) =>
              \/ UNCHANGED walker /\ ~isEnd[r]
              \/ /\ isEnd[r]
                 /\ end[KeyOf(r)] \in Node => WalkerGoes(r, [at |-> "walk", node |-> end[KeyOf(r)]])
<1>1. walker \in [Runner -> WalkerStates] /\ walker[r] \in WalkerStates
  BY DEF Types, HelperTypes
<1>2. \A p \in {"none", "wait", "walk", "done"} : [at |-> p, node |-> walker[r].node] \in WalkerStates
  BY <1>1 DEF WalkerStates
<1>3. \A n \in Node : [at |-> "walk", node |-> n] \in WalkerStates
  BY DEF WalkerStates
<1>4. ASSUME WalkEnds(r) PROVE WalkerGoes(r, [at |-> "wait", node |-> walker[r].node])
  <2>1. walker' = [walker EXCEPT ![r] = [at |-> "wait", node |-> walker[r].node]]
    <3>1. [walker[r] EXCEPT !.at = "wait"] = [at |-> "wait", node |-> walker[r].node]
      BY <1>1 DEF WalkerStates
    <3>2. walker' = [walker EXCEPT ![r] = [walker[r] EXCEPT !.at = "wait"]]
      BY <1>1, <1>4 DEF WalkEnds
    <3> QED
      BY <3>1, <3>2
  <2> QED
    BY <2>1, <1>2, WalkerUpdate
<1>5. ASSUME WalkEdge(r)
      PROVE  /\ walker[r].node \in Node /\ Read(r) \in Edge
             /\ ~Missing(r, walker[r].node) =>
                  NodeB[Read(r)] = walker[r].node /\ Other(r) = NodeA[Read(r)]
  <2>1. walker[r].node \in Node
    BY <1>5 DEF WalkEdge, Types, HelperTypes
  <2>2. flag[r][walker[r].node] \in GoodLabels /\ flag[r][walker[r].node].node = walker[r].node
    BY <2>1 DEF Types, SearchTypes
  <2>3. Read(r) \in Edge /\ (~Missing(r, walker[r].node) => NodeB[Read(r)] = walker[r].node)
    BY <2>2, LabelFacts, NetAssumption DEF Read, EdgeRead, Missing
  <2>4. ASSUME NodeB[Read(r)] = walker[r].node PROVE Other(r) = NodeA[Read(r)]
    BY <2>4 DEF Other, GetOtherNode
  <2> QED
    BY <2>1, <2>3, <2>4
<1>6. ASSUME WalkEdge(r)
      PROVE  \/ Other(r) \notin Node /\ UNCHANGED <<walker, retrivelChan>>
             \/ /\ Other(r) \in Node /\ TileOf[Other(r)] # TileOfRunner(r)
                /\ WalkerGoes(r, [at |-> "wait", node |-> walker[r].node])
                /\ retrivelChan' = Append(retrivelChan, <<KeyOf(r), Other(r)>>)
             \/ /\ Other(r) \in Node /\ TileOf[Other(r)] = TileOfRunner(r)
                /\ WalkerGoes(r, [at |-> "walk", node |-> Other(r)])
                /\ UNCHANGED retrivelChan
  <2>1. walker[r].at = "walk"
    BY <1>6 DEF WalkEdge
  <2>2. \/ Other(r) \notin Node /\ UNCHANGED <<walker, retrivelChan>>
        \/ /\ Other(r) \in Node /\ TileOf[Other(r)] # TileOfRunner(r)
           /\ walker' = [walker EXCEPT ![r].at = "wait"]
           /\ retrivelChan' = Append(retrivelChan, <<KeyOf(r), Other(r)>>)
        \/ /\ Other(r) \in Node /\ TileOf[Other(r)] = TileOfRunner(r)
           /\ walker' = [walker EXCEPT ![r].node = Other(r)]
           /\ UNCHANGED retrivelChan
    BY <1>6 DEF WalkEdge, Other, Read
  <2>3. ASSUME walker' = [walker EXCEPT ![r].at = "wait"]
        PROVE  WalkerGoes(r, [at |-> "wait", node |-> walker[r].node])
    <3>1. [walker[r] EXCEPT !.at = "wait"] = [at |-> "wait", node |-> walker[r].node]
      BY <1>1 DEF WalkerStates
    <3>2. walker' = [walker EXCEPT ![r] = [walker[r] EXCEPT !.at = "wait"]]
      BY <1>1, <2>3
    <3> QED
      BY <3>1, <3>2, <1>2, WalkerUpdate
  <2>4. ASSUME Other(r) \in Node, walker' = [walker EXCEPT ![r].node = Other(r)]
        PROVE  WalkerGoes(r, [at |-> "walk", node |-> Other(r)])
    <3>1. [walker[r] EXCEPT !.node = Other(r)] = [at |-> "walk", node |-> Other(r)]
      BY <1>1, <2>1 DEF WalkerStates
    <3>2. walker' = [walker EXCEPT ![r] = [walker[r] EXCEPT !.node = Other(r)]]
      BY <1>1, <2>4
    <3> QED
      BY <3>1, <3>2, <1>3, <2>4, WalkerUpdate
  <2> QED
    BY <2>2, <2>3, <2>4
<1>7. ASSUME StopperReports(r)
      PROVE  \/ UNCHANGED walker /\ ~isEnd[r]
             \/ /\ isEnd[r]
                /\ end[KeyOf(r)] \in Node => WalkerGoes(r, [at |-> "walk", node |-> end[KeyOf(r)]])
  <2>1. \/ UNCHANGED walker /\ ~isEnd[r]
        \/ isEnd[r] /\ walker' = [walker EXCEPT ![r] = [at |-> "walk", node |-> end[KeyOf(r)]]]
    BY <1>7 DEF StopperReports
  <2> QED
    BY <2>1, <1>3, WalkerUpdate
<1> QED
  BY <1>4, <1>5, <1>6, <1>7

LEMMA WalkerElsewhere ==
  ASSUME Types
  PROVE  /\ RetrievalLoop =>
              \E k \in Key, n \in Node :
                /\ Head(retrivelChan) = <<k, n>>
                /\ \/ UNCHANGED walker
                   \/ /\ <<k, TileOf[n]>> \in runners
                      /\ WalkerGoes(<<k, TileOf[n]>>, [at |-> "walk", node |-> n])
         /\ \A t \in Tile : ExitRunner(t) =>
              \/ UNCHANGED <<walker, runners, finished, maxLengths>>
              \/ /\ exit.key \in Key /\ <<exit.key, t>> \in runners
                 /\ finished' = [finished EXCEPT ![<<exit.key, t>>] = TRUE]
                 /\ runners' = runners \ {<<exit.key, t>>}
                 /\ maxLengths' = [maxLengths EXCEPT ![<<exit.key, t>>] = Unlimited]
                 /\ WalkerGoes(<<exit.key, t>>, [at |-> "done", node |-> walker[<<exit.key, t>>].node])
         /\ RouteCreate => WalkerGoes(Served, [at |-> "wait", node |-> walker[Served].node])
<1>1. walker \in [Runner -> WalkerStates]
  BY DEF Types, HelperTypes
<1>2. ASSUME RetrievalLoop
      PROVE  \E k \in Key, n \in Node :
                /\ Head(retrivelChan) = <<k, n>>
                /\ \/ UNCHANGED walker
                   \/ /\ <<k, TileOf[n]>> \in runners
                      /\ WalkerGoes(<<k, TileOf[n]>>, [at |-> "walk", node |-> n])
  <2>1. Head(retrivelChan) \in Key \X Node
    BY <1>2 DEF RetrievalLoop, Types, ManagerTypes
  <2>2. PICK k \in Key, n \in Node : Head(retrivelChan) = <<k, n>>
    BY <2>1
  <2>3. <<k, TileOf[n]>> \in Runner
    BY RunnerFacts
  <2>4. \/ UNCHANGED walker
        \/ /\ <<k, TileOf[n]>> \in runners
           /\ walker' = [walker EXCEPT ![<<k, TileOf[n]>>] = [at |-> "walk", node |-> n]]
    <3>1. Head(retrivelChan)[1] = k /\ Head(retrivelChan)[2] = n
      BY <2>2
    <3> QED
      BY <1>2, <3>1 DEF RetrievalLoop
  <2>5. [at |-> "walk", node |-> n] \in WalkerStates
    BY DEF WalkerStates
  <2> QED
    BY <2>2, <2>3, <2>4, <2>5, WalkerUpdate
<1>3. ASSUME NEW t \in Tile, ExitRunner(t), <<exit.key, t>> \in runners
      PROVE  /\ exit.key \in Key
             /\ finished' = [finished EXCEPT ![<<exit.key, t>>] = TRUE]
             /\ runners' = runners \ {<<exit.key, t>>}
             /\ maxLengths' = [maxLengths EXCEPT ![<<exit.key, t>>] = Unlimited]
             /\ WalkerGoes(<<exit.key, t>>, [at |-> "done", node |-> walker[<<exit.key, t>>].node])
  <2> DEFINE r == <<exit.key, t>>
  <2>1. exit.key \in Key
    BY <1>3 DEF ExitRunner, Types, LoopTypes
  <2>2. r \in Runner
    BY <2>1, RunnerFacts
  <2>3. walker[r] \in WalkerStates /\ [at |-> "done", node |-> walker[r].node] \in WalkerStates
    BY <1>1, <2>2 DEF WalkerStates
  <2>4. walker' = [walker EXCEPT ![r] = [at |-> "done", node |-> walker[r].node]]
    <3>1. [walker[r] EXCEPT !.at = "done"] = [at |-> "done", node |-> walker[r].node]
      BY <2>3 DEF WalkerStates
    <3>2. walker' = [walker EXCEPT ![r] = [walker[r] EXCEPT !.at = "done"]]
      BY <1>1, <1>3, <2>2 DEF ExitRunner
    <3> HIDE DEF r
    <3> QED
      BY <3>1, <3>2
  <2>5. WalkerGoes(r, [at |-> "done", node |-> walker[r].node])
    <3> HIDE DEF r
    <3> QED
      BY <2>2, <2>3, <2>4, WalkerUpdate
  <2> QED
    BY <1>3, <2>1, <2>5 DEF ExitRunner
<1>4. ASSUME NEW t \in Tile, ExitRunner(t), <<exit.key, t>> \notin runners
      PROVE  UNCHANGED <<walker, runners, finished, maxLengths>>
  BY <1>4 DEF ExitRunner
<1>5. ASSUME RouteCreate PROVE WalkerGoes(Served, [at |-> "wait", node |-> walker[Served].node])
  <2>1. Served \in Runner
    BY <1>5, ServedFacts DEF RouteCreate
  <2>2. walker[Served] \in WalkerStates /\ [at |-> "wait", node |-> walker[Served].node] \in WalkerStates
    BY <1>1, <2>1 DEF WalkerStates
  <2>3. walker' = [walker EXCEPT ![Served] = [at |-> "wait", node |-> walker[Served].node]]
    <3>1. [walker[Served] EXCEPT !.at = "wait"] = [at |-> "wait", node |-> walker[Served].node]
      BY <2>2 DEF WalkerStates
    <3>2. walker' = [walker EXCEPT ![Served] = [walker[Served] EXCEPT !.at = "wait"]]
      BY <1>5 DEF RouteCreate
    <3> QED
      BY <3>1, <3>2
  <2> QED
    BY <2>1, <2>2, <2>3, WalkerUpdate
<1> QED
  BY <1>2, <1>3, <1>4, <1>5

\* What a runner relaxes, and the label it makes.
LEMMA RelaxFacts ==
  ASSUME Types, NEW r \in Runner, pc[r] = "relax", idx[r] <= Len(Out[cur[r].node]),
         NEW x, x = Out[cur[r].node][idx[r]]
  PROVE  /\ cur[r] \in GoodLabels /\ cur[r].node \in Node
         /\ x \in Forward(cur[r].node) /\ x \in Edge /\ NodeB[x] \in Node /\ NodeA[x] = cur[r].node
         /\ Extended(r, x).node = NodeB[x] /\ Extended(r, x).prev = x
         /\ Extended(r, x).len = cur[r].len + Weight[x]
         /\ Extended(r, x).len <= maxLength[r] => Extended(r, x) \in GoodLabels
<1>1. cur[r] \in GoodLabels /\ idx[r] \in Nat \ {0} /\ maxLength[r] \in 0..Unlimited
  BY PlaceFacts DEF Types, SearchTypes
<1>2. cur[r].node \in Node /\ cur[r].len \in 0..Unlimited
  BY <1>1, LabelFacts
<1>3. x \in Forward(cur[r].node)
  <2>1. Len(Out[cur[r].node]) \in Nat
    BY <1>2, NetFacts
  <2>2. idx[r] \in 1..Len(Out[cur[r].node])
    BY <1>1, <2>1
  <2> QED
    BY <1>2, <2>2, NetFacts
<1>4. x \in Edge /\ NodeB[x] \in Node /\ NodeA[x] = cur[r].node /\ Weight[x] \in Nat
  BY <1>2, <1>3, NetFacts
<1>5. /\ Extended(r, x).node = NodeB[x] /\ Extended(r, x).prev = x
      /\ Extended(r, x).len = cur[r].len + Weight[x]
  BY DEF Extended, Label
<1>6. ASSUME Extended(r, x).len <= maxLength[r] PROVE Extended(r, x) \in GoodLabels
  <2>1. cur[r].len + Weight[x] \in 0..Unlimited
    BY <1>1, <1>2, <1>4, <1>5, <1>6, NetAssumption
  <2> QED
    BY <2>1, <1>4, LabelFacts DEF Extended
<1> QED
  BY <1>1, <1>2, <1>3, <1>4, <1>5, <1>6

\* What relaxing an edge does: nothing but to count it, or to take the label up
\* in this tile, or to send it to another one.
LEMMA RelaxSteps ==
  ASSUME Types, NEW r \in Runner, Relax(r)
  PROVE  \E x \in Forward(cur[r].node) :
           LET l == Extended(r, x) IN
           /\ x = Out[cur[r].node][idx[r]]
           /\ \/ UNCHANGED <<flag, heap, reqCount, routingChan>>
              \/ /\ l \in GoodLabels /\ l.node \in Node /\ l.len < flag[r][NodeB[x]].len
                 /\ flag' = Put(flag, r, l)
                 /\ \/ /\ ~IsCrossBorder(x)
                       /\ heap' = [heap EXCEPT ![r] = @ \cup {l}]
                       /\ UNCHANGED <<reqCount, routingChan>>
                    \/ /\ IsCrossBorder(x)
                       /\ UNCHANGED heap
                       /\ reqCount' = [reqCount EXCEPT ![KeyOf(r)] = @ + 1]
                       /\ routingChan' = Append(routingChan, Request(KeyOf(r), l))
<1> DEFINE x == Out[cur[r].node][idx[r]]
           l == Extended(r, x)
           improves == Usable(r, x) /\ l.len <= maxLength[r] /\ l.len < flag[r][NodeB[x]].len
<1>1. pc[r] = "relax" /\ idx[r] <= Len(Out[cur[r].node])
  BY DEF Relax
<1>2. /\ x \in Forward(cur[r].node) /\ l.node = NodeB[x] /\ NodeB[x] \in Node
      /\ l.len <= maxLength[r] => l \in GoodLabels
  BY <1>1, RelaxFacts
<1>3. /\ flag' = IF improves THEN [flag EXCEPT ![r][NodeB[x]] = l] ELSE flag
      /\ IF improves /\ IsCrossBorder(x)
           THEN /\ reqCount' = [reqCount EXCEPT ![KeyOf(r)] = @ + 1]
                /\ routingChan' = Append(routingChan, Request(KeyOf(r), l))
           ELSE UNCHANGED <<reqCount, routingChan>>
      /\ heap' = IF improves /\ ~IsCrossBorder(x) THEN [heap EXCEPT ![r] = @ \cup {l}] ELSE heap
  BY DEF Relax
<1> HIDE DEF x, l
<1>4. CASE ~improves
  BY <1>2, <1>3, <1>4 DEF l, x
<1>5. CASE improves
  BY <1>2, <1>3, <1>5 DEF l, x, Put
<1> QED
  BY <1>4, <1>5
LEMMA ClientTypesStep ==
  ASSUME Types, Begun, [Next]_vars
  PROVE  ClientTypes'
<1> USE DEF Types, ClientTypes, otherVars, clientVars, managerVars, loopVars, managerLoops, sharedVars,
        countVars,
        runnerVars, searchVars, blockVars, helperVars, RouteGoes, Goes, SendStop
<1>1. ASSUME UNCHANGED <<client, start, end, answer, blind, pathChan>> PROVE ClientTypes'
  BY <1>1 DEF Types, ClientTypes
<1>2. ASSUME NEW k \in Key, NEW s \in Node, NEW e \in Node, RunRouting(k, s, e) PROVE ClientTypes'
  BY <1>2 DEF RunRouting
<1>3. ASSUME NEW k \in Key, LeavePath(k) PROVE ClientTypes'
  BY <1>3 DEF LeavePath
<1>4. ASSUME NEW r \in Runner, WalkEnds(r) PROVE ClientTypes'
  BY <1>4 DEF WalkEnds
<1>5. ASSUME NEW r \in Runner, WalkEdge(r) PROVE ClientTypes'
  <2>1. Read(r) \in Edge /\ KeyOf(r) \in Key
    BY <1>5, WalkerSteps, RunnerFacts
  <2>2. \A s \in Seq(Edge) : <<Read(r)>> \o s \in Seq(Edge)
    BY <2>1
  <2>3. UNCHANGED answer \/ answer' = [answer EXCEPT ![KeyOf(r)] = <<Read(r)>> \o answer[KeyOf(r)]]
    BY <1>5 DEF WalkEdge, ClientReads, Read
  <2>4. answer' \in [Key -> Seq(Edge)]
    <3>1. answer \in [Key -> Seq(Edge)]
      OBVIOUS
    <3>2. <<Read(r)>> \o answer[KeyOf(r)] \in Seq(Edge)
      BY <2>1, <2>2, <3>1
    <3> QED
      BY <2>1, <2>3, <3>1, <3>2
  <2>5. blind' \subseteq Key
    BY <1>5, <2>1 DEF WalkEdge
  <2> QED
    BY <1>5, <2>4, <2>5 DEF WalkEdge
<1>6. ASSUME StopNotify PROVE ClientTypes'
  BY <1>6 DEF StopNotify
<1> QED
  BY <1>1, <1>2, <1>3, <1>4, <1>5, <1>6, Changes

LEMMA ManagerTypesStep ==
  ASSUME Types, Begun, [Next]_vars
  PROVE  ManagerTypes'
<1> USE DEF Types, ManagerTypes, otherVars, clientVars, managerVars, loopVars, managerLoops, sharedVars,
        countVars,
        runnerVars, searchVars, blockVars, helperVars, RouteGoes, Goes, SendStop
<1>1. ASSUME UNCHANGED <<awaited, stoped, runCount, reqCount, routingChan, stopChan, retrivelChan,
                          exitChan, maxLengths, runners>> PROVE ManagerTypes'
  BY <1>1 DEF Types, ManagerTypes
<1>2. ASSUME NEW k \in Key, NEW s \in Node, NEW e \in Node, RunRouting(k, s, e) PROVE ManagerTypes'
  <2>1. Request(k, Label(s, 0, NoEdge)) \in GoodRequests
    BY LabelFacts
  <2>2. routingChan' \in Seq(GoodRequests) /\ reqCount' \in [Key -> Int] /\ awaited' \subseteq Key
    BY <1>2, <2>1 DEF RunRouting
  <2> QED
    BY <1>2, <2>2 DEF RunRouting
<1>3. ASSUME NEW k \in Key, LeavePath(k) PROVE ManagerTypes'
  BY <1>3 DEF LeavePath
<1>4. ASSUME RoutePop PROVE ManagerTypes'
  BY <1>4 DEF RoutePop
<1>5. ASSUME RouteSetRunning PROVE ManagerTypes'
  BY <1>5, ServedFacts DEF RouteSetRunning
<1>6. ASSUME RouteCreate PROVE ManagerTypes'
  <2>1. runners' \subseteq Runner
    BY <1>6, ServedFacts DEF RouteCreate
  <2> QED
    BY <1>6, <2>1 DEF RouteCreate
<1>7. ASSUME RouteStart PROVE ManagerTypes'
  BY <1>7, ServedFacts DEF RouteStart
<1>8. ASSUME RouteDecCheck PROVE ManagerTypes'
  <2>1. stopChan' \in Seq(Key \cup {NoKey}) /\ Len(stopChan') <= ChanCap
    <3>1. CASE SendStop(route.msg.key)
      BY <3>1, SendStopFacts, ServedFacts, <1>8 DEF RouteDecCheck
    <3>2. CASE UNCHANGED stopChan
      BY <3>2
    <3> QED
      BY <1>8, <3>1, <3>2 DEF RouteDecCheck
  <2> QED
    BY <1>8, <2>1 DEF RouteDecCheck
<1>9. ASSUME RouteDecWrite PROVE ManagerTypes'
  BY <1>9, ServedFacts DEF RouteDecWrite
<1>10. ASSUME NEW r \in Runner, StopReadReq(r) PROVE ManagerTypes'
  <2>1. stopChan' \in Seq(Key \cup {NoKey}) /\ Len(stopChan') <= ChanCap
    <3>1. CASE SendStop(KeyOf(r))
      BY <3>1, SendStopFacts, RunnerFacts
    <3>2. CASE UNCHANGED stopChan
      BY <3>2
    <3> QED
      BY <1>10, <3>1, <3>2 DEF StopReadReq
  <2> QED
    BY <1>10, <2>1 DEF StopReadReq
<1>11. ASSUME NEW r \in Runner, NEW t \in Tile, SpreadBound(r, t) PROVE ManagerTypes'
  <2>1. cur[r].len \in 0..Unlimited /\ <<KeyOf(r), t>> \in Runner
    BY <1>11, RunnerFacts, PlaceFacts, LabelFacts DEF SpreadBound, SearchTypes
  <2> QED
    BY <1>11, <2>1 DEF SpreadBound
<1>12. ASSUME NEW r \in Runner, Relax(r) PROVE ManagerTypes'
  <2>1. routingChan' \in Seq(GoodRequests) /\ reqCount' \in [Key -> Int]
    <3>1. CASE UNCHANGED <<reqCount, routingChan>>
      BY <3>1
    <3>2. CASE \E l \in GoodLabels : /\ reqCount' = [reqCount EXCEPT ![KeyOf(r)] = @ + 1]
                                     /\ routingChan' = Append(routingChan, Request(KeyOf(r), l))
      BY <3>2, RunnerFacts, LabelFacts
    <3> QED
      BY <1>12, <3>1, <3>2, RelaxSteps
  <2> QED
    BY <1>12, <2>1 DEF Relax
<1>13. ASSUME NEW r \in Runner, IdleCheck(r) PROVE ManagerTypes'
  <2>1. stopChan' \in Seq(Key \cup {NoKey}) /\ Len(stopChan') <= ChanCap
    <3>1. CASE SendStop(KeyOf(r))
      BY <3>1, SendStopFacts, RunnerFacts
    <3>2. CASE UNCHANGED stopChan
      BY <3>2
    <3> QED
      BY <1>13, <3>1, <3>2 DEF IdleCheck
  <2> QED
    BY <1>13, <2>1 DEF IdleCheck
<1>14. ASSUME NEW r \in Runner, IdleWrite(r) PROVE ManagerTypes'
  BY <1>14, RunnerFacts DEF IdleWrite
<1>15. ASSUME NEW r \in Runner, WalkEdge(r) PROVE ManagerTypes'
  <2>1. \/ UNCHANGED retrivelChan
        \/ <<KeyOf(r), Other(r)>> \in Key \X Node /\ retrivelChan' = Append(retrivelChan, <<KeyOf(r), Other(r)>>)
    BY <1>15, WalkerSteps, RunnerFacts
  <2>2. retrivelChan' \in Seq(Key \X Node)
    <3> HIDE DEF Types, ManagerTypes
    <3>1. retrivelChan \in Seq(Key \X Node)
      BY DEF Types, ManagerTypes
    <3> QED
      BY <3>1, <2>1
  <2> QED
    BY <1>15, <2>2 DEF WalkEdge
<1>16. ASSUME StopReceive PROVE ManagerTypes'
  <2>1. stopChan' \in Seq(Key \cup {NoKey}) /\ Len(stopChan') <= ChanCap
    BY <1>16, NetAssumption DEF StopReceive
  <2> QED
    BY <1>16, <2>1 DEF StopReceive
<1>17. ASSUME StopNotify PROVE ManagerTypes'
  BY <1>17 DEF StopNotify
<1>18. ASSUME RetrievalLoop PROVE ManagerTypes'
  BY <1>18 DEF RetrievalLoop
<1>19. ASSUME ExitReceive PROVE ManagerTypes'
  BY <1>19 DEF ExitReceive
<1>20. ASSUME NEW t \in Tile, ExitRunner(t) PROVE ManagerTypes'
  <2>1. /\ runners' \subseteq Runner
        /\ \/ UNCHANGED maxLengths
           \/ \E x \in Runner : maxLengths' = [maxLengths EXCEPT ![x] = Unlimited]
    BY <1>20, WalkerElsewhere, RunnerFacts
  <2>2. maxLengths' \in [Runner -> 0..Unlimited]
    <3>1. Unlimited \in 0..Unlimited /\ maxLengths \in [Runner -> 0..Unlimited]
      BY NetAssumption
    <3> HIDE DEF ManagerTypes, Types
    <3> QED
      BY <2>1, <3>1
  <2>3. UNCHANGED <<awaited, stoped, runCount, reqCount, routingChan, stopChan, retrivelChan, exitChan>>
    BY <1>20 DEF ExitRunner
  <2> QED
    BY <2>1, <2>2, <2>3
<1>21. ASSUME RouteZero PROVE ManagerTypes'
  <2>1. stopChan' \in Seq(Key \cup {NoKey}) /\ Len(stopChan') <= ChanCap
    BY <1>21, SendStopFacts DEF RouteZero
  <2> QED
    BY <1>21, <2>1 DEF RouteZero
<1> QED
  BY <1>1, <1>2, <1>3, <1>4, <1>5, <1>6, <1>7, <1>8, <1>9, <1>10, <1>11, <1>12, <1>13, <1>14, <1>15,
     <1>16, <1>17, <1>18, <1>19, <1>20, <1>21, Changes

LEMMA LoopTypesStep ==
  ASSUME Types, Begun, [Next]_vars
  PROVE  LoopTypes'
<1> USE PlaceFacts DEF Types, LoopTypes, otherVars, clientVars, managerVars, loopVars, managerLoops,
        sharedVars, countVars,
        runnerVars, searchVars, blockVars, helperVars, RouteGoes, Goes, SendStop
<1>1. ASSUME UNCHANGED <<route, stop, exit>> PROVE LoopTypes'
  BY <1>1 DEF Types, LoopTypes
<1>2. ASSUME RoutePop PROVE LoopTypes'
  <2>1. Head(routingChan) \in GoodRequests
    BY <1>2 DEF RoutePop, ManagerTypes
  <2> QED
    BY <1>2, <2>1 DEF RoutePop
<1>3. ASSUME RouteFind PROVE LoopTypes'
  BY <1>3 DEF RouteFind
<1>4. ASSUME RouteGet PROVE LoopTypes'
  BY <1>4 DEF RouteGet
<1>5. ASSUME RouteAdd PROVE LoopTypes'
  BY <1>5 DEF RouteAdd
<1>6. ASSUME RouteIsTaken PROVE LoopTypes'
  BY <1>6 DEF RouteIsTaken
<1>7. ASSUME RouteSetRunning PROVE LoopTypes'
  BY <1>7 DEF RouteSetRunning
<1>8. ASSUME RouteRelease PROVE LoopTypes'
  BY <1>8 DEF RouteRelease
<1>9. ASSUME RouteWakes PROVE LoopTypes'
  BY <1>9 DEF RouteWakes
<1>10. ASSUME RouteClears PROVE LoopTypes'
  BY <1>10 DEF RouteClears
<1>11. ASSUME RouteCreate PROVE LoopTypes'
  BY <1>11 DEF RouteCreate
<1>12. ASSUME RouteStart PROVE LoopTypes'
  BY <1>12 DEF RouteStart
<1>13. ASSUME RouteDecCheck PROVE LoopTypes'
  BY <1>13 DEF RouteDecCheck
<1>14. ASSUME RouteDecWrite PROVE LoopTypes'
  BY <1>14 DEF RouteDecWrite
<1>15. ASSUME StopReceive PROVE LoopTypes'
  <2>1. Head(stopChan) \in Key \cup {NoKey}
    BY <1>15 DEF StopReceive, ManagerTypes
  <2> QED
    BY <1>15, <2>1 DEF StopReceive
<1>16. ASSUME StopNotify PROVE LoopTypes'
  BY <1>16 DEF StopNotify, ManagerTypes
<1>17. ASSUME NEW t \in Tile, StopSpread(t) PROVE LoopTypes'
  BY <1>17 DEF StopSpread
<1>18. ASSUME StopGet PROVE LoopTypes'
  BY <1>18 DEF StopGet
<1>19. ASSUME StopTell PROVE LoopTypes'
  BY <1>19 DEF StopTell
<1>20. ASSUME StopDone PROVE LoopTypes'
  BY <1>20 DEF StopDone
<1>21. ASSUME ExitReceive PROVE LoopTypes'
  <2>1. Head(exitChan) \in Key
    BY <1>21 DEF ExitReceive, ManagerTypes
  <2> QED
    BY <1>21, <2>1 DEF ExitReceive
<1>22. ASSUME NEW t \in Tile, ExitRunner(t) PROVE LoopTypes'
  BY <1>22 DEF ExitRunner
<1>23. ASSUME RouteOversleeps PROVE LoopTypes'
  BY <1>23 DEF RouteOversleeps
<1> QED
  BY <1>1, <1>2, <1>3, <1>4, <1>5, <1>6, <1>7, <1>8, <1>9, <1>10, <1>11, <1>12, <1>13, <1>14, <1>15,
     <1>16, <1>17, <1>18, <1>19, <1>20, <1>21, <1>22, <1>23, Changes

LEMMA SearchTypesStep ==
  ASSUME Types, Begun, [Next]_vars
  PROVE  SearchTypes'
<1> USE PlaceFacts DEF Types, SearchTypes, otherVars, clientVars, managerVars, loopVars, managerLoops,
        sharedVars, countVars,
        runnerVars, searchVars, blockVars, helperVars, RouteGoes, Goes, SendStop
<1>1. ASSUME UNCHANGED <<pc, cur, idx, heap, flag, maxLength, spread>> PROVE SearchTypes'
  BY <1>1 DEF Types, SearchTypes
<1>2. ASSUME RouteAdd PROVE SearchTypes'
  <2>1. Served \in Runner /\ route.msg.label \in GoodLabels
    BY <1>2, ServedFacts DEF RouteAdd
  <2>2. heap' \in [Runner -> SUBSET GoodLabels]
    BY <1>2, <2>1 DEF RouteAdd
  <2> QED
    BY <1>2, <2>2 DEF RouteAdd
<1>3. ASSUME RouteWakes PROVE SearchTypes'
  BY <1>3 DEF RouteWakes
<1>4. ASSUME RouteCreate PROVE SearchTypes'
  <2>1. Served \in Runner /\ route.msg.label \in GoodLabels
    BY <1>4, ServedFacts DEF RouteCreate
  <2>2. heap' \in [Runner -> SUBSET GoodLabels]
    BY <1>4, <2>1 DEF RouteCreate
  <2>3. maxLength' \in [Runner -> 0..Unlimited]
    BY <1>4, <2>1 DEF RouteCreate, ManagerTypes
  <2>4. pc' = [pc EXCEPT ![Served] = "new"] /\ UNCHANGED <<cur, idx, flag, spread>>
    BY <1>4 DEF RouteCreate
  <2> QED
    BY <2>1, <2>2, <2>3, <2>4, PlaceFacts
<1>5. ASSUME RouteStart PROVE SearchTypes'
  BY <1>5 DEF RouteStart
<1>6. ASSUME NEW r \in Runner, Loop(r) PROVE SearchTypes'
  BY <1>6 DEF Loop
<1>7. ASSUME NEW r \in Runner, DequeueNothing(r) PROVE SearchTypes'
  BY <1>7 DEF DequeueNothing
<1>8. ASSUME NEW r \in Runner, Dequeue(r) PROVE SearchTypes'
  <2>1. PICK l \in heap[r] : /\ heap' = [heap EXCEPT ![r] = @ \ {l}]
                             /\ \/ UNCHANGED <<cur, maxLength>> /\ pc' = [pc EXCEPT ![r] = "loop"]
                                \/ /\ cur' = [cur EXCEPT ![r] = l]
                                   /\ maxLength' = [maxLength EXCEPT ![r] = l.len] \/ UNCHANGED maxLength
                                   /\ \E p \in {"stopRun", "settle"} : pc' = [pc EXCEPT ![r] = p]
    BY <1>8 DEF Dequeue
  <2>2. l \in GoodLabels /\ l.len \in 0..Unlimited
    BY LabelFacts
  <2>3. heap' \in [Runner -> SUBSET GoodLabels] /\ maxLength' \in [Runner -> 0..Unlimited]
    BY <2>1, <2>2
  <2>4. UNCHANGED <<idx, flag, spread>>
    BY <1>8 DEF Dequeue
  <2>5. CASE UNCHANGED cur /\ pc' = [pc EXCEPT ![r] = "loop"]
    BY <2>3, <2>4, <2>5, PlaceFacts
  <2>6. ASSUME cur' = [cur EXCEPT ![r] = l], NEW p \in {"stopRun", "settle"}, pc' = [pc EXCEPT ![r] = p]
        PROVE  SearchTypes'
    BY <2>2, <2>3, <2>4, <2>6, PlaceFacts
  <2> QED
    BY <2>1, <2>5, <2>6
<1>9. ASSUME NEW r \in Runner, StopReadRun(r) PROVE SearchTypes'
  BY <1>9 DEF StopReadRun
<1>10. ASSUME NEW r \in Runner, StopReadReq(r) PROVE SearchTypes'
  BY <1>10 DEF StopReadReq
<1>11. ASSUME NEW r \in Runner, NEW t \in Tile, SpreadBound(r, t) PROVE SearchTypes'
  BY <1>11 DEF SpreadBound
<1>12. ASSUME NEW r \in Runner, TellBound(r) PROVE SearchTypes'
  <2>1. cur[r].len \in 0..Unlimited
    BY <1>12, PlaceFacts, LabelFacts DEF TellBound
  <2>2. maxLength' \in [Runner -> 0..Unlimited]
    BY <1>12, <2>1 DEF TellBound
  <2> QED
    BY <1>12, <2>2, PlaceFacts DEF TellBound
<1>13. ASSUME NEW r \in Runner, BoundSpread(r) PROVE SearchTypes'
  BY <1>13 DEF BoundSpread
<1>14. ASSUME NEW r \in Runner, Settle(r) PROVE SearchTypes'
  <2>1. cur[r] \in GoodLabels
    BY <1>14, PlaceFacts, LabelFacts DEF Settle
  <2>2. /\ flag' = Put(flag, r, cur[r]) /\ idx' = [idx EXCEPT ![r] = 1]
        /\ pc' = [pc EXCEPT ![r] = "relax"] /\ UNCHANGED <<cur, heap, maxLength, spread>>
    BY <1>14 DEF Settle, Put
  <2>3. flag' \in [Runner -> [Node -> GoodLabels]] /\ \A q \in Runner, n \in Node : flag'[q][n].node = n
    <3> HIDE DEF Types, SearchTypes
    <3> QED
      BY <2>1, <2>2, FlagSet
  <2>4. "relax" \in Places /\ \A q \in Runner : pc'[q] \in Working => cur'[q] \in GoodLabels
    BY <2>1, <2>2, PlaceFacts
  <2>5. pc' \in [Runner -> Places] /\ idx' \in [Runner -> Nat \ {0}]
    BY <2>2, <2>4
  <2>6. \A q \in Runner : pc'[q] = "tell" => spread'[q].tile \in Tile
    BY <2>2
  <2> QED
    BY <2>2, <2>3, <2>4, <2>5, <2>6
<1>15. ASSUME NEW r \in Runner, Relax(r) PROVE SearchTypes'
  <2>1. PICK l : \/ UNCHANGED <<flag, heap>>
                \/ /\ l \in GoodLabels /\ flag' = Put(flag, r, l)
                   /\ UNCHANGED heap \/ heap' = [heap EXCEPT ![r] = @ \cup {l}]
    BY <1>15, RelaxSteps
  <2>2. flag' \in [Runner -> [Node -> GoodLabels]] /\ \A q \in Runner, n \in Node : flag'[q][n].node = n
    <3>1. CASE l \in GoodLabels /\ flag' = Put(flag, r, l)
      <4> HIDE DEF Types, SearchTypes
      <4> QED
        BY <3>1, FlagSet
    <3> QED
      BY <2>1, <3>1
  <2>3. heap' \in [Runner -> SUBSET GoodLabels]
    <3>1. CASE UNCHANGED heap
      BY <3>1
    <3>2. CASE l \in GoodLabels /\ heap' = [heap EXCEPT ![r] = @ \cup {l}]
      BY <3>2
    <3> QED
      BY <2>1, <3>1, <3>2
  <2>4. idx' = [idx EXCEPT ![r] = @ + 1] /\ UNCHANGED <<pc, cur, maxLength, spread>>
    BY <1>15 DEF Relax
  <2>5. idx' \in [Runner -> Nat \ {0}]
    BY <2>4
  <2> QED
    BY <2>2, <2>3, <2>4, <2>5
<1>16. ASSUME NEW r \in Runner, Relaxed(r) PROVE SearchTypes'
  BY <1>16 DEF Relaxed
<1>17. ASSUME NEW r \in Runner, IdleCheck(r) PROVE SearchTypes'
  BY <1>17 DEF IdleCheck
<1>18. ASSUME NEW r \in Runner, IdleWrite(r) PROVE SearchTypes'
  BY <1>18 DEF IdleWrite
<1>19. ASSUME NEW r \in Runner, Take(r) PROVE SearchTypes'
  BY <1>19 DEF Take
<1>20. ASSUME NEW r \in Runner, StopperWakes(r) PROVE SearchTypes'
  BY <1>20 DEF StopperWakes
<1> QED
  BY <1>1, <1>2, <1>3, <1>4, <1>5, <1>6, <1>7, <1>8, <1>9, <1>10, <1>11, <1>12, <1>13, <1>14, <1>15,
     <1>16, <1>17, <1>18, <1>19, <1>20, Changes

LEMMA HelperTypesStep ==
  ASSUME Types, Begun, [Next]_vars
  PROVE  HelperTypes'
<1> USE DEF Types, HelperTypes, otherVars, clientVars, managerVars, loopVars, managerLoops, sharedVars,
        countVars,
        runnerVars, searchVars, blockVars, helperVars, RouteGoes, Goes, SendStop
<1>1. ASSUME UNCHANGED <<finished, isEnd, isLocked, releaseLock, stopper, walker>> PROVE HelperTypes'
  BY <1>1 DEF Types, HelperTypes
<1>2. ASSUME RouteRelease PROVE HelperTypes'
  BY <1>2 DEF RouteRelease
<1>3. ASSUME RouteClears PROVE HelperTypes'
  BY <1>3 DEF RouteClears
<1>4. ASSUME RouteCreate PROVE HelperTypes'
  <2>1. Served \in Runner /\ WalkerGoes(Served, [at |-> "wait", node |-> walker[Served].node])
    BY <1>4, ServedFacts, WalkerElsewhere DEF RouteCreate
  <2> QED
    BY <1>4, <2>1 DEF RouteCreate, WalkerGoes
<1>5. ASSUME NEW r \in Runner, Dequeue(r) PROVE HelperTypes'
  BY <1>5 DEF Dequeue
<1>6. ASSUME NEW r \in Runner, Take(r) PROVE HelperTypes'
  BY <1>6 DEF Take
<1>7. ASSUME NEW r \in Runner, SetFinished(r) PROVE HelperTypes'
  BY <1>7 DEF SetFinished
<1>8. ASSUME NEW r \in Runner, StopperRelease(r) PROVE HelperTypes'
  BY <1>8 DEF StopperRelease
<1>9. ASSUME NEW r \in Runner, StopperWakes(r) PROVE HelperTypes'
  BY <1>9 DEF StopperWakes
<1>10. ASSUME NEW r \in Runner, StopperClears(r) PROVE HelperTypes'
  BY <1>10 DEF StopperClears
<1>11. ASSUME NEW r \in Runner, StopperReports(r) PROVE HelperTypes'
  <2>1. isEnd[r] => end[KeyOf(r)] \in Node
    BY <1>11, RunnerFacts DEF StopperReports, Begun, EmptyAtFirst, MadeAsked, Asked, ClientTypes
  <2>2. stopper' = [stopper EXCEPT ![r] = "done"] /\ UNCHANGED <<finished, isEnd, isLocked, releaseLock>>
    BY <1>11 DEF StopperReports
  <2>3. /\ walker' \in [Runner -> WalkerStates]
        /\ \A q \in Runner : walker'[q].at = "walk" => walker'[q].node \in Node
    <3>1. UNCHANGED walker \/ \E n \in Node : WalkerGoes(r, [at |-> "walk", node |-> n])
      BY <1>11, <2>1, WalkerSteps
    <3>2. ASSUME NEW n \in Node, WalkerGoes(r, [at |-> "walk", node |-> n])
          PROVE  \A q \in Runner : walker'[q].at = "walk" => walker'[q].node \in Node
      BY <3>2 DEF WalkerGoes
    <3>3. walker' \in [Runner -> WalkerStates]
      BY <3>1 DEF WalkerGoes
    <3> QED
      BY <3>1, <3>2, <3>3
  <2> QED
    BY <2>2, <2>3
<1>12. ASSUME NEW r \in Runner, WalkEnds(r) PROVE HelperTypes'
  <2>1. UNCHANGED <<finished, isEnd, isLocked, releaseLock, stopper>>
    BY <1>12 DEF WalkEnds
  <2>2. WalkerGoes(r, [at |-> "wait", node |-> walker[r].node])
    BY <1>12, WalkerSteps
  <2> QED
    BY <2>1, <2>2 DEF WalkerGoes
<1>14. ASSUME NEW r \in Runner, WalkEdge(r) PROVE HelperTypes'
  <2>1. UNCHANGED <<finished, isEnd, isLocked, releaseLock, stopper>>
    BY <1>14 DEF WalkEdge
  <2>2. \/ UNCHANGED walker
        \/ WalkerGoes(r, [at |-> "wait", node |-> walker[r].node])
        \/ \E n \in Node : WalkerGoes(r, [at |-> "walk", node |-> n])
    BY <1>14, WalkerSteps
  <2>3. CASE WalkerGoes(r, [at |-> "wait", node |-> walker[r].node])
    BY <2>1, <2>3 DEF WalkerGoes
  <2>4. ASSUME NEW n \in Node, WalkerGoes(r, [at |-> "walk", node |-> n]) PROVE HelperTypes'
    BY <2>1, <2>4 DEF WalkerGoes
  <2> QED
    BY <1>1, <2>1, <2>2, <2>3, <2>4
<1>15. ASSUME StopTell PROVE HelperTypes'
  BY <1>15 DEF StopTell
<1>16. ASSUME RetrievalLoop PROVE HelperTypes'
  <2>1. UNCHANGED <<finished, isEnd, isLocked, releaseLock, stopper>>
    BY <1>16 DEF RetrievalLoop
  <2>2. PICK n \in Node, k \in Key :
          UNCHANGED walker \/ WalkerGoes(<<k, TileOf[n]>>, [at |-> "walk", node |-> n])
    BY <1>16, WalkerElsewhere
  <2>3. \A q \in Runner : walker'[q].at = "walk" => walker'[q].node \in Node
    BY <2>2 DEF WalkerGoes
  <2>4. walker' \in [Runner -> WalkerStates]
    BY <2>2 DEF WalkerGoes
  <2> QED
    BY <2>1, <2>3, <2>4
<1>17. ASSUME NEW t \in Tile, ExitRunner(t) PROVE HelperTypes'
  <2>1. UNCHANGED <<isEnd, isLocked, releaseLock, stopper>>
    BY <1>17 DEF ExitRunner
  <2>2. CASE UNCHANGED <<walker, finished>>
    BY <2>1, <2>2
  <2>3. ASSUME NEW q \in Runner, WalkerGoes(q, [at |-> "done", node |-> walker[q].node]),
               finished' = [finished EXCEPT ![q] = TRUE]
        PROVE  HelperTypes'
    BY <2>1, <2>3 DEF WalkerGoes
  <2> QED
    BY <1>17, <2>2, <2>3, WalkerElsewhere, RunnerFacts
<1> QED
  BY <1>1, <1>2, <1>3, <1>4, <1>5, <1>6, <1>7, <1>8, <1>9, <1>10, <1>11, <1>12, <1>14, <1>15,
     <1>16, <1>17, Changes

LEMMA TypesStep ==
  ASSUME Types, Begun, [Next]_vars
  PROVE  Types'
BY ClientTypesStep, ManagerTypesStep, LoopTypesStep, SearchTypesStep, HelperTypesStep DEF Types

-----------------------------------------------------------------------------
(* How the clients, the routing loop and the searches go on.               *)

LEMMA ClientSteps ==
  ASSUME Types, [Next]_vars, NEW k \in Key
  PROVE  /\ client[k] = "waiting" => client'[k] \in {"waiting", "reading"}
         /\ client[k] = "reading" => client'[k] \in {"reading", "done"}
         /\ client[k] = "done" => client'[k] = "done"
         /\ client[k] # "idle" => client'[k] # "idle" /\ start'[k] = start[k] /\ end'[k] = end[k]
<1>0. client \in [Key -> {"idle", "waiting", "reading", "done"}]
  BY DEF Types, ClientTypes
<1> DEFINE G == /\ client[k] = "waiting" => client'[k] \in {"waiting", "reading"}
                /\ client[k] = "reading" => client'[k] \in {"reading", "done"}
                /\ client[k] = "done" => client'[k] = "done"
                /\ client[k] # "idle" => client'[k] # "idle" /\ start'[k] = start[k] /\ end'[k] = end[k]
<1>1. ASSUME UNCHANGED <<client, start, end>> PROVE G
  BY <1>0, <1>1
<1>2. ASSUME NEW j \in Key, NEW s \in Node, NEW e \in Node, RunRouting(j, s, e) PROVE G
  <2>1. /\ client[j] = "idle" /\ client' = [client EXCEPT ![j] = "waiting"]
        /\ start' = [start EXCEPT ![j] = s] /\ end' = [end EXCEPT ![j] = e]
    BY <1>2 DEF RunRouting
  <2>2. start \in [Key -> Node \cup {NoNode}] /\ end \in [Key -> Node \cup {NoNode}]
    BY DEF Types, ClientTypes
  <2> QED
    BY <1>0, <2>1, <2>2
<1>3. ASSUME NEW j \in Key, LeavePath(j) PROVE G
  <2>1. client[j] = "reading" /\ client' = [client EXCEPT ![j] = "done"] /\ UNCHANGED <<start, end>>
    BY <1>3 DEF LeavePath
  <2> QED
    BY <1>0, <2>1
<1>4. ASSUME StopNotify PROVE G
  <2>1. /\ client[stop.key] = "waiting" /\ client' = [client EXCEPT ![stop.key] = "reading"]
        /\ UNCHANGED <<start, end>>
    BY <1>4 DEF StopNotify
  <2> QED
    BY <1>0, <2>1
<1> HIDE DEF G
<1>5. G
  BY <1>1, <1>2, <1>3, <1>4, Changes
<1> QED
  BY <1>5 DEF G

LEMMA RouteAt ==
  ASSUME Types, NEW p, RouteGoes(p)
  PROVE  route'.at = p /\ route'.msg = route.msg /\ Served' = Served
BY DEF Types, LoopTypes, RouteGoes, Served

LEMMA RouteMsg ==
  ASSUME Types, [Next]_vars
  PROVE  RoutePop \/ (route'.msg = route.msg /\ Served' = Served)
<1> DEFINE G == route'.msg = route.msg /\ Served' = Served
<1>1. ASSUME UNCHANGED route PROVE G
  BY <1>1 DEF Served
<1>2. ASSUME NEW p, RouteGoes(p) PROVE G
  BY <1>2, RouteAt
<1>3. ASSUME RouteFind \/ RouteGet \/ RouteAdd \/ RouteIsTaken \/ RouteSetRunning \/ RouteRelease
             \/ RouteWakes \/ RouteClears \/ RouteCreate \/ RouteStart \/ RouteDecCheck
             \/ RouteDecWrite \/ RouteOversleeps
      PROVE  \E p : RouteGoes(p)
  BY <1>3 DEF RouteOversleeps, RouteFind, RouteGet, RouteAdd, RouteIsTaken, RouteSetRunning, RouteRelease,
     RouteWakes, RouteClears, RouteCreate, RouteStart, RouteDecCheck, RouteDecWrite
<1> HIDE DEF G
<1>4. RoutePop \/ G
  BY <1>1, <1>2, <1>3, Changes
<1> QED
  BY <1>4 DEF G

LEMMA PcAt ==
  ASSUME Types, NEW r \in Runner, NEW p, Goes(r, p)
  PROVE  pc' = [pc EXCEPT ![r] = p] /\ \A q \in Runner : pc'[q] = IF q = r THEN p ELSE pc[q]
BY DEF Types, SearchTypes, Goes

\* What a step does to the place of a search.
LEMMA PcSteps ==
  ASSUME Types, [Next]_vars
  PROVE  \/ UNCHANGED pc
         \/ RouteCreate /\ Goes(Served, "new")
         \/ RouteStart /\ Goes(Served, "loop")
         \/ RouteWakes /\ pc[Served] = "receiving" /\ Goes(Served, "loop")
         \/ \E r \in Runner, p \in Places \ {"none", "new"} :
              /\ pc[r] \notin {"none", "new"} /\ Goes(r, p)
              /\ Awake(r) => p \notin {"receiving"}
<1> DEFINE G == \/ UNCHANGED pc
                \/ RouteCreate /\ Goes(Served, "new")
                \/ RouteStart /\ Goes(Served, "loop")
                \/ RouteWakes /\ pc[Served] = "receiving" /\ Goes(Served, "loop")
                \/ \E r \in Runner, p \in Places \ {"none", "new"} :
                     /\ pc[r] \notin {"none", "new"} /\ Goes(r, p)
                     /\ Awake(r) => p \notin {"receiving"}
<1>1. ASSUME UNCHANGED pc PROVE G
  BY <1>1
<1>2. ASSUME RouteCreate PROVE G
  BY <1>2 DEF RouteCreate, Goes
<1>3. ASSUME RouteStart PROVE G
  BY <1>3 DEF RouteStart, Goes
<1>4. ASSUME RouteWakes PROVE G
  BY <1>4 DEF RouteWakes, Goes
<1>5. {"loop", "dequeue", "idle", "idleWrite", "take", "receiving", "done", "stopRun", "stopReq",
       "bound", "tell", "settle", "relax"} \subseteq Places \ {"none", "new"}
  BY DEF Places, Working
<1>6. ASSUME NEW r \in Runner, Dequeue(r) PROVE G
  <2>1. pc[r] = "dequeue" /\ \E p \in {"loop", "stopRun", "settle"} : Goes(r, p)
    BY <1>6 DEF Dequeue
  <2> QED
    BY <1>5, <2>1
<1>7. ASSUME NEW r \in Runner, NEW t \in Tile, SpreadBound(r, t) PROVE G
  <2>1. pc[r] = "bound" /\ \E p \in {"bound", "tell"} : Goes(r, p)
    BY <1>7 DEF SpreadBound
  <2> QED
    BY <1>5, <2>1
<1>8. ASSUME NEW r \in Runner, Loop(r) \/ DequeueNothing(r) \/ StopReadRun(r) \/ StopReadReq(r)
             \/ TellBound(r) \/ BoundSpread(r) \/ Settle(r) \/ Relaxed(r)
      PROVE  G
  <2>1. /\ pc[r] \in {"loop", "dequeue", "stopRun", "stopReq", "tell", "bound", "settle", "relax"}
        /\ \E p \in {"done", "dequeue", "idle", "stopReq", "bound", "settle", "relax", "loop"} : Goes(r, p)
    BY <1>8 DEF Loop, DequeueNothing, StopReadRun, StopReadReq, TellBound, BoundSpread, Settle,
       Relaxed, Goes
  <2> QED
    BY <1>5, <2>1
<1>9. ASSUME NEW r \in Runner, IdleCheck(r) \/ IdleWrite(r) \/ Take(r) \/ StopperWakes(r)
      PROVE  G
  <2>1. /\ pc[r] \in {"idle", "idleWrite", "take", "receiving"}
        /\ \E p \in {"idleWrite", "take", "loop", "receiving"} :
             Goes(r, p) /\ (p = "receiving" => pc[r] = "take")
    BY <1>9 DEF IdleCheck, IdleWrite, Take, StopperWakes, Goes
  <2> QED
    BY <1>5, <2>1 DEF Awake
<1> HIDE DEF G
<1>10. G
  BY <1>1, <1>2, <1>3, <1>4, <1>6, <1>7, <1>8, <1>9, Changes
<1> QED
  BY <1>10 DEF G

LEMMA MadeStays ==
  ASSUME Types, [Next]_vars, NEW r \in Runner
  PROVE  /\ pc[r] # "none" => pc'[r] # "none"
         /\ pc[r] = "none" /\ pc'[r] # "none" => (RouteCreate \/ RouteStart) /\ r = Served
         /\ pc[r] = "new" => pc'[r] = "new" \/ ((RouteCreate \/ RouteStart) /\ r = Served)
<1>1. CASE UNCHANGED pc
  BY <1>1
<1>2. CASE RouteCreate /\ Goes(Served, "new")
  <2>1. Served \in Runner
    BY <1>2, ServedFacts DEF RouteCreate
  <2> QED
    BY <1>2, <2>1, PcAt
<1>3. CASE RouteStart /\ Goes(Served, "loop")
  <2>1. Served \in Runner
    BY <1>3, ServedFacts DEF RouteStart
  <2> QED
    BY <1>3, <2>1, PcAt
<1>4. CASE RouteWakes /\ pc[Served] = "receiving" /\ Goes(Served, "loop")
  <2>1. Served \in Runner
    BY <1>4, ServedFacts DEF RouteWakes
  <2> QED
    BY <1>4, <2>1, PcAt
<1>5. ASSUME NEW q \in Runner, NEW p \in Places \ {"none", "new"}, pc[q] \notin {"none", "new"}, Goes(q, p)
      PROVE  /\ pc[r] # "none" => pc'[r] # "none"
             /\ pc[r] = "none" => pc'[r] = "none"
             /\ pc[r] = "new" => pc'[r] = "new"
  BY <1>5, PcAt
<1> QED
  BY <1>1, <1>2, <1>3, <1>4, <1>5, PcSteps


-----------------------------------------------------------------------------
(* What has not begun.                                                     *)

\* Only a client that asks and the runners of its query send requests.
LEMMA RequestsAskedStep ==
  ASSUME Types, Begun, [Next]_vars
  PROVE  RequestsAsked'
<1>a. /\ routingChan \in Seq(GoodRequests)
      /\ \A i \in 1..Len(routingChan) : routingChan[i].key \in Key /\ Asked(routingChan[i].key)
  <2>1. routingChan \in Seq(GoodRequests)
    BY DEF Types, ManagerTypes
  <2>2. ASSUME NEW i \in 1..Len(routingChan) PROVE routingChan[i].key \in Key
    <3>1. routingChan[i] \in GoodRequests
      BY <2>1
    <3> QED
      BY <3>1, LabelFacts
  <2> QED
    BY <2>1, <2>2 DEF Begun, RequestsAsked
<1>b. \A k \in Key : Asked(k) => Asked(k)'
  BY ClientSteps DEF Asked
<1>1. ASSUME UNCHANGED <<routingChan>> PROVE RequestsAsked'
  BY <1>1, <1>a, <1>b DEF RequestsAsked
<1>2. ASSUME NEW k \in Key, NEW s \in Node, NEW e \in Node, RunRouting(k, s, e) PROVE RequestsAsked'
  <2>1. /\ routingChan' = Append(routingChan, Request(k, Label(s, 0, NoEdge)))
        /\ client' = [client EXCEPT ![k] = "waiting"]
    BY <1>2 DEF RunRouting
  <2>2. Asked(k)' /\ Request(k, Label(s, 0, NoEdge)).key = k
    BY <2>1 DEF Asked, Request, Types, ClientTypes
  <2> QED
    BY <1>a, <1>b, <2>1, <2>2 DEF RequestsAsked
<1>3. ASSUME RoutePop PROVE RequestsAsked'
  <2>1. routingChan' = Tail(routingChan) /\ routingChan # <<>>
    BY <1>3 DEF RoutePop
  <2> QED
    BY <1>a, <1>b, <2>1 DEF RequestsAsked
<1>4. ASSUME NEW r \in Runner, Relax(r) PROVE RequestsAsked'
  <2>1. UNCHANGED routingChan \/ \E l : routingChan' = Append(routingChan, Request(KeyOf(r), l))
    BY <1>4, RelaxSteps
  <2>2. KeyOf(r) \in Key /\ Asked(KeyOf(r))
    BY <1>4, RunnerFacts DEF Relax, Begun, MadeAsked
  <2>3. ASSUME NEW l, routingChan' = Append(routingChan, Request(KeyOf(r), l)) PROVE RequestsAsked'
    BY <1>a, <1>b, <2>2, <2>3 DEF RequestsAsked, Request
  <2> QED
    BY <1>1, <2>1, <2>3
<1> QED
  BY <1>1, <1>2, <1>3, <1>4, Changes

LEMMA ServedAskedStep ==
  ASSUME Types, Begun, [Next]_vars
  PROVE  ServedAsked'
<1>1. \A k \in Key : Asked(k) => Asked(k)'
  BY ClientSteps DEF Asked
<1>2. CASE RoutePop
  <2>1. route'.msg = Head(routingChan) /\ routingChan # <<>>
    BY <1>2 DEF RoutePop
  <2>2. routingChan[1] = Head(routingChan) /\ 1 \in 1..Len(routingChan)
    BY <2>1 DEF Types, ManagerTypes
  <2> QED
    BY <1>1, <2>1, <2>2 DEF Begun, RequestsAsked, ServedAsked
<1>3. CASE route'.msg = route.msg
  BY <1>1, <1>3 DEF Begun, ServedAsked
<1> QED
  BY <1>2, <1>3, RouteMsg

\* Stops are sent for the query of a request or of a runner.
LEMMA StopsAskedStep ==
  ASSUME Types, Begun, [Next]_vars
  PROVE  StopsAsked'
<1>a. /\ stopChan \in Seq(Key \cup {NoKey})
      /\ \A i \in 1..Len(stopChan) :
           stopChan[i] # NoKey => stopChan[i] \in Key /\ Asked(stopChan[i])
      /\ stop.at # "receive" /\ stop.key # NoKey => stop.key \in Key /\ Asked(stop.key)
      /\ stop \in [at : {"receive", "notify", "spread", "get", "tell"}, key : Key \cup {NoKey},
                   todo : SUBSET Tile, tile : Tile \cup {NoTile}]
  BY DEF Types, ManagerTypes, LoopTypes, Begun, StopsAsked
<1>b. \A k \in Key : Asked(k) => Asked(k)'
  BY ClientSteps DEF Asked
<1>c. ASSUME NEW k \in Key, Asked(k), SendStop(k) \/ UNCHANGED stopChan, UNCHANGED stop PROVE StopsAsked'
  <2>1. CASE stopChan' = Append(stopChan, k)
    BY <1>a, <1>b, <1>c, <2>1 DEF StopsAsked
  <2>2. CASE UNCHANGED stopChan
    BY <1>a, <1>b, <1>c, <2>2 DEF StopsAsked
  <2> QED
    BY <1>c, <2>1, <2>2 DEF SendStop
<1>1. ASSUME UNCHANGED <<stopChan, stop>> PROVE StopsAsked'
  BY <1>1, <1>a, <1>b DEF StopsAsked
<1>2. ASSUME RouteDecCheck PROVE StopsAsked'
  <2>1. route.msg.key \in Key /\ Asked(route.msg.key)
    BY <1>2, ServedFacts DEF RouteDecCheck, Begun, ServedAsked
  <2> QED
    BY <1>2, <1>c, <2>1 DEF RouteDecCheck, managerLoops
<1>3. ASSUME NEW r \in Runner, StopReadReq(r) PROVE StopsAsked'
  <2>1. KeyOf(r) \in Key /\ Asked(KeyOf(r))
    BY <1>3, RunnerFacts DEF StopReadReq, Begun, MadeAsked
  <2> QED
    BY <1>3, <1>c, <2>1 DEF StopReadReq, otherVars, loopVars
<1>4. ASSUME NEW r \in Runner, IdleCheck(r) PROVE StopsAsked'
  <2>1. KeyOf(r) \in Key /\ Asked(KeyOf(r))
    BY <1>4, RunnerFacts DEF IdleCheck, Begun, MadeAsked
  <2> QED
    BY <1>4, <1>c, <2>1 DEF IdleCheck, otherVars, loopVars
<1>5. ASSUME StopReceive PROVE StopsAsked'
  <2>1. Head(stopChan) = stopChan[1] /\ 1 \in 1..Len(stopChan)
    BY <1>5, <1>a DEF StopReceive
  <2>2. stopChan' = Tail(stopChan) /\ (stop'.at # "receive" => stop'.key = Head(stopChan))
    BY <1>5, <1>a DEF StopReceive
  <2> QED
    BY <1>a, <1>b, <2>1, <2>2 DEF StopsAsked
<1>6. ASSUME StopNotify PROVE StopsAsked'
  <2>1. UNCHANGED stopChan /\ stop'.key = stop.key /\ (stop'.at # "receive" => stop.at # "receive")
    BY <1>6, <1>a DEF StopNotify, sharedVars
  <2> QED
    BY <1>a, <1>b, <2>1 DEF StopsAsked
<1>7. ASSUME NEW t \in Tile, StopSpread(t) PROVE StopsAsked'
  <2>1. UNCHANGED stopChan /\ stop'.key = stop.key /\ (stop'.at # "receive" => stop.at # "receive")
    BY <1>7, <1>a DEF StopSpread, sharedVars
  <2> QED
    BY <1>a, <1>b, <2>1 DEF StopsAsked
<1>8. ASSUME StopGet PROVE StopsAsked'
  <2>1. UNCHANGED stopChan /\ stop'.key = stop.key /\ (stop'.at # "receive" => stop.at # "receive")
    BY <1>8, <1>a DEF StopGet, sharedVars
  <2> QED
    BY <1>a, <1>b, <2>1 DEF StopsAsked
<1>9. ASSUME StopTell PROVE StopsAsked'
  <2>1. UNCHANGED stopChan /\ stop'.key = stop.key /\ (stop'.at # "receive" => stop.at # "receive")
    BY <1>9, <1>a DEF StopTell, sharedVars
  <2> QED
    BY <1>a, <1>b, <2>1 DEF StopsAsked
<1>10. ASSUME StopDone PROVE StopsAsked'
  <2>1. UNCHANGED stopChan /\ stop'.key = stop.key /\ (stop'.at # "receive" => stop.at # "receive")
    BY <1>10, <1>a DEF StopDone, sharedVars
  <2> QED
    BY <1>a, <1>b, <2>1 DEF StopsAsked
<1>11. ASSUME RouteZero PROVE StopsAsked'
  <2>1. stopChan' = Append(stopChan, NoKey) /\ UNCHANGED stop
    BY <1>11 DEF RouteZero, SendStop, loopVars
  <2> QED
    BY <1>a, <1>b, <2>1 DEF StopsAsked
<1> QED
  BY <1>1, <1>2, <1>3, <1>4, <1>5, <1>6, <1>7, <1>8, <1>9, <1>10, <1>11, Changes

LEMMA MadeAskedStep ==
  ASSUME Types, Begun, [Next]_vars
  PROVE  MadeAsked'
<1> SUFFICES ASSUME NEW r \in Runner, pc'[r] # "none" PROVE Asked(KeyOf(r))'
  BY DEF MadeAsked
<1>1. \A k \in Key : Asked(k) => Asked(k)'
  BY ClientSteps DEF Asked
<1>2. KeyOf(r) \in Key
  BY RunnerFacts
<1>3. CASE pc[r] # "none"
  BY <1>1, <1>2, <1>3 DEF Begun, MadeAsked
<1>4. CASE pc[r] = "none"
  <2>1. (RouteCreate \/ RouteStart) /\ r = Served
    BY <1>4, MadeStays
  <2>2. KeyOf(r) = route.msg.key
    BY <2>1, ServedFacts DEF RouteCreate, RouteStart
  <2> QED
    BY <1>1, <1>2, <2>2 DEF Begun, ServedAsked
<1> QED
  BY <1>3, <1>4

\* The routing loop only works with runners that are made.
LEMMA RunnersMadeStep ==
  ASSUME Types, Begun, [Next]_vars
  PROVE  RunnersMade'
<1>a. /\ runners \subseteq Runner /\ \A r \in runners : pc[r] # "none"
      /\ route.at \in Adding \cup {"start"} => Served \in Runner /\ pc[Served] # "none"
  <2>1. route.at \in Adding \cup {"start"} => route.at \notin {"pop", "empty", "asleep"}
    BY DEF Adding, Waking
  <2> QED
    BY <2>1, ServedFacts DEF Types, ManagerTypes, Begun, RunnersMade
<1>b. \A r \in Runner : pc[r] # "none" => pc'[r] # "none"
  BY MadeStays
<1>c. ASSUME NEW p, RouteGoes(p), UNCHANGED runners,
             route.at \in Adding \cup {"start"} \/ p \in {"dec", "decWrite", "create", "pop", "empty", "asleep"}
      PROVE  RunnersMade'
  <2>1. route'.at = p /\ Served' = Served
    BY <1>c, RouteAt
  <2>2. p \in {"dec", "decWrite", "create", "pop", "empty", "asleep"} => p \notin Adding \cup {"start"}
    BY DEF Adding, Waking
  <2> QED
    BY <1>a, <1>b, <1>c, <2>1, <2>2 DEF RunnersMade
<1>d. {"get", "add", "isTaken", "clearing", "setRunning", "release", "sending", "start"} =
      Adding \cup {"start"}
  BY DEF Adding, Waking
<1>1. ASSUME UNCHANGED <<route, runners>> PROVE RunnersMade'
  BY <1>1, <1>a, <1>b DEF RunnersMade, Served
<1>2. ASSUME RoutePop PROVE RunnersMade'
  <2>1. route'.at = "find" /\ UNCHANGED runners
    BY <1>2 DEF RoutePop
  <2> QED
    BY <1>a, <1>b, <1>d, <2>1 DEF RunnersMade
<1>3. ASSUME RouteFind PROVE RunnersMade'
  <2>1. UNCHANGED runners /\
        ((Served \in runners /\ RouteGoes("get")) \/ \E p \in {"dec", "create"} : RouteGoes(p))
    BY <1>3 DEF RouteFind, managerVars
  <2>2. CASE Served \in runners /\ RouteGoes("get")
    <3>1. route'.at = "get" /\ Served' = Served
      BY <2>2, RouteAt
    <3> QED
      BY <1>a, <1>b, <2>1, <2>2, <3>1 DEF RunnersMade
  <2> QED
    BY <1>c, <2>1, <2>2
<1>4. ASSUME RouteGet PROVE RunnersMade'
  <2>1. UNCHANGED runners /\ route.at \in Adding \cup {"start"} /\ \E p : RouteGoes(p)
    BY <1>4, <1>d DEF RouteGet, managerVars
  <2> QED
    BY <1>c, <2>1
<1>5. ASSUME RouteAdd PROVE RunnersMade'
  <2>1. UNCHANGED runners /\ route.at \in Adding \cup {"start"} /\ \E p : RouteGoes(p)
    BY <1>5, <1>d DEF RouteAdd, managerVars
  <2> QED
    BY <1>c, <2>1
<1>6. ASSUME RouteIsTaken PROVE RunnersMade'
  <2>1. UNCHANGED runners /\ route.at \in Adding \cup {"start"} /\ \E p : RouteGoes(p)
    BY <1>6, <1>d DEF RouteIsTaken, managerVars
  <2> QED
    BY <1>c, <2>1
<1>7. ASSUME RouteSetRunning PROVE RunnersMade'
  <2>1. UNCHANGED runners /\ route.at \in Adding \cup {"start"} /\ \E p : RouteGoes(p)
    BY <1>7, <1>d DEF RouteSetRunning, managerVars
  <2> QED
    BY <1>c, <2>1
<1>8. ASSUME RouteRelease PROVE RunnersMade'
  <2>1. UNCHANGED runners /\ route.at \in Adding \cup {"start"} /\ \E p : RouteGoes(p)
    BY <1>8, <1>d DEF RouteRelease, managerVars
  <2> QED
    BY <1>c, <2>1
<1>9. ASSUME RouteWakes PROVE RunnersMade'
  <2>1. UNCHANGED runners /\ route.at \in Adding \cup {"start"} /\ \E p : RouteGoes(p)
    BY <1>9, <1>d DEF RouteWakes, managerVars
  <2> QED
    BY <1>c, <2>1
<1>10. ASSUME RouteClears PROVE RunnersMade'
  <2>1. UNCHANGED runners /\ route.at \in Adding \cup {"start"} /\ \E p : RouteGoes(p)
    BY <1>10, <1>d DEF RouteClears, managerVars
  <2> QED
    BY <1>c, <2>1
<1>11. ASSUME RouteCreate PROVE RunnersMade'
  <2>1. Served \in Runner
    BY <1>11, ServedFacts DEF RouteCreate
  <2>2. runners' = runners \cup {Served} /\ RouteGoes("start") /\ Goes(Served, "new")
    BY <1>11 DEF RouteCreate, Goes
  <2>3. Served' = Served /\ pc'[Served] = "new"
    BY <2>1, <2>2, RouteAt, PcAt
  <2> QED
    BY <1>a, <1>b, <2>1, <2>2, <2>3 DEF RunnersMade
<1>12. ASSUME RouteStart PROVE RunnersMade'
  <2>1. UNCHANGED runners /\ route.at \in Adding \cup {"start"} /\ \E p : RouteGoes(p)
    BY <1>12, <1>d DEF RouteStart, managerVars
  <2> QED
    BY <1>c, <2>1
<1>13. ASSUME RouteDecCheck PROVE RunnersMade'
  <2>1. UNCHANGED runners /\ \E p \in {"decWrite", "pop", "empty"} : RouteGoes(p)
    BY <1>13 DEF RouteDecCheck, managerVars
  <2> QED
    BY <1>c, <2>1
<1>14. ASSUME RouteDecWrite PROVE RunnersMade'
  <2>1. UNCHANGED runners /\ \E p \in {"decWrite", "pop", "empty"} : RouteGoes(p)
    BY <1>14 DEF RouteDecWrite, managerVars
  <2> QED
    BY <1>c, <2>1
<1>15. ASSUME NEW t \in Tile, ExitRunner(t) PROVE RunnersMade'
  <2>1. runners' \subseteq runners /\ UNCHANGED route
    BY <1>15 DEF ExitRunner
  <2> QED
    BY <1>a, <1>b, <2>1 DEF RunnersMade, Served
<1>16. ASSUME RouteOversleeps PROVE RunnersMade'
  <2>1. UNCHANGED runners /\ RouteGoes("asleep")
    BY <1>16 DEF RouteOversleeps, managerVars
  <2> QED
    BY <1>c, <2>1
<1> QED
  BY <1>1, <1>2, <1>3, <1>4, <1>5, <1>6, <1>7, <1>8, <1>9, <1>10, <1>11, <1>12, <1>13, <1>14, <1>15,
     <1>16, Changes

\* Nothing is done with a runner that is not made.
LEMMA EmptyAtFirstStep ==
  ASSUME Types, Begun, [Next]_vars
  PROVE  EmptyAtFirst'
<1>a. /\ \A r \in Runner : pc'[r] = "none" => pc[r] = "none"
      /\ EmptyAtFirst
  BY MadeStays DEF Begun
<1>b. \A r \in Runner : pc[r] = "none" => stopper[r] = "none" /\ walker[r].at = "none" /\ r \notin runners
  BY DEF Begun, RunnersMade, EmptyAtFirst
<1>c. /\ cur \in [Runner -> GoodLabels \cup {Unreached(NoNode)}] /\ heap \in [Runner -> SUBSET GoodLabels]
      /\ finished \in [Runner -> BOOLEAN] /\ isEnd \in [Runner -> BOOLEAN]
      /\ stopper \in [Runner -> {"none", "wait", "stop", "release", "sending", "clearing", "report", "done"}]
  BY DEF Types, SearchTypes, HelperTypes
<1>1. ASSUME UNCHANGED <<cur, heap, flag, finished, isEnd, stopper, walker>> PROVE EmptyAtFirst'
  BY <1>1, <1>a DEF EmptyAtFirst
<1>2. ASSUME RouteAdd PROVE EmptyAtFirst'
  <2>1. Served \in Runner /\ pc[Served] # "none"
    BY <1>2, ServedFacts DEF RouteAdd, Begun, RunnersMade, Adding
  <2>2. /\ UNCHANGED <<cur, flag, finished, isEnd, stopper, walker>>
        /\ \/ UNCHANGED heap
           \/ heap' = [heap EXCEPT ![Served] = @ \cup {route.msg.label}]
    BY <1>2 DEF RouteAdd, helperVars
  <2> QED
    BY <1>a, <1>c, <2>1, <2>2 DEF EmptyAtFirst
<1>3. ASSUME RouteCreate PROVE EmptyAtFirst'
  <2>1. /\ Served \in Runner /\ Goes(Served, "new")
        /\ WalkerGoes(Served, [at |-> "wait", node |-> walker[Served].node])
    BY <1>3, ServedFacts, WalkerElsewhere DEF RouteCreate, Goes
  <2>2. /\ UNCHANGED <<cur, flag, finished, isEnd>> /\ stopper' = [stopper EXCEPT ![Served] = "wait"]
        /\ heap' = [heap EXCEPT ![Served] = IF route.msg.label.len <= maxLengths[Served]
                                             THEN {route.msg.label} ELSE {}]
    BY <1>3 DEF RouteCreate
  <2>3. pc'[Served] = "new"
    BY <2>1, PcAt
  <2> QED
    BY <1>a, <1>c, <2>1, <2>2, <2>3 DEF EmptyAtFirst, WalkerGoes
<1>4. ASSUME NEW r \in Runner, Dequeue(r) PROVE EmptyAtFirst'
  <2>1. pc[r] # "none" /\ UNCHANGED <<flag, finished, stopper, walker>>
    BY <1>4 DEF Dequeue, helperVars
  <2>2. PICK l \in heap[r] :
          /\ heap' = [heap EXCEPT ![r] = heap[r] \ {l}]
          /\ cur' = [cur EXCEPT ![r] = l] \/ UNCHANGED cur
          /\ isEnd' = [isEnd EXCEPT ![r] = TRUE] \/ UNCHANGED isEnd
    BY <1>4 DEF Dequeue
  <2>3. \A q \in Runner : q # r => cur'[q] = cur[q] /\ heap'[q] = heap[q] /\ isEnd'[q] = isEnd[q]
    BY <1>c, <2>2
  <2> QED
    BY <1>a, <2>1, <2>3 DEF EmptyAtFirst
<1>5. ASSUME NEW r \in Runner, Settle(r) PROVE EmptyAtFirst'
  <2>1. pc[r] = "settle" /\ UNCHANGED <<cur, heap, isEnd, finished, stopper, walker>> /\
        flag' = Put(flag, r, cur[r])
    BY <1>5 DEF Settle, helperVars, Put
  <2>2. cur[r] \in GoodLabels
    BY <2>1, PlaceFacts DEF Types, SearchTypes
  <2>3. \A q \in Runner, n \in Node : q # r => flag'[q][n] = flag[q][n]
    BY <2>1, <2>2, FlagSet
  <2> QED
    BY <1>a, <2>1, <2>3 DEF EmptyAtFirst
<1>6. ASSUME NEW r \in Runner, Relax(r) PROVE EmptyAtFirst'
  <2>1. pc[r] = "relax" /\ UNCHANGED <<cur, isEnd, finished, stopper, walker>>
    BY <1>6 DEF Relax, helperVars
  <2>2. PICK l : \/ UNCHANGED <<flag, heap>>
                \/ /\ l \in GoodLabels /\ flag' = Put(flag, r, l)
                   /\ UNCHANGED heap \/ heap' = [heap EXCEPT ![r] = @ \cup {l}]
    BY <1>6, RelaxSteps
  <2>3. \A q \in Runner, n \in Node : q # r => flag'[q][n] = flag[q][n]
    BY <2>2, FlagSet
  <2>4. \A q \in Runner : q # r => heap'[q] = heap[q]
    BY <1>c, <2>2
  <2> QED
    BY <1>a, <2>1, <2>3, <2>4 DEF EmptyAtFirst
<1>7. ASSUME NEW r \in Runner, SetFinished(r) PROVE EmptyAtFirst'
  <2>1. /\ stopper[r] = "stop" /\ stopper' = [stopper EXCEPT ![r] = "release"]
        /\ finished' = [finished EXCEPT ![r] = TRUE]
        /\ UNCHANGED <<cur, heap, flag, isEnd, walker>>
    BY <1>7 DEF SetFinished, searchVars
  <2> QED
    BY <1>a, <1>b, <1>c, <2>1 DEF EmptyAtFirst
<1>8. ASSUME NEW r \in Runner, StopperRelease(r) PROVE EmptyAtFirst'
  <2>1. /\ stopper[r] # "none" /\ \E p : stopper' = [stopper EXCEPT ![r] = p]
        /\ UNCHANGED <<cur, heap, flag, finished, isEnd, walker>>
    BY <1>8 DEF StopperRelease, searchVars
  <2> QED
    BY <1>a, <1>b, <1>c, <2>1 DEF EmptyAtFirst
<1>9. ASSUME NEW r \in Runner, StopperWakes(r) PROVE EmptyAtFirst'
  <2>1. /\ stopper[r] # "none" /\ \E p : stopper' = [stopper EXCEPT ![r] = p]
        /\ UNCHANGED <<cur, heap, flag, finished, isEnd, walker>>
    BY <1>9 DEF StopperWakes, searchVars
  <2> QED
    BY <1>a, <1>b, <1>c, <2>1 DEF EmptyAtFirst
<1>10. ASSUME NEW r \in Runner, StopperClears(r) PROVE EmptyAtFirst'
  <2>1. /\ stopper[r] # "none" /\ \E p : stopper' = [stopper EXCEPT ![r] = p]
        /\ UNCHANGED <<cur, heap, flag, finished, isEnd, walker>>
    BY <1>10 DEF StopperClears, searchVars
  <2> QED
    BY <1>a, <1>b, <1>c, <2>1 DEF EmptyAtFirst
<1>11. ASSUME NEW r \in Runner, StopperReports(r) PROVE EmptyAtFirst'
  <2>1. /\ stopper[r] # "none" /\ \E p : stopper' = [stopper EXCEPT ![r] = p]
        /\ UNCHANGED <<cur, heap, flag, finished, isEnd>>
    BY <1>11 DEF StopperReports, searchVars
  <2>2. end[KeyOf(r)] \in Node
    BY <1>b, <2>1, RunnerFacts DEF Begun, MadeAsked, Asked, Types, ClientTypes
  <2>3. UNCHANGED walker \/ WalkerGoes(r, [at |-> "walk", node |-> end[KeyOf(r)]])
    BY <1>11, <2>2, WalkerSteps
  <2>4. \A q \in Runner : q # r => walker'[q] = walker[q]
    BY <2>3 DEF WalkerGoes
  <2> QED
    BY <1>a, <1>b, <1>c, <2>1, <2>4 DEF EmptyAtFirst
<1>12. ASSUME NEW r \in Runner, WalkEnds(r) PROVE EmptyAtFirst'
  <2>1. walker[r].at = "walk" /\ UNCHANGED <<cur, heap, flag, finished, isEnd, stopper>>
    BY <1>12 DEF WalkEnds, searchVars
  <2>2. \E a : WalkerGoes(r, a)
    BY <1>12, WalkerSteps
  <2>3. \A q \in Runner : q # r => walker'[q] = walker[q]
    BY <2>2 DEF WalkerGoes
  <2> QED
    BY <1>a, <1>b, <2>1, <2>3 DEF EmptyAtFirst
<1>14. ASSUME NEW r \in Runner, WalkEdge(r) PROVE EmptyAtFirst'
  <2>1. walker[r].at = "walk" /\ UNCHANGED <<cur, heap, flag, finished, isEnd, stopper>>
    BY <1>14 DEF WalkEdge, searchVars
  <2>2. UNCHANGED walker \/ \E a : WalkerGoes(r, a)
    BY <1>14, WalkerSteps
  <2>3. \A q \in Runner : q # r => walker'[q] = walker[q]
    BY <2>2 DEF WalkerGoes
  <2> QED
    BY <1>a, <1>b, <2>1, <2>3 DEF EmptyAtFirst
<1>15. ASSUME StopTell PROVE EmptyAtFirst'
  <2>1. PICK q \in Runner : stopper[q] = "wait" /\ stopper' = [stopper EXCEPT ![q] = "stop"]
    BY <1>15, RunnerFacts DEF StopTell, Types, LoopTypes
  <2>2. UNCHANGED <<cur, heap, flag, finished, isEnd, walker>>
    BY <1>15 DEF StopTell, searchVars
  <2> QED
    BY <1>a, <1>b, <1>c, <2>1, <2>2 DEF EmptyAtFirst
<1>16. ASSUME RetrievalLoop PROVE EmptyAtFirst'
  <2>1. UNCHANGED walker \/ \E q \in runners : \E a : WalkerGoes(q, a)
    BY <1>16, WalkerElsewhere
  <2>3. UNCHANGED <<cur, heap, flag, finished, isEnd, stopper>>
    BY <1>16 DEF RetrievalLoop, searchVars
  <2>4. \A q \in Runner : q \notin runners => walker'[q] = walker[q]
    BY <2>1 DEF WalkerGoes
  <2> QED
    BY <1>a, <1>b, <2>3, <2>4 DEF EmptyAtFirst
<1>17. ASSUME NEW t \in Tile, ExitRunner(t) PROVE EmptyAtFirst'
  <2>1. UNCHANGED <<cur, heap, flag, isEnd, stopper>>
    BY <1>17 DEF ExitRunner, searchVars
  <2>2. CASE UNCHANGED <<walker, finished>>
    BY <1>a, <2>1, <2>2 DEF EmptyAtFirst
  <2>3. ASSUME NEW q \in runners, \E a : WalkerGoes(q, a), finished' = [finished EXCEPT ![q] = TRUE]
        PROVE  EmptyAtFirst'
    <3>1. \A p \in Runner : p # q => walker'[p] = walker[p] /\ finished'[p] = finished[p]
      BY <1>c, <2>3 DEF WalkerGoes
    <3> QED
      BY <1>a, <1>b, <2>1, <3>1 DEF EmptyAtFirst
  <2> QED
    BY <1>17, <2>2, <2>3, WalkerElsewhere
<1> QED
  BY <1>1, <1>2, <1>3, <1>4, <1>5, <1>6, <1>7, <1>8, <1>9, <1>10, <1>11, <1>12, <1>14, <1>15,
     <1>16, <1>17, Changes

LEMMA BegunInit == Init => Begun
<1> SUFFICES ASSUME Init PROVE Begun
  OBVIOUS
<1>1. RequestsAsked /\ StopsAsked
  BY DEF Init, RequestsAsked, StopsAsked
<1>2. ServedAsked
  BY NetAssumption DEF Init, ServedAsked, Request
<1>3. MadeAsked /\ RunnersMade
  BY DEF Init, MadeAsked, RunnersMade, Adding, Waking
<1>4. EmptyAtFirst
  BY DEF Init, EmptyAtFirst
<1> QED
  BY <1>1, <1>2, <1>3, <1>4 DEF Begun

LEMMA BegunStep ==
  ASSUME Types, Begun, [Next]_vars
  PROVE  Begun'
BY RequestsAskedStep, ServedAskedStep, StopsAskedStep, MadeAskedStep, RunnersMadeStep, EmptyAtFirstStep
   DEF Begun

-----------------------------------------------------------------------------
(* The requests under way.                                                 *)

LEMMA QueuedNat ==
  ASSUME Types, NEW k
  PROVE  Queued(k) \in Nat /\ IsFiniteSet({i \in 1..Len(routingChan) : routingChan[i].key = k})
<1>1. IsFiniteSet(1..Len(routingChan))
  BY FS_Interval DEF Types, ManagerTypes
<1>2. IsFiniteSet({i \in 1..Len(routingChan) : routingChan[i].key = k})
  BY <1>1, FS_Subset
<1> QED
  BY <1>2, FS_CardinalityType DEF Queued

\* A request that is sent is one more in the queue.
LEMMA QueuedAppend ==
  ASSUME Types, NEW k, NEW m, routingChan' = Append(routingChan, m)
  PROVE  Queued(k)' = Queued(k) + IF m.key = k THEN 1 ELSE 0
<1> DEFINE n == Len(routingChan)
           S == {i \in 1..n : routingChan[i].key = k}
<1>1. routingChan \in Seq(GoodRequests) /\ n \in Nat
  BY DEF Types, ManagerTypes
<1>2. /\ Len(routingChan') = n + 1 /\ routingChan'[n + 1] = m
      /\ \A i \in 1..n : routingChan'[i] = routingChan[i]
  BY <1>1
<1>3. IsFiniteSet(S) /\ Queued(k) = Cardinality(S) /\ Queued(k) \in Nat
  BY QueuedNat DEF Queued
<1>4. {i \in 1..Len(routingChan') : routingChan'[i].key = k} = IF m.key = k THEN S \cup {n + 1} ELSE S
  BY <1>1, <1>2
<1>5. n + 1 \notin S
  BY <1>1
<1>6. Queued(k)' = Cardinality(IF m.key = k THEN S \cup {n + 1} ELSE S)
  BY <1>4 DEF Queued
<1> HIDE DEF S
<1>7. Cardinality(S \cup {n + 1}) = Cardinality(S) + 1
  BY <1>3, <1>5, FS_AddElement
<1> QED
  BY <1>3, <1>6, <1>7

\* The request that the routing loop takes is one less.
LEMMA QueuedTail ==
  ASSUME Types, NEW k, routingChan # <<>>, routingChan' = Tail(routingChan)
  PROVE  Queued(k) = Queued(k)' + IF Head(routingChan).key = k THEN 1 ELSE 0
<1> DEFINE n == Len(routingChan)
           S == {i \in 1..n : routingChan[i].key = k}
           T == {i \in 1..(n - 1) : routingChan[i + 1].key = k}
           f == [i \in T |-> i + 1]
<1>1. routingChan \in Seq(GoodRequests) /\ n \in Nat /\ n >= 1 /\ Head(routingChan) = routingChan[1]
  BY DEF Types, ManagerTypes
<1>2. Len(routingChan') = n - 1 /\ \A i \in 1..(n - 1) : routingChan'[i] = routingChan[i + 1]
  BY <1>1
<1>3. IsFiniteSet(S) /\ Queued(k) = Cardinality(S)
  BY QueuedNat DEF Queued
<1>4. Queued(k)' = Cardinality(T)
  BY <1>1, <1>2 DEF Queued
<1>5. IsFiniteSet(T)
  <2>1. IsFiniteSet(1..(n - 1))
    BY <1>1, FS_Interval
  <2> QED
    BY <2>1, FS_Subset
<1>6. f \in Bijection(T, S \ {1})
  <2>1. f \in [T -> S \ {1}]
    BY <1>1
  <2>2. \A a, b \in T : f[a] = f[b] => a = b
    BY <1>1
  <2>3. ASSUME NEW t \in S \ {1} PROVE \E s \in T : f[s] = t
    <3>1. t - 1 \in T /\ f[t - 1] = t
      BY <1>1, <2>3
    <3> QED
      BY <3>1
  <2> HIDE DEF f, T, S
  <2> QED
    BY <2>1, <2>2, <2>3, Fun_IsBij
<1>7. Cardinality(S \ {1}) = Cardinality(T)
  BY <1>5, <1>6, FS_Bijection DEF ExistsBijection
<1>8. 1 \in S <=> Head(routingChan).key = k
  BY <1>1
<1>9. Cardinality(S) = Cardinality(S \ {1}) + IF 1 \in S THEN 1 ELSE 0
  <2> HIDE DEF S
  <2>1. Cardinality(S) \in Nat
    BY <1>3, FS_CardinalityType
  <2>2. Cardinality(S \ {1}) = IF 1 \in S THEN Cardinality(S) - 1 ELSE Cardinality(S)
    BY <1>3, FS_RemoveElement
  <2> QED
    BY <2>1, <2>2
<1> QED
  BY <1>3, <1>4, <1>7, <1>8, <1>9

\* Of a query that was not asked no request is under way.
LEMMA NoneUnderWay ==
  ASSUME Types, Begun, NEW k \in Key, client[k] = "idle"
  PROVE  Queued(k) = 0 /\ ~Serving(k)
<1>1. {i \in 1..Len(routingChan) : routingChan[i].key = k} = {}
  BY DEF Begun, RequestsAsked, Asked
<1>2. ~Serving(k)
  BY DEF Serving, Begun, ServedAsked, Asked
<1> QED
  BY <1>1, <1>2, FS_EmptySet DEF Queued

\* The counter of requests goes with the queue and the request being served.
LEMMA RequestsCountedStep ==
  ASSUME Types, Begun, RequestsCounted, [Next]_vars
  PROVE  RequestsCounted'
<1>a. reqCount \in [Key -> Int] /\ \A k \in Key : Queued(k) \in Nat /\
      reqCount[k] = Queued(k) + IF Serving(k) THEN 1 ELSE 0
  BY QueuedNat DEF Types, ManagerTypes, RequestsCounted
<1>b. ASSUME NEW p, RouteGoes(p), p \notin {"pop", "empty", "asleep"}, route.at \notin {"pop", "empty", "asleep"}, UNCHANGED <<reqCount, routingChan>>
      PROVE  RequestsCounted'
  <2>1. route'.at = p /\ route'.msg = route.msg
    BY <1>b, RouteAt
  <2>2. \A k \in Key : (Queued(k)' = Queued(k)) /\ (Serving(k)' <=> Serving(k))
    BY <1>b, <2>1 DEF Queued, Serving, Unserved
  <2> QED
    BY <1>a, <1>b, <2>2 DEF RequestsCounted
<1>1. ASSUME UNCHANGED <<reqCount, routingChan, route>> PROVE RequestsCounted'
  BY <1>1, <1>a DEF RequestsCounted, Queued, Serving, Unserved
<1>2. ASSUME NEW k \in Key, NEW s \in Node, NEW e \in Node, RunRouting(k, s, e) PROVE RequestsCounted'
  <2>1. /\ reqCount' = [reqCount EXCEPT ![k] = 1] /\ client[k] = "idle" /\ UNCHANGED route
        /\ routingChan' = Append(routingChan, Request(k, Label(s, 0, NoEdge)))
    BY <1>2 DEF RunRouting, loopVars
  <2>2. \A j \in Key : Queued(j)' = Queued(j) + IF k = j THEN 1 ELSE 0
    BY <2>1, QueuedAppend DEF Request
  <2>3. Queued(k) = 0 /\ ~Serving(k)
    BY <2>1, NoneUnderWay
  <2>4. \A j \in Key : Serving(j)' <=> Serving(j)
    BY <2>1 DEF Serving, Unserved
  <2>5. \A j \in Key : reqCount'[j] = IF j = k THEN 1 ELSE reqCount[j]
    BY <1>a, <2>1
  <2> QED
    BY <1>a, <2>2, <2>3, <2>4, <2>5 DEF RequestsCounted
<1>3. ASSUME RoutePop PROVE RequestsCounted'
  <2>1. /\ route.at \in {"pop", "empty"} /\ route' = [at |-> "find", msg |-> Head(routingChan)]
        /\ routingChan # <<>> /\ routingChan' = Tail(routingChan) /\ UNCHANGED reqCount
    BY <1>3 DEF RoutePop, countVars
  <2>2. \A k \in Key : Queued(k) = Queued(k)' + IF Head(routingChan).key = k THEN 1 ELSE 0
    BY <2>1, QueuedTail
  <2>3. \A k \in Key : ~Serving(k) /\ (Serving(k)' <=> Head(routingChan).key = k)
    BY <2>1 DEF Serving, Unserved
  <2>4. \A k \in Key : Queued(k)' \in Int
    <3>1. Types'
      BY TypesStep
    <3>2. \A k \in Key : Queued(k) \in Nat
      BY <1>a
    <3>3. ASSUME NEW k \in Key PROVE Queued(k)' \in Nat
      <4>1. IsFiniteSet(1..Len(routingChan'))
        BY <3>1, FS_Interval DEF Types, ManagerTypes
      <4>2. IsFiniteSet({i \in 1..Len(routingChan') : routingChan'[i].key = k})
        BY <4>1, FS_Subset
      <4> QED
        BY <4>2, FS_CardinalityType DEF Queued
    <3> QED
      BY <3>3
  <2> QED
    BY <1>a, <2>1, <2>2, <2>3, <2>4 DEF RequestsCounted
<1>4. ASSUME RouteFind PROVE RequestsCounted'
  <2>1. UNCHANGED <<reqCount, routingChan>> /\ route.at \notin {"pop", "empty", "asleep"} /\
        \E p \in {"get", "dec", "create"} : RouteGoes(p)
    BY <1>4 DEF RouteFind, sharedVars, countVars
  <2> QED
    BY <1>b, <2>1
<1>5. ASSUME RouteGet PROVE RequestsCounted'
  <2>1. /\ UNCHANGED <<reqCount, routingChan>> /\ route.at \notin {"pop", "empty", "asleep"}
        /\ \E p \in {"add", "isTaken", "dec", "setRunning", "release", "sending", "clearing", "start",
            "decWrite"} : RouteGoes(p)
    BY <1>5 DEF RouteGet, sharedVars, countVars
  <2> QED
    BY <1>b, <2>1
<1>6. ASSUME RouteAdd PROVE RequestsCounted'
  <2>1. /\ UNCHANGED <<reqCount, routingChan>> /\ route.at \notin {"pop", "empty", "asleep"}
        /\ \E p \in {"add", "isTaken", "dec", "setRunning", "release", "sending", "clearing", "start",
            "decWrite"} : RouteGoes(p)
    BY <1>6 DEF RouteAdd, sharedVars, countVars
  <2> QED
    BY <1>b, <2>1
<1>7. ASSUME RouteIsTaken PROVE RequestsCounted'
  <2>1. /\ UNCHANGED <<reqCount, routingChan>> /\ route.at \notin {"pop", "empty", "asleep"}
        /\ \E p \in {"add", "isTaken", "dec", "setRunning", "release", "sending", "clearing", "start",
            "decWrite"} : RouteGoes(p)
    BY <1>7 DEF RouteIsTaken, sharedVars, countVars
  <2> QED
    BY <1>b, <2>1
<1>8. ASSUME RouteSetRunning PROVE RequestsCounted'
  <2>1. /\ UNCHANGED <<reqCount, routingChan>> /\ route.at \notin {"pop", "empty", "asleep"}
        /\ \E p \in {"add", "isTaken", "dec", "setRunning", "release", "sending", "clearing", "start",
            "decWrite"} : RouteGoes(p)
    BY <1>8 DEF RouteSetRunning, sharedVars, countVars
  <2> QED
    BY <1>b, <2>1
<1>9. ASSUME RouteRelease PROVE RequestsCounted'
  <2>1. /\ UNCHANGED <<reqCount, routingChan>> /\ route.at \notin {"pop", "empty", "asleep"}
        /\ \E p \in {"add", "isTaken", "dec", "setRunning", "release", "sending", "clearing", "start",
            "decWrite"} : RouteGoes(p)
    BY <1>9 DEF RouteRelease, sharedVars, countVars
  <2> QED
    BY <1>b, <2>1
<1>10. ASSUME RouteWakes PROVE RequestsCounted'
  <2>1. /\ UNCHANGED <<reqCount, routingChan>> /\ route.at \notin {"pop", "empty", "asleep"}
        /\ \E p \in {"add", "isTaken", "dec", "setRunning", "release", "sending", "clearing", "start",
            "decWrite"} : RouteGoes(p)
    BY <1>10 DEF RouteWakes, sharedVars, countVars
  <2> QED
    BY <1>b, <2>1
<1>11. ASSUME RouteClears PROVE RequestsCounted'
  <2>1. /\ UNCHANGED <<reqCount, routingChan>> /\ route.at \notin {"pop", "empty", "asleep"}
        /\ \E p \in {"add", "isTaken", "dec", "setRunning", "release", "sending", "clearing", "start",
            "decWrite"} : RouteGoes(p)
    BY <1>11 DEF RouteClears, sharedVars, countVars
  <2> QED
    BY <1>b, <2>1
<1>12. ASSUME RouteCreate PROVE RequestsCounted'
  <2>1. /\ UNCHANGED <<reqCount, routingChan>> /\ route.at \notin {"pop", "empty", "asleep"}
        /\ \E p \in {"add", "isTaken", "dec", "setRunning", "release", "sending", "clearing", "start",
            "decWrite"} : RouteGoes(p)
    BY <1>12 DEF RouteCreate, sharedVars, countVars
  <2> QED
    BY <1>b, <2>1
<1>13. ASSUME RouteStart PROVE RequestsCounted'
  <2>1. /\ UNCHANGED <<reqCount, routingChan>> /\ route.at \notin {"pop", "empty", "asleep"}
        /\ \E p \in {"add", "isTaken", "dec", "setRunning", "release", "sending", "clearing", "start",
            "decWrite"} : RouteGoes(p)
    BY <1>13 DEF RouteStart, sharedVars, countVars
  <2> QED
    BY <1>b, <2>1
<1>14. ASSUME RouteDecCheck PROVE RequestsCounted'
  <2>1. /\ UNCHANGED <<reqCount, routingChan>> /\ route.at \notin {"pop", "empty", "asleep"}
        /\ \E p \in {"add", "isTaken", "dec", "setRunning", "release", "sending", "clearing", "start",
            "decWrite"} : RouteGoes(p)
    BY <1>14 DEF RouteDecCheck, sharedVars, countVars
  <2> QED
    BY <1>b, <2>1
<1>15. ASSUME RouteDecWrite PROVE RequestsCounted'
  <2>1. /\ route.at = "decWrite" /\ reqCount' = [reqCount EXCEPT ![route.msg.key] = @ - 1]
        /\ UNCHANGED routingChan /\ \E p \in {"pop", "empty"} : RouteGoes(p)
    BY <1>15 DEF RouteDecWrite
  <2>2. route.msg.key \in Key /\ route'.at \in {"pop", "empty"}
    BY <2>1, ServedFacts, RouteAt
  <2>3. \A k \in Key : Queued(k)' = Queued(k) /\ ~Serving(k)' /\ (Serving(k) <=> route.msg.key = k)
    BY <2>1, <2>2 DEF Queued, Serving, Unserved
  <2>4. \A k \in Key : reqCount'[k] = IF k = route.msg.key THEN reqCount[k] - 1 ELSE reqCount[k]
    BY <1>a, <2>1, <2>2
  <2> QED
    BY <1>a, <2>3, <2>4 DEF RequestsCounted
<1>16. ASSUME NEW r \in Runner, Relax(r) PROVE RequestsCounted'
  <2>1. UNCHANGED route /\ KeyOf(r) \in Key
    BY <1>16, RunnerFacts DEF Relax, otherVars, loopVars
  <2>2. \/ UNCHANGED <<reqCount, routingChan>>
        \/ \E l : /\ reqCount' = [reqCount EXCEPT ![KeyOf(r)] = @ + 1]
                  /\ routingChan' = Append(routingChan, Request(KeyOf(r), l))
    BY <1>16, RelaxSteps
  <2>3. ASSUME NEW l, reqCount' = [reqCount EXCEPT ![KeyOf(r)] = @ + 1],
               routingChan' = Append(routingChan, Request(KeyOf(r), l))
        PROVE  RequestsCounted'
    <3>1. \A k \in Key : Queued(k)' = Queued(k) + IF KeyOf(r) = k THEN 1 ELSE 0
      BY <2>3, QueuedAppend DEF Request
    <3>2. \A k \in Key : Serving(k)' <=> Serving(k)
      BY <2>1 DEF Serving, Unserved
    <3>3. \A k \in Key : reqCount'[k] = IF k = KeyOf(r) THEN reqCount[k] + 1 ELSE reqCount[k]
      BY <1>a, <2>1, <2>3
    <3> QED
      BY <1>a, <3>1, <3>2, <3>3 DEF RequestsCounted
  <2> QED
    BY <1>1, <2>1, <2>2, <2>3
<1>17. ASSUME RouteOversleeps PROVE RequestsCounted'
  <2>1. /\ route.at = "empty" /\ UNCHANGED <<reqCount, routingChan>> /\ RouteGoes("asleep")
    BY <1>17 DEF RouteOversleeps, sharedVars, countVars
  <2>2. route'.at = "asleep"
    BY <2>1, RouteAt
  <2>3. \A k \in Key : Queued(k)' = Queued(k) /\ ~Serving(k) /\ ~Serving(k)'
    BY <2>1, <2>2 DEF Queued, Serving, Unserved
  <2> QED
    BY <1>a, <2>1, <2>3 DEF RequestsCounted
<1> QED
  BY <1>1, <1>17, <1>2, <1>3, <1>4, <1>5, <1>6, <1>7, <1>8, <1>9, <1>10, <1>11, <1>12, <1>13, <1>14, <1>15,
     <1>16, Changes

-----------------------------------------------------------------------------
(* The stop of a query.                                                    *)

LEMMA QueuedNatNext ==
  ASSUME Types, Begun, [Next]_vars, NEW k
  PROVE  Queued(k)' \in Nat
<1>1. Types'
  BY TypesStep
<1>2. IsFiniteSet(1..Len(routingChan'))
  BY <1>1, FS_Interval DEF Types, ManagerTypes
<1>3. IsFiniteSet({i \in 1..Len(routingChan') : routingChan'[i].key = k})
  BY <1>2, FS_Subset
<1> QED
  BY <1>3, FS_CardinalityType DEF Queued

\* IsStoped is never taken back: the key is deleted from stoped when a request of
\* the query is taken from the channel and none is counted, but this one is.
LEMMA StopedSteps ==
  ASSUME Types, Begun, RequestsCounted, [Next]_vars
  PROVE  UNCHANGED stoped \/ (StopNotify /\ stoped' = stoped \cup {stop.key})
<1>1. ASSUME RoutePop PROVE UNCHANGED stoped
  <2>1. route.at \in {"pop", "empty"} /\ routingChan # <<>> /\ routingChan' = Tail(routingChan)
    BY <1>1 DEF RoutePop
  <2>2. PICK k \in Key : k = Head(routingChan).key
    <3>1. Head(routingChan) \in GoodRequests
      BY <2>1 DEF Types, ManagerTypes
    <3> QED
      BY <3>1, LabelFacts
  <2>3. Queued(k) = Queued(k)' + 1
    BY <2>1, <2>2, QueuedTail
  <2>4. Queued(k)' \in Nat
    BY QueuedNatNext
  <2>5. reqCount[k] = Queued(k) + 0
    BY <2>1 DEF RequestsCounted, Serving, Unserved
  <2>6. reqCount[k] # 0
    BY <2>3, <2>4, <2>5
  <2> QED
    BY <1>1, <2>2, <2>6 DEF RoutePop
<1>2. ASSUME StopNotify PROVE stoped' = stoped \cup {stop.key}
  BY <1>2 DEF StopNotify
<1> QED
  BY <1>1, <1>2, Changes

LEMMA FinishedStays ==
  ASSUME Types, [Next]_vars, NEW r \in Runner, finished[r]
  PROVE  finished'[r]
<1>0. finished \in [Runner -> BOOLEAN]
  BY DEF Types, HelperTypes
<1>1. ASSUME NEW q \in Runner, SetFinished(q) PROVE finished'[r]
  BY <1>0, <1>1 DEF SetFinished
<1>2. ASSUME NEW t \in Tile, ExitRunner(t) PROVE finished'[r]
  BY <1>0, <1>2 DEF ExitRunner
<1> QED
  BY <1>1, <1>2, Changes

\* The key of a query is in stoped from the stop on.
LEMMA StopedLeftStep ==
  ASSUME Types, Begun, RequestsCounted, Stopping, [Next]_vars
  PROVE  StopedLeft'
<1>a. client \in [Key -> {"idle", "waiting", "reading", "done"}] /\ StopedLeft
  BY DEF Types, ClientTypes, Stopping
<1>b. UNCHANGED stoped \/ StopNotify
  BY StopedSteps
<1>c. ASSUME StopNotify PROVE StopedLeft'
  <2>1. stop.key \in Key
    BY <1>c DEF StopNotify, Types, ManagerTypes
  <2>2. /\ client[stop.key] = "waiting" /\ client' = [client EXCEPT ![stop.key] = "reading"]
        /\ stoped' = stoped \cup {stop.key}
    BY <1>c DEF StopNotify
  <2> QED
    BY <1>a, <2>1, <2>2 DEF StopedLeft
<1>1. ASSUME UNCHANGED client PROVE StopedLeft'
  BY <1>1, <1>a, <1>b, <1>c DEF StopedLeft
<1>2. ASSUME NEW k \in Key, NEW s \in Node, NEW e \in Node, RunRouting(k, s, e) PROVE StopedLeft'
  <2>1. /\ client[k] = "idle" /\ client' = [client EXCEPT ![k] = "waiting"] /\ UNCHANGED stoped
    BY <1>2 DEF RunRouting
  <2> QED
    BY <1>a, <2>1 DEF StopedLeft
<1>3. ASSUME NEW k \in Key, LeavePath(k) PROVE StopedLeft'
  <2>1. /\ client[k] = "reading" /\ client' = [client EXCEPT ![k] = "done"] /\ UNCHANGED stoped
    BY <1>3 DEF LeavePath
  <2> QED
    BY <1>a, <2>1 DEF StopedLeft
<1>4. ASSUME StopNotify PROVE StopedLeft'
  BY <1>4, <1>c
<1> QED
  BY <1>1, <1>2, <1>3, <1>4, Changes

LEMMA WaitingIsAwaitedStep ==
  ASSUME Types, Begun, RequestsCounted, Stopping, [Next]_vars
  PROVE  WaitingIsAwaited'
<1>a. client \in [Key -> {"idle", "waiting", "reading", "done"}] /\ WaitingIsAwaited
  BY DEF Types, ClientTypes, Stopping
<1>1. ASSUME UNCHANGED <<client, awaited>> PROVE WaitingIsAwaited'
  BY <1>1, <1>a DEF WaitingIsAwaited
<1>2. ASSUME NEW k \in Key, NEW s \in Node, NEW e \in Node, RunRouting(k, s, e) PROVE WaitingIsAwaited'
  <2>1. client' = [client EXCEPT ![k] = "waiting"] /\ awaited' = awaited \cup {k}
    BY <1>2 DEF RunRouting
  <2> QED
    BY <1>a, <2>1 DEF WaitingIsAwaited
<1>3. ASSUME NEW k \in Key, LeavePath(k) PROVE WaitingIsAwaited'
  <2>1. client' = [client EXCEPT ![k] = "done"] /\ UNCHANGED awaited
    BY <1>3 DEF LeavePath
  <2> QED
    BY <1>a, <2>1 DEF WaitingIsAwaited
<1>4. ASSUME StopNotify PROVE WaitingIsAwaited'
  <2>1. client' = [client EXCEPT ![stop.key] = "reading"] /\ awaited' = awaited \ {stop.key}
    BY <1>4 DEF StopNotify
  <2> QED
    BY <1>a, <2>1 DEF WaitingIsAwaited
<1> QED
  BY <1>1, <1>2, <1>3, <1>4, Changes

\* A second stop of a query is dropped.
LEMMA StopOnceStep ==
  ASSUME Types, Begun, RequestsCounted, Stopping, [Next]_vars
  PROVE  StopOnce'
<1>a. \A k \in stoped : k \in stoped'
  BY StopedSteps
<1>b. /\ client \in [Key -> {"idle", "waiting", "reading", "done"}] /\ StopOnce
      /\ stop \in [at : {"receive", "notify", "spread", "get", "tell"}, key : Key \cup {NoKey},
                   todo : SUBSET Tile, tile : Tile \cup {NoTile}]
      /\ stop.at \in {"spread", "get", "tell"} => stop.key \in Key
  BY DEF Types, ClientTypes, LoopTypes, Stopping
<1>1. ASSUME UNCHANGED <<client, stop>> PROVE StopOnce'
  BY <1>1, <1>a, <1>b DEF StopOnce
<1>2. ASSUME NEW k \in Key, NEW s \in Node, NEW e \in Node, RunRouting(k, s, e) PROVE StopOnce'
  <2>1. client[k] = "idle" /\ client' = [client EXCEPT ![k] = "waiting"] /\ UNCHANGED stop
    BY <1>2 DEF RunRouting, loopVars
  <2> QED
    BY <1>a, <1>b, <2>1 DEF StopOnce
<1>3. ASSUME NEW k \in Key, LeavePath(k) PROVE StopOnce'
  <2>1. client[k] = "reading" /\ client' = [client EXCEPT ![k] = "done"] /\ UNCHANGED stop
    BY <1>3 DEF LeavePath
  <2> QED
    BY <1>a, <1>b, <2>1 DEF StopOnce
<1>4. ASSUME StopReceive PROVE StopOnce'
  <2>1. /\ stop.at = "receive" /\ stopChan # <<>> /\ UNCHANGED client
        /\ \/ UNCHANGED stop
           \/ Head(stopChan) \notin stoped /\ stop'.at = "notify" /\ stop'.key = Head(stopChan)
    BY <1>4, <1>b DEF StopReceive, clientVars
  <2>2. Head(stopChan) # NoKey => Head(stopChan) \in Key /\ Asked(Head(stopChan))
    <3>1. Head(stopChan) = stopChan[1] /\ 1 \in 1..Len(stopChan) /\ stopChan[1] \in Key \cup {NoKey}
      BY <2>1 DEF Types, ManagerTypes
    <3> QED
      BY <3>1 DEF Begun, StopsAsked
  <2>3. Head(stopChan) \notin stoped /\ Head(stopChan) # NoKey => client[Head(stopChan)] = "waiting"
    BY <1>b, <2>2 DEF Stopping, StopedLeft, Asked
  <2> QED
    BY <1>b, <2>1, <2>3 DEF StopOnce
<1>5. ASSUME StopNotify PROVE StopOnce'
  <2>1. stop'.at = "spread" /\ stop'.key \in stoped'
    BY <1>5, <1>b DEF StopNotify
  <2> QED
    BY <2>1 DEF StopOnce
<1>6. ASSUME NEW t \in Tile, StopSpread(t) PROVE StopOnce'
  <2>1. /\ stop.at \in {"spread", "get", "tell"} /\ stop'.at \in {"receive", "spread", "get", "tell"}
        /\ stop'.key = stop.key
    BY <1>6, <1>b DEF StopSpread
  <2> QED
    BY <1>a, <1>b, <2>1 DEF StopOnce
<1>7. ASSUME StopGet PROVE StopOnce'
  <2>1. /\ stop.at \in {"spread", "get", "tell"} /\ stop'.at \in {"receive", "spread", "get", "tell"}
        /\ stop'.key = stop.key
    BY <1>7, <1>b DEF StopGet
  <2> QED
    BY <1>a, <1>b, <2>1 DEF StopOnce
<1>8. ASSUME StopTell PROVE StopOnce'
  <2>1. /\ stop.at \in {"spread", "get", "tell"} /\ stop'.at \in {"receive", "spread", "get", "tell"}
        /\ stop'.key = stop.key
    BY <1>8, <1>b DEF StopTell
  <2> QED
    BY <1>a, <1>b, <2>1 DEF StopOnce
<1>9. ASSUME StopDone PROVE StopOnce'
  <2>1. /\ stop.at \in {"spread", "get", "tell"} /\ stop'.at \in {"receive", "spread", "get", "tell"}
        /\ stop'.key = stop.key
    BY <1>9, <1>b DEF StopDone
  <2> QED
    BY <1>a, <1>b, <2>1 DEF StopOnce
<1> QED
  BY <1>1, <1>2, <1>3, <1>4, <1>5, <1>6, <1>7, <1>8, <1>9, Changes

\* Only the runners of a stopped query are told, and the helper tells the search first.
LEMMA ToldIsStopedStep ==
  ASSUME Types, Begun, RequestsCounted, Stopping, [Next]_vars
  PROVE  ToldIsStoped'
<1>a. \A k \in stoped : k \in stoped'
  BY StopedSteps
<1>b. /\ finished \in [Runner -> BOOLEAN] /\ ToldIsStoped
      /\ stopper \in [Runner -> {"none", "wait", "stop", "release", "sending", "clearing", "report", "done"}]
  BY DEF Types, HelperTypes, Stopping
<1>c. ASSUME NEW r \in Runner, NEW p, stopper[r] \notin {"none", "wait"},
             p \in {"release", "sending", "clearing", "report", "done"} => finished'[r],
             stopper' = [stopper EXCEPT ![r] = p],
             UNCHANGED finished \/ finished' = [finished EXCEPT ![r] = TRUE]
      PROVE  ToldIsStoped'
  BY <1>a, <1>b, <1>c DEF ToldIsStoped
<1>1. ASSUME UNCHANGED <<finished, stopper>> PROVE ToldIsStoped'
  BY <1>1, <1>a, <1>b DEF ToldIsStoped
<1>2. ASSUME RouteCreate PROVE ToldIsStoped'
  <2>1. Served \in Runner /\ stopper' = [stopper EXCEPT ![Served] = "wait"] /\ UNCHANGED finished
    BY <1>2, ServedFacts DEF RouteCreate
  <2> QED
    BY <1>a, <1>b, <2>1 DEF ToldIsStoped
<1>3. ASSUME NEW r \in Runner, SetFinished(r) PROVE ToldIsStoped'
  <2>1. /\ stopper[r] = "stop" /\ finished' = [finished EXCEPT ![r] = TRUE]
        /\ stopper' = [stopper EXCEPT ![r] = "release"]
    BY <1>3 DEF SetFinished
  <2> QED
    BY <1>b, <1>c, <2>1
<1>4. ASSUME NEW r \in Runner, StopperRelease(r) PROVE ToldIsStoped'
  <2>1. /\ stopper[r] \in {"release", "sending", "clearing", "report"} /\ UNCHANGED finished
        /\ \E p \in {"sending", "report", "clearing", "done"} : stopper' = [stopper EXCEPT ![r] = p]
    BY <1>4 DEF StopperRelease
  <2>2. finished[r]
    BY <1>b, <2>1 DEF ToldIsStoped
  <2> QED
    BY <1>b, <1>c, <2>1, <2>2
<1>5. ASSUME NEW r \in Runner, StopperWakes(r) PROVE ToldIsStoped'
  <2>1. /\ stopper[r] \in {"release", "sending", "clearing", "report"} /\ UNCHANGED finished
        /\ \E p \in {"sending", "report", "clearing", "done"} : stopper' = [stopper EXCEPT ![r] = p]
    BY <1>5 DEF StopperWakes
  <2>2. finished[r]
    BY <1>b, <2>1 DEF ToldIsStoped
  <2> QED
    BY <1>b, <1>c, <2>1, <2>2
<1>6. ASSUME NEW r \in Runner, StopperClears(r) PROVE ToldIsStoped'
  <2>1. /\ stopper[r] \in {"release", "sending", "clearing", "report"} /\ UNCHANGED finished
        /\ \E p \in {"sending", "report", "clearing", "done"} : stopper' = [stopper EXCEPT ![r] = p]
    BY <1>6 DEF StopperClears
  <2>2. finished[r]
    BY <1>b, <2>1 DEF ToldIsStoped
  <2> QED
    BY <1>b, <1>c, <2>1, <2>2
<1>7. ASSUME NEW r \in Runner, StopperReports(r) PROVE ToldIsStoped'
  <2>1. /\ stopper[r] \in {"release", "sending", "clearing", "report"} /\ UNCHANGED finished
        /\ \E p \in {"sending", "report", "clearing", "done"} : stopper' = [stopper EXCEPT ![r] = p]
    BY <1>7 DEF StopperReports
  <2>2. finished[r]
    BY <1>b, <2>1 DEF ToldIsStoped
  <2> QED
    BY <1>b, <1>c, <2>1, <2>2
<1>8. ASSUME StopTell PROVE ToldIsStoped'
  <2>1. <<stop.key, stop.tile>> \in Runner /\ KeyOf(<<stop.key, stop.tile>>) = stop.key
    BY <1>8, RunnerFacts DEF StopTell, Types, LoopTypes
  <2>2. stop.key \in stoped
    BY <1>8 DEF StopTell, Stopping, StopOnce
  <2>3. stopper' = [stopper EXCEPT ![<<stop.key, stop.tile>>] = "stop"] /\ UNCHANGED finished
    BY <1>8 DEF StopTell
  <2> QED
    BY <1>a, <1>b, <2>1, <2>2, <2>3 DEF ToldIsStoped
<1>9. ASSUME NEW t \in Tile, ExitRunner(t) PROVE ToldIsStoped'
  <2>1. t \in exit.todo /\ UNCHANGED stopper
    BY <1>9 DEF ExitRunner
  <2>2. exit.key \in Key /\ exit.key \in stoped
    BY <2>1 DEF Types, LoopTypes, Stopping, ExitIsLate, StopedLeft
  <2>3. <<exit.key, t>> \in Runner /\ KeyOf(<<exit.key, t>>) = exit.key
    BY <2>2, RunnerFacts
  <2>4. UNCHANGED finished \/ finished' = [finished EXCEPT ![<<exit.key, t>>] = TRUE]
    BY <1>9 DEF ExitRunner
  <2> QED
    BY <1>a, <1>b, <2>1, <2>2, <2>3, <2>4 DEF ToldIsStoped
<1> QED
  BY <1>1, <1>2, <1>3, <1>4, <1>5, <1>6, <1>7, <1>8, <1>9, Changes

\* Runners are deleted when the client has its path.
LEMMA ExitIsLateStep ==
  ASSUME Types, Begun, RequestsCounted, Stopping, [Next]_vars
  PROVE  ExitIsLate'
<1>a. \A k \in Key : client[k] = "done" => client'[k] = "done"
  BY ClientSteps
<1>b. /\ exitChan \in Seq(Key) /\ (\A i \in 1..Len(exitChan) : exitChan[i] \in Key)
      /\ exit \in [key : Key \cup {NoKey}, todo : SUBSET Tile] /\ (exit.todo # {} => exit.key \in Key)
      /\ ExitIsLate
  BY DEF Types, ManagerTypes, LoopTypes, Stopping
<1>1. ASSUME UNCHANGED <<exitChan, exit>> PROVE ExitIsLate'
  BY <1>1, <1>a, <1>b DEF ExitIsLate
<1>2. ASSUME NEW k \in Key, LeavePath(k) PROVE ExitIsLate'
  <2>1. client' = [client EXCEPT ![k] = "done"] /\ exitChan' = Append(exitChan, k) /\ UNCHANGED exit
    BY <1>2 DEF LeavePath
  <2>2. client'[k] = "done"
    BY <2>1 DEF Types, ClientTypes
  <2> QED
    BY <1>a, <1>b, <2>1, <2>2 DEF ExitIsLate
<1>3. ASSUME ExitReceive PROVE ExitIsLate'
  <2>1. exitChan # <<>> /\ exit'.key = Head(exitChan) /\ exitChan' = Tail(exitChan)
    BY <1>3 DEF ExitReceive
  <2>2. Head(exitChan) = exitChan[1] /\ 1 \in 1..Len(exitChan)
    BY <1>b, <2>1
  <2> QED
    BY <1>a, <1>b, <2>1, <2>2 DEF ExitIsLate
<1>4. ASSUME NEW t \in Tile, ExitRunner(t) PROVE ExitIsLate'
  <2>1. exit'.key = exit.key /\ exit'.todo \subseteq exit.todo /\ UNCHANGED exitChan
    BY <1>4, <1>b DEF ExitRunner
  <2> QED
    BY <1>a, <1>b, <2>1 DEF ExitIsLate
<1> QED
  BY <1>1, <1>2, <1>3, <1>4, Changes

LEMMA KnownUntilStopedStep ==
  ASSUME Types, Begun, RequestsCounted, Stopping, [Next]_vars
  PROVE  KnownUntilStoped'
<1>a. \A k \in stoped : k \in stoped'
  BY StopedSteps
<1>b. /\ KnownUntilStoped
      /\ \A r \in Runner : pc[r] = "none" /\ pc'[r] # "none" => (RouteCreate \/ RouteStart) /\ r = Served
  BY MadeStays DEF Stopping
<1>c. ASSUME RouteStart PROVE pc[Served] # "none"
  BY <1>c DEF RouteStart, Begun, RunnersMade
<1>d. ASSUME RouteCreate PROVE runners' = runners \cup {Served}
  BY <1>d DEF RouteCreate
<1>1. ASSUME UNCHANGED runners PROVE KnownUntilStoped'
  BY <1>1, <1>a, <1>b, <1>c, <1>d DEF KnownUntilStoped
<1>2. ASSUME RouteCreate PROVE KnownUntilStoped'
  BY <1>2, <1>a, <1>b, <1>d, <1>c DEF KnownUntilStoped
<1>3. ASSUME NEW t \in Tile, ExitRunner(t) PROVE KnownUntilStoped'
  <2>1. exit.key \in stoped
    BY <1>3 DEF ExitRunner, Types, LoopTypes, Stopping, ExitIsLate, StopedLeft
  <2>2. runners \subseteq runners' \cup {<<exit.key, t>>} /\ KeyOf(<<exit.key, t>>) = exit.key
    BY <1>3 DEF ExitRunner, KeyOf
  <2>3. ~RouteCreate
    <3>1. ASSUME RouteCreate PROVE FALSE
      <4>1. RouteGoes("start") /\ route.at = "create" /\ UNCHANGED route
        BY <1>3, <3>1 DEF RouteCreate, ExitRunner
      <4> QED
        BY <4>1, RouteAt
    <3> QED
      BY <3>1
  <2> QED
    BY <1>a, <1>b, <1>c, <2>1, <2>2, <2>3 DEF KnownUntilStoped
<1> QED
  BY <1>1, <1>2, <1>3, Changes

\* A runner is made and started once.
LEMMA MadeOnceStep ==
  ASSUME Types, Begun, RequestsCounted, Stopping, [Next]_vars
  PROVE  MadeOnce'
<1>a. /\ MadeOnce
      /\ \A r \in Runner :
           /\ pc[r] = "none" /\ pc'[r] # "none" => RouteCreate \/ RouteStart
           /\ pc[r] = "new" => pc'[r] = "new" \/ RouteCreate \/ RouteStart
  BY MadeStays DEF Stopping
<1>b. ASSUME UNCHANGED route PROVE ~RouteCreate /\ ~RouteStart
  <2>1. RouteCreate => RouteGoes("start") /\ route.at = "create"
    BY DEF RouteCreate
  <2>2. RouteStart => RouteGoes("dec") /\ route.at = "start"
    BY DEF RouteStart
  <2> QED
    BY <1>b, <2>1, <2>2, RouteAt
<1>c. ASSUME NEW p, RouteGoes(p), p \notin {"create", "start"} PROVE MadeOnce'
  BY <1>c, RouteAt DEF MadeOnce
<1>d. route.at \notin {"pop", "empty", "asleep"} => Served \in Runner
  BY ServedFacts
<1>1. ASSUME UNCHANGED route PROVE MadeOnce'
  BY <1>1, <1>a, <1>b, <1>d DEF MadeOnce, Served
<1>2. ASSUME RoutePop PROVE MadeOnce'
  <2>1. route'.at = "find"
    BY <1>2 DEF RoutePop
  <2> QED
    BY <2>1 DEF MadeOnce
<1>3. ASSUME RouteFind PROVE MadeOnce'
  <2>1. /\ route.at = "find" /\ UNCHANGED pc
        /\ \/ \E p \in {"get", "dec"} : RouteGoes(p)
           \/ Served \notin runners /\ route.msg.key \notin stoped /\ RouteGoes("create")
    BY <1>3 DEF RouteFind
  <2>2. CASE Served \notin runners /\ route.msg.key \notin stoped /\ RouteGoes("create")
    <3>1. Served \in Runner /\ KeyOf(Served) = route.msg.key
      BY <2>1, ServedFacts
    <3>2. pc[Served] = "none"
      BY <2>2, <3>1 DEF Stopping, KnownUntilStoped
    <3>3. route'.at = "create" /\ Served' = Served
      BY <2>2, RouteAt
    <3> QED
      BY <2>1, <3>2, <3>3 DEF MadeOnce
  <2> QED
    BY <1>c, <2>1, <2>2
<1>4. ASSUME RouteGet PROVE MadeOnce'
  <2>1. \E p : RouteGoes(p) /\ p \notin {"create", "start"}
    BY <1>4 DEF RouteGet
  <2> QED
    BY <1>c, <2>1
<1>5. ASSUME RouteAdd PROVE MadeOnce'
  <2>1. \E p : RouteGoes(p) /\ p \notin {"create", "start"}
    BY <1>5 DEF RouteAdd
  <2> QED
    BY <1>c, <2>1
<1>6. ASSUME RouteIsTaken PROVE MadeOnce'
  <2>1. \E p : RouteGoes(p) /\ p \notin {"create", "start"}
    BY <1>6 DEF RouteIsTaken
  <2> QED
    BY <1>c, <2>1
<1>7. ASSUME RouteSetRunning PROVE MadeOnce'
  <2>1. \E p : RouteGoes(p) /\ p \notin {"create", "start"}
    BY <1>7 DEF RouteSetRunning
  <2> QED
    BY <1>c, <2>1
<1>8. ASSUME RouteRelease PROVE MadeOnce'
  <2>1. \E p : RouteGoes(p) /\ p \notin {"create", "start"}
    BY <1>8 DEF RouteRelease
  <2> QED
    BY <1>c, <2>1
<1>9. ASSUME RouteWakes PROVE MadeOnce'
  <2>1. \E p : RouteGoes(p) /\ p \notin {"create", "start"}
    BY <1>9 DEF RouteWakes
  <2> QED
    BY <1>c, <2>1
<1>10. ASSUME RouteClears PROVE MadeOnce'
  <2>1. \E p : RouteGoes(p) /\ p \notin {"create", "start"}
    BY <1>10 DEF RouteClears
  <2> QED
    BY <1>c, <2>1
<1>11. ASSUME RouteCreate PROVE MadeOnce'
  <2>1. Served \in Runner /\ Goes(Served, "new") /\ RouteGoes("start")
    BY <1>11, ServedFacts DEF RouteCreate, Goes
  <2>2. pc'[Served] = "new" /\ route'.at = "start" /\ Served' = Served
    BY <2>1, PcAt, RouteAt
  <2> QED
    BY <2>2 DEF MadeOnce
<1>12. ASSUME RouteStart PROVE MadeOnce'
  <2>1. \E p : RouteGoes(p) /\ p \notin {"create", "start"}
    BY <1>12 DEF RouteStart
  <2> QED
    BY <1>c, <2>1
<1>13. ASSUME RouteDecCheck PROVE MadeOnce'
  <2>1. \E p : RouteGoes(p) /\ p \notin {"create", "start"}
    BY <1>13 DEF RouteDecCheck
  <2> QED
    BY <1>c, <2>1
<1>14. ASSUME RouteDecWrite PROVE MadeOnce'
  <2>1. \E p : RouteGoes(p) /\ p \notin {"create", "start"}
    BY <1>14 DEF RouteDecWrite
  <2> QED
    BY <1>c, <2>1
<1>15. ASSUME RouteOversleeps PROVE MadeOnce'
  <2>1. \E p : RouteGoes(p) /\ p \notin {"create", "start"}
    BY <1>15 DEF RouteOversleeps
  <2> QED
    BY <1>c, <2>1
<1> QED
  BY <1>15, <1>1, <1>2, <1>3, <1>4, <1>5, <1>6, <1>7, <1>8, <1>9, <1>10, <1>11, <1>12, <1>13, <1>14,
     Changes

\* The routing loop wakes a runner that sleeps, or that is to end.
LEMMA WokenSleepsStep ==
  ASSUME Types, Begun, RequestsCounted, Stopping, [Next]_vars
  PROVE  WokenSleeps'
<1>a. /\ WokenSleeps /\ isLocked \in [Runner -> BOOLEAN] /\ \A r \in Runner : finished[r] => finished'[r]
      /\ route.at \in Waking => Served \in Runner
  BY FinishedStays, ServedFacts DEF Stopping, Types, HelperTypes, Waking
<1>b. ASSUME NEW p, RouteGoes(p), UNCHANGED isLocked, p \in Waking => route.at \in Waking \/ isLocked[Served]
      PROVE  WokenSleeps'
  <2>1. route'.at = p /\ Served' = Served
    BY <1>b, RouteAt
  <2> QED
    BY <1>a, <1>b, <2>1 DEF WokenSleeps
<1>c. Waking = {"setRunning", "release", "sending"}
  BY DEF Waking
<1>1. ASSUME UNCHANGED <<route, isLocked>> PROVE WokenSleeps'
  BY <1>1, <1>a DEF WokenSleeps, Served
<1>2. ASSUME RoutePop PROVE WokenSleeps'
  <2>1. route'.at = "find"
    BY <1>2 DEF RoutePop
  <2> QED
    BY <1>c, <2>1 DEF WokenSleeps
<1>3. ASSUME RouteFind PROVE WokenSleeps'
  <2>1. UNCHANGED isLocked /\
        \E p \in {"get", "dec", "create", "add", "isTaken", "start", "decWrite", "pop", "empty", "asleep", "clearing"} :
          RouteGoes(p)
    BY <1>3 DEF RouteFind, runnerVars, blockVars
  <2> QED
    BY <1>b, <1>c, <2>1
<1>4. ASSUME RouteGet PROVE WokenSleeps'
  <2>1. UNCHANGED isLocked /\
        \E p \in {"get", "dec", "create", "add", "isTaken", "start", "decWrite", "pop", "empty", "asleep", "clearing"} :
          RouteGoes(p)
    BY <1>4 DEF RouteGet, runnerVars, blockVars
  <2> QED
    BY <1>b, <1>c, <2>1
<1>5. ASSUME RouteAdd PROVE WokenSleeps'
  <2>1. UNCHANGED isLocked /\
        \E p \in {"get", "dec", "create", "add", "isTaken", "start", "decWrite", "pop", "empty", "asleep", "clearing"} :
          RouteGoes(p)
    BY <1>5 DEF RouteAdd, runnerVars, blockVars
  <2> QED
    BY <1>b, <1>c, <2>1
<1>6. ASSUME RouteIsTaken PROVE WokenSleeps'
  <2>1. /\ UNCHANGED isLocked
        /\ (isLocked[Served] /\ RouteGoes("setRunning")) \/ RouteGoes("dec")
    BY <1>6 DEF RouteIsTaken, runnerVars, blockVars
  <2> QED
    BY <1>b, <1>c, <2>1
<1>7. ASSUME RouteSetRunning PROVE WokenSleeps'
  <2>1. UNCHANGED isLocked /\ route.at = "setRunning" /\ RouteGoes("release")
    BY <1>7 DEF RouteSetRunning, runnerVars, blockVars
  <2> QED
    BY <1>b, <1>c, <2>1
<1>8. ASSUME RouteRelease PROVE WokenSleeps'
  <2>1. UNCHANGED isLocked /\ route.at = "release" /\ \E p \in {"sending", "dec"} : RouteGoes(p)
    BY <1>8 DEF RouteRelease, runnerVars, blockVars
  <2> QED
    BY <1>b, <1>c, <2>1
<1>9. ASSUME RouteWakes PROVE WokenSleeps'
  <2>1. UNCHANGED isLocked /\
        \E p \in {"get", "dec", "create", "add", "isTaken", "start", "decWrite", "pop", "empty", "asleep", "clearing"} :
          RouteGoes(p)
    BY <1>9 DEF RouteWakes, runnerVars, blockVars
  <2> QED
    BY <1>b, <1>c, <2>1
<1>10. ASSUME RouteClears PROVE WokenSleeps'
  <2>1. route'.at = "dec"
    BY <1>10, RouteAt DEF RouteClears
  <2> QED
    BY <1>c, <2>1 DEF WokenSleeps
<1>11. ASSUME RouteCreate PROVE WokenSleeps'
  <2>1. UNCHANGED isLocked /\
        \E p \in {"get", "dec", "create", "add", "isTaken", "start", "decWrite", "pop", "empty", "asleep", "clearing"} :
          RouteGoes(p)
    BY <1>11 DEF RouteCreate, runnerVars, blockVars
  <2> QED
    BY <1>b, <1>c, <2>1
<1>12. ASSUME RouteStart PROVE WokenSleeps'
  <2>1. UNCHANGED isLocked /\
        \E p \in {"get", "dec", "create", "add", "isTaken", "start", "decWrite", "pop", "empty", "asleep", "clearing"} :
          RouteGoes(p)
    BY <1>12 DEF RouteStart, runnerVars, blockVars
  <2> QED
    BY <1>b, <1>c, <2>1
<1>13. ASSUME RouteDecCheck PROVE WokenSleeps'
  <2>1. UNCHANGED isLocked /\
        \E p \in {"get", "dec", "create", "add", "isTaken", "start", "decWrite", "pop", "empty", "asleep", "clearing"} :
          RouteGoes(p)
    BY <1>13 DEF RouteDecCheck, runnerVars, blockVars
  <2> QED
    BY <1>b, <1>c, <2>1
<1>14. ASSUME RouteDecWrite PROVE WokenSleeps'
  <2>1. UNCHANGED isLocked /\
        \E p \in {"get", "dec", "create", "add", "isTaken", "start", "decWrite", "pop", "empty", "asleep", "clearing"} :
          RouteGoes(p)
    BY <1>14 DEF RouteDecWrite, runnerVars, blockVars
  <2> QED
    BY <1>b, <1>c, <2>1
<1>15. ASSUME NEW r \in Runner, Take(r) PROVE WokenSleeps'
  <2>1. isLocked' = [isLocked EXCEPT ![r] = TRUE] /\ UNCHANGED route
    BY <1>15 DEF Take, otherVars, loopVars
  <2> QED
    BY <1>a, <2>1 DEF WokenSleeps, Served
<1>16. ASSUME NEW r \in Runner, StopperClears(r) PROVE WokenSleeps'
  <2>1. stopper[r] = "clearing" /\ isLocked' = [isLocked EXCEPT ![r] = FALSE] /\ UNCHANGED route
    BY <1>16 DEF StopperClears, otherVars, loopVars
  <2>2. finished[r]
    BY <2>1 DEF Stopping, ToldIsStoped
  <2> QED
    BY <1>a, <2>1, <2>2 DEF WokenSleeps, Served
<1>17. ASSUME RouteOversleeps PROVE WokenSleeps'
  <2>1. UNCHANGED isLocked /\ \E p \in {"asleep"} : RouteGoes(p)
    BY <1>17 DEF RouteOversleeps, runnerVars, blockVars
  <2> QED
    BY <1>b, <1>c, <2>1
<1> QED
  BY <1>17, <1>1, <1>2, <1>3, <1>4, <1>5, <1>6, <1>7, <1>8, <1>9, <1>10, <1>11, <1>12, <1>13, <1>14, <1>15,
     <1>16, Changes

LEMMA StoppingInit == Init => Stopping
BY DEF Init, Stopping, StopedLeft, WaitingIsAwaited, StopOnce, ToldIsStoped, ExitIsLate,
   KnownUntilStoped, MadeOnce, WokenSleeps, Waking

LEMMA StoppingStep ==
  ASSUME Types, Begun, RequestsCounted, Stopping, [Next]_vars
  PROVE  Stopping'
BY StopedLeftStep, WaitingIsAwaitedStep, StopOnceStep, ToldIsStopedStep, ExitIsLateStep,
   KnownUntilStopedStep, MadeOnceStep, WokenSleepsStep DEF Stopping

-----------------------------------------------------------------------------
(* The runners that are awake.                                             *)

Num(k) == Cardinality({r \in RunnersOf(k) : Awake(r)})
Bit(b) == IF b THEN 1 ELSE 0

LEMMA FewRunners ==
  ASSUME NEW k \in Key, NEW A \in SUBSET RunnersOf(k)
  PROVE  IsFiniteSet(A) /\ Cardinality(A) \in Nat
<1>1. IsFiniteSet({k}) /\ IsFiniteSet(Tile)
  BY FS_Singleton, NetAssumption
<1>2. IsFiniteSet(RunnersOf(k))
  BY <1>1, FS_Product DEF RunnersOf
<1> QED
  BY <1>2, FS_Subset, FS_CardinalityType

\* Two sets that differ in one runner at most.
LEMMA OneDiffers ==
  ASSUME NEW k \in Key, NEW A \in SUBSET RunnersOf(k), NEW B \in SUBSET RunnersOf(k),
         NEW r, A \ {r} = B \ {r}
  PROVE  Cardinality(B) = Cardinality(A) + Bit(r \in B) - Bit(r \in A)
<1>1. /\ IsFiniteSet(A) /\ Cardinality(A) \in Nat
      /\ IsFiniteSet(B) /\ Cardinality(B) \in Nat
  BY FewRunners
<1>2. /\ Cardinality(A \ {r}) = IF r \in A THEN Cardinality(A) - 1 ELSE Cardinality(A)
      /\ Cardinality(B \ {r}) = IF r \in B THEN Cardinality(B) - 1 ELSE Cardinality(B)
  BY <1>1, FS_RemoveElement
<1> QED
  BY <1>1, <1>2 DEF Bit

LEMMA NumStep ==
  ASSUME NEW r \in Runner, \A q \in Runner : q # r => (Awake(q)' <=> Awake(q)), NEW k \in Key
  PROVE  /\ Num(k) \in Nat /\ Num(k)' \in Nat
         /\ Num(k)' = Num(k) + IF KeyOf(r) = k THEN Bit(Awake(r)') - Bit(Awake(r)) ELSE 0
<1> DEFINE A == {q \in RunnersOf(k) : Awake(q)}
           B == {q \in RunnersOf(k) : Awake(q)'}
<1>1. A \ {r} = B \ {r} /\ A \subseteq RunnersOf(k) /\ B \subseteq RunnersOf(k)
  BY RunnerFacts
<1>2. Num(k) = Cardinality(A) /\ Num(k)' = Cardinality(B)
  BY DEF Num
<1>3. /\ KeyOf(r) = k => (r \in A <=> Awake(r)) /\ (r \in B <=> Awake(r)')
      /\ KeyOf(r) # k => r \notin A /\ r \notin B
  BY RunnerFacts
<1> HIDE DEF A, B
<1>4. Cardinality(B) = Cardinality(A) + Bit(r \in B) - Bit(r \in A)
  BY <1>1, OneDiffers
<1>5. Cardinality(A) \in Nat /\ Cardinality(B) \in Nat
  BY <1>1, FewRunners
<1> QED
  BY <1>2, <1>3, <1>4, <1>5 DEF Bit

LEMMA WorkersStep ==
  ASSUME NEW r \in Runner, \A q \in Runner : q # r => (Works(q)' <=> Works(q)), NEW k \in Key
  PROVE  /\ Cardinality(WorkersOf(k)) \in Nat /\ Cardinality(WorkersOf(k)') \in Nat
         /\ Cardinality(WorkersOf(k)') =
              Cardinality(WorkersOf(k)) + IF KeyOf(r) = k THEN Bit(Works(r)') - Bit(Works(r)) ELSE 0
<1> DEFINE A == {q \in RunnersOf(k) : Works(q)}
           B == {q \in RunnersOf(k) : Works(q)'}
<1>1. A \ {r} = B \ {r} /\ A \subseteq RunnersOf(k) /\ B \subseteq RunnersOf(k)
  BY RunnerFacts
<1>2. WorkersOf(k) = A /\ WorkersOf(k)' = B
  BY DEF WorkersOf
<1>3. /\ KeyOf(r) = k => (r \in A <=> Works(r)) /\ (r \in B <=> Works(r)')
      /\ KeyOf(r) # k => r \notin A /\ r \notin B
  BY RunnerFacts
<1> HIDE DEF A, B
<1>4. Cardinality(B) = Cardinality(A) + Bit(r \in B) - Bit(r \in A)
  BY <1>1, OneDiffers
<1>5. Cardinality(A) \in Nat /\ Cardinality(B) \in Nat
  BY <1>1, FewRunners
<1> QED
  BY <1>2, <1>3, <1>4, <1>5 DEF Bit

Counted == RunnersCounted /\ WorkersCounted

\* A step of one runner, or of the routing loop for it, keeps the counters right if
\* what it adds to the counter is the runner, awake or being woken; unless the
\* runner is to end.
LEMMA CountStep ==
  ASSUME Types, Counted, NEW r \in Runner, NEW j, j = KeyOf(r),
         \A q \in Runner : q # r => pc'[q] = pc[q] /\ finished'[q] = finished[q],
         finished[r] => finished'[r],
         \A k \in Key : k # j => runCount'[k] = runCount[k] /\ (BeingWoken(k)' <=> BeingWoken(k)),
         runCount'[j] \in Int,
         \/ finished'[r]
         \/ runCount'[j] = runCount[j] + Bit(Awake(r)') - Bit(Awake(r)) +
             Bit(BeingWoken(j)') - Bit(BeingWoken(j)),
         runCount'[j] >= runCount[j] + Bit(Works(r)') - Bit(Works(r)) +
           Bit(BeingWoken(j)') - Bit(BeingWoken(j))
  PROVE  Counted'
<1>1. runCount \in [Key -> Int] /\ j \in Key
  BY RunnerFacts DEF Types, ManagerTypes
<1>2. \A k \in Key : /\ Num(k) \in Nat /\ Num(k)' \in Nat
                     /\ Num(k)' = Num(k) + IF j = k THEN Bit(Awake(r)') - Bit(Awake(r)) ELSE 0
  <2>1. \A q \in Runner : q # r => (Awake(q)' <=> Awake(q))
    BY DEF Awake
  <2> QED
    BY <2>1, NumStep
<1>3. \A k \in Key : /\ Cardinality(WorkersOf(k)) \in Nat /\ Cardinality(WorkersOf(k)') \in Nat
                     /\ Cardinality(WorkersOf(k)') =
                          Cardinality(WorkersOf(k)) + IF j = k THEN Bit(Works(r)') - Bit(Works(r)) ELSE 0
  <2>1. \A q \in Runner : q # r => (Works(q)' <=> Works(q))
    BY DEF Works, Awake
  <2> QED
    BY <2>1, WorkersStep
<1>4. ASSUME NEW k \in Key, \A q \in RunnersOf(k) : ~finished'[q]
      PROVE  runCount'[k] = Num(k)' + Bit(BeingWoken(k)')
  <2>1. \A q \in RunnersOf(k) : ~finished[q]
    BY <1>4, RunnerFacts
  <2>2. runCount[k] = Num(k) + Bit(BeingWoken(k))
    BY <2>1 DEF Counted, RunnersCounted, Num, Bit
  <2>3. CASE k = j
    <3>1. ~finished'[r]
      BY <1>4, <2>3, RunnerFacts
    <3> QED
      BY <1>1, <1>2, <2>2, <2>3, <3>1 DEF Bit
  <2>4. CASE k # j
    BY <1>1, <1>2, <2>2, <2>4 DEF Bit
  <2> QED
    BY <2>3, <2>4
<1>5. ASSUME NEW k \in Key PROVE runCount'[k] >= Cardinality(WorkersOf(k)') + Bit(BeingWoken(k)')
  <2>1. runCount[k] >= Cardinality(WorkersOf(k)) + Bit(BeingWoken(k))
    BY DEF Counted, WorkersCounted, Bit
  <2>2. CASE k = j
    BY <1>1, <1>3, <2>1, <2>2 DEF Bit
  <2>3. CASE k # j
    BY <1>1, <1>3, <2>1, <2>3 DEF Bit
  <2> QED
    BY <2>2, <2>3
<1> QED
  BY <1>4, <1>5 DEF Counted, RunnersCounted, WorkersCounted, Num, Bit

\* A step that does not concern the counter.
LEMMA CountSame ==
  ASSUME Types, Counted, UNCHANGED <<pc, finished, runCount>>,
         \A k \in Key : BeingWoken(k)' <=> BeingWoken(k)
  PROVE  Counted'
<1>1. \A r \in Runner : (Awake(r)' <=> Awake(r)) /\ (Works(r)' <=> Works(r))
  BY DEF Awake, Works
<1>2. ASSUME NEW k \in Key
      PROVE  /\ {r \in RunnersOf(k) : Awake(r)}' = {r \in RunnersOf(k) : Awake(r)}
             /\ WorkersOf(k)' = WorkersOf(k)
  BY <1>1, RunnerFacts DEF WorkersOf
<1> QED
  BY <1>2 DEF Counted, RunnersCounted, WorkersCounted

\* The counter of runners goes with the runners that are awake.
LEMMA CountedStep ==
  ASSUME Types, Begun, Stopping, Counted, [Next]_vars
  PROVE  Counted'
<1>a. /\ runCount \in [Key -> Int] /\ finished \in [Runner -> BOOLEAN]
      /\ route.at \in RoutePlaces
  BY DEF Types, ManagerTypes, HelperTypes, LoopTypes
<1>b. ASSUME NEW p, RouteGoes(p), UNCHANGED <<pc, finished, runCount>>,
             route.at \in {"release", "sending"} <=> p \in {"release", "sending"}
      PROVE  Counted'
  <2>1. route'.at = p /\ route'.msg = route.msg
    BY <1>b, RouteAt
  <2> QED
    BY <1>b, <2>1, CountSame DEF BeingWoken
<1>c. ASSUME NEW r \in Runner, NEW p, Goes(r, p), UNCHANGED <<finished, runCount, route>>,
             \/ Awake(r) /\ Works(r) /\ p \notin {"none", "new", "take", "receiving", "done"}
             \/ ~Awake(r) /\ p \in {"none", "new", "take", "receiving", "done"}
             \/ finished[r] /\ p \in {"done", "loop"}
      PROVE  Counted'
  <2>1. pc'[r] = p /\ \A q \in Runner : q # r => pc'[q] = pc[q]
    BY <1>c, PcAt
  <2>2. KeyOf(r) \in Key /\ runCount[KeyOf(r)] \in Int
    BY <1>a, RunnerFacts
  <2>3. \A k \in Key : BeingWoken(k)' <=> BeingWoken(k)
    BY <1>c DEF BeingWoken
  <2>4. finished'[r] \/ Bit(Awake(r)') = Bit(Awake(r))
    BY <1>c, <2>1 DEF Awake, Bit
  <2>5. Bit(Works(r)') <= Bit(Works(r))
    BY <1>c, <2>1 DEF Awake, Works, Bit
  <2>6. /\ Bit(Works(r)') \in Int /\ Bit(Works(r)) \in Int /\ Bit(Awake(r)) \in Int
        /\ Bit(BeingWoken(KeyOf(r))) \in Int /\ Bit(BeingWoken(KeyOf(r))') = Bit(BeingWoken(KeyOf(r)))
    BY <2>2, <2>3 DEF Bit
  <2>7. /\ runCount'[KeyOf(r)] \in Int
        /\ \/ finished'[r]
           \/ runCount'[KeyOf(r)] = runCount[KeyOf(r)] + Bit(Awake(r)') - Bit(Awake(r))
                                      + Bit(BeingWoken(KeyOf(r))') - Bit(BeingWoken(KeyOf(r)))
        /\ runCount'[KeyOf(r)] >= runCount[KeyOf(r)] + Bit(Works(r)') - Bit(Works(r))
                                    + Bit(BeingWoken(KeyOf(r))') - Bit(BeingWoken(KeyOf(r)))
    BY <1>c, <2>2, <2>4, <2>5, <2>6
  <2> QED
    BY <1>c, <2>1, <2>2, <2>3, <2>7, CountStep
<1>d. ASSUME NEW r \in Runner, finished' = [finished EXCEPT ![r] = TRUE], UNCHANGED <<pc, runCount, route>>
      PROVE  Counted'
  <2>1. finished'[r] /\ \A q \in Runner : q # r => finished'[q] = finished[q]
    BY <1>a, <1>d
  <2>2. KeyOf(r) \in Key /\ runCount[KeyOf(r)] \in Int
    BY <1>a, RunnerFacts
  <2>3. \A k \in Key : BeingWoken(k)' <=> BeingWoken(k)
    BY <1>d DEF BeingWoken
  <2>4. /\ Bit(Works(r)') \in Int /\ Bit(Works(r)) \in Int /\ Bit(Works(r)') <= Bit(Works(r))
        /\ Bit(BeingWoken(KeyOf(r))') = Bit(BeingWoken(KeyOf(r))) /\ Bit(BeingWoken(KeyOf(r))) \in Int
    BY <1>d, <2>1, <2>2, <2>3 DEF Awake, Works, Bit
  <2>5. /\ runCount'[KeyOf(r)] \in Int
        /\ runCount'[KeyOf(r)] >= runCount[KeyOf(r)] + Bit(Works(r)') - Bit(Works(r))
                                    + Bit(BeingWoken(KeyOf(r))') - Bit(BeingWoken(KeyOf(r)))
    BY <1>d, <2>2, <2>4
  <2> QED
    BY <1>d, <2>1, <2>2, <2>3, <2>5, CountStep
<1>1. ASSUME UNCHANGED <<runCount, route, pc, finished>> PROVE Counted'
  BY <1>1, CountSame DEF BeingWoken
<1>2. ASSUME RoutePop PROVE Counted'
  <2>1. route.at \in {"pop", "empty"} /\ route'.at = "find" /\ UNCHANGED <<pc, finished, runCount>>
    BY <1>2 DEF RoutePop, countVars, runnerVars
  <2> QED
    BY <2>1, CountSame DEF BeingWoken
<1>3. ASSUME RouteFind PROVE Counted'
  <2>1. /\ UNCHANGED <<pc, finished, runCount>>
        /\ route.at \in {"find", "get", "add", "isTaken", "clearing", "dec", "decWrite"}
        /\ \E p \in {"get", "dec", "create", "add", "isTaken", "setRunning", "decWrite", "pop", "empty"} : RouteGoes(p)
    BY <1>3 DEF RouteFind, sharedVars, countVars, runnerVars
  <2> QED
    BY <1>b, <2>1
<1>4. ASSUME RouteGet PROVE Counted'
  <2>1. /\ UNCHANGED <<pc, finished, runCount>>
        /\ route.at \in {"find", "get", "add", "isTaken", "clearing", "dec", "decWrite"}
        /\ \E p \in {"get", "dec", "create", "add", "isTaken", "setRunning", "decWrite", "pop", "empty"} : RouteGoes(p)
    BY <1>4 DEF RouteGet, sharedVars, countVars, runnerVars
  <2> QED
    BY <1>b, <2>1
<1>5. ASSUME RouteAdd PROVE Counted'
  <2>1. /\ UNCHANGED <<pc, finished, runCount>>
        /\ route.at \in {"find", "get", "add", "isTaken", "clearing", "dec", "decWrite"}
        /\ \E p \in {"get", "dec", "create", "add", "isTaken", "setRunning", "decWrite", "pop", "empty"} : RouteGoes(p)
    BY <1>5 DEF RouteAdd, sharedVars, countVars, runnerVars
  <2> QED
    BY <1>b, <2>1
<1>6. ASSUME RouteIsTaken PROVE Counted'
  <2>1. /\ UNCHANGED <<pc, finished, runCount>>
        /\ route.at \in {"find", "get", "add", "isTaken", "clearing", "dec", "decWrite"}
        /\ \E p \in {"get", "dec", "create", "add", "isTaken", "setRunning", "decWrite", "pop", "empty"} : RouteGoes(p)
    BY <1>6 DEF RouteIsTaken, sharedVars, countVars, runnerVars
  <2> QED
    BY <1>b, <2>1
<1>7. ASSUME RouteSetRunning PROVE Counted'
  <2>1. /\ Served \in Runner /\ KeyOf(Served) = route.msg.key /\ UNCHANGED <<pc, finished>>
        /\ route.at = "setRunning" /\ RouteGoes("release")
        /\ runCount' = [runCount EXCEPT ![route.msg.key] = @ + 1]
    BY <1>7, ServedFacts DEF RouteSetRunning, runnerVars
  <2>r. PICK r \in Runner : r = Served
    BY <2>1
  <2>2. route'.at = "release" /\ route'.msg = route.msg
    BY <2>r, <2>1, RouteAt
  <2>3. \A k \in Key : ~BeingWoken(k) /\ (BeingWoken(k)' <=> k = route.msg.key)
    BY <2>r, <2>1, <2>2 DEF BeingWoken
  <2>4. (Awake(r)' <=> Awake(r)) /\ (Works(r)' <=> Works(r))
    BY <2>r, <2>1 DEF Awake, Works
  <2>5. KeyOf(r) \in Key /\ \A k \in Key : runCount[k] \in Int /\
        runCount'[k] = IF k = route.msg.key THEN runCount[k] + 1 ELSE runCount[k]
    BY <1>a, <2>r, <2>1, RunnerFacts
  <2> QED
    BY <2>r, <2>1, <2>3, <2>4, <2>5, CountStep DEF Bit
<1>8. ASSUME RouteRelease PROVE Counted'
  <2>1. /\ Served \in Runner /\ KeyOf(Served) = route.msg.key /\ UNCHANGED <<pc, finished, runCount>>
        /\ route.at = "release"
        /\ RouteGoes("sending") \/ (~isLocked[Served] /\ RouteGoes("dec"))
    BY <1>8, ServedFacts DEF RouteRelease, sharedVars, countVars
  <2>r. PICK r \in Runner : r = Served
    BY <2>1
  <2>2. CASE RouteGoes("sending")
    BY <1>b, <2>1, <2>2
  <2>3. CASE ~isLocked[r] /\ RouteGoes("dec")
    <3>1. route'.at = "dec" /\ route'.msg = route.msg
      BY <2>3, RouteAt
    <3>2. finished[r]
      BY <2>r, <2>1, <2>3 DEF Stopping, WokenSleeps, Waking
    <3>3. \A k \in Key : ~BeingWoken(k)' /\ (BeingWoken(k) <=> k = route.msg.key)
      BY <2>r, <2>1, <3>1 DEF BeingWoken
    <3>4. (Awake(r)' <=> Awake(r)) /\ (Works(r)' <=> Works(r))
      BY <2>r, <2>1 DEF Awake, Works
    <3>5. KeyOf(r) \in Key /\ runCount[KeyOf(r)] \in Int
      BY <1>a, <2>r, <2>1, RunnerFacts
    <3> QED
      BY <2>r, <2>1, <3>2, <3>3, <3>4, <3>5, CountStep DEF Bit
  <2> QED
    BY <2>r, <2>1, <2>2, <2>3
<1>9. ASSUME RouteWakes PROVE Counted'
  <2>1. /\ Served \in Runner /\ KeyOf(Served) = route.msg.key /\ UNCHANGED <<finished, runCount>>
        /\ route.at = "sending" /\ RouteGoes("clearing") /\ pc[Served] = "receiving" /\ Goes(Served, "loop")
    BY <1>9, ServedFacts DEF RouteWakes, Goes, sharedVars, countVars, runnerVars
  <2>r. PICK r \in Runner : r = Served
    BY <2>1
  <2>2. route'.at = "clearing" /\ route'.msg = route.msg
    BY <2>r, <2>1, RouteAt
  <2>3. \A k \in Key : ~BeingWoken(k)' /\ (BeingWoken(k) <=> k = route.msg.key)
    BY <2>r, <2>1, <2>2 DEF BeingWoken
  <2>4. pc'[r] = "loop" /\ \A q \in Runner : q # r => pc'[q] = pc[q]
    BY <2>r, <2>1, PcAt
  <2>5. ~Awake(r) /\ Awake(r)' /\ ~Works(r)
    BY <2>r, <2>1, <2>4 DEF Awake, Works
  <2>6. KeyOf(r) \in Key /\ runCount[KeyOf(r)] \in Int
    BY <1>a, <2>r, <2>1, RunnerFacts
  <2> QED
    BY <2>r, <2>1, <2>3, <2>4, <2>5, <2>6, CountStep DEF Bit
<1>10. ASSUME RouteClears PROVE Counted'
  <2>1. /\ UNCHANGED <<pc, finished, runCount>>
        /\ route.at \in {"find", "get", "add", "isTaken", "clearing", "dec", "decWrite"}
        /\ \E p \in {"get", "dec", "create", "add", "isTaken", "setRunning", "decWrite", "pop", "empty"} : RouteGoes(p)
    BY <1>10 DEF RouteClears, sharedVars, countVars, runnerVars
  <2> QED
    BY <1>b, <2>1
<1>11. ASSUME RouteCreate PROVE Counted'
  <2>1. /\ Served \in Runner /\ Goes(Served, "new") /\ UNCHANGED <<finished, runCount>>
        /\ route.at = "create" /\ RouteGoes("start")
    BY <1>11, ServedFacts DEF RouteCreate, Goes, sharedVars, countVars
  <2>r. PICK r \in Runner : r = Served
    BY <2>1
  <2>2. pc[r] = "none"
    BY <2>r, <2>1 DEF Stopping, MadeOnce
  <2>3. pc'[r] = "new" /\ \A q \in Runner : q # r => pc'[q] = pc[q]
    BY <2>r, <2>1, PcAt
  <2>4. \A k \in Key : ~BeingWoken(k) /\ ~BeingWoken(k)'
    BY <2>r, <2>1, RouteAt DEF BeingWoken
  <2>5. ~Awake(r) /\ ~Awake(r)' /\ ~Works(r) /\ ~Works(r)'
    BY <2>2, <2>3 DEF Awake, Works
  <2>6. KeyOf(r) \in Key /\ runCount[KeyOf(r)] \in Int
    BY <1>a, <2>r, <2>1, RunnerFacts
  <2> QED
    BY <2>r, <2>1, <2>3, <2>4, <2>5, <2>6, CountStep DEF Bit
<1>12. ASSUME RouteStart PROVE Counted'
  <2>1. /\ Served \in Runner /\ KeyOf(Served) = route.msg.key /\ UNCHANGED finished
        /\ route.at = "start" /\ RouteGoes("dec") /\ Goes(Served, "loop")
        /\ runCount' = [runCount EXCEPT ![route.msg.key] = @ + 1]
    BY <1>12, ServedFacts DEF RouteStart, Goes, runnerVars
  <2>r. PICK r \in Runner : r = Served
    BY <2>1
  <2>2. route'.at = "dec" /\ route'.msg = route.msg
    BY <2>r, <2>1, RouteAt
  <2>3. \A k \in Key : ~BeingWoken(k)' /\ ~BeingWoken(k)
    BY <2>r, <2>1, <2>2 DEF BeingWoken
  <2>4. pc[r] = "new" /\ pc'[r] = "loop" /\ \A q \in Runner : q # r => pc'[q] = pc[q]
    BY <2>r, <2>1, PcAt DEF Stopping, MadeOnce
  <2>5. ~Awake(r) /\ Awake(r)' /\ ~Works(r)
    BY <2>4 DEF Awake, Works
  <2>6. KeyOf(r) \in Key /\ \A k \in Key : runCount[k] \in Int /\
        runCount'[k] = IF k = route.msg.key THEN runCount[k] + 1 ELSE runCount[k]
    BY <1>a, <2>r, <2>1, RunnerFacts
  <2> QED
    BY <2>r, <2>1, <2>3, <2>4, <2>5, <2>6, CountStep DEF Bit
<1>13. ASSUME RouteDecCheck PROVE Counted'
  <2>1. /\ UNCHANGED <<pc, finished, runCount>>
        /\ route.at \in {"find", "get", "add", "isTaken", "clearing", "dec", "decWrite"}
        /\ \E p \in {"get", "dec", "create", "add", "isTaken", "setRunning", "decWrite", "pop", "empty"} : RouteGoes(p)
    BY <1>13 DEF RouteDecCheck, sharedVars, countVars, runnerVars
  <2> QED
    BY <1>b, <2>1
<1>14. ASSUME RouteDecWrite PROVE Counted'
  <2>1. /\ UNCHANGED <<pc, finished, runCount>>
        /\ route.at \in {"find", "get", "add", "isTaken", "clearing", "dec", "decWrite"}
        /\ \E p \in {"get", "dec", "create", "add", "isTaken", "setRunning", "decWrite", "pop", "empty"} : RouteGoes(p)
    BY <1>14 DEF RouteDecWrite, sharedVars, countVars, runnerVars
  <2> QED
    BY <1>b, <2>1
<1>15. ASSUME NEW r \in Runner, Loop(r) PROVE Counted'
  <2>1. /\ pc[r] = "loop" /\ UNCHANGED <<finished, runCount, route>>
        /\ (finished[r] /\ Goes(r, "done")) \/ (~finished[r] /\ Goes(r, "dequeue"))
    BY <1>15 DEF Loop, otherVars, loopVars, sharedVars, countVars, runnerVars
  <2>2. ~finished[r] => Awake(r) /\ Works(r)
    BY <2>1 DEF Awake, Works
  <2> QED
    BY <1>c, <2>1, <2>2
<1>16. ASSUME NEW r \in Runner, DequeueNothing(r) PROVE Counted'
  <2>1. /\ pc[r] \in {"dequeue", "stopRun", "stopReq", "bound", "tell", "settle", "relax", "idle"}
        /\ UNCHANGED <<finished, runCount, route>>
        /\ \E p \in {"loop", "idle", "stopRun", "stopReq", "bound", "tell", "settle", "relax",
            "idleWrite"} : Goes(r, p)
    BY <1>16 DEF DequeueNothing, otherVars, loopVars, sharedVars, countVars, runnerVars
  <2>2. Awake(r) /\ Works(r)
    BY <2>1 DEF Awake, Works
  <2> QED
    BY <1>c, <2>1, <2>2
<1>17. ASSUME NEW r \in Runner, Dequeue(r) PROVE Counted'
  <2>1. /\ pc[r] \in {"dequeue", "stopRun", "stopReq", "bound", "tell", "settle", "relax", "idle"}
        /\ UNCHANGED <<finished, runCount, route>>
        /\ \E p \in {"loop", "idle", "stopRun", "stopReq", "bound", "tell", "settle", "relax",
            "idleWrite"} : Goes(r, p)
    BY <1>17 DEF Dequeue, otherVars, loopVars, sharedVars, countVars, runnerVars
  <2>2. Awake(r) /\ Works(r)
    BY <2>1 DEF Awake, Works
  <2> QED
    BY <1>c, <2>1, <2>2
<1>18. ASSUME NEW r \in Runner, StopReadRun(r) PROVE Counted'
  <2>1. /\ pc[r] \in {"dequeue", "stopRun", "stopReq", "bound", "tell", "settle", "relax", "idle"}
        /\ UNCHANGED <<finished, runCount, route>>
        /\ \E p \in {"loop", "idle", "stopRun", "stopReq", "bound", "tell", "settle", "relax",
            "idleWrite"} : Goes(r, p)
    BY <1>18 DEF StopReadRun, otherVars, loopVars, sharedVars, countVars, runnerVars
  <2>2. Awake(r) /\ Works(r)
    BY <2>1 DEF Awake, Works
  <2> QED
    BY <1>c, <2>1, <2>2
<1>19. ASSUME NEW r \in Runner, StopReadReq(r) PROVE Counted'
  <2>1. /\ pc[r] \in {"dequeue", "stopRun", "stopReq", "bound", "tell", "settle", "relax", "idle"}
        /\ UNCHANGED <<finished, runCount, route>>
        /\ \E p \in {"loop", "idle", "stopRun", "stopReq", "bound", "tell", "settle", "relax",
            "idleWrite"} : Goes(r, p)
    BY <1>19 DEF StopReadReq, otherVars, loopVars, sharedVars, countVars, runnerVars
  <2>2. Awake(r) /\ Works(r)
    BY <2>1 DEF Awake, Works
  <2> QED
    BY <1>c, <2>1, <2>2
<1>20. ASSUME NEW r \in Runner, NEW t \in Tile, SpreadBound(r, t) PROVE Counted'
  <2>1. /\ pc[r] \in {"dequeue", "stopRun", "stopReq", "bound", "tell", "settle", "relax", "idle"}
        /\ UNCHANGED <<finished, runCount, route>>
        /\ \E p \in {"loop", "idle", "stopRun", "stopReq", "bound", "tell", "settle", "relax",
            "idleWrite"} : Goes(r, p)
    BY <1>20 DEF SpreadBound, otherVars, loopVars, sharedVars, countVars, runnerVars
  <2>2. Awake(r) /\ Works(r)
    BY <2>1 DEF Awake, Works
  <2> QED
    BY <1>c, <2>1, <2>2
<1>21. ASSUME NEW r \in Runner, TellBound(r) PROVE Counted'
  <2>1. /\ pc[r] \in {"dequeue", "stopRun", "stopReq", "bound", "tell", "settle", "relax", "idle"}
        /\ UNCHANGED <<finished, runCount, route>>
        /\ \E p \in {"loop", "idle", "stopRun", "stopReq", "bound", "tell", "settle", "relax",
            "idleWrite"} : Goes(r, p)
    BY <1>21 DEF TellBound, otherVars, loopVars, sharedVars, countVars, runnerVars
  <2>2. Awake(r) /\ Works(r)
    BY <2>1 DEF Awake, Works
  <2> QED
    BY <1>c, <2>1, <2>2
<1>22. ASSUME NEW r \in Runner, BoundSpread(r) PROVE Counted'
  <2>1. /\ pc[r] \in {"dequeue", "stopRun", "stopReq", "bound", "tell", "settle", "relax", "idle"}
        /\ UNCHANGED <<finished, runCount, route>>
        /\ \E p \in {"loop", "idle", "stopRun", "stopReq", "bound", "tell", "settle", "relax",
            "idleWrite"} : Goes(r, p)
    BY <1>22 DEF BoundSpread, otherVars, loopVars, sharedVars, countVars, runnerVars
  <2>2. Awake(r) /\ Works(r)
    BY <2>1 DEF Awake, Works
  <2> QED
    BY <1>c, <2>1, <2>2
<1>23. ASSUME NEW r \in Runner, Settle(r) PROVE Counted'
  <2>1. /\ pc[r] \in {"dequeue", "stopRun", "stopReq", "bound", "tell", "settle", "relax", "idle"}
        /\ UNCHANGED <<finished, runCount, route>>
        /\ \E p \in {"loop", "idle", "stopRun", "stopReq", "bound", "tell", "settle", "relax",
            "idleWrite"} : Goes(r, p)
    BY <1>23 DEF Settle, otherVars, loopVars, sharedVars, countVars, runnerVars
  <2>2. Awake(r) /\ Works(r)
    BY <2>1 DEF Awake, Works
  <2> QED
    BY <1>c, <2>1, <2>2
<1>24. ASSUME NEW r \in Runner, Relaxed(r) PROVE Counted'
  <2>1. /\ pc[r] \in {"dequeue", "stopRun", "stopReq", "bound", "tell", "settle", "relax", "idle"}
        /\ UNCHANGED <<finished, runCount, route>>
        /\ \E p \in {"loop", "idle", "stopRun", "stopReq", "bound", "tell", "settle", "relax",
            "idleWrite"} : Goes(r, p)
    BY <1>24 DEF Relaxed, otherVars, loopVars, sharedVars, countVars, runnerVars
  <2>2. Awake(r) /\ Works(r)
    BY <2>1 DEF Awake, Works
  <2> QED
    BY <1>c, <2>1, <2>2
<1>25. ASSUME NEW r \in Runner, IdleCheck(r) PROVE Counted'
  <2>1. /\ pc[r] \in {"dequeue", "stopRun", "stopReq", "bound", "tell", "settle", "relax", "idle"}
        /\ UNCHANGED <<finished, runCount, route>>
        /\ \E p \in {"loop", "idle", "stopRun", "stopReq", "bound", "tell", "settle", "relax",
            "idleWrite"} : Goes(r, p)
    BY <1>25 DEF IdleCheck, otherVars, loopVars, sharedVars, countVars, runnerVars
  <2>2. Awake(r) /\ Works(r)
    BY <2>1 DEF Awake, Works
  <2> QED
    BY <1>c, <2>1, <2>2
<1>26. ASSUME NEW r \in Runner, IdleWrite(r) PROVE Counted'
  <2>1. /\ pc[r] = "idleWrite" /\ UNCHANGED <<finished, route>> /\ Goes(r, "take")
        /\ runCount' = [runCount EXCEPT ![KeyOf(r)] = @ - 1]
    BY <1>26 DEF IdleWrite, otherVars, loopVars, runnerVars
  <2>2. pc'[r] = "take" /\ \A q \in Runner : q # r => pc'[q] = pc[q]
    BY <2>1, PcAt
  <2>3. Awake(r) /\ Works(r) /\ ~Awake(r)' /\ ~Works(r)'
    BY <2>1, <2>2 DEF Awake, Works
  <2>4. \A k \in Key : BeingWoken(k)' <=> BeingWoken(k)
    BY <2>1 DEF BeingWoken
  <2>5. KeyOf(r) \in Key /\ \A k \in Key : runCount[k] \in Int /\
        runCount'[k] = IF k = KeyOf(r) THEN runCount[k] - 1 ELSE runCount[k]
    BY <1>a, <2>1, RunnerFacts
  <2> QED
    BY <2>1, <2>2, <2>3, <2>4, <2>5, CountStep DEF Bit
<1>27. ASSUME NEW r \in Runner, Take(r) PROVE Counted'
  <2>1. pc[r] = "take" /\ UNCHANGED <<finished, runCount, route>> /\ Goes(r, "receiving")
    BY <1>27 DEF Take, otherVars, loopVars, sharedVars, countVars
  <2>2. ~Awake(r)
    BY <2>1 DEF Awake
  <2> QED
    BY <1>c, <2>1, <2>2
<1>28. ASSUME NEW r \in Runner, SetFinished(r) PROVE Counted'
  <2>1. finished' = [finished EXCEPT ![r] = TRUE] /\ UNCHANGED <<pc, runCount, route>>
    BY <1>28 DEF SetFinished, otherVars, loopVars, sharedVars, countVars
  <2> QED
    BY <1>d, <2>1
<1>29. ASSUME NEW r \in Runner, StopperWakes(r) PROVE Counted'
  <2>1. stopper[r] = "sending" /\ UNCHANGED <<finished, runCount, route>> /\ Goes(r, "loop")
    BY <1>29 DEF StopperWakes, otherVars, loopVars, sharedVars, countVars
  <2>2. finished[r]
    BY <2>1 DEF Stopping, ToldIsStoped
  <2> QED
    BY <1>c, <2>1, <2>2
<1>30. ASSUME NEW t \in Tile, ExitRunner(t) PROVE Counted'
  <2>1. UNCHANGED <<pc, runCount, route>>
    BY <1>30 DEF ExitRunner, sharedVars, countVars
  <2>2. UNCHANGED finished \/ \E r \in Runner : finished' = [finished EXCEPT ![r] = TRUE]
    BY <1>30, WalkerElsewhere, RunnerFacts
  <2> QED
    BY <1>1, <1>d, <2>1, <2>2
<1>o. ASSUME RouteOversleeps PROVE Counted'
  <2>1. route.at = "empty" /\ UNCHANGED <<pc, finished, runCount>> /\ RouteGoes("asleep")
    BY <1>o DEF RouteOversleeps, sharedVars, countVars, runnerVars
  <2> QED
    BY <1>b, <2>1
<1> QED
  BY <1>o, <1>1, <1>2, <1>3, <1>4, <1>5, <1>6, <1>7, <1>8, <1>9, <1>10, <1>11, <1>12, <1>13, <1>14, <1>15,
     <1>16, <1>17, <1>18, <1>19, <1>20, <1>21, <1>22, <1>23, <1>24, <1>25, <1>26, <1>27, <1>28,
     <1>29, <1>30, Changes

LEMMA CountedInit == Init => RequestsCounted /\ Counted
<1> SUFFICES ASSUME Init PROVE RequestsCounted /\ Counted
  OBVIOUS
<1>1. ASSUME NEW k \in Key
      PROVE  /\ {i \in 1..Len(routingChan) : routingChan[i].key = k} = {} /\ ~Serving(k) /\ ~BeingWoken(k)
             /\ {r \in RunnersOf(k) : Awake(r)} = {} /\ WorkersOf(k) = {}
             /\ reqCount[k] = 0 /\ runCount[k] = 0
  <2>1. {i \in 1..Len(routingChan) : routingChan[i].key = k} = {} /\ reqCount[k] = 0 /\ runCount[k] = 0
    BY DEF Init
  <2>2. ~Serving(k) /\ ~BeingWoken(k)
    BY DEF Init, Serving, Unserved, BeingWoken
  <2>3. \A r \in RunnersOf(k) : ~Awake(r) /\ ~Works(r)
    BY RunnerFacts DEF Init, Awake, Works
  <2> QED
    BY <2>1, <2>2, <2>3 DEF WorkersOf
<1>2. Cardinality({}) = 0
  BY FS_EmptySet
<1>3. ASSUME NEW k \in Key
      PROVE  /\ reqCount[k] = Queued(k) + IF Serving(k) THEN 1 ELSE 0
             /\ runCount[k] = Cardinality({r \in RunnersOf(k) : Awake(r)}) + IF BeingWoken(k) THEN 1 ELSE 0
             /\ runCount[k] >= Cardinality(WorkersOf(k)) + IF BeingWoken(k) THEN 1 ELSE 0
  <2>1. Queued(k) = 0
    <3>1. {i \in 1..Len(routingChan) : routingChan[i].key = k} = {}
      BY <1>1
    <3> QED
      BY <3>1, <1>2 DEF Queued
  <2>2. Cardinality({r \in RunnersOf(k) : Awake(r)}) = 0
    <3>1. {r \in RunnersOf(k) : Awake(r)} = {}
      BY <1>1
    <3> QED
      BY <3>1, <1>2
  <2>3. Cardinality(WorkersOf(k)) = 0
    BY <1>1, <1>2
  <2> QED
    BY <1>1, <2>1, <2>2, <2>3
<1> QED
  BY <1>3 DEF RequestsCounted, Counted, RunnersCounted, WorkersCounted

-----------------------------------------------------------------------------
(* The potentials.                                                         *)

LEMMA PotentialFacts ==
  \A p \in Potentials : /\ p \in [Node -> 0..Unlimited]
                        /\ \A x \in Edge : p[NodeB[x]] <= p[NodeA[x]] + Weight[x]
                        /\ \A n \in Node : \A x \in Forward(n) : p[NodeB[x]] <= p[n] + Weight[x]
BY DEF Potentials, Forward

LEMMA UnreachedKeeps ==
  ASSUME NEW k, NEW n \in Node
  PROVE  Keeps(k, Unreached(n))
<1>1. Unreached(n).len = Unlimited
  BY LabelFacts
<1>2. \A p \in Potentials : p[Unreached(n).node] <= Unlimited
  BY LabelFacts, NetAssumption, PotentialFacts
<1>3. \A p \in Potentials : p[Unreached(n).node] \in Nat
  BY LabelFacts, NetAssumption, PotentialFacts
<1> QED
  BY <1>1, <1>2, <1>3, NetAssumption DEF Keeps

\* A query that is asked has no label yet, the others keep their start.
LEMMA RunRoutingKeeps ==
  ASSUME Types, Begun, Kept, NEW k \in Key, NEW s \in Node, NEW e \in Node, RunRouting(k, s, e)
  PROVE  /\ start'[k] = s /\ \A j \in Key : j # k => start'[j] = start[j]
         /\ \A j \in Key : \A l : j # k => (Keeps(j, l)' <=> Keeps(j, l))
         /\ \A r \in Runner : Keeps(KeyOf(r), cur[r])'
         /\ \A r \in Runner : \A l \in heap[r] : Keeps(KeyOf(r), l)'
         /\ \A r \in Runner, n \in Node : Keeps(KeyOf(r), flag[r][n])'
         /\ \A i \in 1..Len(routingChan) : routingChan[i].key \in Key /\ routingChan[i].key # k
         /\ route.msg.key # k
<1>1. /\ client[k] = "idle" /\ start' = [start EXCEPT ![k] = s]
      /\ UNCHANGED <<cur, heap, flag>>
  BY DEF RunRouting, runnerVars, searchVars
<1>2. start'[k] = s /\ \A j \in Key : j # k => start'[j] = start[j]
  BY <1>1 DEF Types, ClientTypes
<1>3. ASSUME NEW j \in Key, j # k, NEW l PROVE Keeps(j, l)' <=> Keeps(j, l)
  BY <1>2, <1>3 DEF Keeps
<1>4. ASSUME NEW r \in Runner, KeyOf(r) = k
      PROVE  /\ cur[r] = Unreached(NoNode) /\ heap[r] = {}
             /\ \A n \in Node : flag[r][n] = Unreached(n)
  BY <1>1, <1>4 DEF Begun, MadeAsked, EmptyAtFirst, Asked
<1>5. ASSUME NEW r \in Runner
      PROVE  /\ Keeps(KeyOf(r), cur[r])'
             /\ \A l \in heap[r] : Keeps(KeyOf(r), l)'
             /\ \A n \in Node : Keeps(KeyOf(r), flag[r][n])'
  <2>1. CASE KeyOf(r) = k
    <3>1. Keeps(KeyOf(r), cur[r])'
      <4>1. cur'[r].node = NoNode
        BY <1>1, <1>4, <2>1, LabelFacts
      <4> QED
        BY <4>1, GraphAssumption DEF Keeps
    <3>2. ASSUME NEW n \in Node PROVE Keeps(KeyOf(r), flag[r][n])'
      <4>1. flag'[r][n] = Unreached(n)
        BY <1>1, <1>4, <2>1
      <4>2. Keeps(KeyOf(r), Unreached(n))'
        <5>1. \A p \in Potentials : p[n] \in 0..Unlimited
          BY PotentialFacts
        <5> QED
          BY <5>1, NetAssumption, LabelFacts DEF Keeps
      <4> QED
        BY <4>1, <4>2
    <3> QED
      BY <1>4, <2>1, <3>1, <3>2
  <2>2. CASE KeyOf(r) # k
    <3>1. start'[KeyOf(r)] = start[KeyOf(r)]
      BY <1>2, <2>2, RunnerFacts
    <3>2. /\ Keeps(KeyOf(r), cur[r])
          /\ \A l \in heap[r] : Keeps(KeyOf(r), l)
          /\ \A n \in Node : Keeps(KeyOf(r), flag[r][n])
      BY DEF Kept, CurKept, HeapKept, FlagKept
    <3> QED
      BY <1>1, <3>1, <3>2 DEF Keeps
  <2> QED
    BY <2>1, <2>2
<1>6. \A i \in 1..Len(routingChan) : routingChan[i].key \in Key /\ routingChan[i].key # k
  <2>1. ASSUME NEW i \in 1..Len(routingChan) PROVE routingChan[i].key \in Key
    <3>1. routingChan[i] \in GoodRequests
      BY DEF Types, ManagerTypes
    <3> QED
      BY <3>1, LabelFacts
  <2> QED
    BY <1>1, <2>1 DEF Begun, RequestsAsked, Asked
<1>7. route.msg.key # k
  BY <1>1 DEF Begun, ServedAsked, Asked
<1> QED
  BY <1>2, <1>3, <1>5, <1>6, <1>7

\* Relaxing an edge keeps the potentials.
LEMMA ExtendedKeeps ==
  ASSUME Types, CurKept, NEW r \in Runner, pc[r] = "relax", NEW x \in Forward(cur[r].node)
  PROVE  Keeps(KeyOf(r), Extended(r, x))
<1>1. cur[r] \in GoodLabels
  BY PlaceFacts DEF Types, SearchTypes
<1>2. cur[r].node \in Node /\ cur[r].len \in Nat
  BY <1>1, LabelFacts, NetAssumption
<1>3. NodeB[x] \in Node /\ Weight[x] \in Nat
  BY <1>2, NetFacts
<1>4. ASSUME NEW p \in Potentials, p[start[KeyOf(r)]] = 0 PROVE cur[r].len + Weight[x] >= p[NodeB[x]]
  <2>1. cur[r].len >= p[cur[r].node]
    BY <1>2, <1>4 DEF CurKept, Keeps
  <2>2. p[NodeB[x]] <= p[cur[r].node] + Weight[x]
    BY <1>2, PotentialFacts
  <2>3. p[NodeB[x]] \in Nat /\ p[cur[r].node] \in Nat
    <3>1. p \in [Node -> 0..Unlimited]
      BY PotentialFacts
    <3> QED
      BY <1>2, <1>3, <3>1, NetAssumption
  <2> QED
    BY <1>2, <1>3, <2>1, <2>2, <2>3
<1> QED
  BY <1>4 DEF Keeps, Extended, Label

LEMMA CurKeptStep ==
  ASSUME Types, Begun, Kept, [Next]_vars
  PROVE  CurKept'
<1>1. ASSUME UNCHANGED <<start, cur>> PROVE CurKept'
  BY <1>1 DEF CurKept, Kept, Keeps
<1>2. ASSUME NEW k \in Key, NEW s \in Node, NEW e \in Node, RunRouting(k, s, e) PROVE CurKept'
  <2>1. UNCHANGED cur
    BY <1>2 DEF RunRouting, runnerVars, searchVars
  <2> QED
    BY <1>2, <2>1, RunRoutingKeeps DEF CurKept, Keeps

<1>3. ASSUME NEW r \in Runner, Dequeue(r) PROVE CurKept'
  <2>1. /\ UNCHANGED start
        /\ UNCHANGED cur \/ \E l \in heap[r] : cur' = [cur EXCEPT ![r] = l]
    BY <1>3 DEF Dequeue, otherVars, clientVars
  <2> QED
    BY <2>1 DEF Kept, CurKept, HeapKept, Keeps, Types, SearchTypes
<1> QED
  BY <1>1, <1>2, <1>3, Changes

LEMMA HeapKeptStep ==
  ASSUME Types, Begun, Kept, [Next]_vars
  PROVE  HeapKept'
<1>1. ASSUME UNCHANGED <<start, heap>> PROVE HeapKept'
  BY <1>1 DEF HeapKept, Kept, Keeps
<1>2. ASSUME NEW k \in Key, NEW s \in Node, NEW e \in Node, RunRouting(k, s, e) PROVE HeapKept'
  <2>1. UNCHANGED heap
    BY <1>2 DEF RunRouting, runnerVars, searchVars
  <2> QED
    BY <1>2, <2>1, RunRoutingKeeps DEF HeapKept, Keeps

<1>3. ASSUME RouteAdd PROVE HeapKept'
  <2>1. /\ route.at \notin {"pop", "empty", "asleep"} /\ UNCHANGED start
        /\ \/ UNCHANGED heap
           \/ heap' = [heap EXCEPT ![Served] = @ \cup {route.msg.label}]
           \/ heap' = [heap EXCEPT ![Served] = {route.msg.label}]
           \/ heap' = [heap EXCEPT ![Served] = {}]
    BY <1>3 DEF RouteAdd, clientVars
  <2>2. PICK r \in Runner : r = Served
    BY <2>1, ServedFacts
  <2>3. Keeps(KeyOf(r), route.msg.label)
    BY <2>1, <2>2, ServedFacts DEF Kept, RouteKept
  <2>4. PICK l : l = route.msg.label
    OBVIOUS
  <2>5. ASSUME NEW q \in Runner, NEW o \in heap'[q] PROVE Keeps(KeyOf(q), o)'
    <3>1. o \in heap[q] \/ (q = r /\ o = l)
      BY <2>1, <2>2, <2>4, <2>5 DEF Types, SearchTypes
    <3>2. Keeps(KeyOf(q), o)
      BY <2>3, <2>4, <3>1 DEF Kept, HeapKept
    <3> QED
      BY <2>1, <3>2 DEF Keeps
  <2> QED
    BY <2>5 DEF HeapKept
<1>4. ASSUME RouteCreate PROVE HeapKept'
  <2>1. /\ route.at \notin {"pop", "empty", "asleep"} /\ UNCHANGED start
        /\ \/ UNCHANGED heap
           \/ heap' = [heap EXCEPT ![Served] = @ \cup {route.msg.label}]
           \/ heap' = [heap EXCEPT ![Served] = {route.msg.label}]
           \/ heap' = [heap EXCEPT ![Served] = {}]
    BY <1>4 DEF RouteCreate, clientVars
  <2>2. PICK r \in Runner : r = Served
    BY <2>1, ServedFacts
  <2>3. Keeps(KeyOf(r), route.msg.label)
    BY <2>1, <2>2, ServedFacts DEF Kept, RouteKept
  <2>4. PICK l : l = route.msg.label
    OBVIOUS
  <2>5. ASSUME NEW q \in Runner, NEW o \in heap'[q] PROVE Keeps(KeyOf(q), o)'
    <3>1. o \in heap[q] \/ (q = r /\ o = l)
      BY <2>1, <2>2, <2>4, <2>5 DEF Types, SearchTypes
    <3>2. Keeps(KeyOf(q), o)
      BY <2>3, <2>4, <3>1 DEF Kept, HeapKept
    <3> QED
      BY <2>1, <3>2 DEF Keeps
  <2> QED
    BY <2>5 DEF HeapKept
<1>5. ASSUME NEW r \in Runner, Dequeue(r) PROVE HeapKept'
  <2>1. UNCHANGED start /\ \E l \in heap[r] : heap' = [heap EXCEPT ![r] = @ \ {l}]
    BY <1>5 DEF Dequeue, otherVars, clientVars
  <2>2. \A q \in Runner : heap'[q] \subseteq heap[q]
    BY <2>1 DEF Types, SearchTypes
  <2> QED
    BY <2>1, <2>2 DEF Kept, HeapKept, Keeps
<1>6. ASSUME NEW r \in Runner, Relax(r) PROVE HeapKept'
  <2>1. pc[r] = "relax" /\ UNCHANGED start
    BY <1>6 DEF Relax, otherVars, clientVars
  <2>2. PICK x \in Forward(cur[r].node) :
          UNCHANGED heap \/ heap' = [heap EXCEPT ![r] = @ \cup {Extended(r, x)}]
    BY <1>6, RelaxSteps
  <2>3. PICK l : l = Extended(r, x)
    OBVIOUS
  <2>4. Keeps(KeyOf(r), l)
    BY <2>1, <2>3, ExtendedKeeps DEF Kept
  <2>5. ASSUME NEW q \in Runner, NEW o \in heap'[q] PROVE Keeps(KeyOf(q), o)'
    <3>1. o \in heap[q] \/ (q = r /\ o = l)
      BY <2>2, <2>3, <2>5 DEF Types, SearchTypes
    <3>2. Keeps(KeyOf(q), o)
      BY <2>4, <3>1 DEF Kept, HeapKept
    <3> QED
      BY <2>1, <3>2 DEF Keeps
  <2> QED
    BY <2>5 DEF HeapKept
<1> QED
  BY <1>1, <1>2, <1>3, <1>4, <1>5, <1>6, Changes

LEMMA FlagKeptStep ==
  ASSUME Types, Begun, Kept, [Next]_vars
  PROVE  FlagKept'
<1>1. ASSUME UNCHANGED <<start, flag>> PROVE FlagKept'
  BY <1>1 DEF FlagKept, Kept, Keeps
<1>2. ASSUME NEW k \in Key, NEW s \in Node, NEW e \in Node, RunRouting(k, s, e) PROVE FlagKept'
  <2>1. UNCHANGED flag
    BY <1>2 DEF RunRouting, runnerVars, searchVars
  <2> QED
    BY <1>2, <2>1, RunRoutingKeeps DEF FlagKept, Keeps

<1>3. ASSUME NEW r \in Runner, Settle(r) PROVE FlagKept'
  <2>1. UNCHANGED start /\ pc[r] = "settle" /\ flag' = Put(flag, r, cur[r])
    BY <1>3 DEF Settle, otherVars, clientVars, Put
  <2>2. PICK l \in GoodLabels : l = cur[r]
    BY <2>1, PlaceFacts DEF Types, SearchTypes
  <2>3. Keeps(KeyOf(r), l)
    BY <2>2 DEF Kept, CurKept
  <2>4. \A q \in Runner, n \in Node : flag'[q][n] = IF q = r /\ n = l.node THEN l ELSE flag[q][n]
    BY <2>1, <2>2, FlagSet
  <2> QED
    BY <2>1, <2>3, <2>4 DEF Kept, FlagKept, Keeps
<1>4. ASSUME NEW r \in Runner, Relax(r) PROVE FlagKept'
  <2>1. pc[r] = "relax" /\ UNCHANGED start
    BY <1>4 DEF Relax, otherVars, clientVars
  <2>2. PICK x \in Forward(cur[r].node) :
          UNCHANGED flag \/ (Extended(r, x) \in GoodLabels /\ flag' = Put(flag, r, Extended(r, x)))
    BY <1>4, RelaxSteps
  <2>3. Keeps(KeyOf(r), Extended(r, x))
    BY <2>1, ExtendedKeeps DEF Kept
  <2>4. CASE UNCHANGED flag
    BY <2>1, <2>4 DEF Kept, FlagKept, Keeps
  <2>5. CASE Extended(r, x) \in GoodLabels /\ flag' = Put(flag, r, Extended(r, x))
    <3>1. PICK l \in GoodLabels : l = Extended(r, x)
      BY <2>5
    <3>2. \A q \in Runner, n \in Node : flag'[q][n] = IF q = r /\ n = l.node THEN l ELSE flag[q][n]
      BY <2>5, <3>1, FlagSet
    <3> QED
      BY <2>1, <2>3, <3>1, <3>2 DEF Kept, FlagKept, Keeps
  <2> QED
    BY <2>2, <2>4, <2>5
<1> QED
  BY <1>1, <1>2, <1>3, <1>4, Changes

LEMMA QueueKeptStep ==
  ASSUME Types, Begun, Kept, [Next]_vars
  PROVE  QueueKept'
<1>1. ASSUME UNCHANGED <<start, routingChan>> PROVE QueueKept'
  BY <1>1 DEF QueueKept, Kept, Keeps
<1>2. ASSUME NEW k \in Key, NEW s \in Node, NEW e \in Node, RunRouting(k, s, e) PROVE QueueKept'
  <2>1. routingChan' = Append(routingChan, Request(k, Label(s, 0, NoEdge)))
    BY <1>2 DEF RunRouting
  <2>2. PICK m : m = Request(k, Label(s, 0, NoEdge))
    OBVIOUS
  <2>3. m.key = k /\ m.label.node = s /\ m.label.len = 0
    BY <2>2 DEF Request, Label
  <2>4. Keeps(m.key, m.label)'
    BY <1>2, <2>3, RunRoutingKeeps DEF Keeps
  <2>5. ASSUME NEW i \in 1..Len(routingChan), NEW o, o = routingChan[i] PROVE Keeps(o.key, o.label)'
    <3>1. start'[o.key] = start[o.key]
      BY <1>2, <2>5, RunRoutingKeeps
    <3> QED
      BY <2>5, <3>1 DEF Kept, QueueKept, Keeps
  <2>6. ASSUME NEW i \in 1..Len(routingChan'), NEW o, o = routingChan'[i] PROVE Keeps(o.key, o.label)'
    <3>0. routingChan \in Seq(GoodRequests)
      BY DEF Types, ManagerTypes
    <3>1. o = m \/ \E j \in 1..Len(routingChan) : o = routingChan[j]
      BY <2>1, <2>2, <2>6, <3>0
    <3> QED
      BY <2>4, <2>5, <3>1
  <2> QED
    BY <2>6 DEF QueueKept, Keeps
<1>3. ASSUME RoutePop PROVE QueueKept'
  <2>1. routingChan' = Tail(routingChan) /\ routingChan # <<>> /\ UNCHANGED start
    BY <1>3 DEF RoutePop, clientVars
  <2>2. routingChan \in Seq(GoodRequests)
    BY DEF Types, ManagerTypes
  <2>3. \A i \in 1..Len(routingChan') : i + 1 \in 1..Len(routingChan) /\ routingChan'[i] = routingChan[i + 1]
    BY <2>1, <2>2
  <2> QED
    BY <2>1, <2>3 DEF Kept, QueueKept, Keeps
<1>4. ASSUME NEW r \in Runner, Relax(r) PROVE QueueKept'
  <2>1. pc[r] = "relax" /\ UNCHANGED start
    BY <1>4 DEF Relax, otherVars, clientVars
  <2>2. PICK x \in Forward(cur[r].node) :
          UNCHANGED routingChan \/ routingChan' = Append(routingChan, Request(KeyOf(r), Extended(r, x)))
    BY <1>4, RelaxSteps
  <2>3. PICK m : m = Request(KeyOf(r), Extended(r, x))
    OBVIOUS
  <2>4. Keeps(m.key, m.label)
    BY <2>1, <2>3, ExtendedKeeps DEF Kept, Request
  <2>5. ASSUME NEW i \in 1..Len(routingChan') PROVE Keeps(routingChan'[i].key, routingChan'[i].label)
    <3>1. routingChan'[i] = m \/ \E j \in 1..Len(routingChan) : routingChan'[i] = routingChan[j]
      BY <2>2, <2>3, <2>5 DEF Types, ManagerTypes
    <3> QED
      BY <2>4, <3>1 DEF Kept, QueueKept
  <2> QED
    BY <2>1, <2>5 DEF QueueKept, Keeps
<1> QED
  BY <1>1, <1>2, <1>3, <1>4, Changes

LEMMA RouteKeptStep ==
  ASSUME Types, Begun, Kept, [Next]_vars
  PROVE  RouteKept'
<1>1. ASSUME NEW k \in Key, NEW s \in Node, NEW e \in Node, RunRouting(k, s, e) PROVE RouteKept'
  <2>1. UNCHANGED route
    BY <1>1 DEF RunRouting, loopVars
  <2> QED
    BY <1>1, <2>1, RunRoutingKeeps DEF Kept, RouteKept, Keeps
<1>2. ASSUME RoutePop PROVE RouteKept'
  <2>1. /\ routingChan # <<>> /\ UNCHANGED start
        /\ route'.msg = Head(routingChan)
    BY <1>2 DEF RoutePop, clientVars
  <2>2. 1 \in 1..Len(routingChan) /\ Head(routingChan) = routingChan[1]
    BY <2>1 DEF Types, ManagerTypes
  <2> QED
    BY <2>1, <2>2 DEF Kept, QueueKept, RouteKept, Keeps
<1>3. ASSUME UNCHANGED start, route'.msg = route.msg PROVE RouteKept'
  BY <1>3 DEF Kept, RouteKept, Keeps
<1> QED
  BY <1>1, <1>2, <1>3, RouteMsg, Changes

LEMMA KeptStep ==
  ASSUME Types, Begun, Kept, [Next]_vars
  PROVE  Kept'
BY CurKeptStep, HeapKeptStep, FlagKeptStep, QueueKeptStep, RouteKeptStep DEF Kept

LEMMA KeptInit == Init => Kept
<1> SUFFICES ASSUME Init PROVE Kept
  OBVIOUS
<1>1. CurKept /\ RouteKept
  BY LabelFacts, GraphAssumption, NetAssumption DEF Init, CurKept, RouteKept, Keeps, Request
<1>2. HeapKept /\ QueueKept
  BY DEF Init, HeapKept, QueueKept
<1>3. FlagKept
  BY UnreachedKeeps DEF Init, FlagKept
<1> QED
  BY <1>1, <1>2, <1>3 DEF Kept

LEMMA ArcFacts ==
  ASSUME NEW S \in SUBSET Edge
  PROVE  /\ Arcs(S) \in SUBSET ArcsOn(Node)
         /\ \A p : Bounds(p, Arcs(S)) <=> \A x \in S : p[NodeB[x]] <= p[NodeA[x]] + Weight[x]
<1>1. \A x \in S : [from |-> NodeA[x], to |-> NodeB[x], weight |-> Weight[x]] \in ArcsOn(Node)
  BY NetFacts DEF ArcsOn
<1>2. Arcs(S) \in SUBSET ArcsOn(Node)
  BY <1>1 DEF Arcs
<1>3. \A r : r \in Arcs(S) <=> \E x \in S : r = [from |-> NodeA[x], to |-> NodeB[x], weight |-> Weight[x]]
  BY DEF Arcs
<1>4. ASSUME NEW p PROVE Bounds(p, Arcs(S)) <=> \A x \in S : p[NodeB[x]] <= p[NodeA[x]] + Weight[x]
  <2>1. ASSUME Bounds(p, Arcs(S)), NEW x \in S PROVE p[NodeB[x]] <= p[NodeA[x]] + Weight[x]
    <3>1. PICK r : r = [from |-> NodeA[x], to |-> NodeB[x], weight |-> Weight[x]]
      OBVIOUS
    <3>2. r \in Arcs(S) /\ r.from = NodeA[x] /\ r.to = NodeB[x] /\ r.weight = Weight[x]
      BY <1>3, <3>1
    <3> QED
      BY <2>1, <3>2 DEF Bounds
  <2>2. ASSUME \A x \in S : p[NodeB[x]] <= p[NodeA[x]] + Weight[x], NEW r \in Arcs(S)
        PROVE  p[r.to] <= p[r.from] + r.weight
    <3>1. PICK x \in S : r = [from |-> NodeA[x], to |-> NodeB[x], weight |-> Weight[x]]
      BY <1>3, <2>2
    <3>2. r.from = NodeA[x] /\ r.to = NodeB[x] /\ r.weight = Weight[x]
      BY <3>1
    <3> QED
      BY <2>2, <3>2
  <2> QED
    BY <2>1, <2>2 DEF Bounds
<1> QED
  BY <1>2, <1>4

\* The distances from a node are the greatest potential that is zero there.
LEMMA DistanceIsPotential ==
  ASSUME NEW a \in Node
  PROVE  Distance[a] \in Potentials /\ Distance[a][a] = 0
<1>1. Distance[a] = DistancesFrom(a, Node, Arcs(Edge), Unlimited)
  BY DEF Distance
<1>2. /\ Distance[a] \in [Node -> 0..Unlimited] /\ Distance[a][a] = 0
      /\ Bounds(Distance[a], Arcs(Edge))
  BY <1>1, ArcFacts, NodesAssumption, NetAssumption, DistancesArePotential
<1> QED
  BY <1>2, ArcFacts DEF Potentials

LEMMA KeptMeans ==
  ASSUME Types, Kept
  PROVE  NoLabelIsTooShort
<1> DEFINE Fits(k, l) == l.node \in Node => l.len >= Distance[start[k]][l.node]
<1>1. ASSUME NEW k \in Key, client[k] # "idle", NEW l, Keeps(k, l) PROVE Fits(k, l)
  <2>1. start[k] \in Node
    BY <1>1 DEF Types, ClientTypes
  <2>2. Distance[start[k]] \in Potentials /\ Distance[start[k]][start[k]] = 0
    BY <2>1, DistanceIsPotential
  <2> QED
    BY <1>1, <2>2 DEF Keeps
<1> SUFFICES ASSUME NEW k \in Key, client[k] # "idle"
    PROVE  /\ \A r \in RunnersOf(k) : /\ Fits(k, cur[r])
                                      /\ \A l \in heap[r] : Fits(k, l)
                                      /\ \A n \in Node : Fits(k, flag[r][n])
           /\ \A i \in 1..Len(routingChan) :
                routingChan[i].key = k => Fits(k, routingChan[i].label)
           /\ route.msg.key = k => Fits(k, route.msg.label)
  BY DEF NoLabelIsTooShort
<1> HIDE DEF Fits
<1>2. \A r \in RunnersOf(k) : /\ Keeps(k, cur[r])
                              /\ \A l \in heap[r] : Keeps(k, l)
                              /\ \A n \in Node : Keeps(k, flag[r][n])
  BY RunnerFacts DEF Kept, CurKept, HeapKept, FlagKept
<1>3. /\ \A i \in 1..Len(routingChan) : routingChan[i].key = k => Keeps(k, routingChan[i].label)
      /\ route.msg.key = k => Keeps(k, route.msg.label)
  BY DEF Kept, QueueKept, RouteKept
<1> QED
  BY <1>1, <1>2, <1>3

-----------------------------------------------------------------------------
(* Crossing a tile on its skip edges alone.                                *)

\* The tile of neither end of a query, the lengths on all of its edges, and
\* what they bound the length of a node by, if it is entered as p says.
Across(t, a) == DistancesFrom(a, Node, Arcs(InnerEdges(t)), Unlimited)
ByEntries(p, far, n) == {far} \cup {p[a] + Across(TileOf[n], a)[n] : a \in Entries(TileOf[n])}
Filled(p, far, s, e, n) ==
  IF TileOf[n] \in {TileOf[s], TileOf[e]} THEN p[n] ELSE Least(ByEntries(p, far, n))
\* p rises by no more than its weight along the edges a search uses.
RisesOnUsed(p, s, e) ==
  \A x \in Edge : \/ TileOf[NodeA[x]] \in {TileOf[s], TileOf[e]}
                  \/ IsCrossBorder(x)
                  \/ x \in SkipEdges
    => p[NodeB[x]] <= p[NodeA[x]] + Weight[x]

LEMMA AcrossFacts ==
  ASSUME NEW t, NEW a \in Node
  PROVE  /\ Across(t, a) \in [Node -> 0..Unlimited] /\ Across(t, a)[a] = 0
         /\ \A x \in InnerEdges(t) : Across(t, a)[NodeB[x]] <= Across(t, a)[NodeA[x]] + Weight[x]
<1>1. InnerEdges(t) \in SUBSET Edge
  BY DEF InnerEdges
<1>2. Arcs(InnerEdges(t)) \in SUBSET ArcsOn(Node)
  BY <1>1, ArcFacts
<1>3. PICK D : D = Across(t, a)
  OBVIOUS
<1>4. D \in [Node -> 0..Unlimited] /\ D[a] = 0 /\ Bounds(D, Arcs(InnerEdges(t)))
  <2>1. PICK arcs \in SUBSET ArcsOn(Node) : arcs = Arcs(InnerEdges(t))
    BY <1>2
  <2>2. Unlimited \in Nat /\ D = DistancesFrom(a, Node, arcs, Unlimited)
    BY <1>3, <2>1, NetAssumption DEF Across
  <2> QED
    BY <2>1, <2>2, NodesAssumption, DistancesArePotential
<1> QED
  BY <1>1, <1>3, <1>4, ArcFacts

LEMMA BorderFacts ==
  /\ \A t : Entries(t) \subseteq Node /\ Exits(t) \subseteq Node
  /\ \A t : \A a \in Entries(t) \cup Exits(t) : TileOf[a] = t
  /\ \A x \in Edge : IsCrossBorder(x) =>
       NodeB[x] \in Entries(TileOf[NodeB[x]]) /\ NodeA[x] \in Exits(TileOf[NodeA[x]])
BY NetFacts DEF Entries, Exits

\* A potential of the skip edges of a tile rises on the way through it by no
\* more than the way on all of its edges is long.
LEMMA CrossedOnSkips ==
  ASSUME NEW s, NEW e, NEW far \in 0..Unlimited, NEW p \in [Node -> 0..far], RisesOnUsed(p, s, e),
         NEW t \in Tile, NEW a \in Entries(t), NEW b \in Exits(t)
  PROVE  p[b] <= p[a] + Across(t, a)[b]
<1> DEFINE S == InnerEdges(t) \cap SkipEdges
           g == [n \in Node |-> p[n] - p[a]]
           D == DistancesFrom(a, Node, Arcs(S), Unlimited)
<1>1. a \in Node /\ b \in Node /\ far \in Nat /\ far <= Unlimited /\ Unlimited \in Nat
  BY BorderFacts, NetAssumption
<1>2. \A n \in Node : p[n] \in Nat /\ p[n] <= far
  BY <1>1
<1>3. g \in [Node -> Int] /\ g[a] <= 0 /\ g[b] = p[b] - p[a] /\ g[b] <= Unlimited
  BY <1>1, <1>2
<1>4. S \in SUBSET Edge
  BY DEF InnerEdges
<1>5. Bounds(g, Arcs(S))
  <2>1. ASSUME NEW x \in S PROVE g[NodeB[x]] <= g[NodeA[x]] + Weight[x]
    <3>1. x \in Edge /\ x \in SkipEdges /\ NodeA[x] \in Node /\ NodeB[x] \in Node /\ Weight[x] \in Nat
      BY <2>1, <1>4, NetFacts
    <3>2. p[NodeB[x]] <= p[NodeA[x]] + Weight[x]
      BY <3>1 DEF RisesOnUsed
    <3>3. p[NodeB[x]] \in Nat /\ p[NodeA[x]] \in Nat /\ p[a] \in Nat
      BY <1>1, <1>2, <3>1
    <3> QED
      BY <3>1, <3>2, <3>3
  <2> HIDE DEF S, g
  <2> QED
    BY <1>4, <2>1, ArcFacts
<1>6. Arcs(S) \in SUBSET ArcsOn(Node)
  BY <1>4, ArcFacts
<1>7. g[b] <= D[b]
  <2> HIDE DEF g, S
  <2> QED
    BY <1>1, <1>3, <1>5, <1>6, NodesAssumption, DistancesAreGreatest
<1>8. D[b] <= Across(t, a)[b]
  BY SkipAssumption DEF Across
<1>9. D \in [Node -> 0..Unlimited]
  <2> HIDE DEF S
  <2>1. PICK d : d = D
    OBVIOUS
  <2>2. d \in [Node -> 0..Unlimited]
    BY <1>1, <1>6, <2>1, NodesAssumption, DistancesArePotential
  <2> QED
    BY <2>1, <2>2
<1>10. D[b] \in Int /\ Across(t, a)[b] \in Int /\ p[a] \in Int /\ p[b] \in Int
  <2>1. Across(t, a) \in [Node -> 0..Unlimited]
    BY <1>1, AcrossFacts
  <2> HIDE DEF D
  <2> QED
    BY <1>1, <1>2, <1>9, <2>1
<1> HIDE DEF D, g
<1> QED
  BY <1>3, <1>7, <1>8, <1>10

LEMMA FilledFacts ==
  ASSUME NEW s, NEW e, NEW far \in 0..Unlimited, NEW p \in [Node -> 0..far], NEW n \in Node,
         TileOf[n] \notin {TileOf[s], TileOf[e]}
  PROVE  /\ Filled(p, far, s, e, n) \in ByEntries(p, far, n)
         /\ \A v \in ByEntries(p, far, n) : v \in Nat /\ Filled(p, far, s, e, n) <= v
<1> DEFINE V == ByEntries(p, far, n)
<1>1. far \in Nat /\ \A m \in Node : p[m] \in Nat
  BY NetAssumption
<1>2. ASSUME NEW a \in Entries(TileOf[n]) PROVE p[a] + Across(TileOf[n], a)[n] \in Nat
  <2>1. a \in Node
    BY BorderFacts
  <2>2. Across(TileOf[n], a)[n] \in Nat
    BY <2>1, AcrossFacts, NetAssumption
  <2> QED
    BY <1>1, <2>1, <2>2
<1>3. V \in SUBSET Nat /\ V # {}
  BY <1>1, <1>2 DEF ByEntries
<1>4. Filled(p, far, s, e, n) = Least(V)
  BY DEF Filled
<1> HIDE DEF V
<1>5. \E v \in V : \A o \in V : v <= o
  BY <1>3, LeastNumber
<1>6. Least(V) \in V /\ \A o \in V : Least(V) <= o
  BY <1>5 DEF Least
<1> QED
  BY <1>3, <1>4, <1>6 DEF V

(***************************************************************************)
(* A label of the end that no usable edge could improve is shortest, though *)
(* a tile in between is crossed on its skip edges alone: filled in from the *)
(* entries of these tiles, the labels are a potential of all edges.         *)
(***************************************************************************)
LEMMA SkipsLoseNothing ==
  ASSUME NEW s \in Node, NEW e \in Node, NEW far \in 0..Unlimited, NEW p \in [Node -> 0..far],
         p[s] = 0, RisesOnUsed(p, s, e)
  PROVE  p[e] <= Distance[s][e]
<1> DEFINE Ends == {TileOf[s], TileOf[e]}
           q == [n \in Node |-> Filled(p, far, s, e, n)]
           V(n) == ByEntries(p, far, n)
<1>1. far \in Nat /\ far <= Unlimited /\ \A n \in Node : p[n] \in Nat /\ p[n] <= far
  BY NetAssumption
<1>2. \A n \in Node : TileOf[n] \in Ends => q[n] = p[n]
  BY DEF Filled
<1>3. ASSUME NEW n \in Node, TileOf[n] \notin Ends
      PROVE  q[n] \in V(n) /\ \A v \in V(n) : v \in Nat /\ q[n] <= v
  BY <1>3, FilledFacts
<1>4. \A n \in Node : far \in V(n) /\ \A a \in Entries(TileOf[n]) : p[a] + Across(TileOf[n], a)[n] \in V(n)
  BY DEF ByEntries
<1>5. ASSUME NEW n \in Node, NEW v \in V(n)
      PROVE  v = far \/ \E a \in Entries(TileOf[n]) : v = p[a] + Across(TileOf[n], a)[n]
  BY <1>5 DEF ByEntries
<1>q. q \in [Node -> Int]
  <2>1. ASSUME NEW n \in Node PROVE q[n] \in Int
    <3> HIDE DEF q, V
    <3> QED
      BY <1>1, <1>2, <1>3
  <2> QED
    BY <2>1
<1> HIDE DEF q, V, Ends
<1>6. \A n \in Node : q[n] \in Nat /\ q[n] <= far
  BY <1>1, <1>2, <1>3, <1>4
\* On the border the labels were right.
<1>7. ASSUME NEW n \in Node, n \in Entries(TileOf[n]) PROVE q[n] <= p[n]
  <2>1. CASE TileOf[n] \in Ends
    BY <1>1, <1>2, <2>1
  <2>2. CASE TileOf[n] \notin Ends
    <3>1. p[n] + Across(TileOf[n], n)[n] \in V(n) /\ Across(TileOf[n], n)[n] = 0
      BY <1>4, <1>7, AcrossFacts
    <3> QED
      BY <1>1, <1>3, <2>2, <3>1
  <2> QED
    BY <2>1, <2>2
<1>8. ASSUME NEW n \in Node, n \in Exits(TileOf[n]) PROVE p[n] <= q[n]
  <2>1. CASE TileOf[n] \in Ends
    BY <1>1, <1>2, <2>1
  <2>2. CASE TileOf[n] \notin Ends
    <3>1. \/ q[n] = far
          \/ \E a \in Entries(TileOf[n]) : q[n] = p[a] + Across(TileOf[n], a)[n]
      BY <1>3, <1>5, <2>2
    <3>2. ASSUME NEW a \in Entries(TileOf[n]) PROVE p[n] <= p[a] + Across(TileOf[n], a)[n]
      <4>1. TileOf[n] \in Tile
        BY RunnerFacts
      <4> QED
        BY <1>8, <4>1, CrossedOnSkips
    <3> QED
      BY <1>1, <3>1, <3>2
  <2> QED
    BY <2>1, <2>2
<1>9. ASSUME NEW x \in Edge PROVE q[NodeB[x]] <= q[NodeA[x]] + Weight[x]
  <2>1. PICK a \in Node, b \in Node, w \in Nat : a = NodeA[x] /\ b = NodeB[x] /\ w = Weight[x]
    BY NetFacts
  <2>2. CASE IsCrossBorder(x)
    <3>1. b \in Entries(TileOf[b]) /\ a \in Exits(TileOf[a])
      BY <2>1, <2>2, BorderFacts
    <3>2. q[b] <= p[b] /\ p[a] <= q[a]
      BY <1>7, <1>8, <3>1
    <3>3. p[b] <= p[a] + w
      BY <2>1, <2>2 DEF RisesOnUsed
    <3>4. q[b] <= q[a] + w
      BY <1>1, <1>6, <3>2, <3>3
    <3> QED
      BY <2>1, <3>4
  <2>3. CASE ~IsCrossBorder(x) /\ TileOf[a] \in Ends
    <3>1. TileOf[b] = TileOf[a]
      BY <2>1, <2>3 DEF IsCrossBorder
    <3>2. p[b] <= p[a] + w
      BY <2>1, <2>3 DEF RisesOnUsed, Ends
    <3> QED
      BY <1>2, <2>1, <2>3, <3>1, <3>2
  <2>4. CASE ~IsCrossBorder(x) /\ TileOf[a] \notin Ends
    <3>1. TileOf[b] = TileOf[a]
      BY <2>1, <2>4 DEF IsCrossBorder
    <3>2. x \in InnerEdges(TileOf[a])
      BY <2>1, <3>1 DEF InnerEdges
    <3>3. q[a] = far \/ \E c \in Entries(TileOf[a]) : q[a] = p[c] + Across(TileOf[a], c)[a]
      BY <1>3, <1>5, <2>4
    <3>4. CASE q[a] = far
      <4>1. q[b] <= far
        BY <1>6
      <4> QED
        BY <1>1, <1>6, <2>1, <3>4, <4>1
    <3>5. ASSUME NEW c \in Entries(TileOf[a]), q[a] = p[c] + Across(TileOf[a], c)[a]
          PROVE  q[b] <= q[a] + w
      <4>1. c \in Node
        BY BorderFacts
      <4>2. Across(TileOf[a], c)[b] <= Across(TileOf[a], c)[a] + w
        BY <2>1, <3>2, <4>1, AcrossFacts
      <4>3. q[b] <= p[c] + Across(TileOf[a], c)[b]
        BY <1>3, <1>4, <2>4, <3>1
      <4>4. Across(TileOf[a], c)[b] \in Nat /\ Across(TileOf[a], c)[a] \in Nat
        BY <4>1, AcrossFacts, NetAssumption
      <4> QED
        BY <1>1, <1>6, <3>5, <4>1, <4>2, <4>3, <4>4
    <3> QED
      BY <2>1, <3>3, <3>4, <3>5
  <2> QED
    BY <2>2, <2>3, <2>4
<1>10. q[s] <= 0 /\ q[e] = p[e] /\ q[e] <= Unlimited
  <2>1. TileOf[s] \in Ends /\ TileOf[e] \in Ends
    BY DEF Ends
  <2> QED
    BY <1>1, <1>2, <2>1, NetAssumption
<1>11. Bounds(q, Arcs(Edge)) /\ Arcs(Edge) \in SUBSET ArcsOn(Node)
  BY <1>9, ArcFacts
<1>12. q[e] <= DistancesFrom(s, Node, Arcs(Edge), Unlimited)[e]
  BY <1>q, <1>10, <1>11, NodesAssumption, NetAssumption, DistancesAreGreatest
<1> QED
  BY <1>10, <1>12 DEF Distance

-----------------------------------------------------------------------------
(* The way the path is walked back.                                        *)

\* A runner works on the nodes of its tile.
LEMMA InTileStep ==
  ASSUME Types, Begun, InTile, [Next]_vars
  PROVE  InTile'
<1>a. /\ heap \in [Runner -> SUBSET GoodLabels] /\ isEnd \in [Runner -> BOOLEAN]
      /\ cur \in [Runner -> GoodLabels \cup {Unreached(NoNode)}]
      /\ end \in [Key -> Node \cup {NoNode}]
  BY DEF Types, ClientTypes, SearchTypes, HelperTypes
<1>b. ASSUME NEW r \in Runner, NEW l, TileOf[l.node] = TileOfRunner(r), UNCHANGED <<cur, isEnd, end>>,
             \A q \in Runner : \A o \in heap'[q] : o \in heap[q] \/ (q = r /\ o = l)
      PROVE  InTile'
  BY <1>b DEF InTile
<1>1. ASSUME UNCHANGED <<end, cur, heap, isEnd>> PROVE InTile'
  BY <1>1 DEF InTile
<1>2. ASSUME NEW k \in Key, NEW s \in Node, NEW e \in Node, RunRouting(k, s, e) PROVE InTile'
  <2>1. client[k] = "idle" /\ end' = [end EXCEPT ![k] = e] /\ UNCHANGED <<heap, cur, isEnd>>
    BY <1>2 DEF RunRouting, runnerVars, searchVars
  <2>2. ASSUME NEW r \in Runner, isEnd[r] PROVE KeyOf(r) # k
    BY <2>1, <2>2 DEF Begun, EmptyAtFirst, MadeAsked, Asked
  <2>3. ASSUME NEW r \in Runner, isEnd[r] PROVE end'[KeyOf(r)] = end[KeyOf(r)]
    BY <1>a, <2>1, <2>2, <2>3, RunnerFacts
  <2> QED
    BY <2>1, <2>3 DEF InTile
<1>3. ASSUME RouteAdd PROVE InTile'
  <2>1. /\ route.at \notin {"pop", "empty", "asleep"} /\ UNCHANGED <<cur, isEnd, end>>
        /\ \/ UNCHANGED heap
           \/ heap' = [heap EXCEPT ![Served] = @ \cup {route.msg.label}]
           \/ heap' = [heap EXCEPT ![Served] = {route.msg.label}]
           \/ heap' = [heap EXCEPT ![Served] = {}]
    BY <1>3 DEF RouteAdd, clientVars
  <2>2. PICK r \in Runner : r = Served
    BY <2>1, ServedFacts
  <2>3. PICK l : l = route.msg.label
    OBVIOUS
  <2>4. TileOf[l.node] = TileOfRunner(r)
    BY <2>1, <2>2, <2>3, ServedFacts
  <2>5. \A q \in Runner : \A o \in heap'[q] : o \in heap[q] \/ (q = r /\ o = l)
    BY <1>a, <2>1, <2>2, <2>3
  <2> QED
    BY <1>b, <2>1, <2>4, <2>5
<1>4. ASSUME RouteCreate PROVE InTile'
  <2>1. /\ route.at \notin {"pop", "empty", "asleep"} /\ UNCHANGED <<cur, isEnd, end>>
        /\ \/ UNCHANGED heap
           \/ heap' = [heap EXCEPT ![Served] = @ \cup {route.msg.label}]
           \/ heap' = [heap EXCEPT ![Served] = {route.msg.label}]
           \/ heap' = [heap EXCEPT ![Served] = {}]
    BY <1>4 DEF RouteCreate, clientVars
  <2>2. PICK r \in Runner : r = Served
    BY <2>1, ServedFacts
  <2>3. PICK l : l = route.msg.label
    OBVIOUS
  <2>4. TileOf[l.node] = TileOfRunner(r)
    BY <2>1, <2>2, <2>3, ServedFacts
  <2>5. \A q \in Runner : \A o \in heap'[q] : o \in heap[q] \/ (q = r /\ o = l)
    BY <1>a, <2>1, <2>2, <2>3
  <2> QED
    BY <1>b, <2>1, <2>4, <2>5
<1>5. ASSUME NEW r \in Runner, Dequeue(r) PROVE InTile'
  <2>1. UNCHANGED end
    BY <1>5 DEF Dequeue, otherVars, clientVars
  <2>2. PICK l \in heap[r] :
          /\ heap' = [heap EXCEPT ![r] = @ \ {l}]
          /\ UNCHANGED cur \/ cur' = [cur EXCEPT ![r] = l]
          /\ UNCHANGED isEnd \/ (l.node = end[KeyOf(r)] /\ isEnd' = [isEnd EXCEPT ![r] = TRUE])
    BY <1>5 DEF Dequeue
  <2>3. TileOf[l.node] = TileOfRunner(r)
    BY DEF InTile
  <2>4. \A q \in Runner : heap'[q] \subseteq heap[q]
    BY <1>a, <2>2
  <2>5. \A q \in Runner : cur'[q].node \in Node => TileOf[cur'[q].node] = TileOfRunner(q)
    BY <1>a, <2>2, <2>3 DEF InTile
  <2>6. \A q \in Runner : isEnd'[q] => TileOfRunner(q) = TileOf[end[KeyOf(q)]]
    BY <1>a, <2>2, <2>3 DEF InTile
  <2> QED
    BY <2>1, <2>4, <2>5, <2>6 DEF InTile
<1>6. ASSUME NEW r \in Runner, Relax(r) PROVE InTile'
  <2>1. pc[r] = "relax" /\ idx[r] <= Len(Out[cur[r].node]) /\ UNCHANGED <<cur, isEnd, end>>
    BY <1>6 DEF Relax, otherVars, clientVars
  <2>2. PICK x \in Forward(cur[r].node) :
          /\ x = Out[cur[r].node][idx[r]]
          /\ \/ UNCHANGED heap
             \/ ~IsCrossBorder(x) /\ heap' = [heap EXCEPT ![r] = @ \cup {Extended(r, x)}]
    BY <1>6, RelaxSteps
  <2>3. cur[r].node \in Node /\ NodeA[x] = cur[r].node /\ Extended(r, x).node = NodeB[x]
    BY <2>1, <2>2, RelaxFacts
  <2>4. PICK l : l = Extended(r, x)
    OBVIOUS
  <2>5. ~IsCrossBorder(x) => TileOf[l.node] = TileOfRunner(r)
    BY <2>3, <2>4 DEF IsCrossBorder, InTile
  <2>6. CASE UNCHANGED heap
    BY <2>1, <2>6, <1>1
  <2>7. CASE ~IsCrossBorder(x) /\ heap' = [heap EXCEPT ![r] = @ \cup {Extended(r, x)}]
    <3>1. \A q \in Runner : \A o \in heap'[q] : o \in heap[q] \/ (q = r /\ o = l)
      BY <1>a, <2>4, <2>7
    <3> QED
      BY <1>b, <2>1, <2>5, <2>7, <3>1
  <2> QED
    BY <2>2, <2>6, <2>7
<1> QED
  BY <1>1, <1>2, <1>3, <1>4, <1>5, <1>6, Changes

Walked == BegunOnce /\ OneWalks /\ WalkLeads /\ NoneUnasked
ReadOut(k) == pathChan[k] = "closed" \/ client[k] = "done"

LEMMA WalkingGoes ==
  ASSUME Types, NEW r \in Runner, NEW a, WalkerGoes(r, a)
  PROVE  /\ \A q \in Runner : q # r => walker'[q] = walker[q] /\ (Walking(q)' <=> Walking(q))
         /\ walker'[r] = a /\ (Walking(r)' <=> a.at = "walk")
BY DEF WalkerGoes, Walking

LEMMA RetrivelFacts ==
  ASSUME Types
  PROVE  /\ retrivelChan \in Seq(Key \X Node) /\ Len(retrivelChan) \in Nat
         /\ \A i \in 1..Len(retrivelChan) :
              retrivelChan[i] \in Key \X Node /\ retrivelChan[i][1] \in Key /\ retrivelChan[i][2] \in Node
<1>1. retrivelChan \in Seq(Key \X Node)
  BY DEF Types, ManagerTypes
<1>2. \A i \in 1..Len(retrivelChan) : retrivelChan[i] \in Key \X Node
  BY <1>1
<1> QED
  BY <1>1, <1>2

\* The helper that reports that the end was seen is the one of the tile of the end,
\* and no path of the query has been read before.
LEMMA ReportFacts ==
  ASSUME Types, Begun, InTile, Walked, NEW r \in Runner, StopperReports(r), isEnd[r]
  PROVE  /\ KeyOf(r) \in Key /\ Asked(KeyOf(r)) /\ end[KeyOf(r)] \in Node
         /\ r = Last(KeyOf(r)) /\ NotBegun(KeyOf(r))
         /\ WalkerGoes(r, [at |-> "walk", node |-> end[KeyOf(r)]])
         /\ TileOf[end[KeyOf(r)]] = TileOfRunner(r)
<1>1. stopper[r] = "report"
  BY DEF StopperReports
<1>2. KeyOf(r) \in Key /\ Asked(KeyOf(r))
  BY <1>1, RunnerFacts DEF Begun, EmptyAtFirst, MadeAsked
<1>3. end[KeyOf(r)] \in Node
  BY <1>2 DEF Types, ClientTypes, Asked
<1>4. r = Last(KeyOf(r)) /\ TileOf[end[KeyOf(r)]] = TileOfRunner(r)
  BY RunnerFacts DEF InTile, Last
<1>5. NotBegun(KeyOf(r))
  BY <1>1, <1>2, <1>4 DEF Walked, BegunOnce
<1> QED
  BY <1>2, <1>3, <1>4, <1>5, WalkerSteps

LEMMA DoneStays ==
  ASSUME Types, Begun, Stopping, [Next]_vars, NEW r \in Runner, stopper[r] = "done"
  PROVE  stopper'[r] = "done"
<1>0. stopper \in [Runner -> {"none", "wait", "stop", "release", "sending", "clearing", "report", "done"}]
  BY DEF Types, HelperTypes
<1>1. ASSUME RouteCreate PROVE stopper'[r] = "done"
  <2>1. route.at = "create" /\ stopper' = [stopper EXCEPT ![Served] = "wait"]
    BY <1>1 DEF RouteCreate
  <2>2. Served \in Runner /\ pc[Served] = "none"
    BY <2>1, ServedFacts DEF Stopping, MadeOnce
  <2>3. stopper[Served] = "none"
    BY <2>2 DEF Begun, EmptyAtFirst
  <2> QED
    BY <1>0, <2>1, <2>3
<1>2. ASSUME StopTell PROVE stopper'[r] = "done"
  BY <1>0, <1>2 DEF StopTell
<1>3. ASSUME NEW q \in Runner,
             SetFinished(q) \/ StopperRelease(q) \/ StopperWakes(q) \/ StopperClears(q) \/ StopperReports(q)
      PROVE  stopper'[r] = "done"
  BY <1>0, <1>3 DEF SetFinished, StopperRelease, StopperWakes, StopperClears, StopperReports
<1> QED
  BY <1>1, <1>2, <1>3, Changes

\* A step that begins no walk, reads no edge and ends no query.
LEMMA CalmStep ==
  ASSUME Types, Begun, Stopping, Walked, [Next]_vars,
         UNCHANGED <<answer, blind, retrivelChan, start, end>>,
         \A r \in Runner : Walking(r)' => Walking(r) /\ walker'[r].node = walker[r].node,
         \A k \in Key : ReadOut(k)' => ReadOut(k),
         \A k \in Key : Asked(k)' <=> Asked(k)
  PROVE  Walked'
<1>1. \A k, n : Led(k, n)' <=> Led(k, n)
  BY DEF Led, Leads
<1>2. ASSUME NEW k \in Key, Asked(k)' PROVE NotBegun(k)' \/ (stopper[Last(k)] = "done")'
  <2>1. Last(k)' = Last(k)
    BY DEF Last
  <2>2. CASE NotBegun(k)
    BY <2>2, RunnerFacts DEF NotBegun, ReadOut
  <2>3. CASE stopper[Last(k)] = "done"
    <3>1. PICK r : r = Last(k)
      OBVIOUS
    <3>2. r \in Runner
      BY <1>2, <3>1, RunnerFacts DEF Last, Types, ClientTypes, Asked
    <3>3. stopper'[r] = "done"
      BY <2>3, <3>1, <3>2, DoneStays
    <3> QED
      BY <2>1, <3>1, <3>3
  <2> QED
    BY <1>2, <2>2, <2>3 DEF Walked, BegunOnce
<1>3. BegunOnce'
  BY <1>2 DEF BegunOnce
<1>4. OneWalks'
  <2>1. OneWalks
    BY DEF Walked
  <2>2. \A q, r \in Runner : KeyOf(q) = KeyOf(r) /\ Walking(q)' /\ Walking(r)' => q = r
    BY <2>1 DEF OneWalks
  <2>3. \A i, j \in 1..Len(retrivelChan) : retrivelChan[i][1] = retrivelChan[j][1] => i = j
    BY <2>1 DEF OneWalks
  <2>4. \A r \in Runner, i \in 1..Len(retrivelChan) : Walking(r)' => retrivelChan[i][1] # KeyOf(r)
    BY <2>1 DEF OneWalks
  <2>5. \A k \in Key : ReadOut(k)' =>
       /\ \A r \in RunnersOf(k) : ~Walking(r)'
       /\ \A i \in 1..Len(retrivelChan) : retrivelChan[i][1] # k
    BY <2>1, RunnerFacts DEF OneWalks, ReadOut
  <2> QED
    BY <2>2, <2>3, <2>4, <2>5 DEF OneWalks, ReadOut
<1>5. WalkLeads'
  BY <1>1 DEF Walked, WalkLeads, ReadOut
<1>6. NoneUnasked'
  BY RunnerFacts, RetrivelFacts DEF Walked, NoneUnasked
<1> QED
  BY <1>3, <1>4, <1>5, <1>6 DEF Walked

\* One edge more has been read.
LEMMA LeadsOn ==
  ASSUME NEW k, NEW x \in Edge, answer[k] \in Seq(Edge), Leads(k, NodeB[x]),
         answer'[k] = <<x>> \o answer[k], end'[k] = end[k]
  PROVE  Leads(k, NodeA[x])'
<1> DEFINE a == answer[k]
           b == <<x>> \o a
<1>1. /\ a \in Seq(Edge) /\ Len(a) \in Nat /\ Len(b) = Len(a) + 1 /\ b[1] = x /\ b # <<>>
      /\ \A i \in 1..Len(a) : b[i + 1] = a[i]
  OBVIOUS
<1>2. CASE a = <<>>
  <2>1. Len(b) = 1 /\ NodeB[x] = end[k]
    BY <1>1, <1>2 DEF Leads
  <2> QED
    BY <1>1, <2>1 DEF Leads
<1>3. CASE a # <<>>
  <2>1. /\ Len(a) >= 1 /\ NodeA[a[1]] = NodeB[x] /\ NodeB[a[Len(a)]] = end[k]
        /\ \A i \in 1..(Len(a) - 1) : NodeB[a[i]] = NodeA[a[i + 1]]
    BY <1>1, <1>3 DEF Leads
  <2>2. b[Len(b)] = a[Len(a)]
    BY <1>1, <2>1
  <2>3. ASSUME NEW i \in 1..(Len(b) - 1) PROVE NodeB[b[i]] = NodeA[b[i + 1]]
    <3>1. CASE i = 1
      BY <1>1, <2>1, <3>1
    <3>2. CASE i # 1
      <4>1. i - 1 \in 1..(Len(a) - 1) /\ i \in 1..Len(a) /\ i - 1 \in 1..Len(a)
        BY <1>1, <2>3, <3>2
      <4>2. b[i + 1] = a[i] /\ b[(i - 1) + 1] = a[i - 1] /\ NodeB[a[i - 1]] = NodeA[a[(i - 1) + 1]]
        BY <1>1, <2>1, <4>1
      <4> QED
        BY <4>1, <4>2
    <3> QED
      BY <3>1, <3>2
  <2>4. answer'[k] = b
    OBVIOUS
  <2> HIDE DEF a, b
  <2> QED
    BY <1>1, <2>1, <2>2, <2>3, <2>4 DEF Leads
<1> QED
  BY <1>2, <1>3


\* A step that concerns the path of one query.
LEMMA WalkStep ==
  ASSUME Types, Begun, Stopping, Walked, [Next]_vars, NEW k \in Key,
         \A j \in Key : j # k =>
           /\ answer'[j] = answer[j] /\ end'[j] = end[j] /\ start'[j] = start[j]
           /\ j \in blind' <=> j \in blind
           /\ ReadOut(j)' => ReadOut(j)
           /\ Asked(j)' <=> Asked(j),
         \A r \in Runner : KeyOf(r) # k => walker'[r] = walker[r],
         \A i \in 1..Len(retrivelChan') :
           /\ retrivelChan'[i][1] \in Key
           /\ retrivelChan'[i][1] # k => \E j \in 1..Len(retrivelChan) : retrivelChan'[i] = retrivelChan[j],
         \A i, j \in 1..Len(retrivelChan') : retrivelChan'[i][1] = retrivelChan'[j][1] => i = j,
         \A q, r \in RunnersOf(k) : Walking(q)' /\ Walking(r)' => q = r,
         \A r \in RunnersOf(k), i \in 1..Len(retrivelChan') : Walking(r)' => retrivelChan'[i][1] # k,
         ReadOut(k)' => /\ Led(k, start[k])'
                        /\ \A r \in RunnersOf(k) : ~Walking(r)'
                        /\ \A i \in 1..Len(retrivelChan') : retrivelChan'[i][1] # k,
         \A r \in RunnersOf(k) : \A n : Walking(r)' /\ n = walker'[r].node =>
           Led(k, n)' /\ TileOf[n] = TileOfRunner(r),
         \A i \in 1..Len(retrivelChan') : \A n : retrivelChan'[i][1] = k /\ n = retrivelChan'[i][2] =>
           Led(k, n)',
         Asked(k)',
         NotBegun(k)' \/ (Asked(k) /\ ~NotBegun(k)) \/ (stopper[Last(k)] = "done")'
  PROVE  Walked'
<1>1. \A j \in Key : \A n : j # k => (Led(j, n)' <=> Led(j, n))
  BY DEF Led, Leads
<1>2. ASSUME NEW j \in Key, Asked(j)' PROVE NotBegun(j)' \/ (stopper[Last(j)] = "done")'
  <2>1. CASE Asked(j) /\ stopper[Last(j)] = "done"
    <3>1. PICK r : r = Last(j)
      OBVIOUS
    <3>2. r \in Runner
      BY <2>1, <3>1, RunnerFacts DEF Last, Types, ClientTypes, Asked
    <3>3. stopper'[r] = "done"
      BY <2>1, <3>1, <3>2, DoneStays
    <3>4. Last(j)' = r
      BY <2>1, <3>1, ClientSteps DEF Last, Asked
    <3> QED
      BY <3>3, <3>4
  <2>2. CASE j # k /\ NotBegun(j)
    BY <2>2, RunnerFacts DEF NotBegun, ReadOut, Walking
  <2>3. CASE j = k /\ ~(Asked(j) /\ ~NotBegun(j))
    BY <2>3
  <2> QED
    BY <1>2, <2>1, <2>2, <2>3 DEF Walked, BegunOnce
<1>3. BegunOnce'
  BY <1>2 DEF BegunOnce
<1>4. OneWalks'
  <2>1. OneWalks
    BY DEF Walked
  <2>2. ASSUME NEW q \in Runner, NEW r \in Runner, KeyOf(q) = KeyOf(r), Walking(q)', Walking(r)' PROVE q = r
    BY <2>1, <2>2, RunnerFacts DEF OneWalks, Walking
  <2>3. ASSUME NEW r \in Runner, NEW i \in 1..Len(retrivelChan'), Walking(r)'
               PROVE retrivelChan'[i][1] # KeyOf(r)
    <3>1. CASE KeyOf(r) = k
      BY <2>3, <3>1, RunnerFacts
    <3>2. CASE KeyOf(r) # k
      BY <2>1, <2>3, <3>2 DEF OneWalks, Walking
    <3> QED
      BY <3>1, <3>2
  <2>4. ASSUME NEW j \in Key, ReadOut(j)'
        PROVE  /\ \A r \in RunnersOf(j) : ~Walking(r)'
               /\ \A i \in 1..Len(retrivelChan') : retrivelChan'[i][1] # j
    <3>1. CASE j = k
      BY <2>4, <3>1
    <3>2. CASE j # k
      <4>1. ReadOut(j)
        BY <2>4, <3>2
      <4> QED
        BY <2>1, <3>2, <4>1, RunnerFacts DEF OneWalks, ReadOut, Walking
    <3> QED
      BY <3>1, <3>2
  <2> QED
    BY <2>2, <2>3, <2>4 DEF OneWalks, ReadOut
<1>5. WalkLeads'
  <2>1. WalkLeads
    BY DEF Walked
  <2>2. ASSUME NEW r \in Runner, Walking(r)', NEW n, n = walker'[r].node, NEW j, j = KeyOf(r)
        PROVE  Led(j, n)' /\ TileOf[n] = TileOfRunner(r)
    <3>1. CASE j = k
      BY <2>2, <3>1, RunnerFacts
    <3>2. CASE j # k
      <4>1. Led(j, n) /\ TileOf[n] = TileOfRunner(r)
        BY <2>1, <2>2, <3>2 DEF WalkLeads, Walking
      <4> QED
        BY <1>1, <2>2, <3>2, <4>1, RunnerFacts
    <3> QED
      BY <3>1, <3>2
  <2>3. ASSUME NEW i \in 1..Len(retrivelChan'), NEW j, NEW n, j = retrivelChan'[i][1], n = retrivelChan'[i][2]
        PROVE  Led(j, n)'
    <3>1. CASE j = k
      BY <2>3, <3>1
    <3>2. CASE j # k
      <4>1. Led(j, n)
        BY <2>1, <2>3, <3>2 DEF WalkLeads
      <4> QED
        BY <1>1, <2>3, <3>2, <4>1
    <3> QED
      BY <3>1, <3>2
  <2>4. ASSUME NEW j \in Key, ReadOut(j)', NEW n, n = start'[j] PROVE Led(j, n)'
    <3>1. CASE j = k
      BY <2>4, <3>1 DEF Led, Leads
    <3>2. CASE j # k
      <4>1. Led(j, n)
        BY <2>1, <2>4, <3>2 DEF WalkLeads, ReadOut
      <4> QED
        BY <1>1, <2>4, <3>2, <4>1
    <3> QED
      BY <3>1, <3>2
  <2> QED
    BY <2>2, <2>3, <2>4 DEF WalkLeads, ReadOut, Led, Leads
<1>6. NoneUnasked'
  <2>1. NoneUnasked
    BY DEF Walked
  <2>2. ASSUME NEW r \in Runner, Walking(r)', NEW j, j = KeyOf(r) PROVE Asked(j)'
    BY <2>1, <2>2, RunnerFacts DEF NoneUnasked, Walking
  <2>3. ASSUME NEW i \in 1..Len(retrivelChan'), NEW j, j = retrivelChan'[i][1] PROVE Asked(j)'
    BY <2>1, <2>3 DEF NoneUnasked
  <2>4. \A j \in Key : ~Asked(j)' => answer'[j] = <<>>
    BY <2>1 DEF NoneUnasked
  <2> QED
    BY <2>2, <2>3, <2>4 DEF NoneUnasked, Asked
<1> QED
  BY <1>3, <1>4, <1>5, <1>6 DEF Walked

LEMMA WalkedStep ==
  ASSUME Types, Begun, Stopping, InTile, Walked, [Next]_vars
  PROVE  Walked'
<1>a. /\ client \in [Key -> {"idle", "waiting", "reading", "done"}]
      /\ pathChan \in [Key -> {"none", "open", "closed"}] /\ answer \in [Key -> Seq(Edge)]
      /\ start \in [Key -> Node \cup {NoNode}] /\ end \in [Key -> Node \cup {NoNode}]
      /\ BegunOnce /\ OneWalks /\ WalkLeads /\ NoneUnasked
  BY DEF Types, ClientTypes, Walked
<1>b. /\ retrivelChan \in Seq(Key \X Node) /\ Len(retrivelChan) \in Nat
      /\ \A i \in 1..Len(retrivelChan) :
           retrivelChan[i] \in Key \X Node /\ retrivelChan[i][1] \in Key /\ retrivelChan[i][2] \in Node
  BY RetrivelFacts
<1>c. ASSUME NEW r \in Runner, NEW a, WalkerGoes(r, a), a.at # "walk",
             UNCHANGED <<client, start, end, answer, blind, pathChan, retrivelChan>>
      PROVE  Walked'
  <2>1. \A q \in Runner : Walking(q)' => Walking(q) /\ walker'[q].node = walker[q].node
    BY <1>c, WalkingGoes
  <2> QED
    BY <1>c, <2>1, CalmStep DEF ReadOut, Asked
<1>1. ASSUME UNCHANGED <<client, start, end, answer, blind, pathChan, retrivelChan, walker>> PROVE Walked'
  BY <1>1, CalmStep DEF Walking, ReadOut, Asked
<1>2. ASSUME NEW k \in Key, NEW s \in Node, NEW e \in Node, RunRouting(k, s, e) PROVE Walked'
  <2>1. /\ client[k] = "idle" /\ client' = [client EXCEPT ![k] = "waiting"]
        /\ start' = [start EXCEPT ![k] = s] /\ end' = [end EXCEPT ![k] = e]
        /\ pathChan' = [pathChan EXCEPT ![k] = "open"]
        /\ UNCHANGED <<answer, blind, retrivelChan, walker>>
    BY <1>2 DEF RunRouting, loopVars, runnerVars, helperVars
  <2>2. /\ \A r \in Runner : Walking(r) => KeyOf(r) # k
        /\ \A i \in 1..Len(retrivelChan) : retrivelChan[i][1] # k
        /\ answer[k] = <<>>
    BY <1>a, <2>1 DEF NoneUnasked, Asked
  <2>3. ~ReadOut(k)' /\ Asked(k)'
    BY <1>a, <2>1 DEF ReadOut, Asked
  <2>4. \A r \in RunnersOf(k) : ~Walking(r)'
    BY <2>1, <2>2, RunnerFacts DEF Walking
  <2>5. NotBegun(k)'
    BY <2>1, <2>2, <2>3, <2>4 DEF NotBegun, ReadOut
  <2>6. \A j \in Key : j # k =>
           /\ answer'[j] = answer[j] /\ end'[j] = end[j] /\ start'[j] = start[j]
           /\ ReadOut(j)' => ReadOut(j)
           /\ Asked(j)' <=> Asked(j)
    BY <1>a, <2>1 DEF ReadOut, Asked
  <2>7. \A i, j \in 1..Len(retrivelChan) : retrivelChan[i][1] = retrivelChan[j][1] => i = j
    BY <1>a DEF OneWalks
  <2> QED
    BY <1>b, <2>1, <2>2, <2>3, <2>4, <2>5, <2>6, <2>7, WalkStep
<1>3. ASSUME NEW k \in Key, LeavePath(k) PROVE Walked'
  <2>1. /\ client[k] = "reading" /\ pathChan[k] = "closed"
        /\ client' = [client EXCEPT ![k] = "done"] /\ pathChan' = [pathChan EXCEPT ![k] = "none"]
        /\ UNCHANGED <<start, end, answer, blind, retrivelChan, walker>>
    BY <1>3 DEF LeavePath, runnerVars, helperVars
  <2>2. /\ \A j \in Key : ReadOut(j)' => ReadOut(j)
        /\ \A j \in Key : Asked(j)' <=> Asked(j)
    BY <1>a, <2>1 DEF ReadOut, Asked
  <2> QED
    BY <2>1, <2>2, CalmStep DEF Walking
<1>4. ASSUME RouteCreate PROVE Walked'
  <2>1. route.at \notin {"pop", "empty", "asleep"} /\ UNCHANGED <<client, start, end, answer, blind, pathChan, retrivelChan>>
    BY <1>4 DEF RouteCreate, clientVars, managerLoops
  <2>2. Served \in Runner
    BY <2>1, ServedFacts
  <2>3. WalkerGoes(Served, [at |-> "wait", node |-> walker[Served].node])
    BY <1>4, WalkerElsewhere
  <2> QED
    BY <1>c, <2>1, <2>2, <2>3
<1>5. ASSUME NEW r \in Runner, StopperReports(r) PROVE Walked'
  <2>1. UNCHANGED <<client, start, end, answer, blind, pathChan, retrivelChan>> /\
        stopper' = [stopper EXCEPT ![r] = "done"]
    BY <1>5 DEF StopperReports, otherVars, clientVars, managerVars, loopVars
  <2>2. CASE ~isEnd[r]
    <3>1. UNCHANGED walker
      BY <1>5, <2>2 DEF StopperReports
    <3> QED
      BY <1>1, <2>1, <3>1
  <2>3. CASE isEnd[r]
    <3>1. PICK k \in Key : k = KeyOf(r)
      BY RunnerFacts
    <3>2. PICK n \in Node : n = end[k]
      BY <1>5, <2>3, <3>1, ReportFacts
    <3>3. /\ Asked(k) /\ r = Last(k) /\ NotBegun(k) /\ WalkerGoes(r, [at |-> "walk", node |-> n])
          /\ TileOf[n] = TileOfRunner(r)
      BY <1>5, <2>3, <3>1, <3>2, ReportFacts
    <3>4. /\ \A q \in Runner : q # r => walker'[q] = walker[q] /\ (Walking(q)' <=> Walking(q))
          /\ walker'[r].node = n
      BY <3>3, WalkingGoes
    <3>5. \A q \in RunnersOf(k) : Walking(q)' => q = r
      BY <3>3, <3>4, RunnerFacts DEF NotBegun
    <3>6. /\ \A i \in 1..Len(retrivelChan) : retrivelChan[i][1] # k
          /\ ~ReadOut(k)'
      BY <2>1, <3>3 DEF NotBegun, ReadOut
    <3>7. Led(k, n)'
      BY <2>1, <3>2, <3>3 DEF NotBegun, Led, Leads
    <3>8. Asked(k)' /\ \A j \in Key : (Asked(j)' <=> Asked(j)) /\ (ReadOut(j)' <=> ReadOut(j))
      BY <2>1, <3>3 DEF Asked, ReadOut
    <3>9. stopper'[Last(k)'] = "done"
      BY <2>1, <3>3 DEF Last, Types, HelperTypes
    <3>10. \A i, j \in 1..Len(retrivelChan) : retrivelChan[i][1] = retrivelChan[j][1] => i = j
      BY <1>a DEF OneWalks
    <3>11. \A q \in Runner : KeyOf(q) # k => walker'[q] = walker[q]
      BY <3>1, <3>4
    <3> QED
      BY <1>b, <2>1, <3>3, <3>4, <3>5, <3>6, <3>7, <3>8, <3>9, <3>10, <3>11, WalkStep
  <2> QED
    BY <2>2, <2>3
<1>6. ASSUME NEW r \in Runner, WalkEnds(r) PROVE Walked'
  <2>1. PICK k \in Key : k = KeyOf(r)
    BY RunnerFacts
  <2>2. PICK n : n = start[k]
    OBVIOUS
  <2>3. /\ Walking(r) /\ walker[r].node = n /\ pathChan' = [pathChan EXCEPT ![k] = "closed"]
        /\ UNCHANGED <<client, start, end, answer, blind, retrivelChan>>
    BY <1>6, <2>1, <2>2 DEF WalkEnds, Walking, clientVars, loopVars
  <2>4. /\ \A q \in Runner : q # r => walker'[q] = walker[q] /\ (Walking(q)' <=> Walking(q))
        /\ ~Walking(r)'
    <3>1. WalkerGoes(r, [at |-> "wait", node |-> walker[r].node])
      BY <1>6, WalkerSteps
    <3> QED
      BY <3>1, WalkingGoes
  <2>5. /\ \A q \in RunnersOf(k) : ~Walking(q)'
        /\ \A i \in 1..Len(retrivelChan) : retrivelChan[i][1] # k
    <3>1. /\ \A q \in RunnersOf(k) : Walking(q) => q = r
          /\ \A i \in 1..Len(retrivelChan) : retrivelChan[i][1] # k
      BY <1>a, <2>1, <2>3, RunnerFacts DEF OneWalks
    <3> QED
      BY <2>4, <3>1, RunnerFacts
  <2>6. Led(k, n)
    BY <1>a, <2>1, <2>3 DEF WalkLeads
  <2>7. Led(k, start[k])'
    BY <2>2, <2>3, <2>6 DEF Led, Leads
  <2>8. /\ Asked(k) /\ \A j \in Key : Asked(j)' <=> Asked(j)
        /\ \A j \in Key : j # k /\ ReadOut(j)' => ReadOut(j)
    BY <1>a, <2>1, <2>3 DEF NoneUnasked, Asked, ReadOut
  <2>9. ~NotBegun(k)
    BY <2>1, <2>3, RunnerFacts DEF NotBegun
  <2>10. \A i, j \in 1..Len(retrivelChan) : retrivelChan[i][1] = retrivelChan[j][1] => i = j
    BY <1>a DEF OneWalks
  <2>11. \A q \in Runner : KeyOf(q) # k => walker'[q] = walker[q]
    BY <2>1, <2>4
  <2> QED
    BY <1>b, <2>3, <2>5, <2>7, <2>8, <2>9, <2>10, <2>11, WalkStep
<1>7. ASSUME NEW r \in Runner, WalkEdge(r) PROVE Walked'
  <2>1. PICK k \in Key : k = KeyOf(r)
    BY RunnerFacts
  <2>2. PICK n : n = Other(r)
    OBVIOUS
  <2>3. /\ \/ n \notin Node /\ UNCHANGED <<walker, retrivelChan>>
           \/ /\ n \in Node /\ TileOf[n] # TileOfRunner(r)
              /\ WalkerGoes(r, [at |-> "wait", node |-> walker[r].node])
              /\ retrivelChan' = Append(retrivelChan, <<k, n>>)
           \/ /\ n \in Node /\ TileOf[n] = TileOfRunner(r)
              /\ WalkerGoes(r, [at |-> "walk", node |-> n])
              /\ UNCHANGED retrivelChan
        /\ Walking(r) /\ UNCHANGED <<client, start, end, pathChan>>
        /\ \A j \in Key : j # k => answer'[j] = answer[j] /\ (j \in blind' <=> j \in blind)
    <3>1. /\ Walking(r) /\ UNCHANGED <<client, start, end, pathChan>>
          /\ blind' \in {blind, blind \cup {k}}
          /\ UNCHANGED answer \/ \E x : answer' = [answer EXCEPT ![k] = x]
      BY <1>7, <2>1 DEF WalkEdge, ClientReads, Walking, managerVars
    <3> QED
      BY <1>7, <1>a, <2>1, <2>2, <3>1, WalkerSteps
  <2>4. k \notin blind' => n = NodeA[Read(r)] /\ Leads(k, n)'
    <3>1. SUFFICES ASSUME k \notin blind' PROVE n = NodeA[Read(r)] /\ Leads(k, n)'
      OBVIOUS
    <3>2. PICK x : x = Read(r)
      OBVIOUS
    <3>3. /\ ~Missing(r, walker[r].node) /\ k \notin blind
          /\ answer' = [answer EXCEPT ![k] = <<x>> \o @]
      BY <1>7, <2>1, <3>1, <3>2 DEF WalkEdge, ClientReads, Read
    <3>4. x \in Edge /\ NodeB[x] = walker[r].node /\ n = NodeA[x]
      BY <1>7, <2>2, <3>2, <3>3, WalkerSteps
    <3>5. Leads(k, NodeB[x]) /\ answer[k] \in Seq(Edge)
      BY <1>a, <2>1, <2>3, <3>3, <3>4 DEF WalkLeads, Led
    <3>6. answer'[k] = <<x>> \o answer[k] /\ end'[k] = end[k]
      BY <1>a, <2>3, <3>3
    <3>7. Leads(k, NodeA[x])'
      BY <3>4, <3>5, <3>6, LeadsOn
    <3> QED
      BY <3>2, <3>4, <3>7 DEF Leads
  <2>5. Led(k, n)'
    BY <2>4 DEF Led
  <2>6. /\ \A q \in RunnersOf(k) : Walking(q) => q = r
        /\ \A i \in 1..Len(retrivelChan) : retrivelChan[i][1] # k
        /\ ~ReadOut(k)
    BY <1>a, <2>1, <2>3, RunnerFacts DEF OneWalks, ReadOut
  <2>7. /\ Asked(k)' /\ \A j \in Key : (Asked(j)' <=> Asked(j)) /\ (ReadOut(j)' <=> ReadOut(j))
        /\ Asked(k)
    BY <1>a, <2>1, <2>3 DEF NoneUnasked, Asked, ReadOut
  <2>8. ~NotBegun(k)
    BY <2>1, <2>3, RunnerFacts DEF NotBegun
  <2>9. \A j \in Key : j # k => answer'[j] = answer[j] /\ (j \in blind' <=> j \in blind)
    BY <2>3
  <2>10. \A i, j \in 1..Len(retrivelChan) : retrivelChan[i][1] = retrivelChan[j][1] => i = j
    BY <1>a DEF OneWalks
  <2>11. ASSUME n \in Node, WalkerGoes(r, [at |-> "wait", node |-> walker[r].node]),
                retrivelChan' = Append(retrivelChan, <<k, n>>)
         PROVE  Walked'
    <3>1. /\ \A q \in Runner : q # r => walker'[q] = walker[q] /\ (Walking(q)' <=> Walking(q))
          /\ ~Walking(r)' /\ retrivelChan' = Append(retrivelChan, <<k, n>>)
      BY <2>11, WalkingGoes
    <3>2. \A q \in RunnersOf(k) : ~Walking(q)'
      BY <2>6, <3>1, RunnerFacts
    <3>3. /\ Len(retrivelChan') = Len(retrivelChan) + 1
          /\ \A i \in 1..Len(retrivelChan) : retrivelChan'[i] = retrivelChan[i]
          /\ retrivelChan'[Len(retrivelChan')] = <<k, n>>
      BY <1>b, <2>11
    <3>4. ASSUME NEW i \in 1..Len(retrivelChan')
          PROVE  \/ i \in 1..Len(retrivelChan) /\ retrivelChan'[i] = retrivelChan[i] /\
                    retrivelChan'[i][1] # k
                 \/ i = Len(retrivelChan') /\ retrivelChan'[i][1] = k /\ retrivelChan'[i][2] = n
      BY <1>b, <2>6, <3>3, <3>4
    <3>5. \A i \in 1..Len(retrivelChan') :
           /\ retrivelChan'[i][1] \in Key
           /\ retrivelChan'[i][1] # k => \E j \in 1..Len(retrivelChan) : retrivelChan'[i] = retrivelChan[j]
           /\ retrivelChan'[i][1] = k => retrivelChan'[i][2] = n
      BY <1>b, <3>4
    <3>6. \A i, j \in 1..Len(retrivelChan') : retrivelChan'[i][1] = retrivelChan'[j][1] => i = j
      BY <2>10, <3>4
    <3>7. \A q \in Runner : KeyOf(q) # k => walker'[q] = walker[q]
      BY <2>1, <3>1
    <3> QED
      BY <2>3, <2>5, <2>6, <2>7, <2>8, <2>9, <3>2, <3>5, <3>6, <3>7, WalkStep
  <2>12. ASSUME n \in Node, TileOf[n] = TileOfRunner(r), WalkerGoes(r, [at |-> "walk", node |-> n]),
                UNCHANGED retrivelChan
         PROVE  Walked'
    <3>1. /\ \A q \in Runner : q # r => walker'[q] = walker[q] /\ (Walking(q)' <=> Walking(q))
          /\ walker'[r].node = n /\ UNCHANGED retrivelChan
      BY <2>12, WalkingGoes
    <3>2. \A q \in RunnersOf(k) : Walking(q)' => q = r
      BY <2>6, <3>1, RunnerFacts
    <3>3. \A q \in Runner : KeyOf(q) # k => walker'[q] = walker[q]
      BY <2>1, <3>1
    <3> QED
      <4>1. \A i \in 1..Len(retrivelChan') : retrivelChan'[i][1] \in Key /\ retrivelChan'[i][1] # k
        BY <1>b, <2>6, <3>1
      <4>2. \A i \in 1..Len(retrivelChan') : \E j \in 1..Len(retrivelChan) : retrivelChan'[i] = retrivelChan[j]
        BY <3>1
      <4>3. \A i, j \in 1..Len(retrivelChan') : retrivelChan'[i][1] = retrivelChan'[j][1] => i = j
        BY <2>10, <3>1
      <4>4. \A q, p \in RunnersOf(k) : Walking(q)' /\ Walking(p)' => q = p
        BY <3>2
      <4>5. ~ReadOut(k)'
        BY <2>6, <2>7
      <4>6. \A q \in RunnersOf(k) : \A m : Walking(q)' /\ m = walker'[q].node =>
              Led(k, m)' /\ TileOf[m] = TileOfRunner(q)
        BY <2>5, <2>12, <3>1, <3>2
      <4> QED
        BY <2>3, <2>7, <2>8, <2>9, <3>3, <4>1, <4>2, <4>3, <4>4, <4>5, <4>6, WalkStep
  <2>13. ASSUME n \notin Node, UNCHANGED <<walker, retrivelChan>> PROVE Walked'
    \* The process panics here: the node is not on the edge that was read.
    <3>1. Walking(r)' /\ \A q \in RunnersOf(k) : Walking(q)' => q = r
      BY <2>3, <2>6, <2>13 DEF Walking
    <3>2. k \in blind'
      <4>1. Read(r) \in Edge
        BY <1>7, WalkerSteps
      <4> QED
        BY <2>4, <2>13, <4>1, NetFacts
    <3>3. \A q \in RunnersOf(k) : \A m : Walking(q)' /\ m = walker'[q].node =>
            Led(k, m)' /\ TileOf[m] = TileOfRunner(q)
      <4>1. TileOf[walker[r].node] = TileOfRunner(r)
        BY <1>a, <2>3 DEF WalkLeads
      <4> QED
        BY <2>13, <3>1, <3>2, <4>1 DEF Led
    <3>4. ~ReadOut(k)' /\ \A i \in 1..Len(retrivelChan') : retrivelChan'[i][1] \in Key /\ retrivelChan'[i][1] # k
      BY <1>b, <2>6, <2>7, <2>13
    <3>5. \A i \in 1..Len(retrivelChan') : \E j \in 1..Len(retrivelChan) : retrivelChan'[i] = retrivelChan[j]
      BY <2>13
    <3>6. \A i, j \in 1..Len(retrivelChan') : retrivelChan'[i][1] = retrivelChan'[j][1] => i = j
      BY <2>10, <2>13
    <3>7. \A q, p \in RunnersOf(k) : Walking(q)' /\ Walking(p)' => q = p
      BY <3>1
    <3>8. \A q \in Runner : walker'[q] = walker[q]
      BY <2>13
    <3> QED
      BY <2>3, <2>7, <2>8, <2>9, <3>3, <3>4, <3>5, <3>6, <3>7, <3>8, WalkStep
  <2> QED
    BY <2>3, <2>11, <2>12, <2>13
<1>9. ASSUME StopNotify PROVE Walked'
  <2>1. /\ client[stop.key] = "waiting" /\ client' = [client EXCEPT ![stop.key] = "reading"]
        /\ UNCHANGED <<start, end, answer, blind, pathChan, retrivelChan, walker>>
    BY <1>9 DEF StopNotify, runnerVars, helperVars
  <2>2. /\ \A j \in Key : ReadOut(j)' => ReadOut(j)
        /\ \A j \in Key : Asked(j)' <=> Asked(j)
    BY <1>a, <2>1 DEF ReadOut, Asked
  <2> QED
    BY <2>1, <2>2, CalmStep DEF Walking
<1>10. ASSUME RetrievalLoop PROVE Walked'
  <2>1. PICK k \in Key, n \in Node :
          /\ Head(retrivelChan) = <<k, n>>
          /\ UNCHANGED walker \/ WalkerGoes(<<k, TileOf[n]>>, [at |-> "walk", node |-> n])
    BY <1>10, WalkerElsewhere
  <2>2. /\ retrivelChan # <<>> /\ retrivelChan' = Tail(retrivelChan)
        /\ UNCHANGED <<client, start, end, answer, blind, pathChan>>
    BY <1>10 DEF RetrievalLoop, clientVars, managerVars
  <2>3. PICK r \in RunnersOf(k) : r = <<k, TileOf[n]>> /\ r \in Runner /\ KeyOf(r) = k /\
             TileOfRunner(r) = TileOf[n]
    BY RunnerFacts
  <2>4. /\ \A q \in Runner : q # r => walker'[q] = walker[q] /\ (Walking(q)' <=> Walking(q))
        /\ (Walking(r)' <=> Walking(r)) \/ walker'[r].node = n
    <3>1. CASE UNCHANGED walker
      BY <3>1 DEF Walking
    <3>2. CASE WalkerGoes(r, [at |-> "walk", node |-> n])
      BY <2>3, <3>2, WalkingGoes
    <3> QED
      BY <2>1, <2>3, <3>1, <3>2
  <2>5. /\ 1 \in 1..Len(retrivelChan) /\ retrivelChan[1][1] = k /\ retrivelChan[1][2] = n
        /\ Len(retrivelChan') = Len(retrivelChan) - 1
        /\ \A i \in 1..Len(retrivelChan') : i + 1 \in 1..Len(retrivelChan) /\
            retrivelChan'[i] = retrivelChan[i + 1]
    <3>1. retrivelChan \in Seq(Key \X Node) /\ Len(retrivelChan) \in Nat
      BY RetrivelFacts
    <3>2. 1 \in 1..Len(retrivelChan) /\ Head(retrivelChan) = retrivelChan[1]
      BY <2>2, <3>1
    <3>3. /\ Len(retrivelChan') = Len(retrivelChan) - 1
          /\ \A i \in 1..Len(retrivelChan') : retrivelChan'[i] = retrivelChan[i + 1]
      BY <2>2, <3>1
    <3>4. \A i \in 1..Len(retrivelChan') : i + 1 \in 1..Len(retrivelChan)
      BY <3>1, <3>3
    <3> QED
      BY <2>1, <3>2, <3>3, <3>4
  <2>6. /\ \A q \in RunnersOf(k) : ~Walking(q)
        /\ \A i \in 1..Len(retrivelChan) : retrivelChan[i][1] = k => i = 1
        /\ ~ReadOut(k)
    <3>1. ASSUME NEW q \in RunnersOf(k), Walking(q) PROVE FALSE
      <4>1. q \in Runner /\ KeyOf(q) = k
        BY RunnerFacts
      <4>2. retrivelChan[1][1] # KeyOf(q)
        BY <1>a, <2>5, <3>1, <4>1 DEF OneWalks
      <4> QED
        BY <2>5, <4>1, <4>2
    <3>2. \A i \in 1..Len(retrivelChan) : retrivelChan[i][1] = k => i = 1
      BY <1>a, <2>5 DEF OneWalks
    <3>3. ReadOut(k) => \A i \in 1..Len(retrivelChan) : retrivelChan[i][1] # k
      BY <1>a DEF OneWalks, ReadOut
    <3>4. ~ReadOut(k)
      BY <2>5, <3>3
    <3> QED
      BY <3>1, <3>2, <3>4
  <2>7. \A q \in RunnersOf(k) : Walking(q)' => q = r
    BY <2>4, <2>6, RunnerFacts
  <2>8. \A i \in 1..Len(retrivelChan') :
          /\ retrivelChan'[i][1] \in Key /\ retrivelChan'[i][1] # k
          /\ \E j \in 1..Len(retrivelChan) : retrivelChan'[i] = retrivelChan[j]
    <3>1. ASSUME NEW i \in 1..Len(retrivelChan')
          PROVE  /\ retrivelChan'[i][1] \in Key /\ retrivelChan'[i][1] # k
                 /\ \E j \in 1..Len(retrivelChan) : retrivelChan'[i] = retrivelChan[j]
      <4>1. i \in Nat /\ i # 0 /\ i + 1 \in 1..Len(retrivelChan) /\ retrivelChan'[i] = retrivelChan[i + 1]
        BY <2>5
      <4>2. PICK j : j = i + 1
        OBVIOUS
      <4>3. j \in 1..Len(retrivelChan) /\ retrivelChan'[i] = retrivelChan[j] /\ j # 1
        BY <4>1, <4>2
      <4>4. retrivelChan[j][1] \in Key /\ retrivelChan[j][1] # k
        BY <2>6, <4>3, RetrivelFacts
      <4> QED
        BY <4>3, <4>4
    <3> QED
      BY <3>1
  <2>9. \A i, j \in 1..Len(retrivelChan') : retrivelChan'[i][1] = retrivelChan'[j][1] => i = j
    <3>1. ASSUME NEW i \in 1..Len(retrivelChan'), NEW j \in 1..Len(retrivelChan'),
                 retrivelChan'[i][1] = retrivelChan'[j][1]
          PROVE  i = j
      <4>1. /\ i + 1 \in 1..Len(retrivelChan) /\ j + 1 \in 1..Len(retrivelChan)
            /\ retrivelChan[i + 1][1] = retrivelChan[j + 1][1]
        BY <2>5, <3>1
      <4>2. \A m, l \in 1..Len(retrivelChan) : retrivelChan[m][1] = retrivelChan[l][1] => m = l
        BY <1>a DEF OneWalks
      <4>3. i + 1 = j + 1
        BY <4>1, <4>2
      <4> QED
        BY <4>3
    <3> QED
      BY <3>1
  <2>10. Led(k, n)'
    <3>1. Led(k, n)
      BY <1>a, <2>5 DEF WalkLeads
    <3> QED
      BY <2>2, <3>1 DEF Led, Leads
  <2>11. /\ Asked(k)' /\ \A j \in Key : (Asked(j)' <=> Asked(j)) /\ (ReadOut(j)' <=> ReadOut(j))
         /\ Asked(k)
    BY <1>a, <2>2, <2>5 DEF NoneUnasked, Asked, ReadOut
  <2>12. ~NotBegun(k)
    BY <2>5 DEF NotBegun
  <2>13. \A q \in Runner : KeyOf(q) # k => walker'[q] = walker[q]
    BY <2>3, <2>4
  <2> QED
    BY <2>2, <2>3, <2>4, <2>6, <2>7, <2>8, <2>9, <2>10, <2>11, <2>12, <2>13, WalkStep
<1>11. ASSUME NEW t \in Tile, ExitRunner(t) PROVE Walked'
  <2>1. UNCHANGED <<client, start, end, answer, blind, pathChan, retrivelChan>>
    BY <1>11 DEF ExitRunner, clientVars
  <2>2. CASE UNCHANGED walker
    BY <1>1, <2>1, <2>2
  <2>3. CASE \E r \in Runner : WalkerGoes(r, [at |-> "done", node |-> walker[r].node])
    BY <1>c, <2>1, <2>3
  <2> QED
    BY <1>11, <2>2, <2>3, WalkerElsewhere, RunnerFacts
<1> QED
  BY <1>1, <1>2, <1>3, <1>4, <1>5, <1>6, <1>7, <1>9, <1>10, <1>11, Changes

LEMMA PathInit == Init => InTile /\ Walked
<1> SUFFICES ASSUME Init PROVE InTile /\ Walked
  OBVIOUS
<1>1. \A r \in Runner : ~Walking(r)
  BY DEF Init, Walking
<1>2. retrivelChan = <<>> /\ Len(retrivelChan) = 0
  BY DEF Init
<1>3. \A k \in Key : ~Asked(k) /\ ~ReadOut(k) /\ answer[k] = <<>>
  BY DEF Init, Asked, ReadOut
<1>4. InTile
  BY LabelFacts, GraphAssumption DEF Init, InTile
<1>5. BegunOnce /\ WalkLeads /\ NoneUnasked
  BY <1>1, <1>2, <1>3 DEF BegunOnce, WalkLeads, NoneUnasked, ReadOut
<1>6. OneWalks
  BY <1>1, <1>2, <1>3 DEF OneWalks, ReadOut
<1> QED
  BY <1>4, <1>5, <1>6 DEF Walked

-----------------------------------------------------------------------------
(* No path is lost.                                                        *)

\* The places that need not be told apart here.
Alike(a, b) ==
  \/ a = b
  \/ a \notin Working /\ b \notin Working
  \/ a \in Working \ {"relax"} /\ b \in Working \ {"relax"}
\* The step does not concern the labels of the runner, or adds one to its heap.
Rests(r) ==
  /\ flag'[r] = flag[r] /\ idx'[r] = idx[r] /\ cur'[r] = cur[r]
  /\ heap[r] \subseteq heap'[r]
  /\ Alike(pc[r], pc'[r])

LEMMA PcRests ==
  ASSUME Types, Stopping, [Next]_vars, NEW r \in Runner,
         ~Dequeue(r), ~Settle(r), ~Relaxed(r)
  PROVE  Alike(pc[r], pc'[r])
<1>1. ASSUME NEW q \in Runner, NEW p, Goes(q, p), q = r => Alike(pc[r], p) PROVE Alike(pc[r], pc'[r])
  BY <1>1, PcAt DEF Alike
<1>2. ASSUME UNCHANGED pc PROVE Alike(pc[r], pc'[r])
  BY <1>2 DEF Alike
<1>3. ASSUME RouteCreate \/ RouteStart \/ RouteWakes PROVE Alike(pc[r], pc'[r])
  <2>1. route.at \notin {"pop", "empty", "asleep"}
    BY <1>3 DEF RouteCreate, RouteStart, RouteWakes
  <2>2. PICK q \in Runner : q = Served
    BY <2>1, ServedFacts
  <2>3. Goes(q, "new") \/ Goes(q, "loop")
    BY <1>3, <2>2 DEF RouteCreate, RouteStart, RouteWakes, Goes
  <2>4. pc[q] \notin Working
    <3>1. pc[q] \in {"none", "new", "receiving"}
      BY <1>3, <2>2 DEF RouteCreate, RouteStart, RouteWakes, Stopping, MadeOnce
    <3> QED
      BY <3>1, PlaceFacts
  <2> QED
    BY <1>1, <2>3, <2>4, PlaceFacts DEF Alike
<1>4. ASSUME NEW q \in Runner, Loop(q) \/ DequeueNothing(q) \/ IdleCheck(q) \/ IdleWrite(q) \/ Take(q)
                                \/ StopperWakes(q)
      PROVE  Alike(pc[r], pc'[r])
  <2>1. \E p \in {"done", "dequeue", "idle", "idleWrite", "take", "receiving", "loop"} : Goes(q, p)
    BY <1>4 DEF Loop, DequeueNothing, IdleCheck, IdleWrite, Take, StopperWakes
  <2>2. pc[q] \in {"loop", "dequeue", "idle", "idleWrite", "take", "receiving"}
    BY <1>4 DEF Loop, DequeueNothing, IdleCheck, IdleWrite, Take, StopperWakes
  <2> QED
    BY <1>1, <2>1, <2>2, PlaceFacts DEF Alike
<1>5. ASSUME NEW q \in Runner, \/ StopReadRun(q) \/ StopReadReq(q) \/ TellBound(q) \/ BoundSpread(q)
                               \/ \E t \in Tile : SpreadBound(q, t)
      PROVE  Alike(pc[r], pc'[r])
  <2>1. \E p \in {"stopReq", "bound", "tell", "settle"} : Goes(q, p)
    BY <1>5 DEF StopReadRun, StopReadReq, TellBound, BoundSpread, SpreadBound
  <2>2. pc[q] \in {"stopRun", "stopReq", "bound", "tell"}
    BY <1>5 DEF StopReadRun, StopReadReq, TellBound, BoundSpread, SpreadBound
  <2> QED
    BY <1>1, <2>1, <2>2, PlaceFacts DEF Alike
<1>6. ASSUME NEW q \in Runner, Dequeue(q) \/ Settle(q) \/ Relaxed(q)
      PROVE  Alike(pc[r], pc'[r])
  <2>1. q # r /\ \E p : Goes(q, p)
    BY <1>6 DEF Dequeue, Settle, Relaxed
  <2> QED
    BY <1>1, <2>1
<1> QED
  BY <1>2, <1>3, <1>4, <1>5, <1>6, Changes

LEMMA RunnerSteps ==
  ASSUME Types, Begun, Stopping, [Next]_vars, NEW r \in Runner
  PROVE  Rests(r) \/ Dequeue(r) \/ Settle(r) \/ Relax(r) \/ Relaxed(r)
<1> SUFFICES ASSUME ~Dequeue(r), ~Settle(r), ~Relax(r), ~Relaxed(r) PROVE Rests(r)
  OBVIOUS
<1>a. /\ flag \in [Runner -> [Node -> GoodLabels]] /\ idx \in [Runner -> Nat \ {0}]
      /\ cur \in [Runner -> GoodLabels \cup {Unreached(NoNode)}] /\ heap \in [Runner -> SUBSET GoodLabels]
  BY DEF Types, SearchTypes
<1>1. flag'[r] = flag[r] /\ idx'[r] = idx[r]
  <2>1. ASSUME NEW q \in Runner, Settle(q) PROVE flag'[r] = flag[r] /\ idx'[r] = idx[r]
    <3>1. q # r
      BY <2>1
    <3>2. (\E l : flag' = Put(flag, q, l)) /\ idx' = [idx EXCEPT ![q] = 1]
      BY <2>1 DEF Settle, Put
    <3> QED
      BY <1>a, <3>1, <3>2 DEF Put
  <2>2. ASSUME NEW q \in Runner, Relax(q) PROVE flag'[r] = flag[r] /\ idx'[r] = idx[r]
    <3>1. q # r /\ (UNCHANGED flag \/ \E l : flag' = Put(flag, q, l)) /\ idx' = [idx EXCEPT ![q] = @ + 1]
      BY <2>2, RelaxSteps DEF Relax
    <3> QED
      BY <1>a, <3>1 DEF Put
  <2> QED
    BY <2>1, <2>2, Changes
<1>2. cur'[r] = cur[r]
  <2>1. ASSUME NEW q \in Runner, Dequeue(q) PROVE cur'[r] = cur[r]
    BY <1>a, <2>1 DEF Dequeue
  <2> QED
    BY <2>1, Changes
<1>3. heap[r] \subseteq heap'[r]
  <2>1. ASSUME NEW q \in Runner, Dequeue(q) PROVE heap[r] \subseteq heap'[r]
    BY <1>a, <2>1 DEF Dequeue
  <2>2. ASSUME NEW q \in Runner, Relax(q) PROVE heap[r] \subseteq heap'[r]
    BY <1>a, <2>2 DEF Relax
  <2>3. ASSUME RouteAdd PROVE heap[r] \subseteq heap'[r]
    BY <1>a, <2>3 DEF RouteAdd
  <2>4. ASSUME RouteCreate PROVE heap[r] \subseteq heap'[r]
    <3>1. pc[Served] = "none" /\ route.at \notin {"pop", "empty", "asleep"}
      BY <2>4 DEF RouteCreate, Stopping, MadeOnce
    <3>2. heap[Served] = {}
      BY <3>1, ServedFacts DEF Begun, EmptyAtFirst
    <3>3. \E h : heap' = [heap EXCEPT ![Served] = h]
      BY <2>4 DEF RouteCreate
    <3> QED
      BY <1>a, <3>2, <3>3
  <2> QED
    BY <2>1, <2>2, <2>3, <2>4, Changes
<1> QED
  BY <1>1, <1>2, <1>3, PcRests DEF Rests

\* The search of a runner, step by step, as far as its own labels go.
Refused(r, l) == l.len > maxLength[r] \/ l.len > flag[r][l.node].len
LEMMA DequeueIs ==
  ASSUME Types, NEW r \in Runner, Dequeue(r)
  PROVE  \E l \in GoodLabels :
           /\ l \in heap[r] /\ heap'[r] = heap[r] \ {l}
           /\ flag' = flag /\ idx' = idx /\ pc[r] = "dequeue"
           /\ \/ Refused(r, l) /\ pc'[r] = "loop" /\ cur'[r] = cur[r] /\ UNCHANGED maxLength
              \/ /\ ~Refused(r, l) /\ cur'[r] = l
                 /\ \/ pc'[r] = "settle" /\ l.node # end[KeyOf(r)] /\ UNCHANGED maxLength
                    \/ /\ pc'[r] = "stopRun" /\ l.node = end[KeyOf(r)]
                       /\ maxLength' = [maxLength EXCEPT ![r] = l.len]
<1>a. /\ cur \in [Runner -> GoodLabels \cup {Unreached(NoNode)}] /\ heap \in [Runner -> SUBSET GoodLabels]
      /\ maxLength \in [Runner -> 0..Unlimited] /\ pc \in [Runner -> Places]
      /\ flag \in [Runner -> [Node -> GoodLabels]]
  BY DEF Types, SearchTypes
<1>1. PICK l \in heap[r] :
        /\ heap' = [heap EXCEPT ![r] = @ \ {l}]
        /\ IF ~Acceptable(r, l)
             THEN Goes(r, "loop") /\ UNCHANGED <<cur, isEnd, maxLength>>
             ELSE /\ cur' = [cur EXCEPT ![r] = l]
                  /\ IF l.node = end[KeyOf(r)]
                       THEN /\ maxLength' = [maxLength EXCEPT ![r] = l.len]
                            /\ Goes(r, "stopRun")
                       ELSE Goes(r, "settle") /\ UNCHANGED maxLength
  BY DEF Dequeue
<1>2. l \in GoodLabels
  BY <1>a
<1>3. Acceptable(r, l) <=> ~Refused(r, l)
  <2>1. l.node \in Node /\ l.len \in Nat
    BY <1>2, LabelFacts, NetAssumption
  <2>2. flag[r][l.node].len \in Nat /\ maxLength[r] \in Nat
    BY <1>a, <2>1, LabelFacts, NetAssumption
  <2> QED
    BY <2>1, <2>2 DEF Acceptable, Refused
<1>4. \A p : Goes(r, p) => pc'[r] = p
  BY PcAt
<1>5. flag' = flag /\ idx' = idx /\ pc[r] = "dequeue" /\ heap'[r] = heap[r] \ {l}
  BY <1>a, <1>1 DEF Dequeue
<1>6. CASE Acceptable(r, l)
  <2>1. cur'[r] = l
    BY <1>a, <1>1, <1>6
  <2> QED
    BY <1>1, <1>2, <1>3, <1>4, <1>5, <1>6, <2>1
<1>7. CASE ~Acceptable(r, l)
  BY <1>1, <1>2, <1>3, <1>4, <1>5, <1>7
<1> QED
  BY <1>6, <1>7

LEMMA SettleIs ==
  ASSUME Types, NEW r \in Runner, Settle(r)
  PROVE  /\ cur[r] \in GoodLabels /\ pc[r] = "settle" /\ pc'[r] = "relax"
         /\ cur' = cur /\ heap' = heap /\ idx'[r] = 1
         /\ \A n \in Node : flag'[r][n] = IF n = cur[r].node THEN cur[r] ELSE flag[r][n]
<1>1. pc[r] = "settle" /\ Goes(r, "relax") /\ cur' = cur /\ heap' = heap
      /\ flag' = Put(flag, r, cur[r]) /\ idx' = [idx EXCEPT ![r] = 1]
  BY DEF Settle, Put
<1>2. cur[r] \in GoodLabels /\ idx'[r] = 1
  BY <1>1, PlaceFacts DEF Types, SearchTypes
<1> QED
  BY <1>1, <1>2, PcAt, FlagSet

\* The label that relaxing makes is taken up, sent away, or of no use.
RelaxesTo(r, x, l) ==
  /\ pc[r] = "relax" /\ pc' = pc /\ cur' = cur /\ cur[r] \in GoodLabels
  /\ idx[r] \in 1..Len(Out[cur[r].node]) /\ x = Out[cur[r].node][idx[r]]
  /\ idx'[r] = idx[r] + 1 /\ heap[r] \subseteq heap'[r]
  /\ l.node = NodeB[x] /\ l.len = cur[r].len + Weight[x] /\ NodeA[x] = cur[r].node
  /\ \/ /\ flag' = flag
        /\ Usable(r, x) => l.len > maxLength[r] \/ flag[r][NodeB[x]].len <= l.len
     \/ /\ l \in GoodLabels /\ l.len < flag[r][NodeB[x]].len
        /\ \A n \in Node : flag'[r][n] = IF n = NodeB[x] THEN l ELSE flag[r][n]
        /\ \/ ~IsCrossBorder(x) /\ l \in heap'[r]
           \/ IsCrossBorder(x) /\ routingChan' = Append(routingChan, Request(KeyOf(r), l))
LEMMA RelaxIs ==
  ASSUME Types, NEW r \in Runner, Relax(r)
  PROVE  \E x \in Edge : \E l : RelaxesTo(r, x, l)
<1> DEFINE x == Out[cur[r].node][idx[r]]
           l == Extended(r, x)
           improves == Usable(r, x) /\ l.len <= maxLength[r] /\ l.len < flag[r][NodeB[x]].len
<1>a. /\ heap \in [Runner -> SUBSET GoodLabels] /\ idx \in [Runner -> Nat \ {0}]
      /\ maxLength \in [Runner -> 0..Unlimited] /\ flag \in [Runner -> [Node -> GoodLabels]]
  BY DEF Types, SearchTypes
<1>1. /\ pc[r] = "relax" /\ pc' = pc /\ cur' = cur
      /\ idx[r] <= Len(Out[cur[r].node]) /\ idx' = [idx EXCEPT ![r] = @ + 1]
  BY DEF Relax
<1>2. /\ cur[r] \in GoodLabels /\ cur[r].node \in Node
      /\ x \in Edge /\ NodeB[x] \in Node /\ NodeA[x] = cur[r].node
      /\ l.node = NodeB[x] /\ l.len = cur[r].len + Weight[x]
      /\ l.len <= maxLength[r] => l \in GoodLabels
  BY <1>1, RelaxFacts
<1>3. idx[r] \in 1..Len(Out[cur[r].node]) /\ idx'[r] = idx[r] + 1
  <2>1. Len(Out[cur[r].node]) \in Nat
    BY <1>2, NetFacts
  <2> QED
    BY <1>a, <1>1, <2>1
<1>4. /\ flag' = IF improves THEN [flag EXCEPT ![r][NodeB[x]] = l] ELSE flag
      /\ improves /\ IsCrossBorder(x) => routingChan' = Append(routingChan, Request(KeyOf(r), l))
      /\ heap' = IF improves /\ ~IsCrossBorder(x) THEN [heap EXCEPT ![r] = @ \cup {l}] ELSE heap
  BY DEF Relax
<1>5. l.len \in Nat /\ flag[r][NodeB[x]].len \in Nat /\ maxLength[r] \in Nat
  <2>1. cur[r].len \in Nat /\ Weight[x] \in Nat
    BY <1>2, LabelFacts, NetFacts, NetAssumption
  <2>2. flag[r][NodeB[x]].len \in Nat /\ maxLength[r] \in Nat
    BY <1>a, <1>2, LabelFacts, NetAssumption
  <2> QED
    BY <1>2, <2>1, <2>2
<1>6. PICK y \in Edge : y = x
  BY <1>2
<1>11. PICK o : o = l
  OBVIOUS
<1>7. /\ pc[r] = "relax" /\ pc' = pc /\ cur' = cur /\ cur[r] \in GoodLabels
      /\ idx[r] \in 1..Len(Out[cur[r].node]) /\ y = Out[cur[r].node][idx[r]]
      /\ idx'[r] = idx[r] + 1
      /\ o.node = NodeB[y] /\ o.len = cur[r].len + Weight[y]
      /\ NodeA[y] = cur[r].node
  BY <1>1, <1>2, <1>3, <1>6, <1>11
<1>8. heap[r] \subseteq heap'[r]
  BY <1>a, <1>4
<1>9. CASE improves
  <2>1. o \in GoodLabels /\ o.node = NodeB[y] /\ flag' = Put(flag, r, o)
    <3>1. o \in GoodLabels
      BY <1>2, <1>9, <1>11
    <3>2. o.node = NodeB[y]
      BY <1>7
    <3>3. flag' = [flag EXCEPT ![r][NodeB[y]] = o]
      <4> HIDE DEF x, l
      <4> QED
        BY <1>4, <1>6, <1>9, <1>11
    <3> QED
      BY <3>1, <3>2, <3>3 DEF Put
  <2>2. \A n \in Node : flag'[r][n] = IF n = NodeB[y] THEN o ELSE flag[r][n]
    BY <2>1, FlagSet
  <2>3. o.len < flag[r][NodeB[y]].len
    BY <1>6, <1>9, <1>11
  <2>4. \/ ~IsCrossBorder(y) /\ o \in heap'[r]
        \/ IsCrossBorder(y) /\ routingChan' = Append(routingChan, Request(KeyOf(r), o))
    <3> HIDE DEF x, l
    <3> QED
      BY <1>a, <1>4, <1>6, <1>9, <1>11
  <2> HIDE DEF improves, x, l
  <2> QED
    BY <1>7, <1>8, <2>1, <2>2, <2>3, <2>4 DEF RelaxesTo
<1>10. CASE ~improves
  <2>1. flag' = flag
    BY <1>4, <1>10
  <2>2. Usable(r, y) => o.len > maxLength[r] \/ flag[r][NodeB[y]].len <= o.len
    <3>1. o.len \in Nat /\ flag[r][NodeB[y]].len \in Nat /\ maxLength[r] \in Nat
      BY <1>5, <1>6, <1>11
    <3>2. ~(Usable(r, y) /\ o.len <= maxLength[r] /\ o.len < flag[r][NodeB[y]].len)
      <4> HIDE DEF x, l
      <4> QED
        BY <1>6, <1>10, <1>11
    <3> HIDE DEF improves, x, l
    <3> QED
      BY <3>1, <3>2
  <2> HIDE DEF improves, x, l
  <2> QED
    BY <1>7, <1>8, <2>1, <2>2 DEF RelaxesTo
<1> QED
  BY <1>9, <1>10

LEMMA RelaxedIs ==
  ASSUME Types, NEW r \in Runner, Relaxed(r)
  PROVE  /\ pc[r] = "relax" /\ pc'[r] = "loop" /\ idx[r] > Len(Out[cur[r].node])
         /\ cur' = cur /\ heap' = heap /\ idx' = idx /\ flag' = flag
<1>1. pc[r] = "relax" /\ Goes(r, "loop") /\ idx[r] > Len(Out[cur[r].node])
      /\ cur' = cur /\ heap' = heap /\ idx' = idx /\ flag' = flag
  BY DEF Relaxed, runnerVars, searchVars
<1> QED
  BY <1>1, PcAt

\* The types of what the search of a runner works with.
LEMMA LabelTypes ==
  ASSUME Types, NEW r \in Runner
  PROVE  /\ \A n \in Node : /\ flag[r][n] \in GoodLabels /\ flag[r][n].node = n
                            /\ flag[r][n].len \in Nat /\ flag[r][n].len <= Unlimited
                            /\ Known(r, n) \in Nat /\ Known(r, n) <= Unlimited
         /\ maxLength[r] \in Nat /\ maxLengths[r] \in Nat /\ idx[r] \in Nat
         /\ pc[r] \in Working => cur[r] \in GoodLabels /\ cur[r].node \in Node /\ cur[r].len \in Nat
         /\ \A l \in heap[r] : l \in GoodLabels /\ l.node \in Node /\ l.len \in Nat /\ l.len <= Unlimited
<1>1. /\ maxLength[r] \in 0..Unlimited /\ maxLengths[r] \in 0..Unlimited /\ idx[r] \in Nat
      /\ pc[r] \in Working => cur[r] \in GoodLabels
      /\ \A l \in heap[r] : l \in GoodLabels
      /\ \A n \in Node : flag[r][n] \in GoodLabels /\ flag[r][n].node = n
  BY DEF Types, SearchTypes, ManagerTypes
<1>2. \A l \in GoodLabels : l.node \in Node /\ l.len \in Nat /\ l.len <= Unlimited
  BY LabelFacts, NetAssumption
<1> QED
  BY <1>1, <1>2, NetAssumption DEF Known

LEMMA LabelTypesNext ==
  ASSUME Types', NEW r \in Runner
  PROVE  /\ \A n \in Node : /\ flag'[r][n] \in GoodLabels /\ flag'[r][n].node = n
                            /\ flag'[r][n].len \in Nat /\ flag'[r][n].len <= Unlimited
                            /\ Known(r, n)' \in Nat /\ Known(r, n)' <= Unlimited
         /\ maxLength'[r] \in Nat /\ maxLengths'[r] \in Nat /\ idx'[r] \in Nat
         /\ pc'[r] \in Working => cur'[r] \in GoodLabels /\ cur'[r].node \in Node /\ cur'[r].len \in Nat
         /\ \A l \in heap'[r] : l \in GoodLabels /\ l.node \in Node /\ l.len \in Nat /\ l.len <= Unlimited
<1>1. /\ maxLength'[r] \in 0..Unlimited /\ maxLengths'[r] \in 0..Unlimited /\ idx'[r] \in Nat
      /\ pc'[r] \in Working => cur'[r] \in GoodLabels
      /\ \A l \in heap'[r] : l \in GoodLabels
      /\ \A n \in Node : flag'[r][n] \in GoodLabels /\ flag'[r][n].node = n
  BY DEF Types, SearchTypes, ManagerTypes
<1>2. \A l \in GoodLabels : l.node \in Node /\ l.len \in Nat /\ l.len <= Unlimited
  BY LabelFacts, NetAssumption
<1> QED
  BY <1>1, <1>2, NetAssumption DEF Known

LEMMA CurIsShortStep ==
  ASSUME Types, Begun, Stopping, CurIsShort, [Next]_vars
  PROVE  CurIsShort'
<1> SUFFICES ASSUME NEW r \in Runner
    PROVE  /\ pc'[r] \in Working => cur'[r].len <= flag'[r][cur'[r].node].len
           /\ pc'[r] = "relax" => cur'[r].len = flag'[r][cur'[r].node].len
  BY DEF CurIsShort
<1>1. /\ pc[r] \in Working => cur[r].len <= flag[r][cur[r].node].len
      /\ pc[r] = "relax" => cur[r].len = flag[r][cur[r].node].len
  BY DEF CurIsShort
<1>2. CASE Rests(r)
  BY <1>1, <1>2, PlaceFacts DEF Rests, Alike
<1>3. CASE Dequeue(r)
  <2>1. PICK l \in GoodLabels :
          /\ flag' = flag
          /\ pc'[r] = "loop" \/ (~Refused(r, l) /\ cur'[r] = l /\ pc'[r] \in {"stopRun", "settle"})
    BY <1>3, DequeueIs
  <2>2. l.node \in Node /\ l.len \in Nat /\ flag[r][l.node].len \in Nat
    BY LabelFacts, LabelTypes, NetAssumption
  <2> QED
    BY <2>1, <2>2, PlaceFacts DEF Refused
<1>4. CASE Settle(r)
  <2>1. /\ cur[r] \in GoodLabels /\ cur' = cur
        /\ \A n \in Node : flag'[r][n] = IF n = cur[r].node THEN cur[r] ELSE flag[r][n]
    BY <1>4, SettleIs
  <2>2. cur[r].node \in Node /\ cur[r].len \in Nat
    BY <2>1, LabelFacts, NetAssumption
  <2> QED
    BY <2>1, <2>2
<1>5. CASE Relax(r)
  <2>r. PICK x \in Edge : \E l : RelaxesTo(r, x, l)
    BY <1>5, RelaxIs
  <2>s. PICK l : RelaxesTo(r, x, l)
    BY <2>r
  <2>1. /\ pc[r] = "relax" /\ pc' = pc /\ cur' = cur /\ cur[r] \in GoodLabels
        /\ l.len = cur[r].len + Weight[x]
        /\ \/ flag' = flag
           \/ /\ l.len < flag[r][NodeB[x]].len
              /\ \A n \in Node : flag'[r][n] = IF n = NodeB[x] THEN l ELSE flag[r][n]
    BY <2>s DEF RelaxesTo
  <2>2. cur[r].node \in Node /\ cur[r].len \in Nat /\ Weight[x] \in Nat
    BY <2>1, LabelFacts, NetFacts, NetAssumption
  <2>3. cur[r].len = flag[r][cur[r].node].len
    BY <1>1, <2>1
  <2>4. flag'[r][cur[r].node] = flag[r][cur[r].node]
    BY <2>1, <2>2, <2>3
  <2> QED
    BY <2>1, <2>2, <2>3, <2>4
<1>6. CASE Relaxed(r)
  BY <1>6, RelaxedIs, PlaceFacts
<1> QED
  BY <1>2, <1>3, <1>4, <1>5, <1>6, RunnerSteps

LEMMA KnownFalls ==
  ASSUME Types, Begun, Stopping, CurIsShort, [Next]_vars, NEW r \in Runner, NEW n \in Node
  PROVE  Known(r, n)' <= Known(r, n)
<1>1. /\ pc[r] \in Working => cur[r].len <= flag[r][cur[r].node].len
      /\ pc[r] = "relax" => cur[r].len = flag[r][cur[r].node].len
  BY DEF CurIsShort
<1>2. /\ flag[r][n].len \in Nat /\ Known(r, n) \in Nat
      /\ pc[r] \in Working => cur[r].len \in Nat
  BY LabelTypes
<1>3. CASE Rests(r)
  <2>1. Known(r, n)' = Known(r, n)
    BY <1>3, PlaceFacts DEF Rests, Alike, Known
  <2> QED
    BY <1>2, <2>1
<1>4. CASE Dequeue(r)
  <2>1. PICK l \in GoodLabels :
          /\ flag' = flag /\ pc[r] = "dequeue"
          /\ pc'[r] = "loop" \/ (~Refused(r, l) /\ cur'[r] = l)
    BY <1>4, DequeueIs
  <2>2. l.node \in Node /\ l.len \in Nat /\ flag[r][l.node].len \in Nat
    BY LabelFacts, LabelTypes, NetAssumption
  <2> QED
    BY <1>2, <2>1, <2>2, PlaceFacts DEF Refused, Known
<1>5. CASE Settle(r)
  <2>1. /\ cur[r] \in GoodLabels /\ cur' = cur /\ pc[r] = "settle" /\ pc'[r] = "relax"
        /\ flag'[r][n] = IF n = cur[r].node THEN cur[r] ELSE flag[r][n]
    BY <1>5, SettleIs
  <2>2. Known(r, n)' = Known(r, n)
    BY <2>1, PlaceFacts DEF Known
  <2> QED
    BY <1>2, <2>2
<1>6. CASE Relax(r)
  <2>r. PICK x \in Edge : \E l : RelaxesTo(r, x, l)
    BY <1>6, RelaxIs
  <2>s. PICK l : RelaxesTo(r, x, l)
    BY <2>r
  <2>1. /\ pc[r] = "relax" /\ pc' = pc /\ cur' = cur
        /\ \/ flag' = flag
           \/ /\ l.len < flag[r][NodeB[x]].len
              /\ flag'[r][n] = IF n = NodeB[x] THEN l ELSE flag[r][n]
    BY <2>s DEF RelaxesTo
  <2>2. pc[r] \in Working /\ pc'[r] \in Working /\ cur'[r] = cur[r]
    BY <2>1, PlaceFacts
  <2>3. CASE cur[r].node = n
    <3>1. Known(r, n)' = Known(r, n)
      BY <2>2, <2>3 DEF Known
    <3> QED
      BY <1>2, <3>1
  <2>4. CASE cur[r].node # n
    <3>1. Known(r, n) = flag[r][n].len /\ Known(r, n)' = flag'[r][n].len
      BY <2>2, <2>4 DEF Known
    <3>2. flag'[r][n].len <= flag[r][n].len
      <4>1. CASE flag'[r][n] = flag[r][n]
        BY <1>2, <4>1
      <4>2. CASE flag'[r][n] # flag[r][n]
        <5>1. flag'[r][n].len < flag[r][n].len
          BY <2>1, <4>2
        <5>2. flag'[r][n].len \in Nat
          BY TypesStep, LabelTypesNext
        <5> QED
          BY <1>2, <5>1, <5>2
      <4> QED
        BY <4>1, <4>2
    <3> QED
      BY <3>1, <3>2
  <2> QED
    BY <2>3, <2>4
<1>7. CASE Relaxed(r)
  <2>1. pc[r] = "relax" /\ pc'[r] = "loop" /\ cur' = cur /\ flag' = flag
    BY <1>7, RelaxedIs
  <2> QED
    BY <1>1, <1>2, <2>1, PlaceFacts DEF Known
<1> QED
  BY <1>3, <1>4, <1>5, <1>6, <1>7, RunnerSteps

\* A query that is under way keeps its ends.
LEMMA EndStays ==
  ASSUME Types, [Next]_vars, NEW k \in Key, Asked(k)
  PROVE  /\ start'[k] = start[k] /\ end'[k] = end[k] /\ start[k] \in Node /\ end[k] \in Node
         /\ Asked(k)'
BY ClientSteps DEF Asked, Types, ClientTypes

LEMMA BoundFalls ==
  ASSUME Types, Begun, Stopping, CurIsShort, [Next]_vars, NEW k \in Key, Asked(k)
  PROVE  Bound(k)' <= Bound(k) /\ Bound(k) \in Nat /\ Bound(k) <= Unlimited /\ Bound(k)' \in Nat
<1>1. PICK e \in Node : end[k] = e /\ end'[k] = e
  BY EndStays
<1>2. PICK r \in Runner : r = Home(k, e)
  BY RunnerFacts DEF Home
<1>3. Known(r, e)' <= Known(r, e)
  BY KnownFalls
<1>4. Known(r, e) \in Nat /\ Known(r, e) <= Unlimited
  BY LabelTypes
<1>5. Known(r, e)' \in Nat
  BY TypesStep, LabelTypesNext
<1>6. Bound(k) = Known(r, e)
  BY <1>1, <1>2 DEF Bound
<1>7. Bound(k)' = Known(r, e)'
  BY <1>1, <1>2 DEF Bound, Home, Known
<1> QED
  BY <1>3, <1>4, <1>5, <1>6, <1>7

LEMMA KnownIsShort ==
  ASSUME Types, CurIsShort, NEW r \in Runner, NEW n \in Node
  PROVE  Known(r, n) <= flag[r][n].len
<1>1. flag[r][n].len \in Nat /\ (pc[r] \in Working => cur[r].len <= flag[r][cur[r].node].len)
  BY LabelTypes DEF CurIsShort
<1> QED
  BY <1>1 DEF Known

\* The types of the requests under way.
LEMMA RequestTypes ==
  ASSUME Types
  PROVE  /\ routingChan \in Seq(GoodRequests) /\ Len(routingChan) \in Nat
         /\ \A i \in 1..Len(routingChan) :
              /\ routingChan[i] \in GoodRequests /\ routingChan[i].key \in Key
              /\ routingChan[i].label \in GoodLabels /\ routingChan[i].label.node \in Node
              /\ routingChan[i].label.len \in Nat
         /\ route.at \notin {"pop", "empty", "asleep"} => /\ route.msg.key \in Key /\ route.msg.label.node \in Node
                                /\ route.msg.label.len \in Nat
<1>1. routingChan \in Seq(GoodRequests)
  BY DEF Types, ManagerTypes
<1>2. Len(routingChan) \in Nat /\ \A i \in 1..Len(routingChan) : routingChan[i] \in GoodRequests
  BY <1>1
<1>3. \A l \in GoodLabels : l.node \in Node /\ l.len \in Nat
  BY LabelFacts, NetAssumption
<1>4. \A m \in GoodRequests : m.key \in Key /\ m.label \in GoodLabels
  BY LabelFacts
<1>5. route.at \notin {"pop", "empty", "asleep"} => route.msg \in GoodRequests
  BY ServedFacts
<1> QED
  BY <1>1, <1>2, <1>3, <1>4, <1>5

\* What reaches a node in time does so for any later time.
LEMMA ReachedMore ==
  ASSUME Types, NEW k \in Key, Asked(k), NEW n \in Node, NEW m \in Nat, NEW o \in Nat, m <= o,
         Reached(k, n, m)
  PROVE  Reached(k, n, o)
<1>1. PICK r \in Runner : r = Home(k, n)
  BY RunnerFacts DEF Home
<1>2. Known(r, n) \in Nat /\ \A l \in heap[r] : l.len \in Nat
  BY LabelTypes
<1>3. Bound(k) \in Nat
  <2>1. end[k] \in Node
    BY DEF Asked, Types, ClientTypes
  <2>2. Home(k, end[k]) \in Runner
    BY <2>1, RunnerFacts DEF Home
  <2> QED
    BY <2>1, <2>2, LabelTypes DEF Bound
<1>4. \A l : l.len \in Nat /\ Serves(l, n, m) => Serves(l, n, o)
  BY DEF Serves
<1>5. InHeap(r, n, m) => InHeap(r, n, o)
  BY <1>2, <1>4 DEF InHeap
<1>6. InQueue(k, n, m) => InQueue(k, n, o)
  BY <1>4, RequestTypes DEF InQueue
<1>7. InRoute(k, n, m) => InRoute(k, n, o)
  BY <1>4, RequestTypes DEF InRoute
<1>8. (Bound(k) <= m => Bound(k) <= o) /\ (Known(r, n) <= m => Known(r, n) <= o)
  BY <1>2, <1>3
<1> QED
  BY <1>1, <1>5, <1>6, <1>7, <1>8 DEF Reached

\* A request waits in the queue until the routing loop takes it.
LEMMA InQueueStays ==
  ASSUME Types, [Next]_vars, NEW k \in Key, NEW n \in Node, NEW m \in Nat, InQueue(k, n, m)
  PROVE  InQueue(k, n, m)' \/ InRoute(k, n, m)'
<1>1. PICK i \in 1..Len(routingChan) : routingChan[i].key = k /\ Serves(routingChan[i].label, n, m)
  BY DEF InQueue
<1>2. routingChan \in Seq(GoodRequests) /\ Len(routingChan) \in Nat
  BY RequestTypes
<1>3. ASSUME NEW q, routingChan' = Append(routingChan, q) PROVE InQueue(k, n, m)'
  <2>1. Len(routingChan') = Len(routingChan) + 1 /\ routingChan'[i] = routingChan[i]
    BY <1>2, <1>3
  <2>2. i \in 1..Len(routingChan')
    BY <1>2, <2>1
  <2> QED
    BY <1>1, <2>1, <2>2 DEF InQueue, Serves
<1>4. CASE UNCHANGED routingChan
  BY <1>1, <1>4 DEF InQueue, Serves
<1>5. CASE RoutePop
  <2>1. routingChan # <<>> /\ routingChan' = Tail(routingChan)
        /\ route' = [at |-> "find", msg |-> Head(routingChan)]
    BY <1>5 DEF RoutePop
  <2>2. CASE i = 1
    <3>1. route'.at = "find" /\ route'.msg = routingChan[i]
      BY <1>2, <2>1, <2>2
    <3> QED
      BY <1>1, <3>1 DEF InRoute, Serves
  <2>3. CASE i # 1
    <3>1. /\ i - 1 \in 1..Len(routingChan') /\ routingChan'[i - 1] = routingChan[i]
      BY <1>2, <2>1, <2>3
    <3>2. PICK j \in 1..Len(routingChan') : routingChan'[j] = routingChan[i]
      BY <3>1
    <3> QED
      BY <1>1, <3>2 DEF InQueue, Serves
  <2> QED
    BY <2>2, <2>3
<1>6. ASSUME NEW j \in Key, NEW s \in Node, NEW e \in Node, RunRouting(j, s, e)
      PROVE  InQueue(k, n, m)'
  BY <1>3, <1>6 DEF RunRouting
<1>7. ASSUME NEW r \in Runner, Relax(r) PROVE UNCHANGED routingChan \/ InQueue(k, n, m)'
  <2>1. UNCHANGED routingChan \/ \E q : routingChan' = Append(routingChan, q)
    BY <1>7, RelaxSteps
  <2> QED
    BY <1>3, <2>1
<1> QED
  BY <1>4, <1>5, <1>6, <1>7, Changes

LEMMA BoundedIs ==
  ASSUME Bounded, NEW r \in Runner, Searching(KeyOf(r))
  PROVE  maxLength[r] >= Bound(KeyOf(r)) /\ maxLengths[r] >= Bound(KeyOf(r))
BY DEF Bounded

\* The request that is being served goes into a heap, or it is of no use.
LEMMA InRouteStays ==
  ASSUME Types, Begun, Stopping, CurIsShort, Bounded, [Next]_vars,
         NEW k \in Key, Searching(k), NEW n \in Node, NEW m \in Nat, InRoute(k, n, m)
  PROVE  \/ InRoute(k, n, m)' \/ InHeap(Home(k, n), n, m)'
         \/ Bound(k) <= m \/ Known(Home(k, n), n) <= m
<1>1. /\ route.at \in {"find", "get", "add", "create"} /\ route.msg.key = k
      /\ route.msg.label.node = n /\ route.msg.label.len <= m
  BY DEF InRoute, Serves
<1>2. PICK r \in Runner : r = Home(k, n) /\ r = Served /\ KeyOf(r) = k
  BY <1>1, ServedFacts, RunnerFacts DEF Home, Served
<1>3. PICK l \in GoodLabels : l = route.msg.label /\ l.node = n /\ l.len <= m /\ l.len \in Nat
  BY <1>1, ServedFacts, LabelFacts, NetAssumption
<1>4. RoutePop \/ route'.msg = route.msg
  BY RouteMsg
<1>5. route'.msg = route.msg
  BY <1>1, <1>4 DEF RoutePop
<1>6. ASSUME route'.at \in {"find", "get", "add", "create"} PROVE InRoute(k, n, m)'
  BY <1>1, <1>5, <1>6 DEF InRoute, Serves
<1>7. ASSUME l \in heap'[r] PROVE InHeap(Home(k, n), n, m)'
  <2>1. \E o \in heap'[r] : o.node = n /\ o.len <= m
    BY <1>3, <1>7
  <2> QED
    BY <1>2, <2>1 DEF InHeap, Serves, Home
<1>8. maxLength[r] >= Bound(k) /\ maxLengths[r] >= Bound(k)
  BY <1>2, BoundedIs
<1>9. /\ maxLength[r] \in Nat /\ maxLengths[r] \in Nat /\ Bound(k) \in Nat /\ flag[r][n].len \in Nat
      /\ Known(r, n) \in Nat /\ Known(r, n) <= flag[r][n].len
  BY LabelTypes, KnownIsShort, BoundFalls DEF Searching, Asked
<1>10. CASE RouteFind
  <2>1. k \notin stoped
    BY DEF Searching, Stopping, StopedLeft
  <2>2. RouteGoes("get") \/ RouteGoes("create")
    BY <1>1, <1>10, <2>1 DEF RouteFind
  <2> QED
    BY <1>6, <2>2, RouteAt
<1>11. CASE RouteGet
  BY <1>6, <1>11, RouteAt DEF RouteGet
<1>12. CASE RouteAdd
  <2>1. CASE Acceptable(r, l)
    <3>1. heap' = [heap EXCEPT ![r] = @ \cup {l}]
      BY <1>2, <1>3, <1>12, <2>1 DEF RouteAdd
    <3> QED
      BY <1>7, <3>1 DEF Types, SearchTypes
  <2>2. CASE ~Acceptable(r, l)
    <3>1. l.len > maxLength[r] \/ l.len > flag[r][n].len
      BY <1>3, <1>9, <2>2 DEF Acceptable
    <3>2. maxLength[r] < m \/ flag[r][n].len < m
      BY <1>3, <1>9, <3>1
    <3> QED
      BY <1>2, <1>8, <1>9, <3>2
  <2> QED
    BY <2>1, <2>2
<1>13. CASE RouteCreate
  <2>1. CASE l.len <= maxLengths[r]
    <3>1. heap' = [heap EXCEPT ![r] = {l}]
      BY <1>2, <1>3, <1>13, <2>1 DEF RouteCreate
    <3> QED
      BY <1>7, <3>1 DEF Types, SearchTypes
  <2>2. CASE ~(l.len <= maxLengths[r])
    BY <1>3, <1>8, <1>9, <2>2
  <2> QED
    BY <2>1, <2>2
<1>14. CASE UNCHANGED route
  BY <1>1, <1>6, <1>14
<1>15. ~(RoutePop \/ RouteIsTaken \/ RouteSetRunning \/ RouteRelease \/ RouteWakes)
  BY <1>1 DEF RoutePop, RouteIsTaken, RouteSetRunning, RouteRelease, RouteWakes
<1>16. ~(RouteClears \/ RouteStart \/ RouteDecCheck \/ RouteDecWrite \/ RouteOversleeps)
  BY <1>1 DEF RouteClears, RouteStart, RouteDecCheck, RouteDecWrite, RouteOversleeps
<1> QED
  BY <1>10, <1>11, <1>12, <1>13, <1>14, <1>15, <1>16, Changes

\* A label leaves a heap only to be worked on, or if it is of no use.
LEMMA InHeapStays ==
  ASSUME Types, Begun, Stopping, CurIsShort, Bounded, [Next]_vars,
         NEW r \in Runner, Searching(KeyOf(r)), NEW n \in Node, NEW m \in Nat, InHeap(r, n, m)
  PROVE  \/ InHeap(r, n, m)' \/ Known(r, n)' <= m
         \/ Bound(KeyOf(r)) <= m \/ Known(r, n) <= m
<1>1. PICK l \in heap[r] : l.node = n /\ l.len <= m
  BY DEF InHeap, Serves
<1>2. l.len \in Nat
  BY LabelTypes
<1>3. CASE l \in heap'[r]
  BY <1>1, <1>3 DEF InHeap, Serves
<1>4. CASE l \notin heap'[r]
  <2>1. Dequeue(r)
    BY <1>1, <1>4, RunnerSteps, SettleIs, RelaxIs, RelaxedIs DEF Rests, RelaxesTo
  <2>2. PICK d \in GoodLabels :
           /\ d \in heap[r] /\ heap'[r] = heap[r] \ {d} /\ flag' = flag /\ pc[r] = "dequeue"
           /\ Refused(r, d) \/ (cur'[r] = d /\ pc'[r] \in {"settle", "stopRun"})
    BY <2>1, DequeueIs
  <2>3. d = l
    BY <1>1, <1>4, <2>2
  <2>4. CASE Refused(r, d)
    <3>1. Known(r, n) = flag[r][n].len
      BY <2>2, PlaceFacts DEF Known
    <3>2. maxLength[r] >= Bound(KeyOf(r)) /\ Bound(KeyOf(r)) \in Nat
      BY BoundedIs, RunnerFacts, BoundFalls DEF Searching, Asked
    <3>3. l.len > maxLength[r] \/ l.len > flag[r][n].len
      BY <1>1, <2>3, <2>4 DEF Refused
    <3>4. maxLength[r] \in Nat /\ flag[r][n].len \in Nat
      BY LabelTypes
    <3> QED
      BY <1>1, <1>2, <3>1, <3>2, <3>3, <3>4
  <2>5. CASE cur'[r] = d /\ pc'[r] \in {"settle", "stopRun"}
    <3>1. Known(r, n)' = l.len
      BY <1>1, <2>3, <2>5, PlaceFacts DEF Known
    <3> QED
      BY <1>1, <3>1
  <2> QED
    BY <2>2, <2>4, <2>5
<1> QED
  BY <1>3, <1>4

\* What reaches a node goes on reaching it.
LEMMA ReachedStays ==
  ASSUME Types, Begun, Stopping, CurIsShort, Bounded, [Next]_vars,
         NEW k \in Key, Searching(k), NEW n \in Node, NEW m \in Nat, Reached(k, n, m)
  PROVE  Reached(k, n, m)'
<1>1. PICK r \in Runner : r = Home(k, n) /\ KeyOf(r) = k
  BY RunnerFacts DEF Home
<1>2. /\ Bound(k)' <= Bound(k) /\ Bound(k) \in Nat /\ Bound(k)' \in Nat
      /\ Known(r, n)' <= Known(r, n) /\ Known(r, n) \in Nat
  BY BoundFalls, KnownFalls, LabelTypes DEF Searching, Asked
<1>3. Known(r, n)' \in Nat
  BY TypesStep, LabelTypesNext
<1>4. Known(r, n)' <= m => Reached(k, n, m)'
  BY <1>1 DEF Reached, Home, Known
<1>5. CASE Bound(k) <= m
  <2>1. Bound(k)' <= m
    BY <1>2, <1>5
  <2> QED
    BY <2>1 DEF Reached
<1>6. CASE Known(r, n) <= m
  <2>1. Known(r, n)' <= m
    BY <1>2, <1>3, <1>6
  <2> QED
    BY <1>4, <2>1
<1>7. InHeap(r, n, m)' => Reached(k, n, m)'
  BY <1>1 DEF Reached, Home, InHeap
<1>8. CASE InHeap(r, n, m)
  <2>1. \/ InHeap(r, n, m)' \/ Known(r, n)' <= m \/ Bound(k) <= m \/ Known(r, n) <= m
    BY <1>1, <1>8, InHeapStays
  <2> QED
    BY <1>4, <1>5, <1>6, <1>7, <2>1
<1>9. CASE InQueue(k, n, m)
  <2>1. InQueue(k, n, m)' \/ InRoute(k, n, m)'
    BY <1>9, InQueueStays
  <2> QED
    BY <2>1 DEF Reached
<1>10. CASE InRoute(k, n, m)
  <2>1. \/ InRoute(k, n, m)' \/ InHeap(Home(k, n), n, m)' \/ Bound(k) <= m \/ Known(r, n) <= m
    BY <1>1, <1>10, InRouteStays
  <2>2. InHeap(Home(k, n), n, m)' => Reached(k, n, m)'
    BY DEF Reached
  <2>3. InRoute(k, n, m)' => Reached(k, n, m)'
    BY DEF Reached
  <2> QED
    BY <1>5, <1>6, <2>1, <2>2, <2>3
<1> QED
  BY <1>1, <1>5, <1>6, <1>8, <1>9, <1>10 DEF Reached

Spreading == {"stopRun", "stopReq", "bound", "tell"}
\* A search is ended, made, or comes to spread a bound by one step only.
LEMMA ComesTo ==
  ASSUME Types, [Next]_vars, NEW r \in Runner
  PROVE  /\ pc'[r] \in Spreading => pc[r] \in Spreading \/ Dequeue(r)
         /\ pc'[r] = "done" => pc[r] = "done" \/ (Loop(r) /\ finished[r])
         /\ pc'[r] = "new" => pc[r] = "new" \/ (RouteCreate /\ r = Served)
<1> DEFINE G(p) == /\ p \in Spreading => pc[r] \in Spreading \/ Dequeue(r)
                   /\ p = "done" => pc[r] = "done" \/ (Loop(r) /\ finished[r])
                   /\ p = "new" => pc[r] = "new" \/ (RouteCreate /\ r = Served)
<1>1. ASSUME NEW q \in Runner, NEW p, Goes(q, p), q = r => G(p) PROVE G(pc'[r])
  <2>1. CASE q = r
    <3>1. pc'[r] = p
      BY <1>1, <2>1, PcAt
    <3> HIDE DEF G
    <3> QED
      BY <1>1, <2>1, <3>1
  <2>2. CASE q # r
    <3>1. pc'[r] = pc[r]
      BY <1>1, <2>2, PcAt
    <3> QED
      BY <3>1
  <2> QED
    BY <2>1, <2>2
<1>2. G(pc[r])
  OBVIOUS
<1>3. \A p \in {"loop", "dequeue", "idle", "idleWrite", "take", "receiving", "settle", "relax"} : G(p)
  BY DEF Spreading
<1>4. ASSUME RouteCreate \/ RouteStart \/ RouteWakes PROVE G(pc'[r])
  <2>1. route.at \notin {"pop", "empty", "asleep"}
    BY <1>4 DEF RouteCreate, RouteStart, RouteWakes
  <2>2. PICK q \in Runner : q = Served
    BY <2>1, ServedFacts
  <2>3. (Goes(q, "new") /\ RouteCreate) \/ Goes(q, "loop")
    BY <1>4, <2>2 DEF RouteCreate, RouteStart, RouteWakes, Goes
  <2>4. RouteCreate /\ q = r => G("new")
    BY <2>2 DEF Spreading
  <2> HIDE DEF G
  <2> QED
    BY <1>1, <1>3, <2>3, <2>4
<1>5. ASSUME NEW q \in Runner, \/ DequeueNothing(q) \/ BoundSpread(q) \/ Settle(q) \/ Relaxed(q)
                               \/ IdleCheck(q) \/ IdleWrite(q) \/ Take(q) \/ StopperWakes(q)
      PROVE  G(pc'[r])
  <2>1. \E p \in {"idle", "settle", "relax", "loop", "idleWrite", "take", "receiving"} : Goes(q, p)
    BY <1>5 DEF DequeueNothing, BoundSpread, Settle, Relaxed, IdleCheck, IdleWrite, Take, StopperWakes
  <2> HIDE DEF G
  <2> QED
    BY <1>1, <1>3, <2>1
<1>6. ASSUME NEW q \in Runner, StopReadRun(q) \/ StopReadReq(q) \/ TellBound(q) \/ \E t \in Tile : SpreadBound(q, t)
      PROVE  G(pc'[r])
  <2>1. /\ pc[q] \in Spreading
        /\ \E p \in {"stopReq", "bound", "tell"} : Goes(q, p)
    BY <1>6 DEF StopReadRun, StopReadReq, TellBound, SpreadBound, Spreading
  <2>2. q = r => \A p \in {"stopReq", "bound", "tell"} : G(p)
    BY <2>1
  <2> HIDE DEF G
  <2> QED
    BY <1>1, <2>1, <2>2
<1>7. ASSUME NEW q \in Runner, Dequeue(q) PROVE G(pc'[r])
  <2>1. \E p \in {"loop", "stopRun", "settle"} : Goes(q, p)
    BY <1>7 DEF Dequeue
  <2>2. q = r => \A p \in {"loop", "stopRun", "settle"} : G(p)
    BY <1>7
  <2> HIDE DEF G
  <2> QED
    BY <1>1, <2>1, <2>2
<1>8. ASSUME NEW q \in Runner, Loop(q) PROVE G(pc'[r])
  <2>1. Goes(q, "dequeue") \/ (finished[q] /\ Goes(q, "done"))
    BY <1>8 DEF Loop
  <2>2. q = r /\ finished[q] => G("done")
    BY <1>8 DEF Spreading
  <2> HIDE DEF G
  <2> QED
    BY <1>1, <1>3, <2>1, <2>2
<1>9. ASSUME UNCHANGED pc PROVE G(pc'[r])
  <2>1. pc'[r] = pc[r]
    BY <1>9
  <2> HIDE DEF G
  <2> QED
    BY <1>2, <2>1
<1>10. G(pc'[r])
  <2> HIDE DEF G
  <2> QED
    BY <1>4, <1>5, <1>6, <1>7, <1>8, <1>9, Changes
<1> QED
  BY <1>10

LEMMA SpreadIsEndStep ==
  ASSUME Types, Begun, SpreadIsEnd, [Next]_vars
  PROVE  SpreadIsEnd'
<1> SUFFICES ASSUME NEW r \in Runner, pc'[r] \in Spreading PROVE cur'[r].node = end'[KeyOf(r)]
  BY DEF SpreadIsEnd, Spreading
<1>1. CASE Dequeue(r)
  <2>1. cur'[r].node = end[KeyOf(r)]
    <3>1. PICK l \in GoodLabels :
             \/ pc'[r] = "loop" \/ pc'[r] = "settle"
             \/ cur'[r] = l /\ l.node = end[KeyOf(r)]
      BY <1>1, DequeueIs
    <3> QED
      BY <3>1 DEF Spreading
  <2>2. pc[r] = "dequeue"
    BY <1>1 DEF Dequeue
  <2>3. Asked(KeyOf(r))
    BY <2>2 DEF Begun, MadeAsked
  <2> QED
    BY <2>1, <2>3, RunnerFacts, EndStays
<1>2. CASE ~Dequeue(r)
  <2>1. pc[r] \in Spreading
    BY <1>2, ComesTo
  <2>2. Asked(KeyOf(r)) /\ cur[r].node = end[KeyOf(r)]
    BY <2>1 DEF Begun, MadeAsked, SpreadIsEnd, Spreading
  <2>3. ASSUME NEW q \in Runner, Dequeue(q) PROVE cur'[r] = cur[r]
    <3>1. q # r
      BY <1>2, <2>3
    <3> QED
      BY <2>3, <3>1 DEF Dequeue, Types, SearchTypes
  <2>4. cur'[r] = cur[r]
    BY <2>3, Changes
  <2> QED
    BY <2>2, <2>4, RunnerFacts, EndStays
<1> QED
  BY <1>1, <1>2

LEMMA DoneIsStopedStep ==
  ASSUME Types, Begun, Stopping, RequestsCounted, DoneIsStoped, [Next]_vars
  PROVE  DoneIsStoped'
<1> SUFFICES ASSUME NEW r \in Runner, pc'[r] = "done" PROVE KeyOf(r) \in stoped'
  BY DEF DoneIsStoped
<1>1. pc[r] = "done" \/ finished[r]
  BY ComesTo
<1>2. KeyOf(r) \in stoped
  BY <1>1 DEF DoneIsStoped, Stopping, ToldIsStoped
<1> QED
  BY <1>2, StopedSteps

LEMMA NewIsStartedStep ==
  ASSUME Types, Stopping, NewIsStarted, [Next]_vars
  PROVE  NewIsStarted'
<1> SUFFICES ASSUME NEW r \in Runner, pc'[r] = "new" PROVE route'.at = "start" /\ r = Served'
  BY DEF NewIsStarted
<1>1. CASE RouteCreate /\ r = Served
  <2>1. RouteGoes("start")
    BY <1>1 DEF RouteCreate
  <2> QED
    BY <1>1, <2>1, RouteAt
<1>2. CASE pc[r] = "new"
  <2>1. route.at = "start" /\ r = Served
    BY <1>2 DEF NewIsStarted
  <2>2. ~RouteStart
    <3>1. ASSUME RouteStart PROVE FALSE
      <4>1. Goes(r, "loop")
        BY <2>1, <3>1 DEF RouteStart, Goes
      <4> QED
        BY <4>1, PcAt
    <3> QED
      BY <3>1
  <2>3. ~(RoutePop \/ RouteFind \/ RouteGet \/ RouteAdd \/ RouteIsTaken \/ RouteSetRunning)
    BY <2>1 DEF RoutePop, RouteFind, RouteGet, RouteAdd, RouteIsTaken, RouteSetRunning
  <2>4. ~(RouteRelease \/ RouteWakes \/ RouteClears \/ RouteCreate \/ RouteDecCheck \/ RouteDecWrite)
        /\ ~RouteOversleeps
    BY <2>1 DEF RouteRelease, RouteWakes, RouteClears, RouteCreate, RouteDecCheck, RouteDecWrite,
       RouteOversleeps
  <2>5. UNCHANGED route
    BY <2>2, <2>3, <2>4, Changes
  <2> QED
    BY <2>1, <2>5 DEF Served
<1> QED
  BY <1>1, <1>2, ComesTo

LEMMA UnboundedStep ==
  ASSUME Types, Begun, Unbounded, [Next]_vars
  PROVE  Unbounded'
<1> SUFFICES ASSUME NEW r \in Runner, ~Asked(KeyOf(r))'
    PROVE maxLength'[r] = Unlimited /\ maxLengths'[r] = Unlimited
  BY DEF Unbounded
<1>1. KeyOf(r) \in Key /\ ~Asked(KeyOf(r))
  BY RunnerFacts, ClientSteps DEF Asked
<1>2. maxLength[r] = Unlimited /\ maxLengths[r] = Unlimited /\ pc[r] = "none"
  BY <1>1 DEF Unbounded, Begun, MadeAsked
<1>a. maxLength \in [Runner -> 0..Unlimited] /\ maxLengths \in [Runner -> 0..Unlimited]
  BY DEF Types, SearchTypes, ManagerTypes
<1>3. ASSUME NEW q \in Runner, NEW t \in Tile, pc[q] # "none" PROVE <<KeyOf(q), t>> # r
  <2>1. Asked(KeyOf(q))
    BY <1>3 DEF Begun, MadeAsked
  <2> QED
    BY <1>1, <2>1, RunnerFacts
<1>4. maxLength'[r] = Unlimited
  <2>1. ASSUME RouteCreate PROVE maxLength'[r] = maxLength[r]
    <3>1. route.at \notin {"pop", "empty", "asleep"}
      BY <2>1 DEF RouteCreate
    <3>2. Asked(KeyOf(Served))
      BY <3>1, ServedFacts DEF Begun, ServedAsked
    <3>3. r # Served /\ \E h : maxLength' = [maxLength EXCEPT ![Served] = h]
      BY <1>1, <2>1, <3>2 DEF RouteCreate
    <3> QED
      BY <3>3, <1>a
  <2>2. ASSUME NEW q \in Runner, Dequeue(q) PROVE maxLength'[r] = maxLength[r]
    <3>1. q # r /\ (UNCHANGED maxLength \/ \E h : maxLength' = [maxLength EXCEPT ![q] = h])
      BY <1>2, <2>2 DEF Dequeue
    <3> QED
      BY <3>1, <1>a
  <2>3. ASSUME NEW q \in Runner, TellBound(q) PROVE maxLength'[r] = maxLength[r]
    <3>1. pc[q] = "tell" /\ (UNCHANGED maxLength
                             \/ \E h : maxLength' = [maxLength EXCEPT ![<<KeyOf(q), spread[q].tile>>] = h])
      BY <2>3 DEF TellBound
    <3>2. KeyOf(q) # KeyOf(r)
      BY <1>1, <3>1 DEF Begun, MadeAsked
    <3>3. r # <<KeyOf(q), spread[q].tile>>
      BY <3>2 DEF KeyOf
    <3> QED
      BY <3>1, <3>3, <1>a
  <2> QED
    BY <1>2, <2>1, <2>2, <2>3, Changes
<1>5. maxLengths'[r] = Unlimited
  <2>1. ASSUME NEW q \in Runner, NEW t \in Tile, SpreadBound(q, t) PROVE maxLengths'[r] = Unlimited
    <3>1. pc[q] = "bound" /\ \E h : maxLengths' = [maxLengths EXCEPT ![<<KeyOf(q), t>>] = h]
      BY <2>1 DEF SpreadBound
    <3> QED
      BY <1>2, <1>3, <1>a, <3>1
  <2>2. ASSUME NEW t \in Tile, ExitRunner(t) PROVE maxLengths'[r] = Unlimited
    <3>1. UNCHANGED maxLengths \/ maxLengths' = [maxLengths EXCEPT ![<<exit.key, t>>] = Unlimited]
      BY <2>2 DEF ExitRunner
    <3> QED
      BY <1>2, <1>a, <3>1
  <2> QED
    BY <1>2, <2>1, <2>2, Changes
<1> QED
  BY <1>4, <1>5

LEMMA QuietStep ==
  ASSUME Types, Begun, Stopping, RequestsCounted, Calm, [Next]_vars
  PROVE  Calm'
BY CurIsShortStep, SpreadIsEndStep, DoneIsStopedStep, NewIsStartedStep, UnboundedStep DEF Calm

\* A search begins with the question of a client that had none.
LEMMA SearchBegins ==
  ASSUME Types, [Next]_vars, NEW k \in Key, Searching(k)', ~Searching(k)
  PROVE  ~Asked(k) /\ \E s, e \in Node : RunRouting(k, s, e)
<1>a. client \in [Key -> {"idle", "waiting", "reading", "done"}]
  BY DEF Types, ClientTypes
<1>1. client[k] = "idle" /\ client'[k] = "waiting"
  BY <1>a, ClientSteps DEF Searching
<1>2. ASSUME StopNotify PROVE FALSE
  <2>1. client' = [client EXCEPT ![stop.key] = "reading"]
    BY <1>2 DEF StopNotify
  <2> QED
    BY <1>a, <1>1, <2>1
<1>3. ASSUME NEW j \in Key, LeavePath(j) PROVE FALSE
  BY <1>a, <1>1, <1>3 DEF LeavePath
<1>4. ASSUME NEW j \in Key, NEW s \in Node, NEW e \in Node, RunRouting(j, s, e) PROVE j = k
  BY <1>a, <1>1, <1>4 DEF RunRouting
<1> QED
  BY <1>1, <1>2, <1>3, <1>4, Changes DEF Asked

\* What a question changes, and what its query finds.
LEMMA BeginsWith ==
  ASSUME Types, Begun, Unbounded, NEW k \in Key, ~Asked(k),
         NEW s \in Node, NEW e \in Node, RunRouting(k, s, e)
  PROVE  /\ start'[k] = s /\ end'[k] = e
         /\ routingChan' = Append(routingChan, Request(k, Label(s, 0, NoEdge)))
         /\ \A r \in Runner : KeyOf(r) = k =>
              /\ maxLength'[r] = Unlimited /\ maxLengths'[r] = Unlimited
              /\ \A n \in Node : flag'[r][n] = Unreached(n)
<1>1. start'[k] = s /\ end'[k] = e
  BY DEF RunRouting, Types, ClientTypes
<1>2. /\ routingChan' = Append(routingChan, Request(k, Label(s, 0, NoEdge)))
      /\ maxLengths' = maxLengths
  BY DEF RunRouting
<1>3. maxLength' = maxLength /\ flag' = flag
  BY DEF RunRouting, runnerVars, searchVars
<1> QED
  BY <1>1, <1>2, <1>3 DEF Unbounded, Begun, MadeAsked, EmptyAtFirst

LEMMA BoundedStep ==
  ASSUME Types, Begun, Stopping, Calm, InTile, Bounded, [Next]_vars
  PROVE  Bounded'
<1> SUFFICES ASSUME NEW r \in Runner, Searching(KeyOf(r))'
    PROVE maxLength'[r] >= Bound(KeyOf(r))' /\ maxLengths'[r] >= Bound(KeyOf(r))'
  BY DEF Bounded
<1>1. PICK k \in Key : k = KeyOf(r)
  BY RunnerFacts
<1>b. CurIsShort /\ SpreadIsEnd /\ Unbounded
  BY DEF Calm
<1>t. Types'
  BY TypesStep
<1>2. Bound(k)' \in Nat /\ Bound(k)' <= Unlimited
  <2>1. end'[k] \in Node
    BY <1>t, <1>1 DEF Searching, Types, ClientTypes
  <2>2. PICK e \in Node : e = end'[k]
    BY <2>1
  <2>3. PICK q \in Runner : q = Home(k, e)
    BY RunnerFacts DEF Home
  <2>4. Known(q, e)' \in Nat /\ Known(q, e)' <= Unlimited
    BY <1>t, LabelTypesNext
  <2>5. Bound(k)' = Known(q, e)'
    BY <2>2, <2>3 DEF Bound, Home, Known
  <2> QED
    BY <2>4, <2>5
<1>3. CASE ~Searching(k)
  <2>1. ~Asked(k) /\ \E s, e \in Node : RunRouting(k, s, e)
    BY <1>1, <1>3, SearchBegins
  <2>2. maxLength'[r] = Unlimited /\ maxLengths'[r] = Unlimited
    BY <1>1, <1>b, <2>1, BeginsWith
  <2> QED
    BY <1>1, <1>2, <2>2, NetAssumption
<1>4. CASE Searching(k)
  <2>1. Bound(k)' <= Bound(k) /\ Bound(k) \in Nat
    BY <1>4, <1>b, BoundFalls DEF Searching, Asked
  <2>2. /\ maxLength[r] >= Bound(k) /\ maxLengths[r] >= Bound(k)
        /\ maxLength[r] \in Nat /\ maxLengths[r] \in Nat
    BY <1>1, <1>4, LabelTypes, BoundedIs
  <2>a. maxLength \in [Runner -> 0..Unlimited] /\ maxLengths \in [Runner -> 0..Unlimited]
    BY DEF Types, SearchTypes, ManagerTypes
  <2>c. PICK e \in Node : e = end[k] /\ e = end'[k]
    BY <1>4, EndStays DEF Searching, Asked
  <2>3. ASSUME NEW q \in Runner, KeyOf(q) = k, pc[q] \in Spreading PROVE cur[q].len = Bound(k)
    <3>1. cur[q].node = e
      BY <1>b, <2>3, <2>c DEF SpreadIsEnd, Spreading
    <3>2. q = Home(k, e)
      BY <2>3, <3>1, RunnerFacts DEF InTile, Home
    <3> QED
      BY <2>3, <2>c, <3>1, <3>2, PlaceFacts DEF Bound, Known, Spreading
  <2>4. maxLength'[r] >= Bound(k)'
    <3>1. CASE maxLength'[r] = maxLength[r] \/ maxLength'[r] = maxLengths[r] \/ maxLength'[r] = Bound(k)
      BY <1>2, <2>1, <2>2, <3>1
    <3>2. CASE RouteCreate
      <4>1. \E q : maxLength' = [maxLength EXCEPT ![q] = maxLengths[q]]
        BY <3>2 DEF RouteCreate
      <4> QED
        BY <2>a, <3>1, <4>1
    <3>3. ASSUME NEW q \in Runner, Dequeue(q) PROVE maxLength'[r] >= Bound(k)'
      <4>1. CASE q # r
        <5>1. UNCHANGED maxLength \/ \E h : maxLength' = [maxLength EXCEPT ![q] = h]
          BY <3>3 DEF Dequeue
        <5> QED
          BY <2>a, <3>1, <4>1, <5>1
      <4>2. CASE q = r
        <5>1. PICK l \in GoodLabels :
                /\ l \in heap[r]
                /\ \/ UNCHANGED maxLength
                   \/ /\ cur'[r] = l /\ pc'[r] = "stopRun" /\ l.node = end[k]
                      /\ maxLength' = [maxLength EXCEPT ![r] = l.len]
          BY <1>1, <3>3, <4>2, DequeueIs
        <5>2. CASE UNCHANGED maxLength
          BY <3>1, <5>2
        <5>3. CASE cur'[r] = l /\ pc'[r] = "stopRun" /\ l.node = end[k]
                     /\ maxLength' = [maxLength EXCEPT ![r] = l.len]
          <6>1. maxLength'[r] = l.len
            BY <2>a, <5>3
          <6>2. r = Home(k, e)
            BY <1>1, <2>c, <5>1, <5>3, RunnerFacts DEF InTile, Home
          <6>3. Known(r, e)' = l.len
            BY <2>c, <5>3, PlaceFacts DEF Known
          <6>4. Bound(k)' = Known(r, e)'
            BY <2>c, <6>2 DEF Bound, Home, Known
          <6> QED
            BY <1>2, <6>1, <6>3, <6>4
        <5> QED
          BY <5>1, <5>2, <5>3
      <4> QED
        BY <4>1, <4>2
    <3>4. ASSUME NEW q \in Runner, TellBound(q) PROVE maxLength'[r] >= Bound(k)'
      <4>1. /\ pc[q] = "tell"
            /\ \/ UNCHANGED maxLength
               \/ maxLength' = [maxLength EXCEPT ![<<KeyOf(q), spread[q].tile>>] = cur[q].len]
        BY <3>4 DEF TellBound
      <4>2. CASE r = <<KeyOf(q), spread[q].tile>>
        <5>1. cur[q].len = Bound(k)
          BY <1>1, <2>3, <4>1, <4>2, RunnerFacts DEF Spreading, KeyOf
        <5> QED
          BY <2>a, <3>1, <4>1, <4>2, <5>1
      <4>3. CASE r # <<KeyOf(q), spread[q].tile>>
        BY <2>a, <3>1, <4>1, <4>3
      <4> QED
        BY <4>2, <4>3
    <3> QED
      BY <3>1, <3>2, <3>3, <3>4, Changes
  <2>5. maxLengths'[r] >= Bound(k)'
    <3>1. CASE maxLengths'[r] = maxLengths[r] \/ maxLengths'[r] = Unlimited \/ maxLengths'[r] = Bound(k)
      BY <1>2, <2>1, <2>2, <3>1, NetAssumption
    <3>2. ASSUME NEW q \in Runner, NEW t \in Tile, SpreadBound(q, t) PROVE maxLengths'[r] >= Bound(k)'
      <4>1. pc[q] = "bound" /\ maxLengths' = [maxLengths EXCEPT ![<<KeyOf(q), t>>] = cur[q].len]
        BY <3>2 DEF SpreadBound
      <4>2. CASE r = <<KeyOf(q), t>>
        <5>1. cur[q].len = Bound(k)
          BY <1>1, <2>3, <4>1, <4>2, RunnerFacts DEF Spreading
        <5> QED
          BY <2>a, <3>1, <4>1, <4>2, <5>1
      <4>3. CASE r # <<KeyOf(q), t>>
        BY <2>a, <3>1, <4>1, <4>3
      <4> QED
        BY <4>2, <4>3
    <3>3. ASSUME NEW t \in Tile, ExitRunner(t) PROVE maxLengths'[r] >= Bound(k)'
      <4>1. UNCHANGED maxLengths \/ maxLengths' = [maxLengths EXCEPT ![<<exit.key, t>>] = Unlimited]
        BY <3>3 DEF ExitRunner
      <4> QED
        BY <2>a, <3>1, <4>1
    <3> QED
      BY <3>1, <3>2, <3>3, Changes
  <2> QED
    BY <1>1, <2>4, <2>5
<1> QED
  BY <1>3, <1>4

LEMMA StartReachedStep ==
  ASSUME Types, Begun, Stopping, Calm, Bounded, StartReached, [Next]_vars
  PROVE  StartReached'
<1> SUFFICES ASSUME NEW k \in Key, Searching(k)' PROVE Reached(k, start[k], 0)'
  BY DEF StartReached
<1>1. ASSUME NEW s \in Node, start'[k] = s, Reached(k, s, 0)' PROVE Reached(k, start[k], 0)'
  BY <1>1 DEF Reached, Known, Home, InHeap, InQueue, InRoute, Serves
<1>2. CASE Searching(k)
  <2>1. PICK s \in Node : s = start[k] /\ s = start'[k]
    BY <1>2, EndStays DEF Searching, Asked
  <2>2. Reached(k, s, 0)
    BY <1>2, <2>1 DEF StartReached
  <2>3. Reached(k, s, 0)'
    BY <1>2, <2>2, ReachedStays DEF Calm
  <2> QED
    BY <1>1, <2>1, <2>3
<1>3. CASE ~Searching(k)
  <2>1. ~Asked(k)
    BY <1>3, SearchBegins
  <2>2. PICK s, e \in Node : RunRouting(k, s, e)
    BY <1>3, SearchBegins
  <2>3. /\ start'[k] = s
        /\ routingChan' = Append(routingChan, Request(k, Label(s, 0, NoEdge)))
    BY <2>1, <2>2, BeginsWith DEF Calm
  <2>4. /\ Len(routingChan') = Len(routingChan) + 1 /\ Len(routingChan) \in Nat
        /\ routingChan'[Len(routingChan) + 1] = Request(k, Label(s, 0, NoEdge))
    BY <2>3, RequestTypes
  <2>5. InQueue(k, s, 0)'
    <3>1. \E i \in 1..Len(routingChan') : routingChan'[i] = Request(k, Label(s, 0, NoEdge))
      BY <2>4
    <3> QED
      BY <3>1 DEF InQueue, Serves, Request, Label
  <2>6. Reached(k, s, 0)'
    BY <2>5 DEF Reached
  <2> QED
    BY <1>1, <2>3, <2>6
<1> QED
  BY <1>2, <1>3

\* The lengths that a flag promises, before and after a step.
LEMMA ReachedAs ==
  ASSUME NEW k, NEW n, NEW m, NEW r, NEW o, flag'[r][o].len = m, Reached(k, n, m)'
  PROVE  Reached(k, n, flag[r][o].len)'
BY DEF Reached, InHeap, InQueue, InRoute, Serves

LEMMA FlagsReachedStep ==
  ASSUME Types, Begun, Stopping, Calm, InTile, Bounded, FlagsReached, [Next]_vars
  PROVE  FlagsReached'
<1> SUFFICES ASSUME NEW r \in Runner, NEW n \in Node, Searching(KeyOf(r))'
    PROVE Reached(KeyOf(r), n, flag[r][n].len)'
  BY DEF FlagsReached
<1>1. PICK k \in Key : k = KeyOf(r)
  BY RunnerFacts
<1>2. PICK h \in Runner : h = Home(k, n)
  BY RunnerFacts DEF Home
<1>3. ASSUME NEW m, flag'[r][n].len = m, Reached(k, n, m)' PROVE Reached(KeyOf(r), n, flag[r][n].len)'
  BY <1>1, <1>3, ReachedAs
<1>4. ASSUME NEW m, Known(h, n)' <= m PROVE Reached(k, n, m)'
  BY <1>2, <1>4 DEF Reached, Home, Known
<1>t. flag'[r][n].len \in Nat /\ Known(h, n)' \in Nat /\ Known(h, n)' <= Unlimited
  BY TypesStep, LabelTypesNext
<1>5. CASE ~Searching(k)
  <2>1. flag'[r][n] = Unreached(n)
    <3>1. ~Asked(k)
      BY <1>1, <1>5, SearchBegins
    <3>2. PICK s, e \in Node : RunRouting(k, s, e)
      BY <1>1, <1>5, SearchBegins
    <3> QED
      BY <1>1, <3>1, <3>2, BeginsWith DEF Calm
  <2>2. flag'[r][n].len = Unlimited
    BY <2>1, LabelFacts
  <2> QED
    BY <1>3, <1>4, <1>t, <2>2
<1>6. CASE Searching(k)
  <2>1. PICK m \in Nat : m = flag[r][n].len
    BY LabelTypes
  <2>2. Reached(k, n, m)
    BY <1>1, <1>6, <2>1 DEF FlagsReached
  <2>3. Reached(k, n, m)'
    BY <1>6, <2>2, ReachedStays DEF Calm
  <2>4. CASE flag'[r][n] = flag[r][n]
    BY <1>3, <2>1, <2>3, <2>4
  <2>5. CASE Settle(r) /\ flag'[r][n] # flag[r][n]
    <3>1. /\ n = cur[r].node /\ flag'[r][n] = cur[r] /\ cur'[r] = cur[r] /\ pc'[r] = "relax"
      BY <2>5, SettleIs
    <3>2. r = h
      BY <1>1, <1>2, <3>1, RunnerFacts DEF InTile, Home
    <3>3. Known(h, n)' = flag'[r][n].len
      BY <3>1, <3>2, PlaceFacts DEF Known
    <3> QED
      BY <1>3, <1>4, <1>t, <3>3
  <2>6. CASE Relax(r) /\ flag'[r][n] # flag[r][n]
    <3>1. PICK x \in Edge : \E l : RelaxesTo(r, x, l)
      BY <2>6, RelaxIs
    <3>2. PICK l : RelaxesTo(r, x, l)
      BY <3>1
    <3>6. /\ cur[r].node = NodeA[x] /\ n = NodeB[x] /\ pc[r] = "relax" /\ l \in GoodLabels
          /\ l.node = n /\ flag'[r][n] = l
      BY <2>6, <3>2 DEF RelaxesTo
    <3>7. \/ ~IsCrossBorder(x) /\ l \in heap'[r]
          \/ routingChan' = Append(routingChan, Request(k, l))
      BY <1>1, <2>6, <3>2 DEF RelaxesTo
    <3>3. l.len \in Nat
      BY <3>6, LabelFacts, NetAssumption
    <3>4. CASE ~IsCrossBorder(x) /\ l \in heap'[r]
      <4>1. r = h
        BY <1>1, <1>2, <3>6, <3>4, NetFacts, RunnerFacts DEF InTile, Home, IsCrossBorder
      <4>2. InHeap(h, n, l.len)'
        BY <3>6, <3>3, <3>4, <4>1 DEF InHeap, Serves
      <4>3. Reached(k, n, l.len)'
        BY <1>2, <4>2 DEF Reached, Home, InHeap
      <4> QED
        BY <1>3, <3>6, <4>3
    <3>5. CASE routingChan' = Append(routingChan, Request(k, l))
      <4>1. /\ Len(routingChan') = Len(routingChan) + 1 /\ Len(routingChan) \in Nat
            /\ routingChan'[Len(routingChan) + 1] = Request(k, l)
        BY <3>5, RequestTypes
      <4>2. \E i \in 1..Len(routingChan') : routingChan'[i] = Request(k, l)
        BY <4>1
      <4>3. InQueue(k, n, l.len)'
        BY <3>6, <3>3, <4>2 DEF InQueue, Serves, Request
      <4>4. Reached(k, n, l.len)'
        BY <4>3 DEF Reached
      <4> QED
        BY <1>3, <3>6, <4>4
    <3> QED
      BY <3>4, <3>5, <3>7
  <2>7. Rests(r) \/ Dequeue(r) \/ Settle(r) \/ Relax(r) \/ Relaxed(r)
    BY RunnerSteps
  <2>8. Rests(r) \/ Dequeue(r) \/ Relaxed(r) => flag'[r][n] = flag[r][n]
    BY DequeueIs, RelaxedIs DEF Rests
  <2> QED
    BY <2>4, <2>5, <2>6, <2>7, <2>8
<1> QED
  BY <1>1, <1>5, <1>6

\* To say of a node that its edges are relaxed.
LEMMA RelaxesAs ==
  ASSUME NEW r, NEW n, NEW m, m = flag'[r][n].len,
         \A i \in 1..Len(Out[n]) : IsDone(r, n, i)' /\ Usable(r, Out[n][i])' =>
           Reached(KeyOf(r), NodeB[Out[n][i]], m + Weight[Out[n][i]])'
  PROVE  Relaxes(r, n)'
BY DEF Relaxes, Reached, InHeap, InQueue, InRoute, Serves

LEMMA UsableStays ==
  ASSUME Types, [Next]_vars, NEW r \in Runner, Asked(KeyOf(r)), NEW x
  PROVE  Usable(r, x)' <=> Usable(r, x)
BY RunnerFacts, EndStays DEF Usable, Skips

\* An edge of a node that has been relaxed needs no second look.
LEMMA RelaxesStays ==
  ASSUME Types, Begun, Stopping, Calm, Bounded, [Next]_vars,
         NEW r \in Runner, NEW n \in Node, Searching(KeyOf(r)), flag'[r][n] = flag[r][n],
         NEW i \in 1..Len(Out[n]), NEW m, m = flag[r][n].len, Relaxes(r, n), IsDone(r, n, i), Usable(r, Out[n][i])
  PROVE  Reached(KeyOf(r), NodeB[Out[n][i]], m + Weight[Out[n][i]])'
<1>1. PICK x \in Edge : x = Out[n][i] /\ NodeB[x] \in Node /\ Weight[x] \in Nat
  BY NetFacts
<1>2. PICK k \in Key : k = KeyOf(r)
  BY RunnerFacts
<1>3. m + Weight[x] \in Nat
  BY <1>1, LabelTypes
<1>4. Reached(k, NodeB[x], m + Weight[x])
  BY <1>1, <1>2 DEF Relaxes
<1>5. Reached(k, NodeB[x], m + Weight[x])'
  BY <1>1, <1>2, <1>3, <1>4, ReachedStays DEF Calm
<1> QED
  BY <1>1, <1>2, <1>5

\* A node that waits in a heap goes on waiting there.
LEMMA WaitsInHeap ==
  ASSUME NEW r, NEW n, heap[r] \subseteq heap'[r], flag'[r][n] = flag[r][n],
         InHeap(r, n, flag[r][n].len)
  PROVE  Waits(r, n)'
BY DEF Waits, InHeap, Serves

\* The edge at work: its end is promised the length of the path over it, or that
\* is too long, or as short a one was promised before.
LookedAt(r, y) ==
  /\ pc[r] = "relax" /\ pc' = pc /\ cur' = cur /\ cur[r].node = NodeA[y]
  /\ y = Out[NodeA[y]][idx[r]] /\ idx'[r] = idx[r] + 1 /\ heap[r] \subseteq heap'[r]
  /\ \A n \in Node : TileOf[n] = TileOfRunner(r) => flag'[r][n] = flag[r][n] \/ Waits(r, n)'
  /\ LET len == flag[r][NodeA[y]].len + Weight[y] IN
       Usable(r, y) => \/ len > maxLength[r]
                       \/ flag[r][NodeB[y]].len <= len
                       \/ flag'[r][NodeB[y]].len = len
LEMMA RelaxLooks ==
  ASSUME Types, CurIsShort, InTile, NEW r \in Runner, Relax(r)
  PROVE  \E y \in Edge : LookedAt(r, y)
<1>1. PICK y \in Edge : \E l : RelaxesTo(r, y, l)
  BY RelaxIs
<1>l. PICK l : RelaxesTo(r, y, l)
  BY <1>1
<1>2. /\ l.node = NodeB[y] /\ l.len = cur[r].len + Weight[y]
      /\ \/ /\ flag' = flag
            /\ Usable(r, y) => l.len > maxLength[r] \/ flag[r][NodeB[y]].len <= l.len
         \/ /\ l \in GoodLabels
            /\ \A o \in Node : flag'[r][o] = IF o = NodeB[y] THEN l ELSE flag[r][o]
            /\ IsCrossBorder(y) \/ l \in heap'[r]
  BY <1>l DEF RelaxesTo
<1>3. /\ pc[r] = "relax" /\ pc' = pc /\ cur' = cur /\ cur[r] \in GoodLabels
      /\ y = Out[NodeA[y]][idx[r]] /\ NodeA[y] = cur[r].node
      /\ idx'[r] = idx[r] + 1 /\ heap[r] \subseteq heap'[r]
  BY <1>l DEF RelaxesTo
<1>4. NodeA[y] \in Node /\ NodeB[y] \in Node /\ cur[r].len = flag[r][NodeA[y]].len
  BY <1>3, NetFacts DEF CurIsShort
<1>5. CASE flag' = flag
  BY <1>2, <1>3, <1>4, <1>5 DEF LookedAt
<1>6. CASE flag' # flag
  <2>1. /\ l \in GoodLabels /\ (IsCrossBorder(y) \/ l \in heap'[r])
        /\ \A o \in Node : flag'[r][o] = IF o = NodeB[y] THEN l ELSE flag[r][o]
    BY <1>2, <1>6
  <2>2. flag'[r][NodeB[y]].len = flag[r][NodeA[y]].len + Weight[y]
    BY <1>2, <1>4, <2>1
  <2>3. ASSUME TileOf[NodeB[y]] = TileOfRunner(r) PROVE Waits(r, NodeB[y])'
    <3>1. ~IsCrossBorder(y)
      BY <1>3, <1>4, <2>3 DEF InTile, IsCrossBorder
    <3>2. PICK o \in heap'[r] : o = l
      BY <2>1, <3>1
    <3>3. flag'[r][NodeB[y]] = o /\ o.node = NodeB[y] /\ o.len <= o.len
      BY <1>2, <1>4, <2>1, <3>2, LabelFacts, NetAssumption
    <3>4. InHeap(r, NodeB[y], flag[r][NodeB[y]].len)'
      BY <3>2, <3>3 DEF InHeap, Serves
    <3> QED
      BY <3>4 DEF Waits
  <2>4. \A n \in Node : TileOf[n] = TileOfRunner(r) => flag'[r][n] = flag[r][n] \/ Waits(r, n)'
    <3>1. ASSUME NEW n \in Node, TileOf[n] = TileOfRunner(r) PROVE flag'[r][n] = flag[r][n] \/ Waits(r, n)'
      <4>1. CASE n = NodeB[y]
        <5>1. Waits(r, n)'
          BY <2>3, <3>1, <4>1 DEF Waits, InHeap, Serves
        <5> QED
          BY <5>1
      <4> QED
        BY <2>1, <4>1
    <3> QED
      BY <3>1
  <2> QED
    BY <1>3, <1>4, <2>2, <2>4 DEF LookedAt
<1> QED
  BY <1>5, <1>6

LEMMA FlagsRelaxedStep ==
  ASSUME Types, Begun, Stopping, Calm, InTile, Bounded, FlagsReached, FlagsReached', FlagsRelaxed,
         [Next]_vars
  PROVE  FlagsRelaxed'
<1> SUFFICES ASSUME NEW r \in Runner, NEW n \in Node, Searching(KeyOf(r))',
                    TileOf[n] = TileOfRunner(r), ~Waits(r, n)'
             PROVE  Relaxes(r, n)'
  BY DEF FlagsRelaxed
<1>1. PICK k \in Key : k = KeyOf(r)
  BY RunnerFacts
<1>2. PICK m \in Nat : m = flag'[r][n].len
  BY TypesStep, LabelTypesNext
<1> SUFFICES ASSUME NEW i \in 1..Len(Out[n]), IsDone(r, n, i)', Usable(r, Out[n][i])'
             PROVE  Reached(KeyOf(r), NodeB[Out[n][i]], m + Weight[Out[n][i]])'
  BY <1>2, RelaxesAs
<1>3. PICK x \in Edge : x = Out[n][i] /\ NodeB[x] \in Node /\ Weight[x] \in Nat /\ NodeA[x] = n
  BY NetFacts
<1>4. PICK b \in Node, w \in Nat : b = NodeB[x] /\ w = m + Weight[x]
  BY <1>3
<1>5. PICK h \in Runner : h = Home(k, b)
  BY RunnerFacts DEF Home
<1> SUFFICES Reached(k, b, w)'
  BY <1>1, <1>3, <1>4
<1>i. i \in Nat /\ Len(Out[n]) \in Nat /\ i <= Len(Out[n])
  BY NetFacts
<1>6. CASE ~Searching(k)
  <2>1. flag'[r][n] = Unreached(n)
    <3>1. ~Asked(k)
      BY <1>1, <1>6, SearchBegins
    <3>2. PICK s, e \in Node : RunRouting(k, s, e)
      BY <1>1, <1>6, SearchBegins
    <3> QED
      BY <1>1, <3>1, <3>2, BeginsWith DEF Calm
  <2>2. m = Unlimited
    BY <1>2, <2>1, LabelFacts
  <2>3. Known(h, b)' \in Nat /\ Known(h, b)' <= Unlimited
    BY TypesStep, LabelTypesNext
  <2>4. Known(h, b)' <= w
    BY <1>3, <1>4, <2>2, <2>3
  <2> QED
    BY <1>5, <2>4 DEF Reached, Home, Known
<1>7. CASE Searching(k)
  <2>1. Waits(r, n) \/ Relaxes(r, n)
    BY <1>1, <1>7 DEF FlagsRelaxed
  <2>u. Usable(r, x)
    BY <1>1, <1>3, <1>7, UsableStays DEF Searching, Asked
  <2>2. ASSUME flag'[r][n] = flag[r][n], IsDone(r, n, i), Relaxes(r, n) PROVE Reached(k, b, w)'
    <3>1. PICK o : o = flag[r][n].len
      OBVIOUS
    <3>2. Reached(KeyOf(r), NodeB[Out[n][i]], o + Weight[Out[n][i]])'
      BY <1>1, <1>3, <1>7, <2>2, <2>u, <3>1, RelaxesStays
    <3>3. o = m
      BY <1>2, <2>2, <3>1
    <3> QED
      BY <1>1, <1>3, <1>4, <3>2, <3>3
  <2>3. ASSUME Bound(k) <= m PROVE Reached(k, b, w)'
    <3>1. Bound(k)' <= Bound(k) /\ Bound(k) \in Nat /\ Bound(k)' \in Nat
      BY <1>7, BoundFalls DEF Calm, Searching, Asked
    <3>2. m <= w
      BY <1>3, <1>4
    <3>3. Bound(k)' <= w
      BY <2>3, <3>1, <3>2
    <3> QED
      BY <3>3 DEF Reached
  <2>t. /\ flag[r][n].len \in Nat /\ flag[r][NodeB[x]].len \in Nat /\ idx[r] \in Nat
        /\ maxLength[r] \in Nat /\ Bound(k) \in Nat /\ maxLength[r] >= Bound(k)
    BY <1>1, <1>3, <1>7, LabelTypes, BoundFalls, BoundedIs DEF Calm, Searching, Asked
  <2>w. CurIsShort
    BY DEF Calm
  <2>4. CASE Rests(r)
    <3>1. flag'[r][n] = flag[r][n] /\ heap[r] \subseteq heap'[r] /\ cur'[r] = cur[r] /\ idx'[r] = idx[r]
      BY <2>4 DEF Rests
    <3>2. pc[r] \in Working \ {"relax"} => pc'[r] \in Working \ {"relax"}
      BY <2>4, PlaceFacts DEF Rests, Alike
    <3>3. pc[r] = "relax" => pc'[r] = "relax"
      BY <2>4, PlaceFacts DEF Rests, Alike
    <3>4. ~Waits(r, n)
      <4>1. ASSUME pc[r] \in Working \ {"relax"}, cur[r].node = n PROVE FALSE
        BY <3>1, <3>2, <4>1 DEF Waits
      <4>2. ~InHeap(r, n, flag[r][n].len)
        BY <3>1, WaitsInHeap
      <4> QED
        BY <4>1, <4>2 DEF Waits
    <3>5. IsDone(r, n, i)
      BY <3>1, <3>3 DEF IsDone
    <3> QED
      BY <2>1, <2>2, <3>1, <3>4, <3>5
  <2>5. CASE Dequeue(r)
    <3>1. PICK l \in GoodLabels :
             /\ l \in heap[r] /\ heap'[r] = heap[r] \ {l} /\ flag' = flag /\ pc[r] = "dequeue"
             /\ Refused(r, l) \/ (cur'[r] = l /\ pc'[r] \in {"settle", "stopRun"})
      BY <2>5, DequeueIs
    <3>2. IsDone(r, n, i)
      BY <3>1 DEF IsDone
    <3>3. CASE Relaxes(r, n)
      BY <2>2, <3>1, <3>2, <3>3
    <3>4. CASE Waits(r, n)
      <4>1. PICK o \in heap[r] : o.node = n /\ o.len <= flag[r][n].len
        BY <3>1, <3>4, PlaceFacts DEF Waits, InHeap, Serves
      <4>2. o \notin heap'[r]
        BY <3>1, <4>1 DEF Waits, InHeap, Serves
      <4>3. o = l
        BY <3>1, <4>1, <4>2
      <4>4. ~(cur'[r] = l /\ pc'[r] \in {"settle", "stopRun"})
        BY <4>1, <4>3, PlaceFacts DEF Waits
      <4>5. l.len > maxLength[r] \/ l.len > flag[r][n].len
        BY <3>1, <4>1, <4>3, <4>4 DEF Refused
      <4>6. l.len \in Nat
        BY <3>1, LabelTypes
      <4>7. Bound(k) <= flag[r][n].len
        BY <2>t, <4>1, <4>3, <4>5, <4>6
      <4>8. m = flag[r][n].len
        BY <1>2, <3>1
      <4> QED
        BY <2>3, <4>7, <4>8
    <3> QED
      BY <2>1, <3>3, <3>4
  <2>6. CASE Settle(r)
    <3>1. /\ pc[r] = "settle" /\ pc'[r] = "relax" /\ cur'[r] = cur[r] /\ heap' = heap /\ idx'[r] = 1
          /\ flag'[r][n] = IF n = cur[r].node THEN cur[r] ELSE flag[r][n]
      BY <2>6, SettleIs
    <3>2. cur[r].node # n
      BY <1>i, <3>1 DEF IsDone
    <3>3. flag'[r][n] = flag[r][n]
      BY <3>1, <3>2
    <3>4. ~Waits(r, n)
      <4>1. ~InHeap(r, n, flag[r][n].len)
        BY <3>1, <3>3, WaitsInHeap
      <4> QED
        BY <3>2, <4>1 DEF Waits
    <3>5. IsDone(r, n, i)
      BY <3>1 DEF IsDone
    <3> QED
      BY <2>1, <2>2, <3>3, <3>4, <3>5
  <2>7. CASE Relaxed(r)
    <3>1. /\ pc[r] = "relax" /\ idx[r] > Len(Out[cur[r].node]) /\ heap' = heap /\ flag' = flag
      BY <2>7, RelaxedIs
    <3>2. ~Waits(r, n)
      <4>1. ~InHeap(r, n, flag[r][n].len)
        BY <3>1, WaitsInHeap
      <4> QED
        BY <3>1, <4>1 DEF Waits
    <3>3. IsDone(r, n, i)
      BY <1>i, <2>t, <3>1 DEF IsDone
    <3> QED
      BY <2>1, <2>2, <3>1, <3>2, <3>3
  <2>8. CASE Relax(r)
    <3>1. PICK y \in Edge : LookedAt(r, y)
      BY <2>8, <2>w, RelaxLooks
    <3>2. ~Waits(r, n)
      <4>1. flag'[r][n] = flag[r][n]
        BY <3>1 DEF LookedAt
      <4>2. ~InHeap(r, n, flag[r][n].len)
        BY <3>1, <4>1, WaitsInHeap DEF LookedAt
      <4> QED
        BY <3>1, <4>2 DEF Waits, LookedAt
    <3>3. Relaxes(r, n) /\ flag'[r][n] = flag[r][n]
      BY <2>1, <3>1, <3>2 DEF LookedAt
    <3>4. CASE IsDone(r, n, i)
      BY <2>2, <3>3, <3>4
    <3>5. CASE ~IsDone(r, n, i)
      <4>1. NodeA[y] = n /\ i = idx[r]
        BY <1>i, <2>t, <3>1, <3>5 DEF IsDone, LookedAt
      <4>2. y = x /\ m = flag[r][n].len
        BY <1>2, <1>3, <3>1, <3>3, <4>1 DEF LookedAt
      <4>3. \/ w > maxLength[r]
            \/ flag[r][b].len <= w
            \/ flag'[r][b].len = w
        BY <1>3, <1>4, <2>u, <3>1, <4>1, <4>2 DEF LookedAt
      <4>4. ASSUME w > maxLength[r] PROVE Reached(k, b, w)'
        <5>1. Bound(k)' <= Bound(k) /\ Bound(k) \in Nat /\ Bound(k)' \in Nat
          BY <1>7, BoundFalls DEF Calm, Searching, Asked
        <5>2. Bound(k)' <= w
          BY <2>t, <4>4, <5>1
        <5> QED
          BY <5>2 DEF Reached
      <4>5. ASSUME flag[r][b].len <= w PROVE Reached(k, b, w)'
        <5>1. PICK o \in Nat : o = flag[r][b].len
          BY LabelTypes
        <5>2. Reached(k, b, o)
          BY <1>1, <1>7, <5>1 DEF FlagsReached
        <5>3. Reached(k, b, w)
          BY <1>7, <4>5, <5>1, <5>2, ReachedMore DEF Searching, Asked
        <5> QED
          BY <1>7, <5>3, ReachedStays DEF Calm
      <4>6. ASSUME flag'[r][b].len = w PROVE Reached(k, b, w)'
        <5>1. Reached(k, b, flag[r][b].len)'
          BY <1>1 DEF FlagsReached
        <5> QED
          BY <4>6, <5>1 DEF Reached, InHeap, InQueue, InRoute, Serves
      <4> QED
        BY <4>3, <4>4, <4>5, <4>6
    <3> QED
      BY <3>4, <3>5
  <2> QED
    BY <2>4, <2>5, <2>6, <2>7, <2>8, RunnerSteps
<1> QED
  BY <1>6, <1>7

LEMMA CoveredStep ==
  ASSUME Types, Begun, Stopping, RequestsCounted, InTile, Covered, [Next]_vars
  PROVE  Covered'
<1>1. Calm /\ Bounded /\ StartReached /\ FlagsReached /\ FlagsRelaxed
  BY DEF Covered
<1>2. Calm'
  BY <1>1, QuietStep
<1>3. Bounded' /\ StartReached' /\ FlagsReached'
  BY <1>1, BoundedStep, StartReachedStep, FlagsReachedStep
<1>4. FlagsRelaxed'
  BY <1>1, <1>3, FlagsRelaxedStep
<1> QED
  BY <1>2, <1>3, <1>4 DEF Covered

LEMMA CoveredInit == Init => Covered
<1> SUFFICES ASSUME Init PROVE Covered
  OBVIOUS
<1>1. /\ \A r \in Runner : pc[r] = "none" /\ maxLength[r] = Unlimited /\ maxLengths[r] = Unlimited
      /\ \A k \in Key : client[k] = "idle"
  BY DEF Init
<1>2. \A r \in Runner : client[KeyOf(r)] = "idle"
  BY <1>1, RunnerFacts
<1>3. Calm
  BY <1>1, PlaceFacts DEF Calm, CurIsShort, SpreadIsEnd, DoneIsStoped, NewIsStarted, Unbounded
<1>4. Bounded /\ StartReached /\ FlagsReached /\ FlagsRelaxed
  BY <1>1, <1>2 DEF Bounded, StartReached, FlagsReached, FlagsRelaxed, Searching
<1> QED
  BY <1>3, <1>4 DEF Covered

-----------------------------------------------------------------------------
(* Every label leads back to the start.                                     *)

\* What relaxing does to the flags of its runner.
LEMMA RelaxFlags ==
  ASSUME Types, NEW r \in Runner, Relax(r)
  PROVE  \/ flag' = flag
         \/ \E x \in Edge :
              /\ NodeA[x] = cur[r].node /\ pc[r] = "relax"
              /\ \A n \in Node : flag'[r][n] = IF n = NodeB[x] THEN Extended(r, x) ELSE flag[r][n]
<1>1. pc[r] = "relax" /\ idx[r] <= Len(Out[cur[r].node])
  BY DEF Relax
<1>2. PICK x \in Forward(cur[r].node) :
        /\ x = Out[cur[r].node][idx[r]]
        /\ flag' = flag \/ (Extended(r, x) \in GoodLabels /\ flag' = Put(flag, r, Extended(r, x)))
  BY RelaxSteps
<1>3. x \in Edge /\ NodeA[x] = cur[r].node /\ Extended(r, x).node = NodeB[x]
  BY <1>1, <1>2, RelaxFacts
<1>4. CASE flag' = flag
  BY <1>4
<1>5. CASE Extended(r, x) \in GoodLabels /\ flag' = Put(flag, r, Extended(r, x))
  <2>1. \A n \in Node : flag'[r][n] = IF n = NodeB[x] THEN Extended(r, x) ELSE flag[r][n]
    <3>1. PICK l \in GoodLabels : l = Extended(r, x)
      BY <1>5
    <3>2. \A n \in Node : flag'[r][n] = IF n = l.node THEN l ELSE flag[r][n]
      BY <1>5, <3>1, FlagSet
    <3> QED
      BY <1>3, <3>1, <3>2
  <2> QED
    BY <1>1, <1>3, <2>1
<1> QED
  BY <1>2, <1>4, <1>5

LEMMA ExtendedPrev == \A r, x : Extended(r, x).prev = x /\ Extended(r, x).node = NodeB[x]
BY DEF Extended, Label

\* A node that is settled has a flag with an edge, or is the start.
LEMMA SettleRoots ==
  ASSUME Types, Begun, InTile, CurRooted, [Next]_vars, NEW r \in Runner, Settle(r)
  PROVE  Has(KeyOf(r), cur[r].node)'
<1>1. /\ cur[r] \in GoodLabels /\ pc[r] = "settle" /\ cur' = cur
      /\ \A n \in Node : flag'[r][n] = IF n = cur[r].node THEN cur[r] ELSE flag[r][n]
  BY SettleIs
<1>2. PICK n \in Node : n = cur[r].node /\ cur'[r].node = n
  BY <1>1, LabelFacts
<1>3. Home(KeyOf(r), n) = r
  BY <1>2, RunnerFacts DEF Home, InTile
<1>4. Rooted(KeyOf(r), cur[r]) /\ Asked(KeyOf(r))
  BY <1>1, PlaceFacts DEF CurRooted, Begun, MadeAsked
<1>5. start'[KeyOf(r)] = start[KeyOf(r)]
  BY <1>4, RunnerFacts, EndStays
<1>6. flag'[r][n] = cur[r]
  BY <1>1, <1>2
<1>7. cur[r].prev = NoEdge => n = start'[KeyOf(r)]
  BY <1>2, <1>4, <1>5 DEF Rooted
<1>8. Home(KeyOf(r), n)' = r
  BY <1>3 DEF Home
<1>9. (cur[r].node)' = n
  BY <1>2
<1> QED
  BY <1>6, <1>7, <1>8, <1>9 DEF Has

\* A flag keeps an edge; only the start is settled without one.
LEMMA HasStays ==
  ASSUME Types, Begun, Stopping, CurRooted, [Next]_vars, NEW k \in Key, Asked(k), NEW n \in Node,
         Has(k, n)
  PROVE  Has(k, n)'
<1>1. start'[k] = start[k]
  BY EndStays
<1>2. CASE n = start[k]
  BY <1>1, <1>2 DEF Has
<1>3. CASE n # start[k]
  <2>1. PICK r \in Runner : r = Home(k, n) /\ KeyOf(r) = k
    BY RunnerFacts DEF Home
  <2>2. flag[r][n].prev # NoEdge
    BY <1>3, <2>1 DEF Has
  <2>3. CASE flag'[r] = flag[r]
    BY <2>1, <2>2, <2>3 DEF Has, Home
  <2>4. CASE Settle(r)
    <3>1. /\ pc[r] = "settle"
          /\ flag'[r][n] = IF n = cur[r].node THEN cur[r] ELSE flag[r][n]
      BY <2>4, SettleIs
    <3>2. n = cur[r].node => cur[r].prev # NoEdge
      BY <1>3, <2>1, <3>1, PlaceFacts DEF CurRooted, Rooted
    <3>3. flag'[r][n].prev # NoEdge
      BY <2>2, <3>1, <3>2
    <3> QED
      BY <2>1, <3>3 DEF Has, Home
  <2>5. CASE Relax(r)
    <3>1. flag'[r][n].prev # NoEdge
      <4>1. CASE flag' = flag
        BY <2>2, <4>1
      <4>2. ASSUME NEW x \in Edge, flag'[r][n] = IF n = NodeB[x] THEN Extended(r, x) ELSE flag[r][n]
            PROVE  flag'[r][n].prev # NoEdge
        BY <2>2, <4>2, ExtendedPrev, NetAssumption
      <4> QED
        BY <2>5, <4>1, <4>2, RelaxFlags
    <3> QED
      BY <2>1, <3>1 DEF Has, Home
  <2>6. Rests(r) \/ Dequeue(r) \/ Relaxed(r) => flag'[r] = flag[r]
    BY DequeueIs, RelaxedIs DEF Rests
  <2> QED
    BY <2>3, <2>4, <2>5, <2>6, RunnerSteps
<1> QED
  BY <1>2, <1>3

LEMMA RootedStays ==
  ASSUME Types, Begun, Stopping, CurRooted, [Next]_vars, NEW k \in Key, Asked(k),
         NEW l, l.prev \in Edge \cup {NoEdge}, Rooted(k, l)
  PROVE  Rooted(k, l)'
<1>1. start'[k] = start[k]
  BY EndStays
<1>2. CASE l.prev = NoEdge
  BY <1>1, <1>2 DEF Rooted
<1>3. CASE l.prev # NoEdge
  <2>1. PICK n \in Node : n = NodeA[l.prev]
    BY <1>3, NetFacts
  <2>2. Has(k, n)'
    BY <1>3, <2>1, HasStays DEF Rooted
  <2> QED
    BY <1>3, <2>1, <2>2 DEF Rooted, Has
<1> QED
  BY <1>2, <1>3

\* The label that relaxing makes is rooted in the node at work.
LEMMA ExtendedRooted ==
  ASSUME CurRooted, NEW r \in Runner, pc[r] = "relax", NEW x \in Edge, NodeA[x] = cur[r].node
  PROVE  Rooted(KeyOf(r), Extended(r, x)) /\ Extended(r, x).prev \in Edge
BY ExtendedPrev, NetAssumption DEF CurRooted, Rooted

LEMMA CurRootedStep ==
  ASSUME Types, Begun, Stopping, InTile, LabelsRooted, [Next]_vars
  PROVE  CurRooted'
<1>0. CurRooted /\ HeapRooted
  BY DEF LabelsRooted
<1> SUFFICES ASSUME NEW r \in Runner, pc'[r] \in Working
             PROVE  /\ Rooted(KeyOf(r), cur[r])'
                    /\ pc'[r] = "relax" => Has(KeyOf(r), cur[r].node)'
  BY PlaceFacts DEF CurRooted
<1>1. KeyOf(r) \in Key
  BY RunnerFacts
<1>2. ASSUME pc[r] \in Working, cur'[r] = cur[r], pc'[r] = "relax" => pc[r] = "relax" \/ Settle(r)
      PROVE  /\ Rooted(KeyOf(r), cur[r])'
             /\ pc'[r] = "relax" => Has(KeyOf(r), cur[r].node)'
  <2>1. Asked(KeyOf(r)) /\ Rooted(KeyOf(r), cur[r])
    BY <1>0, <1>2, PlaceFacts DEF CurRooted, Begun, MadeAsked
  <2>2. PICK l \in GoodLabels : l = cur[r]
    BY <1>2, LabelTypes
  <2>3. l.prev \in Edge \cup {NoEdge} /\ l.node \in Node
    BY LabelFacts
  <2>4. Rooted(KeyOf(r), l)'
    BY <1>0, <1>1, <2>1, <2>2, <2>3, RootedStays
  <2>5. Rooted(KeyOf(r), cur[r])'
    BY <1>2, <2>2, <2>4 DEF Rooted, Has
  <2>6. ASSUME pc[r] = "relax" PROVE Has(KeyOf(r), cur[r].node)'
    <3>1. PICK n \in Node : n = l.node
      BY <2>3
    <3>2. Has(KeyOf(r), n)
      BY <1>0, <2>2, <2>6, <3>1 DEF CurRooted
    <3>3. Has(KeyOf(r), n)'
      BY <1>0, <1>1, <2>1, <3>2, HasStays
    <3> QED
      BY <1>2, <2>2, <3>1, <3>3 DEF Has
  <2> QED
    BY <1>0, <1>2, <2>5, <2>6, SettleRoots
<1>3. CASE Rests(r)
  BY <1>2, <1>3, PlaceFacts DEF Rests, Alike
<1>4. CASE Dequeue(r)
  <2>1. PICK l \in GoodLabels :
          /\ l \in heap[r] /\ pc[r] = "dequeue"
          /\ pc'[r] = "loop" \/ (cur'[r] = l /\ pc'[r] \in {"settle", "stopRun"})
    BY <1>4, DequeueIs
  <2>2. cur'[r] = l /\ pc'[r] # "relax"
    BY <2>1, PlaceFacts
  <2>3. Asked(KeyOf(r)) /\ Rooted(KeyOf(r), l) /\ l.prev \in Edge \cup {NoEdge}
    BY <1>0, <2>1, LabelFacts DEF HeapRooted, Begun, MadeAsked
  <2>4. Rooted(KeyOf(r), l)'
    BY <1>0, <1>1, <2>3, RootedStays
  <2> QED
    BY <2>2, <2>4 DEF Rooted, Has
<1>5. CASE Settle(r)
  BY <1>2, <1>5, SettleIs, PlaceFacts
<1>6. CASE Relax(r)
  <2>1. pc[r] = "relax" /\ cur' = cur
    BY <1>6 DEF Relax
  <2> QED
    BY <1>2, <2>1, PlaceFacts
<1>7. CASE Relaxed(r)
  BY <1>7, RelaxedIs, PlaceFacts
<1> QED
  BY <1>3, <1>4, <1>5, <1>6, <1>7, RunnerSteps

\* Where the labels in a heap come from.
LEMMA HeapComes ==
  ASSUME Types, [Next]_vars, NEW r \in Runner, NEW l \in heap'[r]
  PROVE  \/ l \in heap[r]
         \/ route.at \notin {"pop", "empty", "asleep"} /\ r = Served /\ l = route.msg.label
         \/ \E x \in Edge : pc[r] = "relax" /\ NodeA[x] = cur[r].node /\ l = Extended(r, x)
<1> DEFINE G == \/ l \in heap[r]
                \/ route.at \notin {"pop", "empty", "asleep"} /\ r = Served /\ l = route.msg.label
                \/ \E x \in Edge : pc[r] = "relax" /\ NodeA[x] = cur[r].node /\ l = Extended(r, x)
<1>a. heap \in [Runner -> SUBSET GoodLabels]
  BY DEF Types, SearchTypes
<1>1. ASSUME UNCHANGED heap PROVE G
  BY <1>1
<1>2. ASSUME RouteAdd \/ RouteCreate PROVE G
  <2>1. /\ route.at \notin {"pop", "empty", "asleep"}
        /\ \/ UNCHANGED heap
           \/ heap' = [heap EXCEPT ![Served] = @ \cup {route.msg.label}]
           \/ heap' = [heap EXCEPT ![Served] = {route.msg.label}]
           \/ heap' = [heap EXCEPT ![Served] = {}]
    BY <1>2 DEF RouteAdd, RouteCreate
  <2>2. PICK q \in Runner : q = Served
    BY <2>1, ServedFacts
  <2>3. l \in heap[r] \/ (r = q /\ l = route.msg.label)
    BY <1>a, <2>1, <2>2
  <2> QED
    BY <2>1, <2>2, <2>3
<1>3. ASSUME NEW q \in Runner, Dequeue(q) PROVE G
  <2>1. \E o \in heap[q] : heap' = [heap EXCEPT ![q] = @ \ {o}]
    BY <1>3 DEF Dequeue
  <2> QED
    BY <1>a, <2>1
<1>4. ASSUME NEW q \in Runner, Relax(q) PROVE G
  <2>1. pc[q] = "relax" /\ idx[q] <= Len(Out[cur[q].node])
    BY <1>4 DEF Relax
  <2>2. PICK x \in Forward(cur[q].node) :
          /\ x = Out[cur[q].node][idx[q]]
          /\ UNCHANGED heap \/ heap' = [heap EXCEPT ![q] = @ \cup {Extended(q, x)}]
    BY <1>4, RelaxSteps
  <2>3. x \in Edge /\ NodeA[x] = cur[q].node
    BY <2>1, <2>2, RelaxFacts
  <2>4. PICK o : o = Extended(q, x)
    OBVIOUS
  <2>5. l \in heap[r] \/ (q = r /\ l = o)
    BY <1>a, <2>2, <2>4
  <2> QED
    BY <2>1, <2>3, <2>4, <2>5
<1> HIDE DEF G
<1>5. G
  BY <1>1, <1>2, <1>3, <1>4, Changes
<1> QED
  BY <1>5 DEF G

LEMMA HeapRootedStep ==
  ASSUME Types, Begun, Stopping, LabelsRooted, [Next]_vars
  PROVE  HeapRooted'
<1>0. CurRooted /\ HeapRooted /\ RouteRooted
  BY DEF LabelsRooted
<1> SUFFICES ASSUME NEW r \in Runner, NEW l \in heap'[r] PROVE Rooted(KeyOf(r), l)'
  BY DEF HeapRooted, Rooted, Has
<1>1. KeyOf(r) \in Key
  BY RunnerFacts
<1>2. ASSUME Asked(KeyOf(r)), l.prev \in Edge \cup {NoEdge}, Rooted(KeyOf(r), l)
      PROVE  Rooted(KeyOf(r), l)'
  BY <1>0, <1>1, <1>2, RootedStays
<1>3. CASE l \in heap[r]
  <2>1. pc[r] # "none"
    BY <1>3 DEF Begun, EmptyAtFirst
  <2>2. Asked(KeyOf(r)) /\ l.prev \in Edge \cup {NoEdge}
    BY <1>3, <2>1, LabelTypes, LabelFacts DEF Begun, MadeAsked
  <2> QED
    BY <1>0, <1>2, <1>3, <2>2 DEF HeapRooted
<1>4. CASE route.at \notin {"pop", "empty", "asleep"} /\ r = Served /\ l = route.msg.label
  <2>1. /\ KeyOf(r) = route.msg.key /\ l.prev \in Edge \cup {NoEdge}
    BY <1>4, ServedFacts, LabelFacts
  <2>2. Asked(KeyOf(r)) /\ Rooted(KeyOf(r), l)
    BY <1>0, <1>1, <1>4, <2>1 DEF RouteRooted, Begun, ServedAsked
  <2> QED
    BY <1>2, <2>1, <2>2
<1>5. ASSUME NEW x \in Edge, pc[r] = "relax", NodeA[x] = cur[r].node, l = Extended(r, x)
      PROVE  Rooted(KeyOf(r), l)'
  <2>1. Rooted(KeyOf(r), l) /\ l.prev \in Edge
    BY <1>0, <1>5, ExtendedRooted
  <2>2. Asked(KeyOf(r))
    BY <1>5 DEF Begun, MadeAsked
  <2> QED
    BY <1>2, <2>1, <2>2
<1> QED
  BY <1>3, <1>4, <1>5, HeapComes

LEMMA FlagRootedStep ==
  ASSUME Types, Begun, Stopping, LabelsRooted, [Next]_vars
  PROVE  FlagRooted'
<1>0. CurRooted /\ FlagRooted
  BY DEF LabelsRooted
<1> SUFFICES ASSUME NEW r \in Runner, NEW n \in Node, flag'[r][n].prev # NoEdge
             PROVE  Has(KeyOf(r), NodeA[flag[r][n].prev])'
  BY DEF FlagRooted
<1>1. KeyOf(r) \in Key
  BY RunnerFacts
<1>2. ASSUME Asked(KeyOf(r)), NEW l, l.prev \in Edge \cup {NoEdge}, Rooted(KeyOf(r), l), flag'[r][n] = l
      PROVE  Has(KeyOf(r), NodeA[flag[r][n].prev])'
  <2>1. Rooted(KeyOf(r), l)'
    BY <1>0, <1>1, <1>2, RootedStays
  <2> QED
    BY <1>2, <2>1 DEF Rooted, Has
<1>3. CASE flag'[r][n] = flag[r][n]
  <2>1. pc[r] # "none"
    BY <1>3, LabelFacts DEF Begun, EmptyAtFirst
  <2>2. Asked(KeyOf(r))
    BY <2>1 DEF Begun, MadeAsked
  <2>3. PICK l \in GoodLabels : l = flag[r][n]
    BY LabelTypes
  <2>4. l.prev \in Edge \cup {NoEdge} /\ Rooted(KeyOf(r), l)
    BY <1>0, <1>3, <2>3, LabelFacts DEF FlagRooted, Rooted
  <2> QED
    BY <1>2, <1>3, <2>2, <2>3, <2>4
<1>4. CASE Settle(r)
  <2>1. /\ pc[r] = "settle" /\ cur[r] \in GoodLabels
        /\ flag'[r][n] = cur[r] \/ flag'[r][n] = flag[r][n]
    BY <1>4, SettleIs
  <2>2. PICK l \in GoodLabels : l = cur[r]
    BY <2>1
  <2>3. Asked(KeyOf(r)) /\ Rooted(KeyOf(r), l) /\ l.prev \in Edge \cup {NoEdge}
    BY <1>0, <2>1, <2>2, PlaceFacts, LabelFacts DEF CurRooted, Begun, MadeAsked
  <2> QED
    BY <1>2, <1>3, <2>1, <2>2, <2>3
<1>5. CASE Relax(r)
  <2>1. CASE flag' = flag
    BY <1>3, <2>1
  <2>2. ASSUME NEW x \in Edge, NodeA[x] = cur[r].node, pc[r] = "relax",
               flag'[r][n] = IF n = NodeB[x] THEN Extended(r, x) ELSE flag[r][n]
        PROVE  Has(KeyOf(r), NodeA[flag[r][n].prev])'
    <3>1. PICK l : l = Extended(r, x)
      OBVIOUS
    <3>2. Asked(KeyOf(r)) /\ Rooted(KeyOf(r), l) /\ l.prev \in Edge
      BY <1>0, <2>2, <3>1, ExtendedRooted DEF Begun, MadeAsked
    <3>3. flag'[r][n] = l \/ flag'[r][n] = flag[r][n]
      BY <2>2, <3>1
    <3> QED
      BY <1>2, <1>3, <3>2, <3>3
  <2> QED
    BY <1>5, <2>1, <2>2, RelaxFlags
<1>6. Rests(r) \/ Dequeue(r) \/ Relaxed(r) => flag'[r] = flag[r]
  BY DequeueIs, RelaxedIs DEF Rests
<1> QED
  BY <1>3, <1>4, <1>5, <1>6, RunnerSteps

\* Where the requests in the queue come from.
LEMMA QueueComes ==
  ASSUME Types, [Next]_vars, NEW i \in 1..Len(routingChan')
  PROVE  \/ \E j \in 1..Len(routingChan) : routingChan'[i] = routingChan[j]
         \/ \E k \in Key, s, e \in Node :
              RunRouting(k, s, e) /\ routingChan'[i] = Request(k, Label(s, 0, NoEdge))
         \/ \E r \in Runner, x \in Edge :
              /\ pc[r] = "relax" /\ NodeA[x] = cur[r].node
              /\ routingChan'[i] = Request(KeyOf(r), Extended(r, x))
<1> DEFINE G == \/ \E j \in 1..Len(routingChan) : routingChan'[i] = routingChan[j]
                \/ \E k \in Key, s, e \in Node :
                     RunRouting(k, s, e) /\ routingChan'[i] = Request(k, Label(s, 0, NoEdge))
                \/ \E r \in Runner, x \in Edge :
                     /\ pc[r] = "relax" /\ NodeA[x] = cur[r].node
                     /\ routingChan'[i] = Request(KeyOf(r), Extended(r, x))
<1>0. routingChan \in Seq(GoodRequests)
  BY DEF Types, ManagerTypes
<1>1. ASSUME UNCHANGED routingChan PROVE G
  BY <1>1
<1>2. ASSUME NEW m, routingChan' = Append(routingChan, m)
      PROVE  routingChan'[i] = m \/ \E j \in 1..Len(routingChan) : routingChan'[i] = routingChan[j]
  BY <1>0, <1>2
<1>3. ASSUME RoutePop PROVE G
  <2>1. routingChan' = Tail(routingChan) /\ routingChan # <<>>
    BY <1>3 DEF RoutePop
  <2>2. i + 1 \in 1..Len(routingChan) /\ routingChan'[i] = routingChan[i + 1]
    BY <1>0, <2>1
  <2> QED
    BY <2>2
<1>4. ASSUME NEW k \in Key, NEW s \in Node, NEW e \in Node, RunRouting(k, s, e) PROVE G
  <2>1. routingChan' = Append(routingChan, Request(k, Label(s, 0, NoEdge)))
    BY <1>4 DEF RunRouting
  <2>2. \/ routingChan'[i] = Request(k, Label(s, 0, NoEdge))
        \/ \E j \in 1..Len(routingChan) : routingChan'[i] = routingChan[j]
    BY <1>2, <2>1
  <2> QED
    BY <1>4, <2>2
<1>5. ASSUME NEW r \in Runner, Relax(r) PROVE G
  <2>1. pc[r] = "relax" /\ idx[r] <= Len(Out[cur[r].node])
    BY <1>5 DEF Relax
  <2>2. PICK x \in Forward(cur[r].node) :
          /\ x = Out[cur[r].node][idx[r]]
          /\ \/ UNCHANGED routingChan
             \/ routingChan' = Append(routingChan, Request(KeyOf(r), Extended(r, x)))
    BY <1>5, RelaxSteps
  <2>3. x \in Edge /\ NodeA[x] = cur[r].node
    BY <2>1, <2>2, RelaxFacts
  <2>4. PICK m : m = Request(KeyOf(r), Extended(r, x))
    OBVIOUS
  <2>5. routingChan'[i] = m \/ \E j \in 1..Len(routingChan) : routingChan'[i] = routingChan[j]
    BY <1>1, <1>2, <2>2, <2>4
  <2> QED
    BY <2>1, <2>3, <2>4, <2>5
<1> HIDE DEF G
<1>6. G
  BY <1>1, <1>3, <1>4, <1>5, Changes
<1> QED
  BY <1>6 DEF G

LEMMA QueueRootedStep ==
  ASSUME Types, Begun, Stopping, LabelsRooted, [Next]_vars
  PROVE  QueueRooted'
<1>0. CurRooted /\ QueueRooted
  BY DEF LabelsRooted
<1> SUFFICES ASSUME NEW i \in 1..Len(routingChan'), NEW m, m = routingChan'[i] PROVE Rooted(m.key, m.label)'
  BY DEF QueueRooted, Rooted, Has
<1>1. ASSUME m.key \in Key, Asked(m.key), m.label.prev \in Edge \cup {NoEdge}, Rooted(m.key, m.label)
      PROVE  Rooted(m.key, m.label)'
  <2>1. PICK k, l : k \in Key /\ k = m.key /\ l = m.label
    BY <1>1
  <2>2. Rooted(k, l)'
    BY <1>0, <1>1, <2>1, RootedStays
  <2> QED
    BY <2>1, <2>2
<1>2. ASSUME NEW j \in 1..Len(routingChan), m = routingChan[j] PROVE Rooted(m.key, m.label)'
  <2>1. m.key \in Key /\ m.label.prev \in Edge \cup {NoEdge}
    BY <1>2, RequestTypes, LabelFacts
  <2>2. Asked(m.key) /\ Rooted(m.key, m.label)
    BY <1>0, <1>2 DEF QueueRooted, Begun, RequestsAsked
  <2> QED
    BY <1>1, <2>1, <2>2
<1>3. ASSUME NEW k \in Key, NEW s \in Node, NEW e \in Node, RunRouting(k, s, e),
             m = Request(k, Label(s, 0, NoEdge))
      PROVE  Rooted(m.key, m.label)'
  <2>1. start' = [start EXCEPT ![k] = s] /\ start \in [Key -> Node \cup {NoNode}]
    BY <1>3 DEF RunRouting, Types, ClientTypes
  <2>2. m.key = k /\ m.label.node = s /\ m.label.prev = NoEdge
    BY <1>3 DEF Request, Label
  <2> QED
    BY <2>1, <2>2 DEF Rooted
<1>4. ASSUME NEW r \in Runner, NEW x \in Edge, pc[r] = "relax", NodeA[x] = cur[r].node,
             m = Request(KeyOf(r), Extended(r, x))
      PROVE  Rooted(m.key, m.label)'
  <2>1. PICK l : l = Extended(r, x)
    OBVIOUS
  <2>2. m.key = KeyOf(r) /\ m.label = l
    BY <1>4, <2>1 DEF Request
  <2>3. Rooted(KeyOf(r), l) /\ l.prev \in Edge
    BY <1>0, <1>4, <2>1, ExtendedRooted
  <2>4. KeyOf(r) \in Key /\ Asked(KeyOf(r))
    BY <1>4, RunnerFacts DEF Begun, MadeAsked
  <2> QED
    BY <1>1, <2>2, <2>3, <2>4
<1> QED
  BY <1>2, <1>3, <1>4, QueueComes

LEMMA RouteRootedStep ==
  ASSUME Types, Begun, Stopping, LabelsRooted, [Next]_vars
  PROVE  RouteRooted'
<1>0. CurRooted /\ QueueRooted /\ RouteRooted
  BY DEF LabelsRooted
<1> SUFFICES ASSUME NEW k \in Key, NEW l, k = route'.msg.key, l = route'.msg.label PROVE Rooted(k, l)'
  BY DEF RouteRooted
<1>1. ASSUME Asked(k), l.prev \in Edge \cup {NoEdge}, Rooted(k, l) PROVE Rooted(k, l)'
  BY <1>0, <1>1, RootedStays
<1>2. CASE RoutePop
  <2>1. routingChan # <<>> /\ route'.msg = Head(routingChan)
    BY <1>2 DEF RoutePop
  <2>2. 1 \in 1..Len(routingChan) /\ Head(routingChan) = routingChan[1]
    BY <2>1, RequestTypes
  <2>3. PICK i \in 1..Len(routingChan) : route'.msg = routingChan[i]
    BY <2>1, <2>2
  <2>4. Asked(k) /\ Rooted(k, l)
    BY <1>0, <2>3 DEF QueueRooted, Begun, RequestsAsked
  <2>5. l.prev \in Edge \cup {NoEdge}
    BY <2>3, RequestTypes, LabelFacts
  <2> QED
    BY <1>1, <2>4, <2>5
<1>3. CASE route'.msg = route.msg
  <2>1. Asked(k) /\ Rooted(k, l)
    BY <1>0, <1>3 DEF RouteRooted, Begun, ServedAsked
  <2>2. route.msg # FirstMsg
    BY <1>3, LabelFacts, NetAssumption
  <2>3. l.prev \in Edge \cup {NoEdge}
    BY <1>3, <2>2, LabelFacts DEF Types, LoopTypes
  <2> QED
    BY <1>1, <2>1, <2>3
<1> QED
  BY <1>2, <1>3, RouteMsg

LEMMA LabelsRootedStep ==
  ASSUME Types, Begun, Stopping, InTile, LabelsRooted, [Next]_vars
  PROVE  LabelsRooted'
BY CurRootedStep, HeapRootedStep, FlagRootedStep, QueueRootedStep, RouteRootedStep DEF LabelsRooted

\* The end is settled by the runner that has seen it.
LEMMA SettlingStays ==
  ASSUME Types, Begun, Stopping, InTile, LabelsRooted, [Next]_vars, NEW r \in Runner, Settling(r)
  PROVE  Has(KeyOf(r), end[KeyOf(r)])' \/ Settling(r)'
<1>1. pc[r] \in Working \ {"relax"} /\ cur[r].node = end[KeyOf(r)]
  BY DEF Settling
<1>2. KeyOf(r) \in Key /\ Asked(KeyOf(r))
  BY <1>1, RunnerFacts, PlaceFacts DEF Begun, MadeAsked
<1>3. end'[KeyOf(r)] = end[KeyOf(r)]
  BY <1>2, EndStays
<1>4. CASE Rests(r)
  BY <1>1, <1>3, <1>4 DEF Rests, Alike, Settling
<1>5. CASE Settle(r)
  <2>1. Has(KeyOf(r), cur[r].node)' /\ cur' = cur
    BY <1>5, SettleRoots, SettleIs DEF LabelsRooted
  <2> QED
    BY <1>1, <1>3, <2>1
<1>6. ~Dequeue(r) /\ ~Relax(r) /\ ~Relaxed(r)
  BY <1>1, PlaceFacts DEF Dequeue, Relax, Relaxed
<1> QED
  BY <1>4, <1>5, <1>6, RunnerSteps

LEMMA EndKnownStays ==
  ASSUME Types, Begun, Stopping, InTile, LabelsRooted, [Next]_vars, NEW r \in Runner, Asked(KeyOf(r)),
         Has(KeyOf(r), end[KeyOf(r)]) \/ Settling(r)
  PROVE  Has(KeyOf(r), end[KeyOf(r)])' \/ Settling(r)'
<1>1. KeyOf(r) \in Key
  BY RunnerFacts
<1>2. PICK e \in Node : e = end[KeyOf(r)] /\ e = end'[KeyOf(r)]
  BY <1>1, EndStays
<1>3. ASSUME Has(KeyOf(r), e) PROVE Has(KeyOf(r), e)'
  BY <1>1, <1>3, HasStays DEF LabelsRooted
<1>4. Has(KeyOf(r), e)' => Has(KeyOf(r), end[KeyOf(r)])'
  BY <1>2 DEF Has, Home
<1> QED
  BY <1>2, <1>3, <1>4, SettlingStays

LEMMA EndKnownStep ==
  ASSUME Types, Begun, Stopping, InTile, LabelsRooted, EndKnown, [Next]_vars
  PROVE  EndKnown'
<1> SUFFICES ASSUME NEW r \in Runner, isEnd'[r] PROVE Has(KeyOf(r), end[KeyOf(r)])' \/ Settling(r)'
  BY DEF EndKnown
<1>1. CASE isEnd[r]
  <2>1. pc[r] # "none"
    BY <1>1 DEF Begun, EmptyAtFirst
  <2>2. Asked(KeyOf(r))
    BY <2>1 DEF Begun, MadeAsked
  <2> QED
    BY <1>1, <2>2, EndKnownStays DEF EndKnown
<1>2. CASE ~isEnd[r]
  <2>0. isEnd \in [Runner -> BOOLEAN] /\ cur \in [Runner -> GoodLabels \cup {Unreached(NoNode)}]
    BY DEF Types, HelperTypes, SearchTypes
  <2>1. PICK q \in Runner : Dequeue(q)
    BY <1>2, Changes
  <2>2. PICK l \in heap[q] :
          \/ UNCHANGED isEnd
          \/ /\ isEnd' = [isEnd EXCEPT ![q] = TRUE] /\ l.node = end[KeyOf(q)]
             /\ cur' = [cur EXCEPT ![q] = l] /\ Goes(q, "stopRun")
    BY <2>1 DEF Dequeue
  <2>3. q = r /\ l.node = end[KeyOf(q)] /\ cur' = [cur EXCEPT ![q] = l] /\ Goes(q, "stopRun")
    BY <1>2, <2>0, <2>2
  <2>4. cur'[r] = l /\ pc'[r] = "stopRun" /\ UNCHANGED end
    BY <2>0, <2>1, <2>3, PcAt DEF Dequeue, otherVars, clientVars
  <2> QED
    BY <2>3, <2>4, PlaceFacts DEF Settling
<1> QED
  BY <1>1, <1>2

\* What a walk that has read a flag leads to.
LEMMA WalkReads ==
  ASSUME Types, LabelsRooted, NEW r \in Runner, WalkEdge(r), KeyOf(r) \notin blind'
  PROVE  Has(KeyOf(r), Other(r))
<1>1. ~Missing(r, walker[r].node)
  BY DEF WalkEdge
<1>2. walker[r].node \in Node /\ Other(r) = NodeA[Read(r)]
  BY <1>1, WalkerSteps
<1>3. flag[r][walker[r].node].prev # NoEdge /\ Read(r) = flag[r][walker[r].node].prev
  BY <1>1 DEF Missing, Read, EdgeRead
<1> QED
  BY <1>2, <1>3 DEF LabelsRooted, FlagRooted

\* Where walks come from.
LEMMA WalkComes ==
  ASSUME Types, Begun, InTile, Walked, [Next]_vars, NEW r \in Runner, Walking(r)'
  PROVE  \/ Walking(r) /\ walker'[r].node = walker[r].node
         \/ isEnd[r] /\ walker'[r].node = end[KeyOf(r)] /\ Asked(KeyOf(r)) /\ UNCHANGED end
         \/ WalkEdge(r) /\ Other(r) \in Node /\ walker'[r].node = Other(r)
         \/ \E i \in 1..Len(retrivelChan) : retrivelChan[i] = <<KeyOf(r), walker'[r].node>>
<1> DEFINE G == \/ Walking(r) /\ walker'[r].node = walker[r].node
                \/ isEnd[r] /\ walker'[r].node = end[KeyOf(r)] /\ Asked(KeyOf(r)) /\ UNCHANGED end
                \/ WalkEdge(r) /\ Other(r) \in Node /\ walker'[r].node = Other(r)
                \/ \E i \in 1..Len(retrivelChan) : retrivelChan[i] = <<KeyOf(r), walker'[r].node>>
<1>1. ASSUME walker'[r] = walker[r] PROVE G
  BY <1>1 DEF Walking
<1>2. ASSUME NEW q \in Runner, NEW a, WalkerGoes(q, a), a.at # "walk" PROVE G
  <2>1. q # r
    BY <1>2, WalkingGoes
  <2> QED
    BY <1>1, <1>2, <2>1, WalkingGoes
<1>3. ASSUME NEW q \in Runner, StopperReports(q) PROVE G
  <2>1. CASE UNCHANGED walker
    BY <1>1, <2>1
  <2>2. CASE isEnd[q]
    <3>1. /\ WalkerGoes(q, [at |-> "walk", node |-> end[KeyOf(q)]]) /\ Asked(KeyOf(q))
          /\ UNCHANGED end
      BY <1>3, <2>2, ReportFacts DEF StopperReports, otherVars, clientVars
    <3>2. CASE q = r
      BY <2>2, <3>1, <3>2, WalkingGoes
    <3>3. CASE q # r
      BY <1>1, <3>1, <3>3, WalkingGoes
    <3> QED
      BY <3>2, <3>3
  <2> QED
    BY <1>3, <2>1, <2>2, WalkerSteps
<1>4. ASSUME NEW q \in Runner, WalkEdge(q) PROVE G
  <2>1. CASE UNCHANGED walker
    BY <1>1, <2>1
  <2>2. CASE WalkerGoes(q, [at |-> "wait", node |-> walker[q].node])
    BY <1>2, <2>2
  <2>3. CASE Other(q) \in Node /\ WalkerGoes(q, [at |-> "walk", node |-> Other(q)])
    <3>1. CASE q = r
      BY <1>4, <2>3, <3>1, WalkingGoes
    <3>2. CASE q # r
      BY <1>1, <2>3, <3>2, WalkingGoes
    <3> QED
      BY <3>1, <3>2
  <2> QED
    BY <1>4, <2>1, <2>2, <2>3, WalkerSteps
<1>5. ASSUME RetrievalLoop PROVE G
  <2>1. PICK k \in Key, n \in Node :
          /\ Head(retrivelChan) = <<k, n>>
          /\ UNCHANGED walker \/ WalkerGoes(<<k, TileOf[n]>>, [at |-> "walk", node |-> n])
    BY <1>5, WalkerElsewhere
  <2>2. CASE UNCHANGED walker
    BY <1>1, <2>2
  <2>3. CASE WalkerGoes(<<k, TileOf[n]>>, [at |-> "walk", node |-> n])
    <3>1. PICK q \in Runner : q = <<k, TileOf[n]>> /\ KeyOf(q) = k
      BY RunnerFacts
    <3>2. 1 \in 1..Len(retrivelChan) /\ retrivelChan[1] = <<k, n>>
      BY <1>5, <2>1, RetrivelFacts DEF RetrievalLoop
    <3>3. CASE q = r
      <4>1. walker'[r].node = n /\ KeyOf(r) = k
        BY <2>3, <3>1, <3>3, WalkingGoes
      <4> QED
        BY <3>2, <4>1
    <3>4. CASE q # r
      BY <1>1, <2>3, <3>1, <3>4, WalkingGoes
    <3> QED
      BY <3>3, <3>4
  <2> QED
    BY <2>1, <2>2, <2>3
<1>6. ASSUME RouteCreate PROVE G
  <2>1. Served \in Runner
    BY <1>6, ServedFacts DEF RouteCreate
  <2> QED
    BY <1>2, <1>6, <2>1, WalkerElsewhere
<1>7. ASSUME NEW q \in Runner, WalkEnds(q) PROVE G
  BY <1>2, <1>7, WalkerSteps
<1>8. ASSUME NEW t \in Tile, ExitRunner(t) PROVE G
  <2>1. CASE UNCHANGED walker
    BY <1>1, <2>1
  <2>2. CASE /\ exit.key \in Key
             /\ WalkerGoes(<<exit.key, t>>, [at |-> "done", node |-> walker[<<exit.key, t>>].node])
    <3>1. <<exit.key, t>> \in Runner
      BY <2>2, RunnerFacts
    <3> QED
      BY <1>2, <2>2, <3>1
  <2> QED
    BY <1>8, <2>1, <2>2, WalkerElsewhere
<1>9. ASSUME UNCHANGED walker PROVE G
  BY <1>1, <1>9
<1> HIDE DEF G
<1>10. G
  BY <1>3, <1>4, <1>5, <1>6, <1>7, <1>8, <1>9, Changes
<1> QED
  BY <1>10 DEF G

\* Where the walks in the channel come from.
LEMMA RetrivelComes ==
  ASSUME Types, [Next]_vars, NEW i \in 1..Len(retrivelChan')
  PROVE  \/ \E j \in 1..Len(retrivelChan) : retrivelChan'[i] = retrivelChan[j]
         \/ \E r \in Runner :
              WalkEdge(r) /\ Other(r) \in Node /\ retrivelChan'[i] = <<KeyOf(r), Other(r)>>
<1> DEFINE G == \/ \E j \in 1..Len(retrivelChan) : retrivelChan'[i] = retrivelChan[j]
                \/ \E r \in Runner :
                     WalkEdge(r) /\ Other(r) \in Node /\ retrivelChan'[i] = <<KeyOf(r), Other(r)>>
<1>0. retrivelChan \in Seq(Key \X Node)
  BY RetrivelFacts
<1>1. ASSUME UNCHANGED retrivelChan PROVE G
  BY <1>1
<1>2. ASSUME RetrievalLoop PROVE G
  <2>1. retrivelChan' = Tail(retrivelChan) /\ retrivelChan # <<>>
    BY <1>2 DEF RetrievalLoop
  <2>2. i + 1 \in 1..Len(retrivelChan) /\ retrivelChan'[i] = retrivelChan[i + 1]
    BY <1>0, <2>1
  <2> QED
    BY <2>2
<1>3. ASSUME NEW r \in Runner, WalkEdge(r) PROVE G
  <2>1. CASE UNCHANGED retrivelChan
    BY <1>1, <2>1
  <2>2. CASE Other(r) \in Node /\ retrivelChan' = Append(retrivelChan, <<KeyOf(r), Other(r)>>)
    <3>1. PICK m : m = <<KeyOf(r), Other(r)>>
      OBVIOUS
    <3>2. retrivelChan' = Append(retrivelChan, m)
      BY <2>2, <3>1
    <3>3. retrivelChan'[i] = m \/ \E j \in 1..Len(retrivelChan) : retrivelChan'[i] = retrivelChan[j]
      BY <1>0, <3>2
    <3> QED
      BY <1>3, <2>2, <3>1, <3>3
  <2> QED
    BY <1>3, <2>1, <2>2, WalkerSteps
<1> HIDE DEF G
<1>4. G
  BY <1>1, <1>2, <1>3, Changes
<1> QED
  BY <1>4 DEF G

LEMMA BlindStays ==
  ASSUME [Next]_vars
  PROVE  blind \subseteq blind'
BY Changes DEF WalkEdge

LEMMA WalkKnownStep ==
  ASSUME Types, Begun, Stopping, InTile, Walked, LabelsRooted, EndKnown, WalkKnown, [Next]_vars
  PROVE  WalkKnown'
<1>0. CurRooted /\ NoneUnasked /\ \A k : k \notin blind' => k \notin blind
  BY BlindStays DEF LabelsRooted, Walked
<1>1. ASSUME NEW r \in Runner, WalkEdge(r), Other(r) \in Node, KeyOf(r) \notin blind',
             NEW n, n = Other(r)
      PROVE  Has(KeyOf(r), n)'
  <2>1. Has(KeyOf(r), n)
    BY <1>1, WalkReads
  <2>2. KeyOf(r) \in Key /\ Asked(KeyOf(r))
    BY <1>0, <1>1, RunnerFacts DEF WalkEdge, NoneUnasked, Walking
  <2> QED
    BY <1>0, <1>1, <2>1, <2>2, HasStays
<1>2. ASSUME NEW i \in 1..Len(retrivelChan), NEW k, NEW n, retrivelChan[i] = <<k, n>>, k \notin blind'
      PROVE  Has(k, n)'
  <2>1. k \in Key /\ n \in Node
    BY <1>2, RetrivelFacts
  <2>2. retrivelChan[i][1] = k /\ retrivelChan[i][2] = n
    BY <1>2
  <2>3. Asked(k) /\ Has(k, n)
    BY <1>0, <1>2, <2>2 DEF NoneUnasked, WalkKnown
  <2> QED
    BY <1>0, <2>1, <2>3, HasStays
<1>3. ASSUME NEW r \in Runner, Walking(r)', KeyOf(r) \notin blind', NEW n, n = walker'[r].node
      PROVE  Has(KeyOf(r), n)' \/ (n = end'[KeyOf(r)] /\ Settling(r)')
  <2>0. KeyOf(r) \in Key
    BY RunnerFacts
  <2>1. CASE Walking(r) /\ n = walker[r].node
    <3>1. Asked(KeyOf(r)) /\ n \in Node
      BY <1>0, <2>1 DEF NoneUnasked, Walking, Types, HelperTypes
    <3>2. CASE Has(KeyOf(r), n)
      BY <1>0, <2>0, <3>1, <3>2, HasStays
    <3>3. CASE n = end[KeyOf(r)] /\ Settling(r)
      <4>1. end'[KeyOf(r)] = n
        BY <2>0, <3>1, <3>3, EndStays
      <4>2. Has(KeyOf(r), end[KeyOf(r)])' \/ Settling(r)'
        BY <3>3, SettlingStays
      <4> QED
        BY <4>1, <4>2 DEF Has, Home
    <3> QED
      BY <1>0, <1>3, <2>1, <3>2, <3>3 DEF WalkKnown
  <2>2. CASE isEnd[r] /\ n = end[KeyOf(r)] /\ Asked(KeyOf(r)) /\ UNCHANGED end
    <3>1. Has(KeyOf(r), end[KeyOf(r)])' \/ Settling(r)'
      BY <2>2, EndKnownStays DEF EndKnown
    <3> QED
      BY <2>2, <3>1 DEF Has, Home
  <2>3. CASE WalkEdge(r) /\ Other(r) \in Node /\ n = Other(r)
    BY <1>1, <1>3, <2>3
  <2>4. ASSUME NEW i \in 1..Len(retrivelChan), retrivelChan[i] = <<KeyOf(r), n>>
        PROVE  Has(KeyOf(r), n)'
    BY <1>2, <1>3, <2>4
  <2> QED
    BY <1>3, <2>1, <2>2, <2>3, <2>4, WalkComes
<1>4. ASSUME NEW i \in 1..Len(retrivelChan'), NEW k, NEW n, k = retrivelChan'[i][1], n = retrivelChan'[i][2],
             k \notin blind'
      PROVE  Has(k, n)'
  <2>1. ASSUME NEW j \in 1..Len(retrivelChan), retrivelChan'[i] = retrivelChan[j] PROVE Has(k, n)'
    <3>1. retrivelChan[j] = <<k, n>>
      BY <1>4, <2>1, RetrivelFacts
    <3> QED
      BY <1>2, <1>4, <3>1
  <2>2. ASSUME NEW r \in Runner, WalkEdge(r), Other(r) \in Node, retrivelChan'[i] = <<KeyOf(r), Other(r)>>
        PROVE  Has(k, n)'
    <3>1. k = KeyOf(r) /\ n = Other(r)
      BY <1>4, <2>2
    <3> QED
      BY <1>1, <1>4, <2>2, <3>1
  <2> QED
    BY <2>1, <2>2, RetrivelComes
<1>5. ASSUME NEW r \in Runner, Walking(r)', KeyOf(r) \notin blind'
      PROVE  Has(KeyOf(r), walker[r].node)' \/ (walker'[r].node = end'[KeyOf(r)] /\ Settling(r)')
  <2>1. PICK n : n = walker'[r].node
    OBVIOUS
  <2>2. Has(KeyOf(r), n)' \/ (n = end'[KeyOf(r)] /\ Settling(r)')
    BY <1>3, <1>5, <2>1
  <2> QED
    BY <2>1, <2>2 DEF Has, Home
<1>6. ASSUME NEW i \in 1..Len(retrivelChan'), retrivelChan'[i][1] \notin blind'
      PROVE  Has(retrivelChan[i][1], retrivelChan[i][2])'
  <2>1. PICK k, n : k = retrivelChan'[i][1] /\ n = retrivelChan'[i][2]
    OBVIOUS
  <2>2. Has(k, n)'
    BY <1>4, <1>6, <2>1
  <2> QED
    BY <2>1, <2>2 DEF Has, Home
<1> QED
  BY <1>5, <1>6 DEF WalkKnown

LEMMA RootStep ==
  ASSUME Types, Begun, Stopping, InTile, Walked, RootInv, [Next]_vars
  PROVE  RootInv'
BY LabelsRootedStep, EndKnownStep, WalkKnownStep DEF RootInv

LEMMA RootInit == Init => RootInv
<1> SUFFICES ASSUME Init PROVE RootInv
  OBVIOUS
<1>1. /\ routingChan = <<>> /\ retrivelChan = <<>> /\ route.msg = FirstMsg
      /\ \A r \in Runner : /\ pc[r] = "none" /\ heap[r] = {} /\ ~isEnd[r] /\ ~Walking(r)
                           /\ \A n \in Node : flag[r][n] = Unreached(n)
  BY DEF Init, FirstMsg, Walking
<1>2. route.msg.key \notin Key
  BY <1>1, LabelFacts, NetAssumption
<1>3. LabelsRooted
  BY <1>1, <1>2, PlaceFacts, LabelFacts
     DEF LabelsRooted, CurRooted, HeapRooted, FlagRooted, QueueRooted, RouteRooted
<1>4. EndKnown /\ WalkKnown
  BY <1>1 DEF EndKnown, WalkKnown
<1> QED
  BY <1>3, <1>4 DEF RootInv

\* A walk stands on a missing flag only at the end, while it is being settled.
LEMMA WalkMisses ==
  ASSUME Types, InTile, WalkLeads, RootInv
  PROVE  BlindOnlyAtEnd
<1> SUFFICES ASSUME NEW r \in Runner, NEW n \in Node, NEW k \in Key, k = KeyOf(r),
                    walker[r].at = "walk", walker[r].node = n, n # start[k], k \notin blind, Missing(r, n)
             PROVE  /\ n = end[k] /\ cur[r].node = n
                    /\ pc[r] \in {"stopRun", "stopReq", "bound", "tell", "settle"}
  BY RunnerFacts DEF BlindOnlyAtEnd
<1>1. Home(k, n) = r
  BY RunnerFacts DEF WalkLeads, Walking, Home
<1>2. ~Has(k, n)
  BY <1>1 DEF Has, Missing
<1>3. n = end[k] /\ Settling(r)
  BY <1>2 DEF RootInv, WalkKnown, Walking
<1> QED
  BY <1>3, PlaceFacts DEF Settling

-----------------------------------------------------------------------------
(* The invariant, and what it says.                                        *)

LEMMA InvariantInit == Init => IInv
BY TypesInit, BegunInit, StoppingInit, CountedInit, KeptInit, PathInit, CoveredInit, RootInit
   DEF IInv, Counts, Counted, PathInv, Walked

LEMMA InvariantStep == IInv /\ [Next]_vars => IInv'
<1> SUFFICES ASSUME IInv, [Next]_vars PROVE IInv'
  OBVIOUS
<1>1. /\ Types /\ Begun /\ Stopping /\ RequestsCounted /\ Counted /\ Kept /\ InTile /\ Walked
      /\ Covered /\ RootInv
  BY DEF IInv, Counts, Counted, PathInv, Walked
<1>2. Types'
  BY <1>1, TypesStep
<1>3. Begun'
  BY <1>1, BegunStep
<1>4. RequestsCounted'
  BY <1>1, RequestsCountedStep
<1>5. Stopping'
  BY <1>1, StoppingStep
<1>6. Counted'
  BY <1>1, CountedStep
<1>7. Kept'
  BY <1>1, KeptStep
<1>8. InTile' /\ Walked'
  BY <1>1, InTileStep, WalkedStep
<1>9. Covered'
  BY <1>1, CoveredStep
<1>10. RootInv'
  BY <1>1, RootStep
<1> QED
  BY <1>2, <1>3, <1>4, <1>5, <1>6, <1>7, <1>8, <1>9, <1>10 DEF IInv, Counts, Counted, PathInv, Walked

LEMMA Invariance == Spec => []IInv
BY InvariantInit, InvariantStep, PTL DEF Spec

LEMMA InvariantSays ==
  ASSUME IInv
  PROVE  CountersAreRight /\ NoLabelIsTooShort /\ AnswerIsPath /\ StopLoopIsHeard /\ BlindOnlyAtEnd
<1>1. /\ Types /\ RequestsCounted /\ RunnersCounted /\ WorkersCounted /\ Kept /\ WalkLeads
      /\ StopOnce /\ WaitingIsAwaited
  BY DEF IInv, Counts, PathInv, Stopping
<1>2. ASSUME NEW k \in Key PROVE reqCount[k] \in Nat /\ runCount[k] \in Nat
  <2>1. reqCount[k] \in Int /\ runCount[k] \in Int
    BY <1>1 DEF Types, ManagerTypes
  <2>2. Queued(k) \in Nat
    BY <1>1, QueuedNat
  <2>3. Cardinality(WorkersOf(k)) \in Nat
    BY FewRunners DEF WorkersOf
  <2>4. reqCount[k] = Queued(k) + IF Serving(k) THEN 1 ELSE 0
    BY <1>1 DEF RequestsCounted
  <2>5. runCount[k] >= Cardinality(WorkersOf(k)) + IF BeingWoken(k) THEN 1 ELSE 0
    BY <1>1 DEF WorkersCounted
  <2> QED
    BY <2>1, <2>2, <2>3, <2>4, <2>5
<1>3. TypeOK
  <2>1. /\ client \in [Key -> {"idle", "waiting", "reading", "done"}]
        /\ pathChan \in [Key -> {"none", "open", "closed"}]
        /\ awaited \subseteq Key /\ stoped \subseteq Key
        /\ stopChan \in Seq(Key \cup {NoKey}) /\ Len(stopChan) <= ChanCap
        /\ retrivelChan \in Seq(Key \X Node) /\ exitChan \in Seq(Key)
        /\ runners \subseteq Runner
        /\ maxLength \in [Runner -> 0..Unlimited] /\ maxLengths \in [Runner -> 0..Unlimited]
        /\ releaseLock \in [Runner -> {"free", "route", "stopper"}]
    BY <1>1 DEF Types, ClientTypes, ManagerTypes, SearchTypes, HelperTypes
  <2>2. runCount \in [Key -> Nat] /\ reqCount \in [Key -> Nat]
    BY <1>1, <1>2 DEF Types, ManagerTypes
  <2>3. GoodLabels \subseteq Labels /\ GoodRequests \subseteq Requests
    BY DEF GoodLabels, GoodRequests, Requests
  <2>4. routingChan \in Seq(Requests) /\ (route.at \notin {"pop", "empty", "asleep"} => route.msg \in Requests)
    BY <1>1, <2>3 DEF Types, ManagerTypes, LoopTypes
  <2>5. stop.todo \subseteq Tile /\ exit.todo \subseteq Tile
    BY <1>1 DEF Types, LoopTypes
  <2>6. heap \in [Runner -> SUBSET Labels]
    BY <1>1, <2>3 DEF Types, SearchTypes
  <2>7. \A r \in Runner : \A n \in Node : flag[r][n] \in Labels /\ flag[r][n].node = n
    BY <1>1, <2>3 DEF Types, SearchTypes
  <2>8. \A r \in Runner : cur[r] \in Labels \/ cur[r] = Unreached(NoNode)
    BY <1>1, <2>3 DEF Types, SearchTypes
  <2> QED
    BY <2>1, <2>2, <2>4, <2>5, <2>6, <2>7, <2>8 DEF TypeOK, Unserved
<1>4. AnswerIsPath
  <2>1. ASSUME NEW k \in Key, client[k] = "done", k \notin blind PROVE Leads(k, start[k])
    BY <1>1, <2>1 DEF WalkLeads, Led
  <2> QED
    BY <2>1 DEF AnswerIsPath, Leads
<1>5. StopLoopIsHeard
  BY <1>1 DEF StopLoopIsHeard, StopOnce, WaitingIsAwaited, Types, LoopTypes
<1>6. BlindOnlyAtEnd
  BY WalkMisses DEF IInv, PathInv
<1> QED
  BY <1>1, <1>3, <1>4, <1>5, <1>6, KeptMeans DEF CountersAreRight

(***************************************************************************)
(* The counters of distributed_dijkstra.go by which a query is stopped     *)
(* count what they should: the request counter the requests that are       *)
(* queued or served, the running counter the runners that are awake or     *)
(* being woken until they are told to stop; and neither falls below zero.  *)
(* For every net, however many clients ask at once.                        *)
(***************************************************************************)
THEOREM CountersRight == Spec => []CountersAreRight
BY Invariance, InvariantSays, PTL

(***************************************************************************)
(* The stop loop of the manager sends on the finished channel of a query   *)
(* only while its client is there to receive: it never hangs on a query    *)
(* that was stopped before.                                                *)
(***************************************************************************)
THEOREM StopLoopHeard == Spec => []StopLoopIsHeard
BY Invariance, InvariantSays, PTL

(***************************************************************************)
(* No flag, heap or request of a query carries a length below the distance *)
(* of its node from the start: the searches in the tiles make no path that *)
(* is too short, whatever order the labels arrive in.                      *)
(***************************************************************************)
THEOREM NoneTooShort == Spec => []NoLabelIsTooShort
BY Invariance, InvariantSays, PTL

(***************************************************************************)
(* A walk back (HandleRetrivalRequest of the runner) reads a flag that is  *)
(* not there, and goes on along edge 0 from then on, only if it does so at *)
(* its first node, the end, before the runner of that tile has come to     *)
(* flags.Set.  Everywhere else on the way the flags are there, in whatever *)
(* order the tiles are told to stop, asked for the path, and still search. *)
(***************************************************************************)
THEOREM BlindAtEnd == Spec => []BlindOnlyAtEnd
BY Invariance, InvariantSays, PTL

(***************************************************************************)
(* What GetRoutingPath has read when its channel is closed is a path from  *)
(* the start to the end, although the edges come from several runners that *)
(* may still be changing their flags: unless the walk has begun at an end  *)
(* that has no flag yet, the one way to go blind that BlindAtEnd leaves.   *)
(***************************************************************************)
THEOREM AnswerPath == Spec => []AnswerIsPath
BY Invariance, InvariantSays, PTL

-----------------------------------------------------------------------------
(* The first stop.                                                         *)

\* Nobody has been told to stop while the client waits.
LEMMA NoneFinished ==
  ASSUME IInv, NEW k \in Key, client[k] = "waiting"
  PROVE  \A r \in RunnersOf(k) : ~finished[r]
<1>1. k \notin stoped
  BY DEF IInv, Stopping, StopedLeft
<1> QED
  BY <1>1, RunnerFacts DEF IInv, Stopping, ToldIsStoped

\* The place of the routing loop and of a search tell which step is made.
LEMMA DecCheckIsMade ==
  ASSUME Types, [Next]_vars, route.at = "dec", route'.at = "decWrite"
  PROVE  RouteDecCheck
<1>1. \/ RoutePop \/ RouteFind \/ RouteGet \/ RouteAdd \/ RouteIsTaken \/ RouteSetRunning
      \/ RouteRelease \/ RouteWakes \/ RouteClears \/ RouteCreate \/ RouteStart
      \/ RouteDecCheck \/ RouteDecWrite \/ RouteOversleeps
  BY Changes
<1>2. ~(RoutePop \/ RouteFind \/ RouteGet \/ RouteAdd \/ RouteIsTaken \/ RouteSetRunning)
  BY DEF RoutePop, RouteFind, RouteGet, RouteAdd, RouteIsTaken, RouteSetRunning
<1>3. ~(RouteRelease \/ RouteWakes \/ RouteClears \/ RouteCreate \/ RouteStart \/ RouteDecWrite
         \/ RouteOversleeps)
  BY DEF RouteRelease, RouteWakes, RouteClears, RouteCreate, RouteStart, RouteDecWrite, RouteOversleeps
<1> QED
  BY <1>1, <1>2, <1>3

LEMMA IdleCheckIsMade ==
  ASSUME Types, [Next]_vars, NEW r \in Runner, pc[r] = "idle", pc'[r] = "idleWrite"
  PROVE  IdleCheck(r)
<1>1. ASSUME NEW q \in Runner, NEW p, Goes(q, p) PROVE p = "idleWrite" /\ q = r
  BY <1>1, PcAt
<1>2. ~(RouteCreate \/ RouteWakes \/ RouteStart)
  <2>1. ASSUME RouteCreate \/ RouteWakes \/ RouteStart PROVE FALSE
    <3>1. route.at \notin {"pop", "empty", "asleep"} /\ (Goes(Served, "new") \/ Goes(Served, "loop"))
      BY <2>1 DEF RouteCreate, RouteWakes, RouteStart, Goes
    <3>2. PICK q \in Runner : q = Served
      BY <3>1, ServedFacts
    <3>3. Goes(q, "new") \/ Goes(q, "loop")
      BY <3>1, <3>2
    <3> QED
      BY <1>1, <3>3
  <2> QED
    BY <2>1
<1>3. ASSUME NEW q \in Runner, Loop(q) \/ DequeueNothing(q) \/ Dequeue(q) \/ StopReadRun(q) PROVE FALSE
  <2>1. \E p \in {"done", "dequeue", "idle", "loop", "stopRun", "settle", "stopReq", "bound"} : Goes(q, p)
    BY <1>3 DEF Loop, DequeueNothing, Dequeue, StopReadRun
  <2> QED
    BY <1>1, <2>1
<1>4. ASSUME NEW q \in Runner, \/ StopReadReq(q) \/ TellBound(q) \/ BoundSpread(q) \/ Settle(q) \/ Relaxed(q)
                               \/ \E t \in Tile : SpreadBound(q, t)
      PROVE  FALSE
  <2>1. \E p \in {"bound", "tell", "settle", "relax", "loop"} : Goes(q, p)
    BY <1>4 DEF StopReadReq, TellBound, BoundSpread, Settle, Relaxed, SpreadBound
  <2> QED
    BY <1>1, <2>1
<1>5. ASSUME NEW q \in Runner, IdleWrite(q) \/ Take(q) \/ StopperWakes(q) PROVE FALSE
  <2>1. \E p \in {"take", "receiving", "loop"} : Goes(q, p)
    BY <1>5 DEF IdleWrite, Take, StopperWakes
  <2> QED
    BY <1>1, <2>1
<1>6. ASSUME NEW q \in Runner, IdleCheck(q) PROVE q = r
  <2>1. Goes(q, "idleWrite")
    BY <1>6 DEF IdleCheck
  <2> QED
    BY <1>1, <2>1
<1>7. pc' # pc
  OBVIOUS
<1> QED
  BY <1>2, <1>3, <1>4, <1>5, <1>6, <1>7, Changes

\* The send of a stop tells which stop it is.
LEMMA SentIs ==
  ASSUME Types, NEW k, NEW j, stopChan' = Append(stopChan, k), UNCHANGED stopChan \/ SendStop(j)
  PROVE  SendStop(j) /\ j = k
<1>1. stopChan \in Seq(Key \cup {NoKey})
  BY DEF Types, ManagerTypes
<1>2. Len(Append(stopChan, k)) = Len(stopChan) + 1 /\ Append(stopChan, k)[Len(stopChan) + 1] = k
  BY <1>1
<1>3. Append(stopChan, j)[Len(stopChan) + 1] = j /\ Len(stopChan) \in Nat
  BY <1>1
<1> QED
  BY <1>2, <1>3 DEF SendStop

LEMMA StopIsRight ==
  ASSUME IInv, Next, NEW k \in Key, CountersStop(k)
  PROVE  /\ Queued(k) = 0
         /\ Serving(k) => route'.at = "decWrite"
         /\ \A r \in RunnersOf(k) : Awake(r) => pc'[r] = "idleWrite"
<1>1. /\ Types /\ RequestsCounted /\ RunnersCounted /\ [Next]_vars
  BY DEF IInv, Counts
<1>2. stopChan' = Append(stopChan, k) /\ client[k] = "waiting"
  BY DEF CountersStop
<1>3. Queued(k) \in Nat /\ reqCount[k] = Queued(k) + IF Serving(k) THEN 1 ELSE 0
  BY <1>1, QueuedNat DEF RequestsCounted
<1> DEFINE A == {r \in RunnersOf(k) : Awake(r)}
<1>4. /\ runCount[k] = Cardinality(A) + IF BeingWoken(k) THEN 1 ELSE 0
      /\ IsFiniteSet(A) /\ Cardinality(A) \in Nat
  <2>1. \A r \in RunnersOf(k) : ~finished[r]
    BY <1>2, NoneFinished
  <2> QED
    BY <1>1, <2>1, FewRunners DEF RunnersCounted
<1>5. CASE route.at = "dec" /\ route'.at = "decWrite"
  <2>1. RouteDecCheck
    BY <1>1, <1>5, DecCheckIsMade
  <2>2. /\ UNCHANGED stopChan \/ SendStop(route.msg.key)
        /\ SendStop(route.msg.key) =>
            UNCHANGED stopChan \/ (runCount[route.msg.key] = 0 /\ reqCount[route.msg.key] = 1)
    BY <2>1 DEF RouteDecCheck
  <2>3. route.msg.key = k /\ stopChan' # stopChan
    <3>1. stopChan \in Seq(Key \cup {NoKey}) /\ Len(Append(stopChan, k)) = Len(stopChan) + 1 /\ Len(stopChan) \in Nat
      BY <1>1 DEF Types, ManagerTypes
    <3> QED
      BY <1>1, <1>2, <2>2, <3>1, SentIs
  <2>4. runCount[k] = 0 /\ reqCount[k] = 1
    BY <1>1, <1>2, <2>2, <2>3, SentIs
  <2>5. Serving(k) /\ ~BeingWoken(k)
    BY <1>5, <2>3 DEF Serving, Unserved, BeingWoken
  <2>6. Queued(k) = 0 /\ Cardinality(A) = 0
    BY <1>3, <1>4, <2>4, <2>5
  <2>7. A = {}
    BY <1>4, <2>6, FS_EmptySet
  <2> QED
    BY <1>5, <2>6, <2>7
<1>6. ASSUME NEW r \in RunnersOf(k), pc[r] = "idle", pc'[r] = "idleWrite"
      PROVE  /\ Queued(k) = 0 /\ ~Serving(k)
             /\ \A q \in RunnersOf(k) : Awake(q) => q = r
  <2>1. r \in Runner /\ KeyOf(r) = k
    BY RunnerFacts
  <2>2. IdleCheck(r)
    BY <1>1, <1>6, <2>1, IdleCheckIsMade
  <2>3. /\ UNCHANGED stopChan \/ SendStop(k)
        /\ UNCHANGED stopChan \/ (runCount[k] = 1 /\ reqCount[k] = 0)
    BY <2>1, <2>2 DEF IdleCheck
  <2>4. stopChan' # stopChan
    <3>1. stopChan \in Seq(Key \cup {NoKey}) /\ Len(Append(stopChan, k)) = Len(stopChan) + 1 /\ Len(stopChan) \in Nat
      BY <1>1 DEF Types, ManagerTypes
    <3> QED
      BY <1>2, <3>1
  <2>5. Queued(k) = 0 /\ ~Serving(k)
    BY <1>3, <2>3, <2>4
  <2>6. ~BeingWoken(k)
    BY <2>5 DEF Serving, Unserved, BeingWoken
  <2>7. Cardinality(A) = 1 /\ r \in A
    BY <1>4, <1>6, <2>3, <2>4, <2>6 DEF Awake
  <2>8. \A q \in A : q = r
    <3> HIDE DEF A
    <3>1. Cardinality(A \ {r}) = 0 /\ IsFiniteSet(A \ {r})
      BY <1>4, <2>7, FS_RemoveElement
    <3>2. A \ {r} = {}
      BY <3>1, FS_EmptySet
    <3> QED
      BY <3>2
  <2> QED
    BY <2>5, <2>8
<1>7. CASE \E r \in RunnersOf(k) : pc[r] = "idle" /\ pc'[r] = "idleWrite"
  <2>1. PICK r \in RunnersOf(k) : pc[r] = "idle" /\ pc'[r] = "idleWrite"
    BY <1>7
  <2>2. /\ Queued(k) = 0 /\ ~Serving(k)
        /\ \A q \in RunnersOf(k) : Awake(q) => q = r
    BY <1>6, <2>1
  <2> QED
    BY <2>1, <2>2
<1> QED
  BY <1>5, <1>7 DEF CountersStop

(***************************************************************************)
(* DecrementRequestCount and DecrementRunningCount read one counter whose  *)
(* lock they do not hold.  The first stop that one of them sends is right  *)
(* all the same: no other request is under way, and every runner but the   *)
(* sender is asleep.                                                       *)
(***************************************************************************)
THEOREM StopRight == Spec => CountersStopRightly
<1>1. ASSUME IInv, [Next]_vars
      PROVE  [\A k \in Key : CountersStop(k) =>
                /\ Queued(k) = 0
                /\ Serving(k) => route'.at = "decWrite"
                /\ \A r \in RunnersOf(k) : Awake(r) => pc'[r] = "idleWrite"]_vars
  BY <1>1, StopIsRight
<1> QED
  BY <1>1, Invariance, PTL DEF Spec, CountersStopRightly

-----------------------------------------------------------------------------
(* The length at the first stop.                                           *)

\* Nothing is being done for the query, and nothing is left to do.
Silent(k) ==
  /\ \A r \in RunnersOf(k) : pc[r] \notin Working /\ heap[r] = {}
  /\ \A i \in 1..Len(routingChan) : routingChan[i].key # k
  /\ ~(route.at \in {"find", "get", "add", "create"} /\ route.msg.key = k)

LEMMA SilentReached ==
  ASSUME Types, NEW k \in Key, Asked(k), Silent(k), NEW n \in Node, NEW m, Reached(k, n, m)
  PROVE  flag[Home(k, end[k])][end[k]].len <= m \/ flag[Home(k, n)][n].len <= m
<1>1. PICK e \in Node : e = end[k]
  BY DEF Asked, Types, ClientTypes
<1>2. ASSUME NEW o \in Node
      PROVE  pc[Home(k, o)] \notin Working /\ heap[Home(k, o)] = {}
  BY RunnerFacts DEF Silent, Home
<1>3. Bound(k) = flag[Home(k, e)][e].len /\ Known(Home(k, n), n) = flag[Home(k, n)][n].len
  BY <1>1, <1>2 DEF Bound, Known
<1>4. ~InQueue(k, n, m) /\ ~InRoute(k, n, m)
  BY DEF Silent, InQueue, InRoute
<1>5. ~InHeap(Home(k, n), n, m)
  BY <1>2 DEF InHeap
<1> QED
  BY <1>1, <1>3, <1>4, <1>5 DEF Reached

\* When a search has fallen silent its flags, as far as the length of its end,
\* are lengths that no edge it uses could shorten.
LEMMA SilentIsOptimal ==
  ASSUME IInv, NEW k \in Key, Searching(k), Silent(k)
  PROVE  flag[Home(k, end[k])][end[k]].len = Distance[start[k]][end[k]]
<1>1. /\ Types /\ Kept /\ StartReached /\ FlagsRelaxed
  BY DEF IInv, Covered
<1>2. PICK s \in Node, e \in Node : s = start[k] /\ e = end[k]
  BY <1>1 DEF Searching, Types, ClientTypes
<1> DEFINE F(n) == flag[Home(k, n)][n].len
<1>3. \A n \in Node : F(n) \in Nat /\ Home(k, n) \in Runner /\ Home(k, n) \in RunnersOf(k)
  BY <1>1, RunnerFacts, LabelTypes DEF Home
<1>4. PICK far \in 0..Unlimited : far = F(e)
  <2>1. F(e) \in Nat /\ F(e) <= Unlimited
    BY <1>1, <1>3, LabelTypes
  <2> QED
    BY <2>1, NetAssumption
<1>5. ASSUME NEW n \in Node, NEW m \in Nat, Reached(k, n, m) PROVE far <= m \/ F(n) <= m
  BY <1>1, <1>2, <1>4, <1>5, SilentReached DEF Searching, Asked
<1>f. far \in Nat
  BY NetAssumption
<1> HIDE DEF F
<1> DEFINE p == [n \in Node |-> IF F(n) <= far THEN F(n) ELSE far]
<1>6. p \in [Node -> 0..far] /\ \A n \in Node : p[n] \in Nat /\ p[n] <= far /\ p[n] <= F(n)
  BY <1>3, <1>f
<1>7. p[s] = 0
  <2>1. Reached(k, s, 0)
    BY <1>1, <1>2 DEF StartReached, Searching
  <2> QED
    BY <1>3, <1>5, <1>f, <2>1
<1>8. p[e] = far
  BY <1>4, <1>f
<1>9. ASSUME NEW n \in Node, NEW m \in Nat, far <= m \/ F(n) <= m PROVE p[n] <= m
  BY <1>3, <1>6, <1>9, <1>f
<1> HIDE DEF p
<1>10. RisesOnUsed(p, s, e)
  <2> SUFFICES ASSUME NEW x \in Edge, \/ TileOf[NodeA[x]] \in {TileOf[s], TileOf[e]}
                                      \/ IsCrossBorder(x)
                                      \/ x \in SkipEdges
               PROVE  p[NodeB[x]] <= p[NodeA[x]] + Weight[x]
    BY DEF RisesOnUsed
  <2>1. PICK n \in Node, b \in Node, w \in Nat : n = NodeA[x] /\ b = NodeB[x] /\ w = Weight[x]
    BY NetFacts
  <2>2. PICK i \in 1..Len(Out[n]) : x = Out[n][i]
    BY <2>1, NetFacts
  <2>3. PICK r \in Runner : r = Home(k, n) /\ KeyOf(r) = k /\ TileOfRunner(r) = TileOf[n] /\ r \in RunnersOf(k)
    BY RunnerFacts DEF Home
  <2>4. pc[r] \notin Working /\ heap[r] = {}
    BY <2>3 DEF Silent
  <2>5. ~Waits(r, n) /\ IsDone(r, n, i)
    BY <2>4, PlaceFacts DEF Waits, InHeap, IsDone
  <2>6. Usable(r, x)
    BY <1>2, <2>1, <2>3 DEF Usable, Skips
  <2>7. Relaxes(r, n)
    BY <1>1, <2>3, <2>5 DEF FlagsRelaxed
  <2>8. Reached(k, b, F(n) + w)
    BY <2>1, <2>2, <2>3, <2>5, <2>6, <2>7 DEF Relaxes, F
  <2>9. p[b] <= F(n) + w
    BY <1>3, <1>5, <1>9, <2>8
  <2>10. p[n] = F(n) \/ p[n] = far
    BY DEF p
  <2>11. p[b] <= p[n] + w
    BY <1>6, <1>f, <2>9, <2>10
  <2> QED
    BY <2>1, <2>11
<1>11. far <= Distance[s][e]
  BY <1>6, <1>7, <1>8, <1>10, SkipsLoseNothing
<1>12. far >= Distance[s][e]
  <2>1. PICK r \in Runner : r = Home(k, e) /\ KeyOf(r) = k
    BY RunnerFacts DEF Home
  <2>2. flag[r][e].node = e /\ Keeps(k, flag[r][e])
    BY <1>1, <2>1, LabelTypes DEF Kept, FlagKept
  <2>3. Distance[s] \in Potentials /\ Distance[s][s] = 0
    BY DistanceIsPotential
  <2>4. flag[r][e].len >= Distance[s][e]
    BY <1>2, <2>2, <2>3 DEF Keeps
  <2> QED
    BY <1>4, <2>1, <2>4 DEF F
<1>13. Distance[s][e] \in Nat
  <2>1. Distance[s] \in Potentials
    BY DistanceIsPotential
  <2> QED
    BY <2>1, NetAssumption DEF Potentials
<1> QED
  BY <1>2, <1>4, <1>11, <1>12, <1>13, <1>f DEF F

\* The stop finds the query silent, unless a runner has overslept.
LEMMA StopFindsSilence ==
  ASSUME IInv, Next, NEW k \in Key, CountersStop(k), ~Overslept(k)
  PROVE  Searching(k) /\ Silent(k)
<1>1. /\ Types /\ Begun /\ Stopping /\ Calm /\ [Next]_vars /\ Searching(k)
  BY DEF IInv, Covered, CountersStop, Searching
<1>2. /\ Queued(k) = 0
      /\ Serving(k) => route'.at = "decWrite"
      /\ \A r \in RunnersOf(k) : Awake(r) => pc'[r] = "idleWrite"
  BY StopIsRight
<1>3. \A i \in 1..Len(routingChan) : routingChan[i].key # k
  <2>1. {i \in 1..Len(routingChan) : routingChan[i].key = k} = {}
    BY <1>1, <1>2, QueuedNat, FS_EmptySet DEF Queued
  <2> QED
    BY <2>1
<1>4. \/ RouteDecCheck /\ route.at = "dec"
      \/ \E q \in RunnersOf(k) : IdleCheck(q) /\ route' = route
  <2>1. CASE route.at = "dec" /\ route'.at = "decWrite"
    BY <1>1, <2>1, DecCheckIsMade
  <2>2. ASSUME NEW q \in RunnersOf(k), pc[q] = "idle", pc'[q] = "idleWrite"
        PROVE  IdleCheck(q) /\ route' = route
    <3>1. IdleCheck(q)
      BY <1>1, <2>2, RunnerFacts, IdleCheckIsMade
    <3> QED
      BY <3>1 DEF IdleCheck, otherVars, loopVars
  <2> QED
    BY <2>1, <2>2 DEF CountersStop
<1>5. ASSUME route.at \in {"find", "get", "add", "create", "start"}, route.msg.key = k PROVE FALSE
  <2>1. route'.at = "decWrite"
    BY <1>2, <1>5 DEF Serving, Unserved
  <2> QED
    BY <1>4, <1>5, <2>1
<1>6. ASSUME NEW r \in RunnersOf(k)
      PROVE  pc[r] \in {"none", "idle", "idleWrite", "take", "receiving"}
  <2>1. r \in Runner /\ KeyOf(r) = k
    BY RunnerFacts
  <2>2. CASE Awake(r)
    <3>1. pc'[r] = "idleWrite"
      BY <1>2, <2>2
    <3>2. CASE RouteDecCheck
      BY <3>1, <3>2 DEF RouteDecCheck
    <3>3. ASSUME NEW q \in RunnersOf(k), IdleCheck(q) PROVE pc[r] \in {"idle", "idleWrite"}
      <4>1. q \in Runner /\ pc[q] = "idle" /\ Goes(q, "idleWrite")
        BY <3>3, RunnerFacts DEF IdleCheck
      <4>2. pc'[r] = IF r = q THEN "idleWrite" ELSE pc[r]
        BY <1>1, <2>1, <4>1, PcAt
      <4> QED
        BY <3>1, <4>1, <4>2
    <3> QED
      BY <1>4, <3>2, <3>3, <3>1
  <2>3. CASE pc[r] = "new"
    <3>1. route.at = "start" /\ r = Served
      BY <1>1, <2>1, <2>3 DEF Calm, NewIsStarted
    <3>2. route.msg.key = k
      BY <1>1, <2>1, <3>1, ServedFacts
    <3> QED
      BY <1>5, <3>1, <3>2
  <2>4. CASE pc[r] = "done"
    <3>1. k \in stoped
      BY <1>1, <2>1, <2>4 DEF Calm, DoneIsStoped
    <3> QED
      BY <1>1, <3>1 DEF Stopping, StopedLeft, Searching
  <2> QED
    BY <2>2, <2>3, <2>4 DEF Awake
<1>7. ASSUME NEW r \in RunnersOf(k) PROVE pc[r] \notin Working /\ heap[r] = {}
  <2>1. r \in Runner
    BY RunnerFacts
  <2>2. pc[r] \in {"none", "idle", "idleWrite", "take", "receiving"}
    BY <1>6
  <2>3. pc[r] = "none" => heap[r] = {}
    BY <1>1, <2>1 DEF Begun, EmptyAtFirst
  <2> QED
    BY <2>2, <2>3, PlaceFacts DEF Overslept
<1> QED
  BY <1>1, <1>3, <1>5, <1>7 DEF Silent

(***************************************************************************)
(* When one of the two counters stops a query, the end carries the length  *)
(* of a shortest path, through every interleaving of the runners' searches *)
(* with the requests between them, the bounds they spread and the stops:   *)
(* unless a runner on its way to sleep has missed the request that was put *)
(* in its heap, which is the one way AddRoutingRequest loses a path.       *)
(***************************************************************************)
THEOREM StopOptimal == Spec => CountersStopOptimally
<1>1. ASSUME IInv, [Next]_vars
      PROVE  [\A k \in Key :
               CountersStop(k) /\ ~Overslept(k)
                 => flag[<<k, TileOf[end[k]]>>][end[k]].len = Distance[start[k]][end[k]]]_vars
  <2>1. ASSUME Next, NEW k \in Key, CountersStop(k), ~Overslept(k)
        PROVE  flag[<<k, TileOf[end[k]]>>][end[k]].len = Distance[start[k]][end[k]]
    BY <1>1, <2>1, StopFindsSilence, SilentIsOptimal DEF Home
  <2> QED
    BY <1>1, <2>1
<1> QED
  BY <1>1, Invariance, PTL DEF Spec, CountersStopOptimally
=============================================================================
