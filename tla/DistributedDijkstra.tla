------------------------ MODULE DistributedDijkstra ------------------------
(***************************************************************************)
(* routing/distributed_dijkstra.go: a shortest path search spread over the *)
(* tiles of a partitioned graph.  Every tile has a handler, and every      *)
(* query (a key) has a runner in each tile it reaches.  A runner relaxes   *)
(* the edges of its tile and sends a request to the manager for every edge *)
(* that leaves it; the manager passes requests to the tile of their node.  *)
(* Two counters, of the runners that are awake and of the requests under   *)
(* way, tell when a query is over.                                         *)
(*                                                                         *)
(* Goroutines: one client per query, the manager's four loops (routing,    *)
(* stop, retrieval, exit), and for every runner its search and three       *)
(* helpers (stop, retrieval, exit).  A step is one access to state that    *)
(* another goroutine also accesses; accesses under one mutex are one step  *)
(* unless the code calls out while it holds it.                            *)
(*                                                                         *)
(* The routing channel is a BlockQueue, taken here with its two faults at  *)
(* the size of a step: a Pop that found it empty may sleep for ever, or    *)
(* return a zero request (module BlockQueue has them step by step).  The   *)
(* Block in which a runner sleeps is modelled step by step; it has one     *)
(* taker, so its take_lock is left out.  The edge queue that a drawn       *)
(* search fills is left out: nothing in the search reads it.               *)
(***************************************************************************)
EXTENDS RoadGraph, Sequences, Distances

CONSTANTS Key,          \* the queries
          Tile,
          TileOf,       \* the tile of each node
          Out,          \* of each node its outgoing edges, as the explorer lists them
          SkipEdges,    \* the edges on which a tile is crossed
          Queries,      \* the pairs of a start and an end a client may ask for
          Unlimited,    \* a runner's first max_length, and "not reached"
          FirstEdge,    \* edge 0: what a missing flag names
          NoEdge, NoTile,
          NoKey,        \* key 0: what a zero request names
          ChanCap,      \* the capacity of the manager's buffered channels
          MaxBlind,     \* bound: the edges of a blind walk that are kept in its answer
          ZeroRequests  \* bound: whether the routing queue returns zero requests

ASSUME NetAssumption ==
  /\ TileOf \in [Node -> Tile]
  /\ SkipEdges \subseteq Edge
  /\ Unlimited \in Nat
  /\ FirstEdge \in Edge
  /\ NoEdge \notin Edge /\ NoKey \notin Key /\ NoTile \notin Tile
  /\ Queries \subseteq Node \X Node
  /\ \A n \in Node : Out[n] \in Seq(Edge) /\ {Out[n][i] : i \in 1..Len(Out[n])} = Forward(n)
  /\ IsFiniteSet(Tile)
  /\ ChanCap \in Nat /\ MaxBlind \in Nat /\ ZeroRequests \in BOOLEAN

IsCrossBorder(x) == TileOf[NodeA[x]] # TileOf[NodeB[x]]

Arcs(edges) == {[from |-> NodeA[x], to |-> NodeB[x], weight |-> Weight[x]] : x \in edges}
InnerEdges(t) == {x \in Edge : TileOf[NodeA[x]] = t /\ TileOf[NodeB[x]] = t}
Entries(t) == {NodeB[x] : x \in {y \in Edge : IsCrossBorder(y) /\ TileOf[NodeB[y]] = t}}
Exits(t) == {NodeA[x] : x \in {y \in Edge : IsCrossBorder(y) /\ TileOf[NodeA[y]] = t}}

\* On its skip edges a tile is crossed as shortly as on all of them.
ASSUME SkipAssumption ==
  \A t \in Tile : \A a \in Entries(t), b \in Exits(t) :
    DistancesFrom(a, Node, Arcs(InnerEdges(t) \cap SkipEdges), Unlimited)[b]
      <= DistancesFrom(a, Node, Arcs(InnerEdges(t)), Unlimited)[b]

\* flag_dd: a node, the length of a path to it and the last edge of that path.
Label(n, len, x) == [node |-> n, len |-> len, prev |-> x]
Unreached(n) == Label(n, Unlimited, NoEdge)

\* DD_RoutingRequest: the same for a query; its start and end are the client's.
Request(k, l) == [key |-> k, label |-> l]

Runner == Key \X Tile
KeyOf(r) == r[1]
TileOfRunner(r) == r[2]
RunnersOf(k) == {k} \X Tile

VARIABLES
  client,     \* where each client is
  start, end, \* what it asks for
  answer,     \* the edges it has read from its path channel
  blind,      \* history: the queries whose walk has read a flag that was not there
  pathChan,   \* DistributedManager.paths
  awaited,    \* the keys of DistributedManager.finished
  stoped,     \* the keys of DistributedManager.stoped
  runCount, reqCount,
  routingChan, stopChan, retrivelChan, exitChan,
  route,      \* the routing loop: [at, msg], msg is the last request it took
  stop,       \* the stop loop: [at, key, todo, tile]
  exit,       \* the exit loop: [key, todo]
  maxLengths, \* DistributedHandler.max_lengths, Unlimited where it has no entry
  runners,    \* DistributedHandler.runners of all tiles
  pc,         \* the search goroutine of each runner
  cur, idx,   \* the label it works on, the edge it looks at
  heap, flag, maxLength, finished, isEnd,
  isLocked, releaseLock, \* the Block it sleeps in
  spread,     \* the handlers it has yet to tell a bound, and the tile being told
  stopper,    \* its stop helper
  walker,     \* its retrieval helper: [at, node]
  crashed     \* a nil runner was called, or the tile of node -1 asked for

clientVars == <<client, start, end, answer, blind>>
countVars == <<runCount, reqCount>>
managerVars == <<pathChan, awaited, stoped, maxLengths, runners>>
loopVars == <<route, stop, exit, retrivelChan, exitChan>>
searchVars == <<cur, idx, heap, flag, maxLength, isEnd, spread>>
blockVars == <<isLocked, releaseLock>>
helperVars == <<stopper, walker>>
managerLoops == <<stop, exit, retrivelChan, exitChan>>
sharedVars == <<countVars, routingChan, stopChan>>
otherVars == <<clientVars, managerVars, loopVars, crashed>>
runnerVars == <<searchVars, finished, blockVars, helperVars>>
vars == <<clientVars, countVars, managerVars, loopVars, routingChan, stopChan,
          pc, searchVars, finished, blockVars, helperVars, crashed>>

Init ==
  /\ client = [k \in Key |-> "idle"]
  /\ start = [k \in Key |-> NoNode]
  /\ end = [k \in Key |-> NoNode]
  /\ answer = [k \in Key |-> <<>>]
  /\ blind = {}
  /\ pathChan = [k \in Key |-> "none"]
  /\ awaited = {}
  /\ stoped = {}
  /\ runCount = [k \in Key |-> 0]
  /\ reqCount = [k \in Key |-> 0]
  /\ routingChan = <<>> /\ stopChan = <<>> /\ retrivelChan = <<>> /\ exitChan = <<>>
  /\ route = [at |-> "empty", msg |-> Request(NoKey, Unreached(NoNode))]
  /\ stop = [at |-> "receive", key |-> NoKey, todo |-> {}, tile |-> NoTile]
  /\ exit = [key |-> NoKey, todo |-> {}]
  /\ maxLengths = [r \in Runner |-> Unlimited]
  /\ runners = {}
  /\ pc = [r \in Runner |-> "none"]
  /\ cur = [r \in Runner |-> Unreached(NoNode)]
  /\ idx = [r \in Runner |-> 1]
  /\ heap = [r \in Runner |-> {}]
  /\ flag = [r \in Runner |-> [n \in Node |-> Unreached(n)]]
  /\ maxLength = [r \in Runner |-> Unlimited]
  /\ finished = [r \in Runner |-> FALSE]
  /\ isEnd = [r \in Runner |-> FALSE]
  /\ isLocked = [r \in Runner |-> FALSE]
  /\ releaseLock = [r \in Runner |-> "free"]
  /\ stopper = [r \in Runner |-> "none"]
  /\ walker = [r \in Runner |-> [at |-> "none", node |-> NoNode]]
  /\ spread = [r \in Runner |-> [todo |-> {}, tile |-> NoTile]]
  /\ crashed = FALSE

\* req_lock is held from the check of DecrementRequestCount to its write,
\* run_lock from the check of DecrementRunningCount to its write.
ReqLockFree == route.at # "decWrite"
RunLockFree == \A r \in Runner : pc[r] # "idleWrite"

\* stop_chan <- key: a buffered send.
SendStop(k) ==
  /\ Len(stopChan) < ChanCap
  /\ stopChan' = Append(stopChan, k)

-----------------------------------------------------------------------------
(* The client: RunRouting, then GetRoutingPath. *)

RunRouting(k, s, e) ==
  /\ client[k] = "idle"
  /\ <<s, e>> \in Queries
  /\ client' = [client EXCEPT ![k] = "waiting"]
  /\ start' = [start EXCEPT ![k] = s]
  /\ end' = [end EXCEPT ![k] = e]
  /\ pathChan' = [pathChan EXCEPT ![k] = "open"]
  /\ awaited' = awaited \cup {k}
  /\ ReqLockFree
  /\ reqCount' = [reqCount EXCEPT ![k] = 1]
  /\ routingChan' = Append(routingChan, Request(k, Label(s, 0, NoEdge)))
  /\ UNCHANGED <<loopVars, answer, blind, runCount, stoped, maxLengths, runners, stopChan,
                 pc, runnerVars, crashed>>

\* The path channel is closed: announce the exit and forget the channel.
LeavePath(k) ==
  /\ client[k] = "reading"
  /\ pathChan[k] = "closed"
  /\ Len(exitChan) < ChanCap
  /\ exitChan' = Append(exitChan, k)
  /\ pathChan' = [pathChan EXCEPT ![k] = "none"]
  /\ client' = [client EXCEPT ![k] = "done"]
  /\ UNCHANGED <<sharedVars, start, end, answer, blind, awaited, stoped, maxLengths,
                 runners, route, stop, exit, retrivelChan, pc, runnerVars, crashed>>

-----------------------------------------------------------------------------
(* The routing loop: HandleRoutingRequest, with the whole of                *)
(* DistributedHandler.AddRoutingRequest, DistributedRoutingRunner.          *)
(* AddRoutingRequest, Block.Release and DecrementRequestCount.              *)

\* The stop of the zero request is under way or has been taken: its stopped key has
\* no finished channel, and the stop loop waits for nobody.
StopLoopHangs == stop.at = "notify" /\ stop.key = NoKey
ZeroStopped == StopLoopHangs \/ \E i \in 1..Len(stopChan) : stopChan[i] = NoKey

Served == <<route.msg.key, TileOf[route.msg.label.node]>>

RouteGoes(place) == route' = [route EXCEPT !.at = place]

\* The Push that filled the queue came after Pop had found it empty and before
\* is_locked was set: nobody wakes this loop, now or later (BlockQueue.WakeupLost).
RouteOversleeps ==
  /\ route.at = "empty"
  /\ routingChan # <<>>
  /\ RouteGoes("asleep")
  /\ UNCHANGED <<clientVars, managerVars, managerLoops, sharedVars, pc, runnerVars,
                 crashed>>

\* A Push whose request was taken already wakes this Take, and Pop returns the zero
\* request: key 0, from node 0 to node 0.  Its runner is at the end at once and may
\* find one runner and no request, before the decrement makes that -1 for good; no
\* edge leads on, as no weight is 0.  Only the zero request that is stopped is a step.
RouteZero ==
  /\ route.at = "empty"
  /\ routingChan = <<>>
  /\ \E k \in Key : client[k] # "idle"
  /\ ZeroRequests /\ ~ZeroStopped
  /\ SendStop(NoKey)
  /\ UNCHANGED <<clientVars, managerVars, loopVars, countVars, routingChan, pc,
                 runnerVars, crashed>>

\* Pop returns a request: it found one, or was woken for it.
RoutePop ==
  /\ route.at \in {"pop", "empty"}
  /\ routingChan # <<>>
  /\ LET m == Head(routingChan) IN
       /\ route' = [at |-> "find", msg |-> m]
       /\ stoped' = IF reqCount[m.key] = 0 THEN stoped \ {m.key} ELSE stoped
  /\ routingChan' = Tail(routingChan)
  /\ UNCHANGED <<clientVars, managerLoops, countVars, pathChan, awaited,
                 maxLengths, runners, stopChan, pc, runnerVars, crashed>>

\* runners.ContainsKey, then manager.IsStoped if there is none: only this loop
\* makes runners.
RouteFind ==
  /\ route.at = "find"
  /\ RouteGoes(IF Served \in runners THEN "get"
               ELSE IF route.msg.key \in stoped THEN "dec" ELSE "create")
  /\ UNCHANGED <<clientVars, managerVars, managerLoops, sharedVars, pc, runnerVars,
                 crashed>>

\* runners.Get: the exit loop may have deleted the runner since.
RouteGet ==
  /\ route.at = "get"
  /\ RouteGoes("add")
  /\ crashed' = (Served \notin runners)
  /\ UNCHANGED <<clientVars, managerVars, managerLoops, sharedVars, pc, runnerVars>>

\* Mutant: a node that has a flag is taken to be settled.
AcceptableOnce(r, l) ==
  l.len <= maxLength[r] /\ flag[r][l.node].len \in {Unlimited, l.len}

\* What the runner's AddRoutingRequest takes in, and the search takes up.
Acceptable(r, l) == l.len <= maxLength[r] /\ l.len <= flag[r][l.node].len

RouteAdd ==
  /\ route.at = "add"
  /\ IF Acceptable(Served, route.msg.label)
       THEN /\ heap' = [heap EXCEPT ![Served] = @ \cup {route.msg.label}]
            /\ RouteGoes("isTaken")
       ELSE /\ RouteGoes("dec")
            /\ UNCHANGED heap
  /\ UNCHANGED <<clientVars, managerVars, managerLoops, sharedVars, pc, cur, idx,
                 flag, maxLength, isEnd, spread, finished, blockVars, helperVars,
                 crashed>>

RouteIsTaken ==
  /\ route.at = "isTaken"
  /\ RouteGoes(IF isLocked[Served] THEN "setRunning" ELSE "dec")
  /\ UNCHANGED <<clientVars, managerVars, managerLoops, sharedVars, pc, runnerVars,
                 crashed>>

RouteSetRunning ==
  /\ route.at = "setRunning"
  /\ RunLockFree
  /\ runCount' = [runCount EXCEPT ![route.msg.key] = @ + 1]
  /\ RouteGoes("release")
  /\ UNCHANGED <<clientVars, managerVars, managerLoops, reqCount, routingChan,
                 stopChan, pc, runnerVars, crashed>>

\* Release: lock release_lock and look at is_locked again.
RouteRelease ==
  /\ route.at = "release"
  /\ releaseLock[Served] = "free"
  /\ IF isLocked[Served]
       THEN /\ releaseLock' = [releaseLock EXCEPT ![Served] = "route"]
            /\ RouteGoes("sending")
       ELSE /\ RouteGoes("dec")
            /\ UNCHANGED releaseLock
  /\ UNCHANGED <<clientVars, managerVars, managerLoops, sharedVars, pc, finished,
                 isLocked, helperVars, searchVars, crashed>>

RouteWakes ==
  /\ route.at = "sending"
  /\ pc[Served] = "receiving"
  /\ pc' = [pc EXCEPT ![Served] = "loop"]
  /\ RouteGoes("clearing")
  /\ UNCHANGED <<clientVars, managerVars, managerLoops, sharedVars, runnerVars,
                 crashed>>

RouteClears ==
  /\ route.at = "clearing"
  /\ isLocked' = [isLocked EXCEPT ![Served] = FALSE]
  /\ releaseLock' = [releaseLock EXCEPT ![Served] = "free"]
  /\ RouteGoes("dec")
  /\ UNCHANGED <<clientVars, managerVars, managerLoops, sharedVars, pc, finished,
                 helperVars, searchVars, crashed>>

\* A new runner, with its helpers, takes in the request before it is started.
RouteCreate ==
  /\ route.at = "create"
  /\ LET r == Served
         l == route.msg.label
     IN /\ runners' = runners \cup {r}
        /\ maxLength' = [maxLength EXCEPT ![r] = maxLengths[r]]
        /\ heap' = [heap EXCEPT ![r] = IF l.len <= maxLengths[r] THEN {l} ELSE {}]
        /\ pc' = [pc EXCEPT ![r] = "new"]
        /\ stopper' = [stopper EXCEPT ![r] = "wait"]
        /\ walker' = [walker EXCEPT ![r].at = "wait"]
  /\ RouteGoes("start")
  /\ UNCHANGED <<clientVars, managerLoops, sharedVars, pathChan, awaited, stoped,
                 maxLengths, cur, idx, flag, isEnd, spread, finished, blockVars,
                 crashed>>

\* SetRunning and go RunRouting.
RouteStart ==
  /\ route.at = "start"
  /\ RunLockFree
  /\ runCount' = [runCount EXCEPT ![route.msg.key] = @ + 1]
  /\ pc' = [pc EXCEPT ![Served] = "loop"]
  /\ RouteGoes("dec")
  /\ UNCHANGED <<clientVars, managerVars, managerLoops, reqCount, routingChan,
                 stopChan, runnerVars, crashed>>

\* DecrementRequestCount: both counts are read, but only req_lock is held.
RouteDecCheck ==
  /\ route.at = "dec"
  /\ LET k == route.msg.key IN
       IF runCount[k] = 0 /\ reqCount[k] = 1 THEN SendStop(k) ELSE UNCHANGED stopChan
  /\ RouteGoes("decWrite")
  /\ UNCHANGED <<clientVars, managerVars, managerLoops, countVars, routingChan, pc,
                 runnerVars, crashed>>

RouteDecWrite ==
  /\ route.at = "decWrite"
  /\ reqCount' = [reqCount EXCEPT ![route.msg.key] = @ - 1]
  /\ RouteGoes(IF routingChan = <<>> THEN "empty" ELSE "pop")
  /\ UNCHANGED <<clientVars, managerVars, managerLoops, runCount, routingChan,
                 stopChan, pc, runnerVars, crashed>>

RoutingLoop ==
  \/ RoutePop \/ RouteFind \/ RouteGet \/ RouteAdd \/ RouteIsTaken \/ RouteSetRunning
  \/ RouteRelease \/ RouteWakes \/ RouteClears \/ RouteCreate \/ RouteStart
  \/ RouteDecCheck \/ RouteDecWrite

\* What the blocking queue may do and need not.
QueueFault == RouteOversleeps \/ RouteZero

-----------------------------------------------------------------------------
(* A runner: DistributedRoutingRunner.RunRouting.                           *)

Goes(r, place) == pc' = [pc EXCEPT ![r] = place]

Loop(r) ==
  /\ pc[r] = "loop"
  /\ Goes(r, IF finished[r] THEN "done" ELSE "dequeue")
  /\ UNCHANGED <<otherVars, sharedVars, runnerVars>>

DequeueNothing(r) ==
  /\ pc[r] = "dequeue"
  /\ heap[r] = {}
  /\ Goes(r, "idle")
  /\ UNCHANGED <<otherVars, sharedVars, runnerVars>>

\* The shortest label leaves the heap; it is dropped if it is beyond the bound
\* or if its node has a shorter one by now.
Dequeue(r) ==
  /\ pc[r] = "dequeue"
  /\ \E l \in heap[r] :
       /\ \A o \in heap[r] : l.len <= o.len
       /\ heap' = [heap EXCEPT ![r] = @ \ {l}]
       /\ IF ~Acceptable(r, l)
            THEN /\ Goes(r, "loop")
                 /\ UNCHANGED <<cur, isEnd, maxLength>>
            ELSE /\ cur' = [cur EXCEPT ![r] = l]
                 /\ IF l.node = end[KeyOf(r)]
                      THEN /\ isEnd' = [isEnd EXCEPT ![r] = TRUE]
                           /\ maxLength' = [maxLength EXCEPT ![r] = l.len]
                           /\ Goes(r, "stopRun")
                      ELSE /\ Goes(r, "settle")
                           /\ UNCHANGED <<isEnd, maxLength>>
  /\ UNCHANGED <<otherVars, sharedVars, idx, flag, spread, finished, blockVars,
                 helperVars>>

\* SendStopRequest: the two counters are read one after the other, no lock held.
StopReadRun(r) ==
  /\ pc[r] = "stopRun"
  /\ Goes(r, IF runCount[KeyOf(r)] = 1 THEN "stopReq" ELSE "bound")
  /\ spread' = [spread EXCEPT ![r].todo = Tile]
  /\ UNCHANGED <<otherVars, sharedVars, cur, idx, heap, flag, maxLength, isEnd,
                 finished, blockVars, helperVars>>

StopReadReq(r) ==
  /\ pc[r] = "stopReq"
  /\ IF reqCount[KeyOf(r)] = 0 THEN SendStop(KeyOf(r)) ELSE UNCHANGED stopChan
  /\ Goes(r, "bound")
  /\ UNCHANGED <<otherVars, countVars, routingChan, runnerVars>>

\* AddMaxLengthRequest of one handler after the other: remember the bound, look
\* for a runner of this query, get it and tell it.
SpreadBound(r, t) ==
  /\ pc[r] = "bound"
  /\ t \in spread[r].todo
  /\ spread' = [spread EXCEPT ![r] = [todo |-> @.todo \ {t}, tile |-> t]]
  /\ maxLengths' = [maxLengths EXCEPT ![<<KeyOf(r), t>>] = cur[r].len]
  /\ Goes(r, IF <<KeyOf(r), t>> \in runners THEN "tell" ELSE "bound")
  /\ UNCHANGED <<clientVars, loopVars, sharedVars, pathChan, awaited, stoped,
                 runners, cur, idx, heap, flag, maxLength, isEnd, finished,
                 blockVars, helperVars, crashed>>

TellBound(r) ==
  LET q == <<KeyOf(r), spread[r].tile>> IN
  /\ pc[r] = "tell"
  /\ IF q \in runners
       THEN /\ maxLength' = [maxLength EXCEPT ![q] = cur[r].len]
            /\ UNCHANGED crashed
       ELSE crashed' = TRUE /\ UNCHANGED maxLength
  /\ Goes(r, "bound")
  /\ UNCHANGED <<clientVars, managerVars, loopVars, sharedVars, cur, idx, heap,
                 flag, isEnd, spread, finished, blockVars, helperVars>>

BoundSpread(r) ==
  /\ pc[r] = "bound"
  /\ spread[r].todo = {}
  /\ Goes(r, "settle")
  /\ UNCHANGED <<otherVars, sharedVars, runnerVars>>

\* Mutant: the label is not kept.
SettleForgets(r) ==
  /\ pc[r] = "settle"
  /\ idx' = [idx EXCEPT ![r] = 1]
  /\ Goes(r, "relax")
  /\ UNCHANGED <<otherVars, sharedVars, cur, heap, flag, maxLength, isEnd, spread,
                 finished, blockVars, helperVars>>

Settle(r) ==
  /\ pc[r] = "settle"
  /\ flag' = [flag EXCEPT ![r][cur[r].node] = cur[r]]
  /\ idx' = [idx EXCEPT ![r] = 1]
  /\ Goes(r, "relax")
  /\ UNCHANGED <<otherVars, sharedVars, cur, heap, maxLength, isEnd, spread,
                 finished, blockVars, helperVars>>

\* A tile with neither the start nor the end is crossed on its skip edges only.
Skips(r) == TileOfRunner(r) \notin {TileOf[start[KeyOf(r)]], TileOf[end[KeyOf(r)]]}
Usable(r, x) == ~Skips(r) \/ IsCrossBorder(x) \/ x \in SkipEdges

\* Mutant: the length of the path so far is forgotten.
ExtendedForgetful(r, x) == Label(NodeB[x], Weight[x], x)

Extended(r, x) == Label(NodeB[x], cur[r].len + Weight[x], x)

Relax(r) ==
  LET n == cur[r].node
      x == Out[n][idx[r]]
      l == Extended(r, x)
      improves == Usable(r, x) /\ l.len <= maxLength[r] /\ l.len < flag[r][NodeB[x]].len
  IN
  /\ pc[r] = "relax"
  /\ idx[r] <= Len(Out[n])
  /\ idx' = [idx EXCEPT ![r] = @ + 1]
  /\ flag' = IF improves THEN [flag EXCEPT ![r][NodeB[x]] = l] ELSE flag
  /\ IF improves /\ IsCrossBorder(x)
       THEN /\ ReqLockFree
            /\ reqCount' = [reqCount EXCEPT ![KeyOf(r)] = @ + 1]
            /\ routingChan' = Append(routingChan, Request(KeyOf(r), l))
       ELSE UNCHANGED <<reqCount, routingChan>>
  /\ heap' = IF improves /\ ~IsCrossBorder(x) THEN [heap EXCEPT ![r] = @ \cup {l}]
                                              ELSE heap
  /\ UNCHANGED <<otherVars, runCount, stopChan, pc, cur, maxLength, isEnd, spread,
                 finished, blockVars, helperVars>>

Relaxed(r) ==
  /\ pc[r] = "relax"
  /\ idx[r] > Len(Out[cur[r].node])
  /\ Goes(r, "loop")
  /\ UNCHANGED <<otherVars, sharedVars, runnerVars>>

\* Mutant: the requests under way are not looked at.
IdleCheckRunOnly(r) ==
  /\ pc[r] = "idle"
  /\ RunLockFree
  /\ IF runCount[KeyOf(r)] = 1 THEN SendStop(KeyOf(r)) ELSE UNCHANGED stopChan
  /\ Goes(r, "idleWrite")
  /\ UNCHANGED <<otherVars, countVars, routingChan, runnerVars>>

\* SetIdle, DecrementRunningCount: both counts are read, only run_lock is held.
IdleCheck(r) ==
  /\ pc[r] = "idle"
  /\ RunLockFree
  /\ IF runCount[KeyOf(r)] = 1 /\ reqCount[KeyOf(r)] = 0
       THEN SendStop(KeyOf(r))
       ELSE UNCHANGED stopChan
  /\ Goes(r, "idleWrite")
  /\ UNCHANGED <<otherVars, countVars, routingChan, runnerVars>>

\* Mutant: the runner goes to sleep and stays counted.
IdleWriteForgets(r) ==
  /\ pc[r] = "idleWrite"
  /\ Goes(r, "take")
  /\ UNCHANGED <<otherVars, sharedVars, runnerVars>>

IdleWrite(r) ==
  /\ pc[r] = "idleWrite"
  /\ runCount' = [runCount EXCEPT ![KeyOf(r)] = @ - 1]
  /\ Goes(r, "take")
  /\ UNCHANGED <<otherVars, reqCount, routingChan, stopChan, runnerVars>>

Take(r) ==
  /\ pc[r] = "take"
  /\ isLocked' = [isLocked EXCEPT ![r] = TRUE]
  /\ Goes(r, "receiving")
  /\ UNCHANGED <<otherVars, sharedVars, finished, releaseLock, helperVars,
                 searchVars>>

Search(r) ==
  \/ Loop(r) \/ DequeueNothing(r) \/ Dequeue(r) \/ StopReadRun(r) \/ StopReadReq(r)
  \/ (\E t \in Tile : SpreadBound(r, t)) \/ TellBound(r) \/ BoundSpread(r)
  \/ Settle(r) \/ Relax(r) \/ Relaxed(r) \/ IdleCheck(r)
  \/ IdleWrite(r) \/ Take(r)

-----------------------------------------------------------------------------
(* The stop loop (HandleStopRequest of the manager) and the runners' stop   *)
(* helpers (HandleStopRequest of the runner).                               *)

\* Mutant: a second stop of a query is not dropped.
StopReceiveAll ==
  /\ stop.at = "receive"
  /\ stopChan # <<>>
  /\ stopChan' = Tail(stopChan)
  /\ stop' = [stop EXCEPT !.at = "notify", !.key = Head(stopChan), !.todo = Tile]
  /\ UNCHANGED <<clientVars, managerVars, countVars, route, exit, retrivelChan,
                 exitChan, routingChan, pc, runnerVars, crashed>>

StopReceive ==
  /\ stop.at = "receive"
  /\ stopChan # <<>>
  /\ stopChan' = Tail(stopChan)
  /\ stop' = IF Head(stopChan) \in stoped THEN stop
             ELSE [stop EXCEPT !.at = "notify", !.key = Head(stopChan), !.todo = Tile]
  /\ UNCHANGED <<clientVars, managerVars, countVars, route, exit, retrivelChan,
                 exitChan, routingChan, pc, runnerVars, crashed>>

\* finished <- true meets the client's receive; the client drops the channel.
StopNotify ==
  /\ stop.at = "notify"
  /\ stop.key \in awaited
  /\ client[stop.key] = "waiting"
  /\ client' = [client EXCEPT ![stop.key] = "reading"]
  /\ awaited' = awaited \ {stop.key}
  /\ stoped' = stoped \cup {stop.key}
  /\ stop' = [stop EXCEPT !.at = "spread"]
  /\ UNCHANGED <<sharedVars, start, end, answer, blind, pathChan, maxLengths, runners,
                 route, exit, retrivelChan, exitChan, pc, runnerVars, crashed>>

\* One handler after the other; a tile without a runner is passed over, a runner
\* that is found may be deleted by the exit loop before it is got.
StopSpread(t) ==
  /\ stop.at = "spread"
  /\ t \in stop.todo
  /\ stop' = [stop EXCEPT !.todo = @ \ {t}, !.tile = t,
                          !.at = IF <<stop.key, t>> \in runners THEN "get" ELSE @]
  /\ UNCHANGED <<clientVars, managerVars, sharedVars, route, exit, retrivelChan,
                 exitChan, pc, runnerVars, crashed>>

StopGet ==
  /\ stop.at = "get"
  /\ crashed' = (<<stop.key, stop.tile>> \notin runners)
  /\ stop' = [stop EXCEPT !.at = "tell"]
  /\ UNCHANGED <<clientVars, managerVars, sharedVars, route, exit, retrivelChan,
                 exitChan, pc, runnerVars>>

StopTell ==
  LET r == <<stop.key, stop.tile>> IN
  /\ stop.at = "tell"
  /\ stopper[r] = "wait"
  /\ stopper' = [stopper EXCEPT ![r] = "stop"]
  /\ stop' = [stop EXCEPT !.at = "spread"]
  /\ UNCHANGED <<clientVars, managerVars, sharedVars, route, exit, retrivelChan,
                 exitChan, pc, finished, walker, blockVars, searchVars, crashed>>

StopDone ==
  /\ stop.at = "spread"
  /\ stop.todo = {}
  /\ stop' = [stop EXCEPT !.at = "receive"]
  /\ UNCHANGED <<clientVars, managerVars, sharedVars, route, exit, retrivelChan,
                 exitChan, pc, runnerVars, crashed>>

StopLoop ==
  \/ StopReceive \/ StopNotify \/ (\E t \in Tile : StopSpread(t)) \/ StopGet
  \/ StopTell \/ StopDone

SetFinished(r) ==
  /\ stopper[r] = "stop"
  /\ finished' = [finished EXCEPT ![r] = TRUE]
  /\ stopper' = [stopper EXCEPT ![r] = "release"]
  /\ UNCHANGED <<otherVars, sharedVars, pc, walker, blockVars, searchVars>>

StopperRelease(r) ==
  /\ stopper[r] = "release"
  /\ releaseLock[r] = "free"
  /\ IF isLocked[r]
       THEN /\ releaseLock' = [releaseLock EXCEPT ![r] = "stopper"]
            /\ stopper' = [stopper EXCEPT ![r] = "sending"]
       ELSE /\ stopper' = [stopper EXCEPT ![r] = "report"]
            /\ UNCHANGED releaseLock
  /\ UNCHANGED <<otherVars, sharedVars, pc, finished, isLocked, walker, searchVars>>

StopperWakes(r) ==
  /\ stopper[r] = "sending"
  /\ pc[r] = "receiving"
  /\ Goes(r, "loop")
  /\ stopper' = [stopper EXCEPT ![r] = "clearing"]
  /\ UNCHANGED <<otherVars, sharedVars, finished, walker, blockVars, searchVars>>

StopperClears(r) ==
  /\ stopper[r] = "clearing"
  /\ isLocked' = [isLocked EXCEPT ![r] = FALSE]
  /\ releaseLock' = [releaseLock EXCEPT ![r] = "free"]
  /\ stopper' = [stopper EXCEPT ![r] = "report"]
  /\ UNCHANGED <<otherVars, sharedVars, pc, finished, walker, searchVars>>

\* Mutant: nobody is asked for the path.
StopperReportsNothing(r) ==
  /\ stopper[r] = "report"
  /\ stopper' = [stopper EXCEPT ![r] = "done"]
  /\ UNCHANGED <<otherVars, sharedVars, pc, finished, walker, blockVars, searchVars>>

\* The runner that has seen the end asks its retrieval helper for the path.
StopperReports(r) ==
  /\ stopper[r] = "report"
  /\ IF isEnd[r]
       THEN /\ walker[r].at = "wait"
            /\ walker' = [walker EXCEPT ![r] = [at |-> "walk", node |-> end[KeyOf(r)]]]
       ELSE UNCHANGED walker
  /\ stopper' = [stopper EXCEPT ![r] = "done"]
  /\ UNCHANGED <<otherVars, sharedVars, pc, finished, blockVars, searchVars>>

Stopper(r) ==
  \/ SetFinished(r) \/ StopperRelease(r) \/ StopperWakes(r) \/ StopperClears(r)
  \/ StopperReports(r)

-----------------------------------------------------------------------------
(* The path: the retrieval helpers (HandleRetrivalRequest of the runner),   *)
(* the retrieval loop that passes a walk on to the next tile, and the exit  *)
(* loop with the runners' exit helpers.                                     *)

WalkEnds(r) ==
  /\ walker[r].at = "walk"
  /\ walker[r].node = start[KeyOf(r)]
  /\ pathChan' = [pathChan EXCEPT ![KeyOf(r)] = "closed"]
  /\ walker' = [walker EXCEPT ![r].at = "wait"]
  /\ UNCHANGED <<clientVars, loopVars, sharedVars, awaited, stoped, maxLengths,
                 runners, pc, finished, stopper, blockVars, searchVars, crashed>>

\* A node without a flag reads as the zero flag_dd, whose edge is edge 0.
Missing(r, n) == flag[r][n].prev = NoEdge
EdgeRead(r, n) == IF Missing(r, n) THEN FirstEdge ELSE flag[r][n].prev

\* What the client reads; of a walk that has read a missing flag MaxBlind edges are kept.
ClientReads(k, x) ==
  /\ client[k] = "reading"
  /\ answer' = IF k \in blind' /\ Len(answer[k]) >= MaxBlind THEN answer
               ELSE [answer EXCEPT ![k] = <<x>> \o @]

\* Mutant: the walk is handed over at the wrong end of the edge.
WalkEdgeAgain(r) ==
  LET k == KeyOf(r)
      n == walker[r].node
      x == EdgeRead(r, n)
      other == GetOtherNode(x, n)
  IN
  /\ walker[r].at = "walk"
  /\ n # start[k]
  /\ blind' = IF Missing(r, n) THEN blind \cup {k} ELSE blind
  /\ ClientReads(k, x)
  /\ Len(answer[k]) < Cardinality(Node)
  /\ crashed' = (other \notin Node)
  /\ walker' = [walker EXCEPT ![r].node =
                  IF other \in Node /\ TileOf[other] = TileOfRunner(r) THEN other ELSE start[k]]
  /\ UNCHANGED <<managerVars, sharedVars, client, start, end, route, stop, exit,
                 retrivelChan, exitChan, pc, finished, stopper, blockVars,
                 searchVars>>

\* path_chan <- edge meets the client's receive; the walk goes on in this tile or is
\* handed to the retrieval loop.  When the node is not on the edge the other node is
\* -1, and GetNodeTile panics.
WalkEdge(r) ==
  LET k == KeyOf(r)
      n == walker[r].node
      x == EdgeRead(r, n)
      other == GetOtherNode(x, n)
  IN
  /\ walker[r].at = "walk"
  /\ n # start[k]
  /\ blind' = IF Missing(r, n) THEN blind \cup {k} ELSE blind
  /\ ClientReads(k, x)
  /\ crashed' = (other \notin Node)
  /\ \/ /\ other \in Node /\ TileOf[other] # TileOfRunner(r)
        /\ Len(retrivelChan) < ChanCap
        /\ retrivelChan' = Append(retrivelChan, <<k, other>>)
        /\ walker' = [walker EXCEPT ![r].at = "wait"]
     \/ /\ other \in Node /\ TileOf[other] = TileOfRunner(r)
        /\ walker' = [walker EXCEPT ![r].node = other]
        /\ UNCHANGED retrivelChan
     \/ other \notin Node /\ UNCHANGED <<walker, retrivelChan>>
  /\ UNCHANGED <<managerVars, sharedVars, client, start, end, route, stop, exit,
                 exitChan, pc, finished, stopper, blockVars, searchVars>>

\* A blind walk may come to a tile that the query has no runner in.
RetrievalLoop ==
  /\ retrivelChan # <<>>
  /\ LET k == Head(retrivelChan)[1]
         n == Head(retrivelChan)[2]
         r == <<k, TileOf[n]>>
     IN /\ crashed' = (r \notin runners)
        /\ r \in runners => walker[r].at = "wait"
        /\ walker' = IF r \in runners THEN [walker EXCEPT ![r] = [at |-> "walk", node |-> n]]
                                      ELSE walker
  /\ retrivelChan' = Tail(retrivelChan)
  /\ UNCHANGED <<clientVars, managerVars, sharedVars, route, stop, exit, exitChan,
                 pc, finished, stopper, blockVars, searchVars>>

ExitReceive ==
  /\ exit.todo = {}
  /\ exitChan # <<>>
  /\ exit' = [key |-> Head(exitChan), todo |-> Tile]
  /\ exitChan' = Tail(exitChan)
  /\ UNCHANGED <<clientVars, managerVars, sharedVars, route, stop, retrivelChan,
                 pc, runnerVars, crashed>>

\* One handler after the other: the runner's exit helper ends the search and the
\* retrieval helper, and the handler forgets the runner and its bound.
ExitRunner(t) ==
  LET r == <<exit.key, t>> IN
  /\ t \in exit.todo
  /\ exit' = [exit EXCEPT !.todo = @ \ {t}]
  /\ IF r \in runners
       THEN /\ finished' = [finished EXCEPT ![r] = TRUE]
            /\ walker' = [walker EXCEPT ![r].at = "done"]
            /\ runners' = runners \ {r}
            /\ maxLengths' = [maxLengths EXCEPT ![r] = Unlimited]
       ELSE UNCHANGED <<finished, walker, runners, maxLengths>>
  /\ UNCHANGED <<clientVars, sharedVars, pathChan, awaited, stoped, route, stop,
                 retrivelChan, exitChan, pc, stopper, blockVars, searchVars,
                 crashed>>

Walker(r) == WalkEnds(r) \/ WalkEdge(r)
ExitLoop == ExitReceive \/ \E t \in Tile : ExitRunner(t)

-----------------------------------------------------------------------------
Client(k) == LeavePath(k) \/ \E s, e \in Node : RunRouting(k, s, e)

Steps ==
  \/ \E k \in Key : Client(k)
  \/ RoutingLoop \/ QueueFault
  \/ \E r \in Runner : Search(r) \/ Stopper(r) \/ Walker(r)
  \/ StopLoop
  \/ RetrievalLoop
  \/ ExitLoop

Next == ~crashed /\ Steps

\* Every goroutine that can go on is run; nobody need ask a question, and the
\* blocking queue need not fail.
Fairness ==
  /\ \A k \in Key : WF_vars(~crashed /\ LeavePath(k))
  /\ WF_vars(~crashed /\ RoutingLoop)
  /\ \A r \in Runner : /\ WF_vars(~crashed /\ Search(r))
                       /\ WF_vars(~crashed /\ Stopper(r))
                       /\ WF_vars(~crashed /\ Walker(r))
  /\ WF_vars(~crashed /\ StopLoop)
  /\ WF_vars(~crashed /\ RetrievalLoop)
  /\ WF_vars(~crashed /\ ExitLoop)

Spec == Init /\ [][Next]_vars
FairSpec == Spec /\ Fairness

-----------------------------------------------------------------------------
Labels == [node : Node, len : 0..Unlimited,
           prev : Edge \cup {NoEdge}]
Requests == [key : Key, label : Labels]

\* The routing loop has no request in hand.
Unserved == route.at \in {"pop", "empty", "asleep"}

\* The types of the state; in particular no counter falls below zero.
TypeOK ==
  /\ client \in [Key -> {"idle", "waiting", "reading", "done"}]
  /\ pathChan \in [Key -> {"none", "open", "closed"}]
  /\ awaited \subseteq Key /\ stoped \subseteq Key
  /\ runCount \in [Key -> Nat] /\ reqCount \in [Key -> Nat]
  /\ routingChan \in Seq(Requests)
  /\ stopChan \in Seq(Key \cup {NoKey}) /\ Len(stopChan) <= ChanCap
  /\ retrivelChan \in Seq(Key \X Node) /\ exitChan \in Seq(Key)
  /\ ~Unserved => route.msg \in Requests
  /\ stop.todo \subseteq Tile /\ exit.todo \subseteq Tile
  /\ runners \subseteq Runner
  /\ heap \in [Runner -> SUBSET Labels]
  /\ \A r \in Runner : \A n \in Node : flag[r][n] \in Labels /\ flag[r][n].node = n
  /\ \A r \in Runner : cur[r] \in Labels \/ cur[r] = Unreached(NoNode)
  /\ maxLength \in [Runner -> 0..Unlimited] /\ maxLengths \in [Runner -> 0..Unlimited]
  /\ releaseLock \in [Runner -> {"free", "route", "stopper"}]

Queued(k) == Cardinality({i \in 1..Len(routingChan) : routingChan[i].key = k})
Serving(k) == ~Unserved /\ route.msg.key = k

\* The request counter counts the requests that are queued or being served.
RequestsCounted ==
  \A k \in Key : reqCount[k] = Queued(k) + IF Serving(k) THEN 1 ELSE 0

Awake(r) == pc[r] \notin {"none", "new", "take", "receiving", "done"}
BeingWoken(k) == route.at \in {"release", "sending"} /\ route.msg.key = k

\* Until a query is stopped the running counter counts its runners that are
\* awake and the one that is being woken.
RunnersCounted ==
  \A k \in Key :
    (\A r \in RunnersOf(k) : ~finished[r])
      => runCount[k] = Cardinality({r \in RunnersOf(k) : Awake(r)})
                         + IF BeingWoken(k) THEN 1 ELSE 0

(***************************************************************************)
(* The two counters by which a query is stopped count what they should,    *)
(* through every interleaving of the senders, the routing loop and the     *)
(* runners: none falls below zero, no request is counted twice or served   *)
(* uncounted, and no runner works uncounted.                               *)
(***************************************************************************)
CountersAreRight == TypeOK /\ RequestsCounted /\ RunnersCounted

\* DecrementRequestCount or DecrementRunningCount sends the stop of k while no
\* other stop of k has been sent.
CountersStop(k) ==
  /\ stopChan' = Append(stopChan, k)
  /\ \/ route.at = "dec" /\ route'.at = "decWrite"
     \/ \E r \in RunnersOf(k) : pc[r] = "idle" /\ pc'[r] = "idleWrite"
  /\ client[k] = "waiting"
  /\ \A i \in 1..Len(stopChan) : stopChan[i] # k
  /\ stop.at = "receive" \/ stop.key # k

(***************************************************************************)
(* The first stop of a query, sent by one of the two decrements, is right: *)
(* no other request is under way and every other runner is asleep.  Each   *)
(* decrement reads a counter whose lock it does not hold.                  *)
(***************************************************************************)
CountersStopRightly ==
  [][\A k \in Key : CountersStop(k) =>
       /\ Queued(k) = 0
       /\ Serving(k) => route'.at = "decWrite"
       /\ \A r \in RunnersOf(k) : Awake(r) => pc'[r] = "idleWrite"]_vars

Distance == [a \in Node |-> DistancesFrom(a, Node, Arcs(Edge), Unlimited)]

\* A request came when the runner had found its heap empty, but before it could
\* be woken: nobody wakes it for this request.
Overslept(k) ==
  \E r \in RunnersOf(k) :
    pc[r] \in {"idle", "idleWrite", "take", "receiving"} /\ heap[r] # {}

(***************************************************************************)
(* When the counters stop a query, the end carries the length of a         *)
(* shortest path, however its tiles have interleaved: unless a runner on   *)
(* its way to sleep has missed the request that was put in its heap.       *)
(***************************************************************************)
CountersStopOptimally ==
  [][\A k \in Key :
       CountersStop(k) /\ ~Overslept(k)
         => flag[<<k, TileOf[end[k]]>>][end[k]].len = Distance[start[k]][end[k]]]_vars

(***************************************************************************)
(* No label is too short: the distance from the start of its query bounds  *)
(* the length in every flag, heap and request of it.                       *)
(***************************************************************************)
NoLabelIsTooShort ==
  \A k \in Key : client[k] # "idle" =>
    LET dist == Distance[start[k]]
        Fits(l) == l.node \in Node => l.len >= dist[l.node]
    IN /\ \A r \in RunnersOf(k) : /\ Fits(cur[r])
                                 /\ \A l \in heap[r] : Fits(l)
                                 /\ \A n \in Node : Fits(flag[r][n])
       /\ \A i \in 1..Len(routingChan) :
            routingChan[i].key = k => Fits(routingChan[i].label)
       /\ route.msg.key = k => Fits(route.msg.label)

(***************************************************************************)
(* A walk that has not gone blind stands on a missing flag only at the     *)
(* end, and only while the runner that told the stop loop of it has not    *)
(* come to flags.Set: everywhere else on its way the flags are there, in   *)
(* whichever tile and however late that tile was told to stop.             *)
(***************************************************************************)
BlindOnlyAtEnd ==
  \A r \in Runner : \A n \in Node :
    LET k == KeyOf(r) IN
    walker[r].at = "walk" /\ walker[r].node = n /\ n # start[k] /\ k \notin blind /\ Missing(r, n)
      => /\ n = end[k] /\ cur[r].node = n
         /\ pc[r] \in {"stopRun", "stopReq", "bound", "tell", "settle"}

(***************************************************************************)
(* What a client has read when its channel is closed is a path of the      *)
(* graph from start to end, although its edges come from runners of        *)
(* several tiles that may still be searching: unless the walk has read a   *)
(* missing flag, and has gone on along edge 0 (BlindOnlyAtEnd says when).  *)
(***************************************************************************)
AnswerIsPath ==
  \A k \in Key : client[k] = "done" /\ k \notin blind =>
    LET path == answer[k] IN
    IF path = <<>> THEN start[k] = end[k]
    ELSE /\ NodeA[path[1]] = start[k] /\ NodeB[path[Len(path)]] = end[k]
         /\ \A i \in 1..(Len(path) - 1) : NodeB[path[i]] = NodeA[path[i + 1]]

(***************************************************************************)
(* The stop loop never waits for a client that is gone: a second stop of   *)
(* the same query is dropped before the finished channel is looked up.     *)
(* (The stop of a zero request waits for a client that never was.)         *)
(***************************************************************************)
StopLoopIsHeard ==
  stop.at = "notify" /\ stop.key # NoKey => stop.key \in awaited /\ client[stop.key] = "waiting"

(***************************************************************************)
(* Both counters are zero and nobody has told the client or is going to.   *)
(***************************************************************************)
ZeroMissed(k) ==
  /\ client[k] = "waiting"
  /\ runCount[k] = 0 /\ reqCount[k] = 0
  /\ \A i \in 1..Len(stopChan) : stopChan[i] # k
  /\ stop.at = "receive"

(***************************************************************************)
(* RunRouting returns, unless one of four things has happened: the last    *)
(* decrements of the two counters have each seen the other counter before  *)
(* its decrement and neither sent the stop; the routing loop has slept     *)
(* over a wakeup; the stop loop waits for the client of a zero request; or *)
(* a panic has ended the process.  (Of one query: several also share the   *)
(* capacity of the stop channel.)                                          *)
(***************************************************************************)
ReturnsOrZeroMissed ==
  \A k \in Key :
    client[k] = "waiting" ~>
      \/ client[k] # "waiting"
      \/ ZeroMissed(k) \/ route.at = "asleep" \/ StopLoopHangs \/ crashed

(***************************************************************************)
(* GetRoutingPath returns once the query is stopped, also after a walk     *)
(* that has read a missing flag and has gone astray, unless no runner has  *)
(* seen the end (nobody closes the path channel then) or the process has   *)
(* panicked, as a walk astray makes it when it leaves the edges or the     *)
(* runners of the query.                                                   *)
(***************************************************************************)
PathIsRead ==
  \A k \in Key :
    client[k] = "reading"
      ~> \/ client[k] = "done"
         \/ \A r \in RunnersOf(k) : ~isEnd[r]
         \/ crashed
=============================================================================
