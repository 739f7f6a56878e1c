# go-routing in TLA+

go-routing builds road graphs from OSM and GTFS data, prepares them for fast
queries and answers routes, isochrones and travel time matrices over HTTP. This
directory holds TLA+ models of its core: the queues and the message passing of
the distributed search, the searches from one point to another, the contraction
hierarchy with the matrix requests on it, the overlay of tiles, the searches
that concurrent requests draw, and the way from an OSM extract over files to a
profile that is served. TLC checks them on small instances, TLAPS proves the
results that hold for every graph and every number of goroutines.
`PROJECT.json` lists the components, runs, theorems, hazards and, for every
definition, the lines of code it stands for.

    tlc -config BlockQueueOnList.cfg BlockQueueOnList   # any run of the tables below
    tlapm ConcurrencyProofs.tla                         # any proof module

## 1. Inventory

### 1.1 The system

A request comes in at a handler (`routing.go`, `matrix.go`, `isochrone.go`,
`isoraster.go`), which asks the manager for the graph of a profile and hands it
to a search. `routing/` holds the searches from one node to another,
`batched/` those from one node to many, `graph/` and `comps/` the graphs they
walk, `structs/` the arrays under them. `preproc/` and `algorithm/` prepare
graphs: contraction, overlays of tiles, partitions, orders. `parser/`,
`prepare.go`, `profile.go` and `manager.go` run once when the server starts.
`util/` holds the containers.

Each HTTP request runs in a goroutine of its own. What requests share is the
manager's table of profiles (read only after start), the table of draw contexts,
and inside the distributed search a manager with four loops, one handler for
each tile and the queues and channels between them.

| component | state it keeps | operations | interacts by | what is hard | what makes it right |
|---|---|---|---|---|---|
| `util.Block`, `util.BlockQueue`, `util.Queue` | a flag, two mutexes and an unbuffered channel; a linked list with a length | Take, Release, Push, Pop | locks, hand-off on the channel | flag and length are read without the lock that guards them | no Push hangs, an item goes to one Pop, order, a Pop ends when there is an item |
| distributed Dijkstra | for each query and tile a heap, labels, two bounds; two counters for each query; channels for stops, paths, exits | RunRouting, GetRoutingPath, AddRoutingRequest, AddStopRequest, AddMaxLengthRequest, AddExitRequest, AddRetrivalRequest and the loops | BlockQueue, channels, locks, calls into other tiles | termination is found from two counters with two locks | the query stops once all is done, with the shortest length, and the path can be read |
| Dijkstra, A\* | heap, label and `visited` of each node | Steps, CalcShortestPath, GetShortestPath | the graph explorer | stale heap items, ties, a wrong estimate, an unreachable end | the label of the end is a shortest length, the path has that length, failure means there is none |
| bidirectional searches | the same, twice, and the middle | the same | the same | the stop test | the same |
| CH query | two heaps and labels, the middle | the same | CH explorer, shortcut store | stop test, unpacking in two directions | the same |
| overlay query | a heap, labels; base, skip and shortcut edges by tile | the same | tiled explorer | when to change between levels | the same |
| contraction | levels, contracted nodes, shortcuts, priorities | CalcContraction to CalcContraction6, the PHAST index | the preprocessing graph | bounded local searches, orders | distances between what is left never change, levels rise |
| overlay preprocessing | edge types and shortcuts of tiles | PrepareOverlay, PrepareSkeletonOverlay | partition | which edges a search inside a tile needs | distances between border nodes are kept |
| one-to-many searches | labels in `util.Flags`, the PHAST order | CreateSolver, CalcDistanceFromStart, GetDistance | matrix handler | labels reset by a generation counter that wraps | equal to Dijkstra within the range |
| matrix, isoraster | channels of sources, a result matrix | HandleMatrixRequest | workers and a wait group | closing, one row per source | every cell is written once |
| draw contexts | a table from key to solver | create, step | shared by all requests, no lock | two requests with one key, clients that leave, 1000 keys | a client draws its own search, nothing finished is left, a creation is answered |
| containers | ring buffers, a generation counter, heaps | push, pop, get, reset | all searches | wrap around, growth | a sequence, a map |
| node order, data structures | permutations, adjacency arrays | reorder, build | all graphs | offsets, signs | a permutation; the adjacency of the edges |
| partition, components, transit, isochrones | labels and flows | | | | reference definitions |
| parser, profiles, configuration, files | graphs on disk, profiles in memory | build, load | start of the server | arrays renumbered by different code, half-built directories, files of two builds | distances are those of the streets, arrays belong together, a complete build loads |

`PROJECT.json` has the list of source files of each, and under `hazards` the
lines where an order, a limit or a stale value can go wrong.

### 1.2 What the graphs look like to a search

An explorer walks the adjacency of a node, forwards or backwards, and gives the
weight of an edge. Every search is built on these three calls. `RoadGraph` is
that view: nodes, edges with a tail and a head, weights that are natural
numbers. It has no turn costs: the searches modelled so far never ask for them.

## 2. Modules

| module | models | extends or uses |
|---|---|---|
| `Block` | `util/block.go`: Take and Release, one action for each access to shared state | |
| `FifoQueue` | abstract: what the comments of `util.Queue` promise | |
| `Queue` | `util/queue.go`: cells, head, tail, the unlocked length check | refines `FifoQueue` |
| `BlockQueue` | `util/block_queue.go`: Push and Pop around a `Block` | extends `Block`, uses `FifoQueue` |
| `BlockQueueOnList` | the two together, as a `BlockQueue` is put together | extends `BlockQueue`, `Queue` |
| `DistributedDijkstra` | `routing/distributed_dijkstra.go` | extends `RoadGraph`, `Distances` |
| `RoadGraph` | `graph/graph.go` as an explorer shows it | |
| `Dijkstra` | `routing/dijkstra.go`, `routing/astar.go` and the handlers that run them | extends `RoadGraph` |
| `Distances` | no code: the lengths of shortest paths, as what rounds over all edges end with | |
| `Routes` | no code: where a list of edges leads and how long it is | extends `RoadGraph` |
| `Contraction` | `preproc/pre_process_ch.go`, `structs/shortcuts.go` | extends `RoadGraph`, `Distances` |
| `CHQuery` | `routing/ch.go`, `graph/ch_graph.go` | extends `Contraction` |
| `ContractionOrder` | the seven functions of `preproc/pre_process_ch.go` that choose the order | extends `Contraction` |
| `Flags` | `util/flags.go`: the array that is reset by a counter, as operators | |
| `OneToMany` | `matrix.go`, `batched/onetomany/`, the PHAST index | extends `ContractionOrder`, uses `Flags` |
| `Bidirect` | `routing/bidirect_dijkstra.go`, `routing/bidirect_astar.go` | extends `Routes`, `Distances` |
| `Overlay` | `preproc/pre_process_tiles.go`, `structs/shortcuts.go`, `graph/tiled_graph.go`, `routing/binary_overlay_dijkstra.go` | extends `Routes`, `Distances` |
| `DrawContexts` | `routing.go`: the handlers that create and step a drawn search | |
| `OsmGraph` | `parser/parser.go` and the decoders: operators from an extract to a road graph | |
| `GraphData` | `structs/`, `comps/`, `prepare.go`, `preproc/`: operators that make, renumber and prepare a profile | extends `OsmGraph`, `Distances` |
| `Files` | what `structs/`, `comps/`, `attr/` and `util/io.go` store and load | extends `GraphData` |
| `Manager` | `manager.go`, `profile.go`, `config.go`: build, write, crash, load, serve | extends `Files` |
| `MC...` | small graphs for TLC | |
| `...Proofs` | theorems and proofs | extend their module |

A definition named in a comment as *Mutant* is a plausible mistake in the one
that follows it. It is not part of the model: each property of a run is known
to fail when its mutant takes the place of the definition.

### 2.1 The blocking queue

A goroutine inside `Take`, `Release`, `Push` or `Pop` has a place (`at`, `pc`).
Taking a mutex is one step with the access after it, giving it back one step
with the access before it: nobody else sees anything in between. What is read
without a lock (`is_locked`, the length of the queue) is a step of its own, and
reads see the latest write. The Go memory model promises less for `is_locked`, a
plain bool; the model takes the orders in which the accesses can happen and not
what a compiler may make of the race.

`Queue` keeps every cell ever allocated and pointers as indices. `BlockQueue` has
`FifoQueue` for the queue inside it: `read_lock` leaves that a single popper, and
`QueueImplementsFifo` (in `ConcurrencyProofs`) proves that with a single popper the
linked list implements `FifoQueue`. `BlockQueueOnList` takes the steps of both together,
with the inner `Pop` in its two parts, so that the run also has the list under the real locks.

| run | bounds | what it shows |
|---|---|---|
| `block_queue` | `BlockQueueOnList`: 2 pushers, 2 poppers, 2 items, 4 pushes; 144 000 states | a Release that sends has a receiver, every Push ends, Pop reads no nil head, the list implements `FifoQueue`, and the queue is drained or a wakeup was lost |
| `pop_returns_once_added` | `BlockQueue`: 2 pushers, 1 popper, 3 pushes | violated: the comment at `util/block_queue.go:25` has `Pop` wait until an item is added. A `Push` between its length check and its `Take` wakes nobody, later ones see a length other than 1, and `Pop` sleeps in front of a queue with items |

The run that fails has fair goroutines, as `block_queue` has. `DrainedOrLost` says
that the lost wakeup (`WakeupLost`) is the only way in which an item is left
in the queue; `SenderHasReceiver`, that the late write of `is_locked` (`block.go:23`),
which can lose a wakeup too, never leaves a sender without a receiver.

Two weaknesses are in the model and break no property. A `Push` that signals when its item is
gone ends the next wait of the popper, and `Pop` returns the zero value (`PopItem` has
`GetNothing`; what that does to the search is in 2.2). And on the bare `Queue`, without
`read_lock`, two poppers both pass the length check on one item, and the second finds a nil
head: the proof of `PopIsSafe` asks for one popper.

Four pushes are one more than it takes to lose a wakeup, pass with a stale one
and block again. Fairness: each goroutine that is inside a call takes its next step (Go
schedules every runnable goroutine; a mutex in Go is handed to a waiter
after at most 1 ms of starvation), and poppers pop for ever, as the routing loop does. No
`Push` is forced to begin.

### 2.2 The distributed search

One action for each access to shared state of each goroutine: the client, the
manager's routing, stop, retrieval and exit loops and, for every runner (a query
in a tile), its search and three helper goroutines. Two counters tell when a
query is over: the awake runners, and the requests between tiles that are queued or
being served. The edge queue of a drawn search is left out, as no step reads it.

The routing channel is a blocking queue, taken at the size of a `Push` or a `Pop`, with
both of its faults (`QueueFault`): a `Pop` that found it empty may go to sleep after the
`Push` that filled it, and sleeps for ever (`RouteOversleeps`); or it may be let through
with nothing in the queue and return a zero request (`RouteZero`). That one has key 0 and
leads from node 0 to node 0. Its runner is at the end at once and may send a stop, and
the stop loop looks up the channel of key 0, finds none and sends on nil for
ever (`StopLoopHangs`). A zero request that is not stopped changes nothing for the
queries and is no step: no edge leads on from it, as weights are positive and its
bound is its length 0.

A path is walked back over flags, and a flag may be missing: the stop goes out before
`flags.Set` of the end (`distributed_dijkstra.go:162`). The zero flag that is read then
says edge 0 (`EdgeRead`, with `FirstEdge` for edge 0). The edge is sent to the client and
the walk goes on from its other node, in this or another tile, along whatever flags are
there: it may reach the start and close the channel after what is no path; it
may come to a node that is not on the edge, or a tile without a runner, and panic
(`crashed`). A query with such a walk is `blind`, and of its answer the first `MaxBlind`
edges are kept.

| run | bounds | what it shows |
|---|---|---|
| `distributed_dijkstra` | 1 query, 2 tiles, 4 nodes; the shortest path leaves its tile and comes back; wakeups of the routing queue are lost; 1.5 million states | the counters count what they say; a stop from the counters is right; its answer is optimal unless a runner overslept; labels are never too short; what a client reads is a path unless its walk has read a missing flag; the stop loop never waits for a client that is gone |
| `distributed_dijkstra_ends` | the same net, four other queries: the end in the other tile, the start there, both at one node, an end that cannot be reached; zero requests as well; fairness; 273 000 states | a walk goes blind at the end of the query and nowhere else; RunRouting returns unless both decrements missed the zero, the routing loop overslept, the stop loop waits for key 0 or something panicked; the path channel is closed, also by a walk gone blind, unless nobody saw the end or something panicked |

`CountersAreRight` is the invariant both counters rest on: they are the number
of runners awake and of requests queued or being served, at every step of every
goroutine.

Two tiles and a detour through the second are enough for every message to
travel in both directions and for a label to be overtaken by a better one while
a request is under way; more tiles add more of the same counters. Weights are
chosen so that the direct edge loses. Channels hold 4 instead of 10 keys. `FirstEdge` is
the edge between the nodes of the other tile, so that a blind walk has somewhere to go
and can also be off the edge; `MaxBlind` is 3. Zero requests are in the second run only
(`ZeroRequests`), as all they touch is the stop channel and its loop; the proofs of 3.1 have them
and every fault of the queue. Fairness is weak, on each loop and each runner by itself, as each is a goroutine;
the faults of the queue and the questions of a client are not forced to happen.

The properties are weaker than one would like because the code is. These
behaviours were found on the way and are named in them:

* a stop can be sent by `AddStopRequest` on values read without a lock, before a
  better label arrives (the answer need not be optimal, only the stops of the
  counters are claimed to be);
* a runner that has found its heap empty but is not yet asleep misses a request
  (`Overslept`): nobody wakes it for that one;
* each of the last two decrements can see the other counter before its
  decrement, and neither sends the stop (`ZeroMissed`): `RunRouting` never
  returns;
* the routing loop sleeps over a wakeup (`asleep`), or the stop loop waits for the client
  of a zero request: `RunRouting` never returns either;
* a walk that starts before the flag of the end is set reads edge 0 and goes astray
  (`blind`). `BlindOnlyAtEnd` says that this is the only place and time: wherever
  else a walk stands the flag is there, however late its tile was told to stop;
* if the end cannot be reached, or is stopped before its runner has seen it,
  nobody closes the path channel;
* the exit loop can delete a runner between the check and the use of it
  (`crashed`).

### 2.3 Dijkstra and A*

One query from its creation to the path, in one go (`CalcShortestPath`) or in
portions (`Steps`), with edges relaxed one by one in any order. The heap is a set
of items: which of several items with the least key comes first is left open.
`Lambda` is any function: A\* divides an air-line distance by a top speed, and
nothing in the code makes it agree with the weights.

| run | bounds | what it shows |
|---|---|---|
| `dijkstra` | 5 nodes, 9 edges: ties, weight 0, parallel edges, a loop, a node that cannot be reached; every pair, both algorithms; an estimate that is consistent to one end and not to another | the labels certify the answer (for a consistent estimate); failure is said only when the end is cut off; the walk back only ever shortens what is left and ends with the length; CalcShortestPath and its walk end |

`MaxPath` bounds the walk of a query that has no answer: `Steps` returns false both
when the end is found and when the heap is empty, the handler cannot tell them
apart and reads a path back from a label that was never set. That walk does not
end. Fairness is weak on the single goroutine of the request. Deadlock is not
checked, since a query ends.

### 2.4 The contraction hierarchy

`Contraction` takes nodes out in any order, which covers all seven functions
(they differ in how they choose the next node and in the hop limit, see 2.5). For each
in-neighbour a local search runs step by step with any of the hop limits.
`CHQuery` then runs one query on what came out, its two searches taking turns.

| run | bounds | what it shows |
|---|---|---|
| `contraction_hierarchy` | 5 nodes, 9 edges, hop limits 2 and 100 chosen for each search, every order of contraction, every pair, both modes; 192 000 states | distances among the nodes left are kept; levels rise along the hierarchy; shortcuts unpack to paths of their weight; the query finds the distance, and fails only if there is none; the part up to the middle is a path and the whole weighs what was found |

The hop limit 2 cuts real ways off, 100 none. A limit of 1 would break
`DistancesKept`: a direct edge would be overlooked. The code uses 5, 10, 1000000 and
10000000; that every limit from 2 on is enough is proved (`DistancesAlwaysKept`).
Five nodes are enough for a shortcut of a shortcut on both sides of the middle.

Behaviours met on the way: shortcuts on the side of the end come out last edge
first (their parts are kept so, and `ch_graph.go:102` drops the flag that would turn them), so
only the part up to the middle is claimed to be a path; a drawn query (`Steps`) whose searches have met leaves the search
of the end standing still while its stop test still asks for it, so `Steps` may
never return false (no property here; 2.9 says what it does to other requests); when the two
never meet, `Steps` returns false and the walk starts at node -1 (`lost`); a
query from a node to itself keeps the length 1000000 but an empty path.

### 2.5 The order of contraction, and matrix requests

`ContractionOrder` adds to `Contraction` how the next node is found: by degree in
rounds, by a given order, by priorities, with the nodes between tiles last or not
at all. A priority comes from the same local searches as a contraction, so the
same actions are used; `rating` says that the shortcuts are only counted. A
rating is put in the queue next to the older ones of its node, which are passed
over when they come up.

`OneToMany` goes on from a finished hierarchy with one matrix request: the
worker takes the sources one after the other out of the channel, a solver
searches and, on the hierarchy, sweeps the down edges that lead to the targets.
Between two sources only the counter of its flags is raised. Of the four kinds
of solver the handler chooses three; RPHAST without a range is not called.

| run | bounds | what it shows |
|---|---|---|
| `one_to_many` | the graph of `contraction_hierarchy`, in two tiles; all seven functions, ties in every order; every kind of solver, a tight and a wide range, two requests of six sources, a counter that starts over after 1; 301 000 states | every function ends with its nodes contracted; the levels of a round are those the code takes them for; no node drops out of the queue; every cell of the matrix is the distance, -1 where there is none or no node; the worker answers |

`CalcContraction5` says that border nodes come last (`pre_process_ch.go:981`),
but puts them into the queue with the others (1010): one can be contracted
before inner nodes. The properties do not depend on it.

With a counter up to 1 every second source starts it over, so an entry that
was written two sources ago has the count in force. The wide range lies above the
first distance of a flag, as the unlimited one of the handler does: then an
unreachable target has that distance and not -1, and `MatrixIsRight` says so.
`CalcContraction3` is an exception to `HierarchyIsMade`: with its last node it divides by
the number of nodes left (`panicked`); no function calls it. Fairness is weak on
the goroutine that prepares the graph and on the worker; no request is forced to
come. Deadlock is not checked, as the worker ends.

### 2.6 Bidirectional searches

`Bidirect` is one query of either file, from its creation over the turns of the
two searches to the path. The two files differ in the key of a node, in what the
stop test compares and in that `Steps` of A\* ends at a node the other side has
visited; all else is shared. The stop test adds up what `Peek` returns, which
is the node numbers on top of the heaps and not their keys; and the dequeue of
an empty heap gives node 0, which is then taken for the next node. Both are in
the model as they are, so it is not claimed that an answer is shortest.

| run | bounds | what it shows |
|---|---|---|
| `bidirect` | 5 nodes, 9 edges: two ways of one length, a shorter one over the middle, parallel edges, a loop, weight 0, a node nothing leads to; node numbers whose sums lie below, between and above the lengths; every pair, both searches, both modes | until the searches meet, labels of visited nodes are exact; the answer is a route of the length of its labels; a request is answered unless a heap runs dry |

`MaxRoute` bounds the walk, which only goes astray when the middle has no label.
Fairness is weak on the one goroutine of the request.

### 2.7 The overlay

`Overlay` prepares a partition tile by tile and then runs one query. From each node
of a tile that an edge enters a tree of shortest paths is grown (`Cross`): *any* one, as the code
takes the one its heap finds first. Its paths to the nodes that an edge leaves are kept one by one,
in the order of `Number` (`KeepPath`): a skeleton marks the edges of the path
(`MarkEdges`), a clique adds a shortcut (`AddShortcut`). A tree that has seen such a node and given it
no label, as it lies further than the first length of a label, would have the code follow the edge
-1, which panics: then there is no step. The query walks all edges
in the tiles of its ends and only marked ones in between; whether it does is
written into the label of a node and handed on with it. Labels start at `Unlabelled` in the
preparation (10000000, `pre_process_tiles.go:167`) and at `Limit` in the query (1000000,
`binary_overlay_dijkstra.go:69`).

| run | bounds | what it shows |
|---|---|---|
| `overlay` | 7 nodes, 13 edges, 3 tilings: a tile that can be crossed on two ways of one length, one that is best left and entered again, tiles that hang together in one direction only; skeleton and clique, labels that start at 12 and at 9, every pair, both modes, `edges_dyn` with room for none and for three edges more; 188 000 states | every query finds the distance; the route is a route where shortcuts unpack; requests are answered unless a slice panics |

Three tiles are what it takes for a tile to lie between. Fairness is weak on the
preparation and the request. `RouteIsReal` is claimed where the
shortcuts unpack: a dynamic shortcut keeps as its start the number of shortcuts
before it and not that of their edges (`structs/shortcuts.go:77`, against
the reader at 88), so one of several edges spoils those after it. A skeleton has no
shortcuts, and for it the claim holds without the condition (`SkeletonRoutesReal`).

A wrong start does more than give other edges. Shortcuts from a node to itself have no
edges (`pre_process_tiles.go:251`), so the start may lie so far on that the slice
ends behind the list. Go allows that up to the capacity of the list, where it reads edge
0 (`Unpacked`), and panics beyond it (`Fits`). The capacity, `room`, is that of a list
that has grown, or exactly the number of edges once it was loaded from its file
(`structs/shortcuts.go:323`); `Spare` has the rest that may be left, 0 for a load. The walk
back panics there (`NoWayOn`), and so does `Steps` at any shortcut it meets
(`StepsPanic`). `RequestIsAnswered` names it next to the walk from an end that drawn
steps have not reached (`Steps` ends on an empty heap just as it does at the end).

### 2.8 From the extract to a profile that is served

`OsmGraph`, `GraphData` and `Files` are operators, each the result of one
function; `Manager` is the program that calls them. A start builds or loads. A
build makes each profile, writes it file by file, then the attributes, then
`meta`; a load reads what `meta` names. `Crash` may come between two writes or in
the middle of one, and leaves the file cut off; a later build writes over what is
there. `written` is the configuration whose build the files all come from, if
there is one: what is said of a loaded profile is said of that.

| run | bounds | what it shows |
|---|---|---|
| `manager` | 2 extracts of 6 and 5 nodes, 5 configurations with driving (plain, hierarchy or overlay), walking and transit profiles (on foot, by car, by bike), an unknown vehicle, a type nobody builds and a timetable of more stops than the net has nodes; two builds, a crash at every write; 184 000 states | distances are those on the streets of the map, on the graph and on the hierarchy, after a build and after a load; the main part of the net is kept and nothing else; all arrays belong together; a directory with one complete build loads |
| `cell_index_fits` | the same | violated: the cell index of an overlay is computed on the renumbered graph with the partition of the old numbers (`prepare.go:99`), so a tile's index leads to nodes of other tiles |

The reference is `StreetDistances`, the shortest ways on the extract itself, so a
permutation applied the wrong way round anywhere between the parser and the
loaded file shows. The extracts have the shapes that decide: junctions out of order in the
file, a bend, one-way streets by type and by tag, a way that nobody may drive, a
part that cannot be left, a smaller part first, an edge of more than 255
seconds, two stops at one node. With more stops than nodes the build panics
after its first files (`prepare_transit.go:39`), which is place `failed`. Two builds with different sources are what it
takes to mix files. Places are numbers on a line and the closest node is the nearest
of them. Deadlock is not checked: a program that serves or has panicked stops.

Left out of the properties, as they do not hold: weights above 255 after a
restart (stored as a byte), and what a mixture of two builds computes. A start
fails for ever once a first build has crashed before `meta`, as the directory
is then not empty and is taken for one to load (`manager.go:13`).

### 2.9 Draw contexts

`DrawContexts` is the table `algs_dict` of `routing.go` with one goroutine for
each request in flight. A client creates a context, asks for one batch after the
other, may repeat a request before the first is answered, and may leave. Each
access of a handler to the map is an action, and so is a call of `Steps`; two calls
at once on one solver leave it `torn`, and of a torn search `Steps` and the path
may give anything or panic. The Go runtime ends the program when it sees two
accesses to a map at once, of which one writes (`MapRace`); it need not see them.

A search need not finish. `CH.Steps` and the bidirectional search have queries for which
`Steps` returns true for ever (`ch.go:213`, `bidirect_dijkstra.go:160` with a heap run
dry): `left` is then `Endless`, and which queries those are is the choice of the
client. `Steps` may panic (2.7), and the walk back of a search that ended on an empty
heap (`dijkstra.go:88`, `ch.go:157`) may panic or never end (`lost`). After any of
these the entry stays in the table.

| run | bounds | what it shows |
|---|---|---|
| `draw_contexts` | 2 clients, 1 key, searches of 1 or 2 batches and endless ones, one repeated request each; 233 000 states | a client draws its own search unless its key clashed or a request was repeated; a finished search is gone; a creation is answered unless every key is held by a search that nothing will delete (`Stuck`): abandoned, spoilt by two goroutines, panicked, endless, or lost on its walk back |

One key is the case in which all keys are taken; a second would only delay it. Two
clients are enough, as a clash is between two creations and a stale delete hits one
entry. Fairness: weak on each handler, as goroutines are scheduled; strong on
`Pick`, as the loop draws keys at random and a key that is free again and again is
drawn at last; weak on the next request of a client that has not left, which is the
only assumption on clients. It does not follow that a creation is answered when
clients leave: the code has no time limit for a context. Two batches let a second
request come between the first and the last.

## 3. Proofs

TLAPS proves, for every value of the constants that meets the named assumptions:

| module | theorems | argument |
|---|---|---|
| `ConcurrencyProofs`, on `BlockQueue` | `TypeCorrect`, `Invariance`, `ReleaseFindsTaker`, `PopCheckIsSafe` | `IInv`: who holds which lock is where, and what `is_locked` and the place of the taker say of each other. A sender finds a receiver because `is_locked` is only true between TakeEnter and the hand-off, or while the sender that clears it has not done so, and senders exclude each other. `CheckStaysGood` needs that only the holder of `read_lock` removes. Any number of pushers and poppers, any number of pushes. |
| `ConcurrencyProofs`, on `Queue` | `ListInvariance`, `PopIsSafe`, `QueueImplementsFifo` | One popper. The cells from head to the end are the items of the queue, linked in order; tail is stale only when the queue is empty. Refinement: the abstract items are the values from head on. |
| `DijkstraProofs` | `TypeCorrect`, `FailureIsRight`, `WalkIsRight`, `AnswerIsCertified` | `TreeInv`, without any assumption on the estimate: labels and previous edges form a tree, a label that was reached and not visited is in the heap, the edges of visited nodes are relaxed. `KeyInv`, for a consistent estimate: keys taken never fall, so a visited node is never improved and its tree edges are tight. The path cannot be `WalkKeepsLength` without the tree, nor the certificate without the keys. |
| `HierarchyProofs`, on `Contraction` and `ContractionOrder` | `LevelsAlwaysAscend`, `ShortcutsAlwaysJoin`, `ShortcutsAlwaysUnpack`, `DistancesAlwaysKept`; `OrderedLevelsAscend`, `RoundsAlwaysLevels`, `NoNodeIsEverForgotten`, `OrderedDistancesKept` | See 3.2. Any finite graph of positive weights, any order, any limits from 2 on; then each of the seven functions. |
| `HierarchyProofs`, on `CHQuery` | `ResultAlwaysRight`, `PathAlwaysMade` | See 3.3. Any such graph and hierarchy, any pair of nodes, any order of turns and ties, `CalcShortestPath` and `Steps`. |
| `HierarchyProofs`, on `OneToMany` | `MatrixAlwaysRight` | See 3.4. Any such graph, any of the seven functions, any solver, range, request and avoided part, any limit of the counter of flags. |
| `DistancesProofs` | lemmas | `DistancesFrom` gives a potential and the greatest one (3.2); `RealRoute`s join. |
| `BidirectProofs` | `RouteAlwaysReal`, `SettledAlwaysExact` | `IInv`: the labels of each side are a tree whose nodes were visited parents before children (`Treed`, `Grown`: without the order a label could be on its own way back); what the walk has collected is a route of the length of labels (`Collected`). While the searches have not met each is a Dijkstra (`Queued`, `InOrder`, `Settled`): the tree bounds distances from above, and the labels, cut off at the one of a visited node, are a potential that bounds them from below. Any estimate, any numbering of nodes. |
| `OverlayProofs` | `AlwaysFindsShortest`, `RouteAlwaysReal`, `SkeletonRoutesReal` | See 3.5. Any finite graph of positive weights, any partitions, any trees of shortest paths, skeleton and clique, any pair of nodes, both modes. |
| `DistributedDijkstraProofs` | `CountersRight`, `StopLoopHeard`, `NoneTooShort`, `AnswerPath`, `BlindAtEnd`, `StopRight`, `StopOptimal` | See 3.1. Any net whose tiles can be crossed on their skip edges, any queries and tiles, any size of the channels. |
| `ManagerProofs` | `Invariance`, `CompleteBuildsAlwaysLoad` | See 3.6. Any extracts, configurations and number of builds, a crash before, after or in the middle of any write. |
| `ConcurrencyProofs`, on `DrawContexts` | `DrawTypeCorrect`, `EachDrawsItsOwn`, `FinishedAlwaysGone` | `DrawIInv`: `KeyInv` says of every state, clashes and repeated requests included, whom an entry, a goroutine and a client's key belong to: an entry is of a client that was answered with its key, so a client that is not answered has none, and the delete of a finished search takes the entry of its own client or of one that has lost it. `OwnInv` says what holds while nothing is repeated: one goroutine for each client, and a key that no two creations found free has one owner, which `DrawsItsOwn` needs and cannot say itself. Any number of clients, keys and batches. |

### 3.1 The distributed search

`CountersAreRight` is not inductive: that a decrement takes away what was counted
depends on which runner is where, and that on who has been told to stop. The
invariant is built in layers, and a step lemma of a layer uses the layers before it:

1. `Types`, of all variables.
2. `Begun`: only queries that were asked have requests, stops and runners; a runner
   that is not made is empty.
3. `Stopping`: a query is stopped once, and its runners are told after that; a
   runner that the routing loop is waking is asleep or has been told to stop. The loop
   therefore always sends on `finished` to a client that waits (`StopLoopHeard`).
4. `Counting`: the counters are the cardinalities of the sets they stand for. A
   runner that was woken only to end was never counted again, which `WorkersOf`
   leaves out; without it the running counter could not be bounded from below once
   the query is stopped.
5. `Kept`: no label, item or request lies below a potential, a function that no edge
   raises by more than its weight. The distances from the start are one, whence
   `NoneTooShort`; the potentials are what a step keeps, since an edge
   is all a step looks at.
6. `PathInv`: the path is walked back by one goroutine at a time, which starts at the
   end in the one tile that has seen it; `answer` leads from the node at hand to
   the end. `AnswerPath` follows although flags may still change, since what is
   read is an edge into the node of the flag whatever its length. A query whose walk
   has read a missing flag (`blind`) keeps only that it has one walk.
7. `Covered`: no path is lost. While the client waits, a label of the start of length 0
   and every label in a flag are also, at that length or below it, in the flag of the
   node in its *home* tile, in the heap of the runner there or in a request on its way
   (`Reached`), and a label that is in no heap and on no desk has been relaxed
   over every usable edge of its tile: the head is reached as shortly, or the length
   is above the one known for the end (`FlagsRelaxed`). Labels may be thrown away
   only for being above a runner's bound, and no bound is below the length known for the
   end (`Bounded`); the label a runner is about to write into the flag of the end counts
   as known (`Known`), since the bounds go out before it does.
8. `RootInv`: every label leads back to the start (`LabelsRooted`). An item, a request or a
   flag names an edge whose other end has a flag, or is the start itself with length 0, in
   the tile that the walk goes to (`Rooted`, `Has`); flags are replaced but
   never taken away. So a walk that stands on a flag finds one at every further node, and
   the only flag that can be missing is the one the walk begins with, as the stop was
   sent by the runner that is about to write it (`Settling`, `EndKnown`, `WalkKnown`).
   `BlindAtEnd` is what follows, and what `AnswerPath` needs to be read with: its
   exception begins at the end, in that window, or not at all.

`StopRight` is an action property: the decrements read one counter without its lock, and the
first stop they send still finds no other request under way and every other runner
asleep.

`StopOptimal` is what the search is for, and three things meet in it. From `StopRight`: at
the first stop nothing is queued, and no runner works. If moreover no
heap holds a request that a runner slept over (`Overslept` names it; the window between
`Dequeue` and `is_locked` is a hazard of the code and not excluded),
`Covered` leaves the home flags alone to account for every label (`Silent`):
the flags, cut off at the length of the end, do not rise by more than its weight
along any edge *that the runner of its tile may use*. In a tile
with neither start nor end these are only the skip edges, so the flags are no
potential of the net, and the third piece is about the net alone
(`SkipsLoseNothing`): refill each such tile with what its entry nodes
give along all of its edges, and the result is a potential, because an exit is reached
on the skip edges as shortly (`SkipAssumption`, a fact of the preparation of a
skeleton; 3.5 shows it of its model). Distances are the greatest
potential, so the flag of the end is no longer than the distance, and by
`NoneTooShort` no shorter.

### 3.2 The contraction

`IInv` says what the node at work and its local search look like, and gives the levels
and the joints of shortcuts. For the distances, paths would have to be cut and put
together; the proof goes over *potentials* instead: functions that no
reference raises by more than its weight. `DistancesArePotential` and
`DistancesAreGreatest` say that the distances from a node are the greatest
potential that is 0 there. So distances are kept if potentials are:

* `Sound`: each potential of the road graph is one of the hierarchy, as a
  shortcut weighs what its parts weigh. Distances cannot become shorter.
* `Extendable`: each potential of what is left can be continued to the nodes
  that are gone. Distances cannot become longer. When a node is taken out, it gets
  the least value its references allow, and the references out of it agree because
  the ways over it were replaced (`Replaced`). It is stated with a frame
  (`Frames`) for the sake of the queries: `f` rises along the references that
  climb by no more than their weight, `b` against those that descend, and
  f + b is `c` or more at every node that is gone; then the continuation can be kept
  between `c - b` and `f`.
* `Tree`, `Searching`, `Searched`: what a local search knows. It may be cut off by the hop
  limit, or by having seen its targets; what it has visited is exact up to there.
* `ReplacedFrom`: the ways from an in-neighbour over the node at work are covered by
  the references that stay, *provided* the ways that begin with something shorter are. The
  local search may find a way that leads over another in-neighbour and again over
  the node at work, whose shortcut is not made yet; it begins with a lighter
  reference, and positive weights make the induction over them end.

In `ContractionOrder` the searches for ratings run in between and add nothing, so
`Replaced` holds while `~rating`. `OInv` adds: in a round the nodes left are of its
level or one above; items of the queue are only passed over when another is in
force. `NoNodeIsEverForgotten` needs both: a round ends when its queue is empty, and that all nodes
left were raised by then is what the queue promises.

`ShortcutsAlwaysUnpack` goes over the number of shortcuts: the parts of one are
older than it, so that its edges are those of its parts, one route behind the other
(`RoutesJoin`), and their lengths add up.

### 3.3 The query of the hierarchy

`QInv` adds to the invariant of the contraction what the two searches know. On each
side the labels are a tree (`Treed`) of which every unvisited one is in the
heap (`Queued`), nodes are visited in the order of their labels (`InOrder`) and what
climbs out of a visited one is relaxed (`Settled`). The middle is the best node both
have visited (`Middle`); when the loop is left every label not visited is as long as
the path (`Beyond`), which is where the stop test must look at both heaps.

* No shorter than the distance: the distances, as a potential of the roads, are one of the
  hierarchy (`Sound`), and no label lies below it (`Real`).
* No longer: the labels of the start and of the end, cut off at the result, are
  a frame for `Extendable`. Each climbs, as it is settled or cut off. At a node that
  both have visited their sum is the result or more by `Middle`, at any other by
  `Beyond`. With every node contracted the frame has a potential of the
  roads in it, which is 0 at the start and the result at the end, and the
  distances are the greatest such (`NothingIsNearer`). No path is ever looked at.
* The walk (`Collected`): what lies between the node at hand and the middle is a route of
  the difference of their labels. The part of the start is collected last edge first,
  and each shortcut of it must come out turned too (`UnpackTurned`); what comes
  after the middle may be out of order, but weighs the same.

A query from a node to itself (`Alone`) never has a label 0 on the start's side and is
kept apart in each part.

### 3.4 The matrix

`ManyInv` says what the solver knows of one source (`Sought`); a row is written when it
knows enough, and rows that are written stay right (`Rows`). The argument does not use the
order in which items are visited, nor says anything of visited nodes: a node has an item with its present
distance in the heap, or can bring its neighbours no nearer (`Spent`). What is beyond the
range counts as equally far (`Seen`), as the searches do not go there.

* No shorter than the distance: no flag lies below a potential of the open roads
  that is 0 at the source (`NoneTooNear`), which on the hierarchy is `Sound` again.
* No longer, on the roads: when the heap is empty the flags, cut off at the range, are
  a potential of the open roads themselves.
* No longer, on the hierarchy: what the climb has found is kept as `f` (`Outlines`), as the sweep
  lowers flags and would not keep them a potential. A down edge that was swept stays
  relaxed, because those that lead to its start have all come before it (`SweepInv`:
  what is swept starts no lower than what is not). At the end `f` and what is left of
  the target's flag at each node above a target, and all of it at the others, are a frame for
  `Extendable` (`SeenIsBounded`). That the edges to the start of an edge were selected if it was
  is `AboveFacts`.
* A source in an avoided area (`Blocked`) has no item at all, and every flag its first distance.
* Flags that the counter outdates: none was written under a count that is still to come
  (`Counted`), which is what makes a reset by raising the count one (`ResetFacts`).

Of the seven functions only that every node is gone when a request comes is used
(`Turns`), with the invariants of 3.2.

### 3.5 The overlay

`IInv` has a half for what was prepared (`OverlayInv`) and one for the query (`QueryInv`).
Again no path is cut in two: what a set of arcs can do is said by the *bounds* on it, the functions
that no arc raises by more than its weight, of which the distances are the greatest.

* `TilesCrossed`: a pair of border nodes that is still to be crossed is among the paths
  or starts that wait (`Waits`), or every bound on the marked edges and shortcuts of the
  tile rises from one to the other by no more than the distance inside the tile (`Crossed`). A kept path
  is what makes it so (`KeptPathCrosses`): it leads there (`Leads`), and is as long as its tree says
  (`PathsLead`). Marks and shortcuts are only added, so what is crossed stays so.
* `TilesLoseNothing`: a bound on what the query looks at, below the first
  length of a label, can be continued to a bound on the whole graph. At a node inside a tile that was passed over it
  is the least, over the nodes the tile is entered by, of their value and the
  distance inside. At border nodes nothing changes, as the tile is crossed. This is the
  statement on which the overlay rests, and it says nothing of a search.
* `QueryInv`: labels hang on a node that is done (`FlagsOK`), no item is taken before one of a lesser length, what
  leaves a node that is done is relaxed over the arcs its `skip` chooses (`Settled`), and a label that is not done has its
  item in the heap (`Queued`). `skip` is copied from label to label; the query is right because it always says whether the node
  lies outside the two tiles (`~Near`), which for a node just reached needs that an edge
  into another tile has type 10.
* Shortest (`DoneIsEnough`): the labels, cut off at the one just done, are a
  bound on what the query looks at; continued it is 0 at the start, so the distance is no shorter. It is
  no longer since every label is the length of arcs, each of them an edge or a path inside a tile.
* The route (`Walked`): what was collected leads from the node at hand to the end and is as
  long as their labels differ. A step back puts an edge in front, or what a shortcut unpacks
  to (`StepBack`).

### 3.6 The directory of profiles

`CompleteBuildsLoad` says nothing of what was written and when; `IInv` adds that.

* `MetaIsMet`: every file a "meta" names is there. Files are only ever added, so what holds
  when the meta is written is kept by all builds after it, complete or not.
* `Building`: while a directory can be written, each file of a profile that is made is in it or still to be written, and
  each file of attributes will have the content that belongs to the attributes in memory
  (`Comes`: nothing that is still to be written to it is anything else). Two names never share
  a file (`OtherFiles`).
* `BuildIsWhole`: while `written` is a configuration, every geometry is as long as its attributes
  say. One call of `Store` counts the points and writes them (`StoredTogether`, which rests on the length of
  sequences joined one behind the other, `FlattenSeqIs`); a later build may leave a pair that does not
  belong together, which is why `written` is reset by the first write.
* `Loading`: what is still to be loaded is named by the meta. With the three above, a load of one
  complete build finds each file, and no geometry that ends too early.

### 3.7 Assumptions

TLC evaluates each of them in the runs.

| assumption | says | why the code justifies it |
|---|---|---|
| `GraphAssumption`, `NodesAssumption` | edges join nodes, weights are natural numbers; finitely many nodes | arrays; weights are written as unsigned or at least 1 |
| `SearchAssumption`, `BidirectAssumption` | the estimates are natural numbers; an unset label has a positive length | start values 1000000, 1000000000 |
| `ContractionAssumption` | weights positive and below an unset label; hop limits of 2 or more | `prepare.go` raises weights below 1 to 1; the label starts at 100000000; limits 5 and up |
| `QueryAssumption` | the first length of a flag is no more than an unset label of the contraction, and two of them no more than the first length of a path | 1000000 (`ch.go:38`), 100000000 (`pre_process_ch.go:385`) and 100000000 (`ch.go:49`) |
| `ManyAssumption` | the first distance of a solver's flag is no more than an unset label of the contraction; the kinds of solver, ranges and requests | the solvers are created with 1000000 (`range_dijkstra.go`) and the label starts at 100000000; parameters of the handler |
| `OrderAssumption` | which of the seven functions, and what order and tiles they are given | parameters of the functions |
| `OverlayAssumption` | weights positive; a label of the query starts no higher than one of the preparation; partitions of all nodes; no edge is the value for none; what room a list has left is a number | `prepare.go` raises weights below 1 to 1; 1000000 and 10000000 |
| `NetAssumption` | the explorer lists exactly the outgoing edges of a node; finitely many tiles; edge 0 is an edge | the tiled explorer; arrays |
| `SkipAssumption` | on its skip edges a tile is crossed, from where edges enter to where they leave, as shortly as on all of its edges | the skeleton marks the edges of such paths; 3.5 shows it of the model of the preparation (`TilesCrossed`), which marks edges and, for a clique, adds shortcuts that this search passes over. Paths as long as an unset label count as none |
| `ManagerAssumption` | types and preparations of profiles; a configuration names an extract that is there | what `UnmarshalYAML` takes (`config.go:52`) |
| `ParserAssumption` | the parser makes arrays of edges and of their points | it fills lists; stated of an operator because the provers cannot expand `SelectSeq`, and TLC evaluates it on the extracts of the run |
| `BlockQueueAssumption`, `QueueAssumption`, `FreeAssumption`, `DrawAssumption` | bounds, and values apart from each other | |

Recursive definitions (`Distances`, `Routes`) are functions; that they exist and what
they satisfy is proved by induction for *sets* of numbers (`LeastNumber`, `Counting`), as the
induction theorems of the library take a predicate.

Type invariants are proved and not listed in the runs (`TypeCorrect`, `Types`); those of
`CHQuery` are proved as `QueryTypes`, those of `OneToMany` as `SolverTypes`.

### 3.8 Only model-checked

* Liveness needs ENABLED and fairness: `PushCompletes`, `DrainedOrLost`, `CalcAnswers`,
  `ReturnsOrZeroMissed`, `PathIsRead`, `MatrixIsAnswered`, `HierarchyIsMade`,
  `AnswersOrRunsDry`, `RequestIsAnswered`, `CreateIsAnswered`.
* `DistancesAreOfTheMap`, `MainPartIsServed` and `PreparationFits` of `Manager` say what folds over an
  extract compute, and that needs induction over data.

## 4. Plan

1. Done: blocking queue, distributed search, Dijkstra and A\*, contraction, its
   orders and its query, one-to-many searches and the matrix handler, the
   bidirectional searches, the overlay, draw contexts, and the way from the
   extract to the served profile, with the proofs above.
2. Next proof: `DistancesAreOfTheMap`, `MainPartIsServed` and `PreparationFits` of
   `Manager`, with a prover that has induction over data.
3. The isoraster and isochrone handlers with the shortest path trees, and the
   index and the sweep by tiles (`PrepareGSPHASTIndex`, `pre_process_ch_tiles.go`).
4. The transit search on the profile that `Manager` builds.

## 5. Not modelled, and why

* HTTP, JSON, YAML and logging: text in and out, no state of their own.
* Geometry, interpolation, the isochrone's cells and the trees of coordinates
  (`kd_tree`, `quad_tree`): functions on floating point numbers. `Manager` takes the closest
  node by its definition.
* The partition of a graph (`algorithm/partitioning`): `Overlay` and `Manager` take
  a partition as given, whatever it is, and show that the queries do not depend on it.
* Variants that no handler and no profile calls: `routing/ch2.go`, `spt2`, `spt3`,
  `algorithm/phast*.go`, GRASP and the restricted selection of `rphast_rts.go`,
  `PrepareGSPHASTIndex`, the order by tile and level, cycling profiles (a
  configuration cannot name one: `config.go:74`).
* Shortest path trees (`spt`, and `spt4`, `spt5` behind interpolated isochrones), transit
  searches: Dijkstra with another end and a callback; planned. Nearest and
  k-nearest searches have no caller.
* Turn costs: no search modelled asks for them, and no profile builds them.
* Integer width: path lengths are int32 and start at 1000000000 or 1000000; sums
  stay below 2^31 as long as labels do, and the models take labels below their
  start value. Stored weights are bytes, and are modelled so. `edge_count`
  (`pre_process_ch.go:845`), an int8 in the priorities of a contraction, can wrap for a node
  of more than 42 shortcuts; it only changes the order, and every order is modelled.
