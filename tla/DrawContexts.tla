---------------------------- MODULE DrawContexts ----------------------------
(***************************************************************************)
(* routing.go: a client that draws a search creates a context, gets its key *)
(* and then asks for one batch of steps after the other.  Each request is   *)
(* handled by a goroutine of its own, and all of them use the map algs_dict *)
(* and the solvers in it without a lock.  The search a client creates is     *)
(* named by the client; what it computes is in the modules of the solvers.  *)
(***************************************************************************)
EXTENDS Integers, FiniteSets

CONSTANTS
  Client,    \* each creates one context
  Impatient, \* those that may repeat a request while they wait for its answer
  Key,       \* 0 to 999 in the code
  Batches,   \* bound: how many step requests a search takes that finishes
  NoKey, NoSearch

ASSUME DrawAssumption == Impatient \subseteq Client /\ Batches \in Nat \ {0}

VARIABLES
  algs_dict,  \* searches by key
  left,       \* of each search: the batches to come, or Endless
  torn,       \* of each search: two goroutines ran its Steps at once
  call,       \* the goroutines: [pc, key, search]
  client,     \* [place, key]
  clashed,    \* keys that two creations had found free at the same time
  repeated,   \* clients that have repeated a request
  fatal       \* the Go runtime has ended the program: concurrent map access

drawVars == <<algs_dict, left, torn, call, client, clashed, repeated, fatal>>

\* A search whose Steps returns true for ever: CH.Steps leaves its loop before the
\* backward side once a middle is known (ch.go:213), and the bidirectional search
\* reads an empty heap as node 0 (bidirect_dijkstra.go:160).  The query decides it.
Endless == -1

\* Where a goroutine has the solver in hand.
InUse == {"steps", "path", "lost"}

\* A client's request, and its repetition.
Call == (Client \X {1}) \cup (Impatient \X {2})
Idle == [pc |-> "idle", key |-> NoKey, search |-> NoSearch]

DrawInit ==
  /\ algs_dict = [k \in {} |-> NoSearch]
  /\ left \in [Client -> 1..Batches \cup {Endless}] /\ torn = [c \in Client |-> FALSE]
  /\ call = [h \in Call |-> Idle]
  /\ client = [c \in Client |-> [place |-> "new", key |-> NoKey]]
  /\ clashed = {} /\ repeated = {} /\ fatal = FALSE

At(h, pc) == ~fatal /\ call[h].pc = pc
Leaves(c, place) == client' = [client EXCEPT ![c].place = place]

-----------------------------------------------------------------------------
(* Clients.                                                                *)

Create(c) ==
  /\ ~fatal /\ client[c].place = "new"
  /\ call' = [call EXCEPT ![<<c, 1>>] = [Idle EXCEPT !.pc = "pick", !.search = c]]
  /\ Leaves(c, "waiting")
  /\ UNCHANGED <<algs_dict, left, torn, clashed, repeated, fatal>>

SendStep(c) ==
  /\ client[c].place = "ready" /\ At(<<c, 1>>, "idle")
  /\ call' = [call EXCEPT ![<<c, 1>>] = [Idle EXCEPT !.pc = "check", !.key = client[c].key]]
  /\ UNCHANGED <<algs_dict, left, torn, client, clashed, repeated, fatal>>

Repeat(c) ==
  /\ c \in Impatient /\ c \notin repeated
  /\ client[c].place = "ready" /\ ~At(<<c, 1>>, "idle") /\ At(<<c, 2>>, "idle")
  /\ call' = [call EXCEPT ![<<c, 2>>] = [Idle EXCEPT !.pc = "check", !.key = client[c].key]]
  /\ repeated' = repeated \cup {c}
  /\ UNCHANGED <<algs_dict, left, torn, client, clashed, fatal>>

Abandon(c) ==
  /\ client[c].place = "ready" /\ (\A h \in Call : h[1] = c => At(h, "idle"))
  /\ Leaves(c, "gone")
  /\ UNCHANGED <<algs_dict, left, torn, call, clashed, repeated, fatal>>

-----------------------------------------------------------------------------
(* HandleCreateContextRequest                                              *)

\* Mutant: the key is not looked up.
PickAny(h) ==
  /\ At(h, "pick")
  /\ \E k \in Key :
       /\ call' = [call EXCEPT ![h].pc = "store", ![h].key = k]
       /\ clashed' = clashed \cup {call[o].key : o \in {p \in Call : call[p].pc = "store" /\ call[p].key = k}}
  /\ UNCHANGED <<algs_dict, left, torn, client, repeated, fatal>>

\* rand.Intn finds a key that is free; a turn of the loop that does not changes nothing.
Pick(h) ==
  /\ At(h, "pick")
  /\ \E k \in Key \ DOMAIN algs_dict :
       /\ call' = [call EXCEPT ![h].pc = "store", ![h].key = k]
       /\ clashed' = clashed \cup {call[o].key : o \in {p \in Call : call[p].pc = "store" /\ call[p].key = k}}
  /\ UNCHANGED <<algs_dict, left, torn, client, repeated, fatal>>

Store(h) ==
  /\ At(h, "store")
  /\ algs_dict' = [k \in DOMAIN algs_dict \cup {call[h].key} |->
                     IF k = call[h].key THEN call[h].search ELSE algs_dict[k]]
  /\ client' = [client EXCEPT ![h[1]] = [place |-> "ready", key |-> call[h].key]]
  /\ call' = [call EXCEPT ![h] = Idle]
  /\ UNCHANGED <<left, torn, clashed, repeated, fatal>>

-----------------------------------------------------------------------------
(* HandleRoutingStepRequest                                                *)

Check(h) ==
  /\ At(h, "check")
  /\ \/ /\ call[h].key \in DOMAIN algs_dict
        /\ call' = [call EXCEPT ![h].pc = "look"] /\ UNCHANGED client
     \/ /\ call[h].key \notin DOMAIN algs_dict
        /\ call' = [call EXCEPT ![h] = Idle] /\ Leaves(h[1], "done")
  /\ UNCHANGED <<algs_dict, left, torn, clashed, repeated, fatal>>

\* The goroutine panics, its client gets no answer and the search stays in the map.
Panics(h) == call' = [call EXCEPT ![h] = Idle] /\ Leaves(h[1], "gone")

\* The zero value of a key that has been deleted since then has no profile.
Look(h) ==
  /\ At(h, "look")
  /\ \/ /\ call[h].key \in DOMAIN algs_dict
        /\ LET s == algs_dict[call[h].key] IN
           /\ call' = [call EXCEPT ![h].pc = "steps", ![h].search = s]
           /\ torn' = [torn EXCEPT ![s] = @ \/ \E o \in Call : call[o].pc \in InUse /\ call[o].search = s]
        /\ UNCHANGED client
     \/ /\ call[h].key \notin DOMAIN algs_dict
        /\ Panics(h) /\ UNCHANGED torn
  /\ UNCHANGED <<algs_dict, left, clashed, repeated, fatal>>

\* Steps returns.  Of a torn search it may say anything, and so it may when it
\* is called again for a search that has finished.  Or it panics, as BODijkstra does
\* at a shortcut that ends past edges_dyn (structs/shortcuts.go:92).
Steps(h) ==
  /\ At(h, "steps")
  /\ LET s == call[h].search IN
     \/ \E finished \in IF torn[s] \/ left[s] = 0 THEN BOOLEAN ELSE {left[s] = 1} :
          /\ left' = [left EXCEPT ![s] = IF @ > 0 THEN @ - 1 ELSE @]
          /\ call' = [call EXCEPT ![h] = IF finished THEN [@ EXCEPT !.pc = "path"] ELSE Idle]
          /\ UNCHANGED client
     \/ Panics(h) /\ UNCHANGED left
  /\ UNCHANGED <<algs_dict, torn, clashed, repeated, fatal>>

\* Mutant: the context of a finished search is kept.
FinishKeeps(h) ==
  /\ At(h, "path")
  /\ call' = [call EXCEPT ![h] = Idle] /\ Leaves(h[1], "done")
  /\ UNCHANGED <<algs_dict, left, torn, clashed, repeated, fatal>>

\* GetShortestPath, the answer that it is finished, and the delete.  The walk back
\* of a search that has not met its end may panic (edge -1 in dijkstra.go:88) or go
\* on for ever (ch.go:157 with mid_id -1), and then the entry stays.
Finish(h) ==
  /\ At(h, "path")
  /\ \/ /\ algs_dict' = [k \in DOMAIN algs_dict \ {call[h].key} |-> algs_dict[k]]
        /\ call' = [call EXCEPT ![h] = Idle] /\ Leaves(h[1], "done")
     \/ Panics(h) /\ UNCHANGED algs_dict
     \/ call' = [call EXCEPT ![h].pc = "lost"] /\ UNCHANGED <<algs_dict, client>>
  /\ UNCHANGED <<left, torn, clashed, repeated, fatal>>

\* One goroutine writes the map while another one uses it.
MapRace ==
  /\ ~fatal
  /\ \E h, o \in Call : /\ h # o /\ call[h].pc \in {"store", "path"}
                        /\ call[o].pc \in {"pick", "store", "check", "look", "path"}
  /\ fatal' = TRUE
  /\ algs_dict' = [k \in {} |-> NoSearch] /\ call' = [h \in Call |-> Idle]
  /\ client' = [c \in Client |-> [place |-> "gone", key |-> NoKey]]
  /\ left' = [c \in Client |-> 0] /\ torn' = [c \in Client |-> FALSE] /\ clashed' = {} /\ repeated' = {}

Handle(h) == Store(h) \/ Check(h) \/ Look(h) \/ Steps(h) \/ Finish(h)

DrawNext ==
  \/ \E c \in Client : Create(c) \/ SendStep(c) \/ Repeat(c) \/ Abandon(c)
  \/ \E h \in Call : Pick(h) \/ Handle(h)
  \/ MapRace

\* A goroutine is scheduled again and again, and every key is drawn again and
\* again; a client that has not left asks for the next batch.
DrawFairness ==
  /\ \A h \in Call : WF_drawVars(Handle(h))
  /\ \A c \in Client : SF_drawVars(Pick(<<c, 1>>)) /\ WF_drawVars(SendStep(c))

DrawSpec == DrawInit /\ [][DrawNext]_drawVars /\ DrawFairness

-----------------------------------------------------------------------------
CallState == [pc : {"idle", "pick", "store", "check", "look", "steps", "path", "lost"},
              key : Key \cup {NoKey}, search : Client \cup {NoSearch}]
ClientState == [place : {"new", "waiting", "ready", "done", "gone"}, key : Key \cup {NoKey}]

\* The types of the state: entries, goroutines and clients name keys and searches.
DrawTypeOK ==
  /\ DOMAIN algs_dict \subseteq Key /\ \A k \in DOMAIN algs_dict : algs_dict[k] \in Client
  /\ left \in [Client -> 0..Batches \cup {Endless}] /\ torn \in [Client -> BOOLEAN]
  /\ call \in [Call -> CallState] /\ client \in [Client -> ClientState]
  /\ clashed \subseteq Key /\ repeated \subseteq Client /\ fatal \in BOOLEAN

(***************************************************************************)
(* A client that waits for each answer steps the search it has created and *)
(* nobody else does, so that what it draws is its own and is not torn: with *)
(* no lock in routing.go:123-199 this rests on the key being looked up      *)
(* before it is taken (162) and deleted only when its client is answered    *)
(* (193).  Two things break it, and only they: two creations that found the *)
(* same key free at the same time, and a client that repeats a request,     *)
(* whose second one may come when the key has been given away.              *)
(***************************************************************************)
DrawsItsOwn ==
  \A h \in Call : call[h].pc \in InUse =>
    \/ call[h].search = h[1] /\ ~torn[h[1]]
    \/ call[h].key \in clashed
    \/ repeated # {}

(***************************************************************************)
(* A creation is answered, however many contexts there are, unless every   *)
(* key is held by a search that nothing will delete: contexts go with the  *)
(* answer that finishes them and with nothing else, and the loop over      *)
(* random keys has no end.                                                 *)
(*                                                                         *)
(* Stuck names all the ways a search is never finished: its client has     *)
(* left it or got a panic for an answer, two goroutines have spoilt it,    *)
(* its Steps never says that it is done, or its walk back has no end.      *)
(***************************************************************************)
Stuck(k) ==
  /\ k \in DOMAIN algs_dict
  /\ LET s == algs_dict[k] IN
       \/ client[s].place = "gone" \/ torn[s] \/ left[s] = Endless
       \/ \E h \in Call : call[h].pc = "lost" /\ call[h].search = s
CreateIsAnswered ==
  \A c \in Client : client[c].place = "waiting" ~> (client[c].place # "waiting" \/ \A k \in Key : Stuck(k))

(***************************************************************************)
(* A client that has got its last answer, the finished path or that its key *)
(* is not found, leaves no search behind: algs_dict has no other way to get *)
(* smaller than the delete of line 193, and this holds in spite of clashes  *)
(* and repeated requests, whose deletes hit the entries of others.          *)
(***************************************************************************)
FinishedIsGone ==
  \A c \in Client : client[c].place = "done" => \A k \in DOMAIN algs_dict : algs_dict[k] # c
=============================================================================
