--------------------------- MODULE BlockQueueOnList ---------------------------
(***************************************************************************)
(* util.BlockQueue as it is put together: the Block, the two locks and the *)
(* linked list of util.Queue, whose Pop reads the length once more and     *)
(* takes the item in a second step, while pushes go on.  The steps of      *)
(* BlockQueue, which say what the queue does at each of its calls, and     *)
(* those of Queue, which say how, are taken together.                      *)
(***************************************************************************)
EXTENDS BlockQueue, Queue

listedVars == <<vars, listVars>>

ListedInit == Init /\ ListInit

\* A step of the locks or of the Block, which leaves the list alone.
LocksPush(p) ==
  /\ \/ PushCheckSize(p) \/ PushSignal(p) \/ PushClear(p) \/ PushReturn(p)
     \/ \E c \in Consumers : PushWake(p, c)
  /\ UNCHANGED listVars
LocksPop(c) == (PopCheckLength(c) \/ PopWait(c)) /\ UNCHANGED listVars

AddItem(p) ==
  /\ PushItem(p)
  /\ \E x \in Value : queue' = Append(queue, x) /\ PushCell(x)

\* The inner Pop looks at the length again, without a lock: it goes on to take the
\* item, or gives up at once.
BeginPop(c) ==
  /\ pc[c] \in {"nonempty", "woken"} /\ at[c] = "out"
  /\ PopCheck(c) /\ c \in popping'
  /\ UNCHANGED vars
EndPop(c) ==
  /\ PopItem(c)
  /\ PopHead(c) \/ (PopCheck(c) /\ c \notin popping')

ListedPush(p) == AddItem(p) \/ LocksPush(p)
ListedPop(c) == LocksPop(c) \/ BeginPop(c) \/ EndPop(c)

ListedNext ==
  \/ \E p \in Producers : ListedPush(p)
  \/ \E c \in Consumers : ListedPop(c)

\* As in BlockQueue: goroutines are scheduled, nobody has to begin a Push.
ListedSpec ==
  /\ ListedInit /\ [][ListedNext]_listedVars
  /\ \A p \in Producers : WF_listedVars(ListedPush(p) /\ pc[p] # "idle")
  /\ \A c \in Consumers : SF_listedVars(ListedPop(c))
=============================================================================
