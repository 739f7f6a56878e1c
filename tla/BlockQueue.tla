----------------------------- MODULE BlockQueue -----------------------------
(***************************************************************************)
(* util.BlockQueue: a FIFO queue whose Pop waits on a Block while the      *)
(* queue is empty.  It carries the routing requests between the tiles of   *)
(* the distributed Dijkstra.  Push holds write_lock and Pop holds          *)
(* read_lock, so a push and a pop run side by side and meet only in the    *)
(* inner queue and in the Block.                                           *)
(*                                                                         *)
(* The inner queue is taken at its specification, FifoQueue: read_lock     *)
(* leaves it one popper at a time, for which module Queue implements it.   *)
(***************************************************************************)
EXTENDS Block, Sequences

CONSTANTS Producers, Consumers,
          Item,       \* what is queued
          Zero,       \* the zero value of the item type
          MaxPush     \* bound: how many pushes are explored

ASSUME BlockQueueAssumption ==
  /\ Proc = Producers \cup Consumers
  /\ Producers \cap Consumers = {}
  /\ Zero \notin Item
  /\ MaxPush \in Nat

VARIABLES queue,      \* BlockQueue.queue
          writeLock,  \* holder of write_lock
          readLock,   \* holder of read_lock
          pc,         \* where each goroutine is inside Push or Pop
          result,     \* what the last Pop of each consumer returned
          pushes      \* how many pushes were made, for the bound

queueVars == <<queue, writeLock, readLock, pc, result, pushes>>
vars == <<queueVars, blockVars>>

Inner == INSTANCE FifoQueue WITH Reader <- Consumers, Element <- Item,
                                 Nothing <- Zero,
                                 items <- queue, answer <- result

PushPlace == {"idle", "pushed", "signal", "signalled"}
PopPlace == {"idle", "empty", "nonempty", "woken"}

TypeOK ==
  /\ BlockTypeOK
  /\ Inner!TypeOK
  /\ writeLock \in Producers \cup {Free}
  /\ readLock \in Consumers \cup {Free}
  /\ pc \in [Proc -> PushPlace \cup PopPlace]
  /\ pushes \in Nat

Init ==
  /\ BlockInit
  /\ Inner!Init
  /\ writeLock = Free
  /\ readLock = Free
  /\ pc = [p \in Proc |-> "idle"]
  /\ pushes = 0

-----------------------------------------------------------------------------

\* Push: lock write_lock and add to the inner queue.
PushItem(p) ==
  /\ pc[p] = "idle"
  /\ writeLock = Free
  /\ pushes < MaxPush
  /\ writeLock' = p
  /\ \E x \in Item : Inner!Put(x)
  /\ pushes' = pushes + 1
  /\ pc' = [pc EXCEPT ![p] = "pushed"]
  /\ UNCHANGED <<readLock, blockVars>>

\* The size is read after the inner queue gave up its mutex: a consumer may
\* have taken the item already.  Only a size of exactly one is signalled.
PushCheckSize(p) ==
  /\ pc[p] = "pushed"
  /\ IF Len(queue) = 1
       THEN /\ pc' = [pc EXCEPT ![p] = "signal"]
            /\ UNCHANGED writeLock
       ELSE /\ pc' = [pc EXCEPT ![p] = "idle"]
            /\ writeLock' = Free
  /\ UNCHANGED <<queue, readLock, result, pushes, blockVars>>

PushSignal(p) ==
  /\ pc[p] = "signal"
  /\ ReleaseEnter(p)
  /\ pc' = [pc EXCEPT ![p] = "signalled"]
  /\ UNCHANGED <<queue, writeLock, readLock, result, pushes>>

PushWake(p, c) ==
  /\ Handoff(p, c)
  /\ UNCHANGED queueVars

PushClear(p) ==
  /\ ReleaseClear(p)
  /\ UNCHANGED queueVars

\* Mutant: write_lock is not given back after a signal.
PushReturnKeepsLock(p) ==
  /\ pc[p] = "signalled"
  /\ at[p] = "out"
  /\ pc' = [pc EXCEPT ![p] = "idle"]
  /\ UNCHANGED <<queue, writeLock, readLock, result, pushes, blockVars>>

PushReturn(p) ==
  /\ pc[p] = "signalled"
  /\ at[p] = "out"
  /\ pc' = [pc EXCEPT ![p] = "idle"]
  /\ writeLock' = Free
  /\ UNCHANGED <<queue, readLock, result, pushes, blockVars>>

\* Pop: lock read_lock and look at the length, without the queue's mutex.
PopCheckLength(c) ==
  /\ pc[c] = "idle"
  /\ readLock = Free
  /\ readLock' = c
  /\ pc' = [pc EXCEPT ![c] = IF queue = <<>> THEN "empty" ELSE "nonempty"]
  /\ UNCHANGED <<queue, writeLock, result, pushes, blockVars>>

PopWait(c) ==
  /\ pc[c] = "empty"
  /\ TakeEnter(c)
  /\ pc' = [pc EXCEPT ![c] = "woken"]
  /\ UNCHANGED <<queue, writeLock, readLock, result, pushes>>

\* Mutant: Pop returns without giving read_lock back.
PopItemKeepsLock(c) ==
  /\ pc[c] \in {"nonempty", "woken"}
  /\ at[c] = "out"
  /\ Inner!Get(c) \/ Inner!GetNothing(c)
  /\ pc' = [pc EXCEPT ![c] = "idle"]
  /\ UNCHANGED <<writeLock, readLock, pushes, blockVars>>

\* The inner Pop, at once or when Take has returned.  The length is not looked
\* at again, and the bool the inner Pop returns is dropped.
PopItem(c) ==
  /\ pc[c] \in {"nonempty", "woken"}
  /\ at[c] = "out"
  /\ Inner!Get(c) \/ Inner!GetNothing(c)
  /\ readLock' = Free
  /\ pc' = [pc EXCEPT ![c] = "idle"]
  /\ UNCHANGED <<writeLock, pushes, blockVars>>

-----------------------------------------------------------------------------
Push(p) ==
  \/ PushItem(p)
  \/ PushCheckSize(p)
  \/ PushSignal(p)
  \/ \E c \in Consumers : PushWake(p, c)
  \/ PushClear(p)
  \/ PushReturn(p)

Pop(c) == PopCheckLength(c) \/ PopWait(c) \/ PopItem(c)

Next == (\E p \in Producers : Push(p)) \/ (\E c \in Consumers : Pop(c))

(***************************************************************************)
(* The Go scheduler runs every goroutine that can run, and sync.Mutex is   *)
(* starvation free.  A producer need not push, but finishes the push it    *)
(* began; the consumers pop for ever, as HandleRoutingRequest does.        *)
(***************************************************************************)
Fairness ==
  /\ \A p \in Producers : WF_vars(Push(p) /\ pc[p] # "idle")
  /\ \A c \in Consumers : SF_vars(Pop(c))

Spec == Init /\ [][Next]_vars
FairSpec == Spec /\ Fairness

-----------------------------------------------------------------------------
(***************************************************************************)
(* A Pop that found the queue non-empty still finds it so when it takes    *)
(* the item, however many consumers there are: read_lock protects the      *)
(* check.                                                                  *)
(***************************************************************************)
CheckStaysGood == \A c \in Consumers : pc[c] = "nonempty" => queue # <<>>

\* The two locks do what they are for, and only the right side of the Block
\* is used: producers release it, consumers take it.
QueueMutex ==
  /\ \A p \in Producers : pc[p] # "idle" <=> writeLock = p
  /\ \A c \in Consumers : pc[c] # "idle" <=> readLock = c
  /\ \A p \in Producers : /\ pc[p] \in PushPlace
                          /\ at[p] \in {"sending", "clearing", "out"}
                          /\ at[p] # "out" => pc[p] = "signalled"
  /\ \A c \in Consumers : /\ pc[c] \in PopPlace
                          /\ at[c] \in {"receiving", "out"}
                          /\ at[c] # "out" => pc[c] = "woken"

\* The inductive invariant behind the safety properties of Block and this module.
IInv ==
  /\ TypeOK
  /\ BlockMutex
  /\ LockedMeansWaiting
  /\ SenderHasReceiver
  /\ QueueMutex
  /\ CheckStaysGood

(***************************************************************************)
(* A consumer sleeps while the queue holds items and no push is on its     *)
(* way to wake it.                                                         *)
(***************************************************************************)
WakeupLost(c) ==
  /\ at[c] = "receiving"
  /\ queue # <<>>
  /\ \A p \in Producers : /\ pc[p] # "signal"
                          /\ at[p] # "sending"
                          /\ pc[p] = "pushed" => Len(queue) # 1

(***************************************************************************)
(* A Push always returns: whoever waits inside Block.Release finds its     *)
(* taker.  This is what lets a runner or a client put in a request without *)
(* being held up by the reader.                                            *)
(***************************************************************************)
PushCompletes == \A p \in Producers : writeLock = p ~> writeLock # p

(***************************************************************************)
(* The lost wakeup is the only way in which a queued item is not taken.    *)
(***************************************************************************)
DrainedOrLost ==
  queue # <<>> ~> (queue = <<>> \/ \E c \in Consumers : WakeupLost(c))

(***************************************************************************)
(* What the comment on Pop says: it blocks until an item is added.  A Pop  *)
(* that waits in Take while the queue holds an item must come back.  The   *)
(* code does not keep this: a Push between the length check and the Take   *)
(* finds is_locked clear, and every later one sees more than one item.     *)
(***************************************************************************)
PopReturnsOnceAdded ==
  \A c \in Consumers :
    at[c] = "receiving" /\ queue # <<>> ~> at[c] # "receiving"

=============================================================================
