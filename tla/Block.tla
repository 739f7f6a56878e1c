------------------------------- MODULE Block -------------------------------
(***************************************************************************)
(* util.Block: a hand-made binary wait object.  Take sets is_locked and    *)
(* then receives from an unbuffered channel; Release looks at is_locked    *)
(* and, when it is set, sends on that channel and clears is_locked.  Two   *)
(* mutexes serialise takers among themselves and releasers among           *)
(* themselves, but nothing orders a taker against a releaser: is_locked is *)
(* read and written by both sides without a common lock.                   *)
(*                                                                         *)
(* A step is one access to shared state.  Taking a mutex is merged with    *)
(* the access that follows it and giving it back with the access before    *)
(* it, which loses no interleaving.                                        *)
(***************************************************************************)
EXTENDS Naturals

CONSTANTS Proc,   \* the goroutines that use this Block
          Free    \* "nobody": the value of a mutex that is not held

ASSUME FreeAssumption == Free \notin Proc

VARIABLES isLocked,     \* Block.is_locked
          takeLock,     \* the holder of Block.take_lock
          releaseLock,  \* the holder of Block.release_lock
          at            \* where each goroutine is inside Take or Release

blockVars == <<isLocked, takeLock, releaseLock, at>>

Place == {"out", "receiving", "sending", "clearing"}

BlockTypeOK ==
  /\ isLocked \in BOOLEAN
  /\ takeLock \in Proc \cup {Free}
  /\ releaseLock \in Proc \cup {Free}
  /\ at \in [Proc -> Place]

\* NewBlock: nothing held, the channel is unbuffered.
BlockInit ==
  /\ isLocked = FALSE
  /\ takeLock = Free
  /\ releaseLock = Free
  /\ at = [p \in Proc |-> "out"]

-----------------------------------------------------------------------------
\* Take up to the receive: lock take_lock, is_locked = true.
TakeEnter(p) ==
  /\ at[p] = "out"
  /\ takeLock = Free
  /\ takeLock' = p
  /\ isLocked' = TRUE
  /\ at' = [at EXCEPT ![p] = "receiving"]
  /\ UNCHANGED releaseLock

\* Release up to the send: lock release_lock and read is_locked.  When it is
\* clear the call returns at once, and nothing remembers that it was made.
ReleaseEnter(p) ==
  /\ at[p] = "out"
  /\ releaseLock = Free
  /\ IF isLocked
       THEN /\ releaseLock' = p
            /\ at' = [at EXCEPT ![p] = "sending"]
       ELSE UNCHANGED <<releaseLock, at>>
  /\ UNCHANGED <<isLocked, takeLock>>

\* The rendezvous on the unbuffered channel; the taker then returns.
Handoff(r, t) ==
  /\ at[r] = "sending"
  /\ at[t] = "receiving"
  /\ at' = [at EXCEPT ![r] = "clearing", ![t] = "out"]
  /\ takeLock' = Free
  /\ UNCHANGED <<isLocked, releaseLock>>

\* Mutant: Release forgets to clear is_locked.
ReleaseForgetsFlag(r) ==
  /\ at[r] = "clearing"
  /\ releaseLock' = Free
  /\ at' = [at EXCEPT ![r] = "out"]
  /\ UNCHANGED <<isLocked, takeLock>>

\* The end of Release: is_locked = false, after the taker has left.
ReleaseClear(r) ==
  /\ at[r] = "clearing"
  /\ isLocked' = FALSE
  /\ releaseLock' = Free
  /\ at' = [at EXCEPT ![r] = "out"]
  /\ UNCHANGED takeLock

-----------------------------------------------------------------------------
(***************************************************************************)
(* A releaser that is about to send has a taker at the other end of the    *)
(* channel, so Release never blocks for good.  is_locked alone does not    *)
(* say so: it stays set while a releaser is clearing it.                   *)
(***************************************************************************)
SenderHasReceiver ==
  \A r \in Proc : at[r] = "sending" => \E t \in Proc : at[t] = "receiving"

\* The two mutexes do what they are for.
BlockMutex ==
  /\ \A p \in Proc : at[p] = "receiving" <=> takeLock = p
  /\ \A p \in Proc : at[p] \in {"sending", "clearing"} <=> releaseLock = p

(***************************************************************************)
(* What makes SenderHasReceiver inductive: while is_locked is set, either  *)
(* a taker waits, or a releaser is past the send and will clear it.        *)
(***************************************************************************)
LockedMeansWaiting ==
  isLocked => \/ \E t \in Proc : at[t] = "receiving"
              \/ \E r \in Proc : at[r] = "clearing"
=============================================================================
