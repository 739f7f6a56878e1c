------------------------------- MODULE Queue -------------------------------
(***************************************************************************)
(* util.Queue: a singly linked list with a head, a tail and a length.      *)
(* Push and the second half of Pop hold the queue's mutex; Pop looks at    *)
(* the length before it takes the mutex, and does not look again.          *)
(*                                                                         *)
(* The list cells are kept in the order they were allocated and a pointer  *)
(* is an index into them, 0 being nil.  A cell that nothing points to any  *)
(* more stays where it is: garbage collection is not modelled.             *)
(***************************************************************************)
EXTENDS Naturals, Sequences

CONSTANTS Poppers,            \* the goroutines that call Pop
          Value,
          NoValue,            \* Pop's answer (zero value, false)
          MaxCells            \* bound: how many pushes are explored

ASSUME QueueAssumption == NoValue \notin Value /\ MaxCells \in Nat

VARIABLES cells,      \* every _QueueItem ever allocated
          head, tail, \* Queue.head, Queue.tail
          length,     \* Queue.length
          popping,    \* the poppers that passed the length check
          answer,     \* what each popper's last Pop returned
          panicked    \* a nil head was dereferenced

listVars == <<cells, head, tail, length, popping, answer, panicked>>

Nil == 0
Cell == [value : Value, next : Nat]

ListTypeOK ==
  /\ cells \in Seq(Cell)
  /\ head \in 0..Len(cells)
  /\ tail \in 0..Len(cells)
  /\ length \in Nat
  /\ popping \subseteq Poppers
  /\ answer \in [Poppers -> Value \cup {NoValue}]
  /\ panicked \in BOOLEAN

ListInit ==
  /\ cells = <<>>
  /\ head = Nil
  /\ tail = Nil
  /\ length = 0
  /\ popping = {}
  /\ answer = [p \in Poppers |-> NoValue]
  /\ panicked = FALSE

-----------------------------------------------------------------------------
Allocate(x) == Append(cells, [value |-> x, next |-> Nil])

\* Push, under the mutex from its first line to its last.
PushCell(x) ==
  /\ ~panicked
  /\ Len(cells) < MaxCells
  /\ tail' = Len(cells) + 1
  /\ IF head = Nil
       THEN /\ cells' = Allocate(x)
            /\ head' = Len(cells) + 1
            /\ length' = 1
       ELSE /\ cells' = [Allocate(x) EXCEPT ![tail].next = Len(cells) + 1]
            /\ length' = length + 1
            /\ UNCHANGED head
  /\ UNCHANGED <<popping, answer, panicked>>

\* Mutant: the check is off by one, an empty queue passes it.
PopCheckOffByOne(p) ==
  /\ ~panicked
  /\ p \notin popping
  /\ IF length < 0
       THEN /\ answer' = [answer EXCEPT ![p] = NoValue]
            /\ UNCHANGED popping
       ELSE /\ popping' = popping \cup {p}
            /\ UNCHANGED answer
  /\ UNCHANGED <<cells, head, tail, length, panicked>>

\* The first lines of Pop: the length is read without the mutex.
PopCheck(p) ==
  /\ ~panicked
  /\ p \notin popping
  /\ IF length = 0
       THEN /\ answer' = [answer EXCEPT ![p] = NoValue]
            /\ UNCHANGED popping
       ELSE /\ popping' = popping \cup {p}
            /\ UNCHANGED answer
  /\ UNCHANGED <<cells, head, tail, length, panicked>>

\* Mutant: the newest item is returned.
PopHeadNewest(p) ==
  /\ ~panicked
  /\ p \in popping
  /\ head # Nil
  /\ answer' = [answer EXCEPT ![p] = cells[tail].value]
  /\ head' = cells[head].next
  /\ length' = length - 1
  /\ popping' = popping \ {p}
  /\ UNCHANGED <<cells, tail, panicked>>

\* The rest of Pop, under the mutex.  The program dies on a nil head.
PopHead(p) ==
  /\ ~panicked
  /\ p \in popping
  /\ IF head = Nil
       THEN /\ panicked' = TRUE
            /\ UNCHANGED <<head, length, popping, answer>>
       ELSE /\ answer' = [answer EXCEPT ![p] = cells[head].value]
            /\ head' = cells[head].next
            /\ length' = length - 1
            /\ popping' = popping \ {p}
            /\ UNCHANGED panicked
  /\ UNCHANGED <<cells, tail>>

ListNext ==
  \/ \E x \in Value : PushCell(x)
  \/ \E p \in Poppers : PopCheck(p) \/ PopHead(p)

ListSpec == ListInit /\ [][ListNext]_listVars

-----------------------------------------------------------------------------
(***************************************************************************)
(* The list is the stretch of cells from the head to the newest one: Push, *)
(* which finds the end by the tail, and Pop, which finds the front by the  *)
(* head, agree on it.  The tail left over from an emptied list is stale,   *)
(* but Push replaces it before it is followed.                             *)
(***************************************************************************)
WellLinked ==
  /\ head = Nil <=> length = 0
  /\ head # Nil => /\ tail = Len(cells)
                   /\ length = Len(cells) - head + 1
                   /\ cells[tail].next = Nil
                   /\ \A i \in head..(Len(cells) - 1) : cells[i].next = i + 1

(***************************************************************************)
(* With one popper at a time the length check stays good until the pop:    *)
(* no nil head is ever dereferenced.                                       *)
(***************************************************************************)
PopFindsItem == popping # {} => head # Nil

\* What the list holds, oldest first.
Held == IF head = Nil THEN <<>>
        ELSE [i \in 1..length |-> cells[head + i - 1].value]

Fifo == INSTANCE FifoQueue WITH Reader <- Poppers, Element <- Value,
                                Nothing <- NoValue, items <- Held

\* The linked list behaves as the queue its comments describe.
ImplementsFifo == Fifo!Spec

=============================================================================
