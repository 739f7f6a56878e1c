-------------------------- MODULE ConcurrencyProofs -------------------------
(***************************************************************************)
(* Proofs about util.Block and util.BlockQueue, for any number of          *)
(* producers, consumers and items, and about util.Queue under them: with   *)
(* one popper at a time, as read_lock leaves it, the linked list is a FIFO *)
(* queue.  Then about the draw contexts, for any number of clients and     *)
(* keys.                                                                   *)
(***************************************************************************)
EXTENDS BlockQueue, Queue, DrawContexts, SequenceTheorems, TLAPS

\* Every step keeps every variable within its type: no goroutine is ever at a
\* place that Push, Pop, Take and Release do not have.
LEMMA TypeStep == TypeOK /\ [Next]_vars => TypeOK'
<1> SUFFICES ASSUME TypeOK, [Next]_vars PROVE TypeOK'
  OBVIOUS
<1> USE BlockQueueAssumption DEF TypeOK, BlockTypeOK, Place, Inner!TypeOK,
                                 PushPlace, PopPlace, queueVars, blockVars
<1>1. ASSUME NEW p \in Producers, PushItem(p) PROVE TypeOK'
  BY <1>1 DEF PushItem, Inner!Put
<1>2. ASSUME NEW p \in Producers, PushCheckSize(p) PROVE TypeOK'
  BY <1>2 DEF PushCheckSize
<1>3. ASSUME NEW p \in Producers, PushSignal(p) PROVE TypeOK'
  BY <1>3 DEF PushSignal, ReleaseEnter
<1>4. ASSUME NEW p \in Producers, NEW c \in Consumers, PushWake(p, c) PROVE TypeOK'
  BY <1>4 DEF PushWake, Handoff
<1>5. ASSUME NEW p \in Producers, PushClear(p) PROVE TypeOK'
  BY <1>5 DEF PushClear, ReleaseClear
<1>6. ASSUME NEW p \in Producers, PushReturn(p) PROVE TypeOK'
  BY <1>6 DEF PushReturn
<1>7. ASSUME NEW c \in Consumers, PopCheckLength(c) PROVE TypeOK'
  BY <1>7 DEF PopCheckLength
<1>8. ASSUME NEW c \in Consumers, PopWait(c) PROVE TypeOK'
  BY <1>8 DEF PopWait, TakeEnter
<1>9. ASSUME NEW c \in Consumers, PopItem(c) PROVE TypeOK'
  <2>1. CASE Inner!Get(c)
    <3>1. Head(queue) \in Item /\ Tail(queue) \in Seq(Item)
      BY <2>1 DEF Inner!Get
    <3>2. QED
      BY <1>9, <2>1, <3>1 DEF PopItem, Inner!Get
  <2>2. CASE Inner!GetNothing(c)
    BY <1>9, <2>2 DEF PopItem, Inner!GetNothing
  <2>3. QED
    BY <1>9, <2>1, <2>2 DEF PopItem
<1>10. CASE UNCHANGED vars
  BY <1>10 DEF vars
<1>11. QED
  BY <1>1, <1>2, <1>3, <1>4, <1>5, <1>6, <1>7, <1>8, <1>9, <1>10
  DEF Next, Push, Pop

\* The type invariant of Block and BlockQueue.
THEOREM TypeCorrect == Spec => []TypeOK
<1>1. Init => TypeOK
  <2> SUFFICES ASSUME Init PROVE TypeOK
    OBVIOUS
  <2>1. BlockTypeOK
    BY DEF Init, BlockInit, BlockTypeOK, Place
  <2>2. Inner!TypeOK
    BY DEF Init, Inner!Init, Inner!TypeOK
  <2>3. QED
    BY <2>1, <2>2 DEF Init, TypeOK, PushPlace, PopPlace
<1>2. QED
  BY <1>1, TypeStep, PTL DEF Spec

-----------------------------------------------------------------------------
(***************************************************************************)
(* The argument for SenderHasReceiver.  A releaser starts to send only     *)
(* while is_locked is set and release_lock is free, so nobody is clearing, *)
(* and by LockedMeansWaiting a taker waits.  That taker leaves only by the *)
(* handoff, which also takes the releaser out of the send.                 *)
(***************************************************************************)
Inv == BlockMutex /\ LockedMeansWaiting /\ SenderHasReceiver /\ QueueMutex

LEMMA FreeIsNobody == Free \notin Producers /\ Free \notin Consumers
  BY FreeAssumption, BlockQueueAssumption

LEMMA InvStep == TypeOK /\ Inv /\ [Next]_vars => Inv'
<1> SUFFICES ASSUME TypeOK, Inv, [Next]_vars PROVE Inv'
  OBVIOUS
<1> USE BlockQueueAssumption, FreeIsNobody, FreeAssumption
    DEF TypeOK, BlockTypeOK, Place, PushPlace, PopPlace, Inv, BlockMutex,
        LockedMeansWaiting, SenderHasReceiver, QueueMutex, blockVars, queueVars
<1>1. ASSUME NEW p \in Producers, PushItem(p) PROVE Inv'
  BY <1>1 DEF PushItem
<1>2. ASSUME NEW p \in Producers, PushCheckSize(p) PROVE Inv'
  BY <1>2 DEF PushCheckSize
<1>3. ASSUME NEW p \in Producers, PushSignal(p) PROVE Inv'
  BY <1>3 DEF PushSignal, ReleaseEnter
<1>4. ASSUME NEW p \in Producers, NEW c \in Consumers, PushWake(p, c) PROVE Inv'
  BY <1>4 DEF PushWake, Handoff
<1>5. ASSUME NEW p \in Producers, PushClear(p) PROVE Inv'
  BY <1>5 DEF PushClear, ReleaseClear
<1>6. ASSUME NEW p \in Producers, PushReturn(p) PROVE Inv'
  BY <1>6 DEF PushReturn
<1>7. ASSUME NEW c \in Consumers, PopCheckLength(c) PROVE Inv'
  BY <1>7 DEF PopCheckLength
<1>8. ASSUME NEW c \in Consumers, PopWait(c) PROVE Inv'
  BY <1>8 DEF PopWait, TakeEnter
<1>9. ASSUME NEW c \in Consumers, PopItem(c) PROVE Inv'
  BY <1>9 DEF PopItem
<1>10. CASE UNCHANGED vars
  BY <1>10 DEF vars
<1>11. QED
  BY <1>1, <1>2, <1>3, <1>4, <1>5, <1>6, <1>7, <1>8, <1>9, <1>10
  DEF Next, Push, Pop

\* Whatever the queue loses, it loses by a Pop, and read_lock keeps that Pop
\* apart from a consumer that has checked the length.
LEMMA CheckStep == TypeOK /\ Inv /\ CheckStaysGood /\ [Next]_vars => CheckStaysGood'
<1> SUFFICES ASSUME TypeOK, Inv, CheckStaysGood, [Next]_vars,
                    NEW d \in Consumers, pc'[d] = "nonempty"
             PROVE  queue' # <<>>
  BY DEF CheckStaysGood
<1> USE BlockQueueAssumption DEF TypeOK, Inner!TypeOK, Inv, QueueMutex, queueVars
<1>1. ASSUME NEW p \in Producers, PushItem(p) PROVE queue' # <<>>
  BY <1>1 DEF PushItem, Inner!Put
<1>2. ASSUME NEW c \in Consumers, PopCheckLength(c) PROVE queue' # <<>>
  BY <1>2 DEF PopCheckLength, CheckStaysGood
<1>3. ASSUME NEW c \in Consumers, PopItem(c) PROVE queue' # <<>>
  BY <1>3 DEF PopItem
<1>4. ASSUME UNCHANGED queue, pc[d] = "nonempty" PROVE queue' # <<>>
  BY <1>4 DEF CheckStaysGood
<1>5. ASSUME NEW p \in Producers,
             \/ PushCheckSize(p)
             \/ PushSignal(p)
             \/ \E c \in Consumers : PushWake(p, c)
             \/ PushClear(p)
             \/ PushReturn(p)
      PROVE  queue' # <<>>
  BY <1>4, <1>5
  DEF PushCheckSize, PushSignal, PushWake, PushClear, PushReturn
<1>6. ASSUME NEW c \in Consumers, PopWait(c) PROVE queue' # <<>>
  BY <1>4, <1>6 DEF PopWait
<1>7. CASE UNCHANGED vars
  BY <1>4, <1>7 DEF vars
<1>8. QED
  BY <1>1, <1>2, <1>3, <1>5, <1>6, <1>7 DEF Next, Push, Pop

\* The inductive invariant holds in every reachable state.
THEOREM Invariance == Spec => []IInv
<1>1. Init => Inv /\ CheckStaysGood
  BY FreeIsNobody, FreeAssumption, BlockQueueAssumption
  DEF Init, BlockInit, Inv, BlockMutex, LockedMeansWaiting, SenderHasReceiver,
      QueueMutex, CheckStaysGood, PushPlace, PopPlace
<1>2. QED
  BY <1>1, TypeCorrect, InvStep, CheckStep, PTL DEF Spec, IInv, Inv

\* A Release that is about to send always has a taker to send to: no Push is
\* ever held up by the wakeup it gives.
THEOREM ReleaseFindsTaker == Spec => []SenderHasReceiver
  BY Invariance, PTL DEF IInv

\* The length a Pop has seen stays good until it takes the item.
THEOREM PopCheckIsSafe == Spec => []CheckStaysGood
  BY Invariance, PTL DEF IInv

-----------------------------------------------------------------------------
(* The linked list. *)

SinglePopper == \A p, q \in Poppers : p = q

ListIInv == ListTypeOK /\ WellLinked /\ PopFindsItem

\* What a Push does to the cells: one more at the end, and the old last cell
\* points to it if the list was not empty.
LEMMA CellsPushed ==
  ASSUME ListTypeOK, WellLinked, NEW x \in Value, PushCell(x)
  PROVE  /\ cells' \in Seq(Cell)
         /\ Len(cells') = Len(cells) + 1
         /\ cells'[Len(cells) + 1] = [value |-> x, next |-> Nil]
         /\ \A i \in 1..Len(cells) : cells'[i].value = cells[i].value
         /\ \A i \in 1..(Len(cells) - 1) : cells'[i].next = cells[i].next
         /\ head # Nil => cells'[Len(cells)].next = Len(cells) + 1
<1> DEFINE c == [value |-> x, next |-> Nil]
           app == Append(cells, c)
           n == Len(cells)
<1>1. cells \in Seq(Cell) /\ n \in Nat /\ head \in 0..n
  BY LenProperties DEF ListTypeOK
<1>2. c \in Cell
  BY DEF Cell, Nil
<1>3. /\ app \in Seq(Cell)
      /\ Len(app) = n + 1
      /\ \A i \in 1..n : app[i] = cells[i]
      /\ app[n + 1] = c
  BY <1>1, <1>2, AppendProperties
<1>4. CASE head = Nil
  BY <1>1, <1>3, <1>4 DEF PushCell, Allocate
<1>5. CASE head # Nil
  <2> DEFINE e == [cells[n] EXCEPT !.next = n + 1]
  <2>1. n \in 1..n /\ tail = n
    BY <1>1, <1>5 DEF WellLinked, Nil
  <2>2. cells[n] \in Cell
    BY <1>1, <2>1, ElementOfSeq
  <2>3. e \in Cell /\ e.value = cells[n].value /\ e.next = n + 1
    BY <1>1, <2>2 DEF Cell
  <2>4. cells' = [app EXCEPT ![n] = e]
    <3>1. cells' = [app EXCEPT ![n].next = n + 1]
      BY <1>5, <2>1 DEF PushCell, Allocate
    <3>2. app[n] = cells[n]
      BY <1>3, <2>1
    <3>3. QED
      BY <3>1, <3>2
  <2>5. n \in 1..Len(app)
    BY <1>1, <1>3, <2>1
  <2>6. /\ cells' \in Seq(Cell)
        /\ Len(cells') = n + 1
        /\ \A i \in 1..(n + 1) : cells'[i] = IF i = n THEN e ELSE app[i]
    <3> HIDE DEF app, e
    <3>1. QED
      BY <1>3, <2>3, <2>4, <2>5, ExceptSeq
  <2>7. cells'[n + 1] = c /\ cells'[n] = e /\ \A i \in 1..(n - 1) : cells'[i] = cells[i]
    <3> HIDE DEF app, e, c, n
    <3>1. QED
      BY <1>1, <1>3, <2>1, <2>6
  <2>8. QED
    <3> HIDE DEF app, e, n
    <3>1. \A i \in 1..n : cells'[i].value = cells[i].value
      <4> TAKE i \in 1..n
      <4>1. CASE i = n
        BY <4>1, <2>3, <2>7
      <4>2. CASE i # n
        BY <1>1, <4>2, <2>7
      <4>3. QED
        BY <4>1, <4>2
    <3>2. QED
      BY <2>3, <2>6, <2>7, <3>1 DEF n
<1>6. QED
  BY <1>4, <1>5

\* The head's cell, when there is one.
LEMMA HeadCell ==
  ASSUME ListTypeOK, WellLinked, head # Nil
  PROVE  /\ head \in 1..Len(cells)
         /\ cells[head] \in Cell
         /\ length \in Nat /\ length >= 1
         /\ cells[head].next = IF head = Len(cells) THEN Nil ELSE head + 1
<1>1. cells \in Seq(Cell) /\ Len(cells) \in Nat /\ head \in 1..Len(cells)
  BY LenProperties DEF ListTypeOK, Nil
<1>2. cells[head] \in Cell
  BY <1>1, ElementOfSeq
<1>3. QED
  BY <1>1, <1>2 DEF ListTypeOK, WellLinked, Nil

LEMMA ListStep == SinglePopper /\ ListIInv /\ [ListNext]_listVars => ListIInv'
<1> SUFFICES ASSUME SinglePopper, ListIInv, [ListNext]_listVars PROVE ListIInv'
  OBVIOUS
<1>1. cells \in Seq(Cell) /\ Len(cells) \in Nat
  BY LenProperties DEF ListIInv, ListTypeOK
<1>2. ASSUME NEW x \in Value, PushCell(x) PROVE ListIInv'
  <2>1. /\ cells' \in Seq(Cell)
        /\ Len(cells') = Len(cells) + 1
        /\ cells'[Len(cells) + 1] = [value |-> x, next |-> Nil]
        /\ \A i \in 1..(Len(cells) - 1) : cells'[i].next = cells[i].next
        /\ head # Nil => cells'[Len(cells)].next = Len(cells) + 1
    BY <1>2, CellsPushed DEF ListIInv
  <2>2. ListTypeOK'
    BY <1>1, <1>2, <2>1 DEF ListIInv, ListTypeOK, PushCell, Nil
  <2>3. WellLinked'
    <3>1. CASE head = Nil
      BY <1>1, <1>2, <2>1, <3>1 DEF PushCell, WellLinked, Nil
    <3>2. CASE head # Nil
      <4>1. /\ head \in 1..Len(cells) /\ length \in Nat /\ length >= 1
            /\ length = Len(cells) - head + 1
            /\ \A i \in head..(Len(cells) - 1) : cells[i].next = i + 1
        BY <3>2, HeadCell DEF ListIInv, WellLinked
      <4>2. head' = head /\ length' = length + 1 /\ tail' = Len(cells) + 1
        BY <1>2, <3>2 DEF PushCell
      <4>3. \A i \in head..Len(cells) : cells'[i].next = i + 1
        <5> TAKE i \in head..Len(cells)
        <5>1. CASE i = Len(cells)
          BY <2>1, <3>2, <5>1
        <5>2. CASE i # Len(cells)
          <6>1. i \in 1..(Len(cells) - 1) /\ i \in head..(Len(cells) - 1)
            BY <1>1, <4>1, <5>2
          <6>2. QED
            BY <2>1, <4>1, <6>1
        <5>3. QED
          BY <5>1, <5>2
      <4>4. QED
        BY <1>1, <2>1, <3>2, <4>1, <4>2, <4>3 DEF WellLinked, Nil
    <3>3. QED
      BY <3>1, <3>2
  <2>4. PopFindsItem'
    BY <1>1, <1>2 DEF PushCell, ListIInv, PopFindsItem, Nil
  <2>5. QED
    BY <2>2, <2>3, <2>4 DEF ListIInv
<1>3. ASSUME NEW p \in Poppers, PopCheck(p) PROVE ListIInv'
  BY <1>3 DEF ListIInv, ListTypeOK, WellLinked, PopFindsItem, PopCheck, Nil
<1>4. ASSUME NEW p \in Poppers, PopHead(p) PROVE ListIInv'
  <2>1. head # Nil /\ popping = {p}
    BY <1>4 DEF PopHead, ListIInv, PopFindsItem, ListTypeOK, SinglePopper
  <2>2. /\ head \in 1..Len(cells)
        /\ cells[head] \in Cell
        /\ length \in Nat /\ length >= 1
        /\ cells[head].next = IF head = Len(cells) THEN Nil ELSE head + 1
    BY <2>1, HeadCell DEF ListIInv
  <2>3. /\ answer' = [answer EXCEPT ![p] = cells[head].value]
        /\ head' = cells[head].next
        /\ length' = length - 1
        /\ popping' = {}
        /\ UNCHANGED <<cells, tail, panicked>>
    BY <1>4, <2>1 DEF PopHead
  <2>4. ListTypeOK'
    BY <1>1, <2>2, <2>3 DEF ListIInv, ListTypeOK, Cell, Nil
  <2>5. WellLinked'
    <3>1. /\ tail = Len(cells)
          /\ length = Len(cells) - head + 1
          /\ cells[tail].next = Nil
          /\ \A i \in head..(Len(cells) - 1) : cells[i].next = i + 1
      BY <2>1 DEF ListIInv, WellLinked
    <3>2. CASE head = Len(cells)
      BY <1>1, <2>2, <2>3, <3>1, <3>2 DEF WellLinked, Nil
    <3>3. CASE head # Len(cells)
      <4>1. head' = head + 1 /\ head' \in 2..Len(cells) /\ length' = Len(cells) - head' + 1
        BY <1>1, <2>2, <2>3, <3>1, <3>3
      <4>2. \A i \in head'..(Len(cells) - 1) : cells[i].next = i + 1
        BY <1>1, <2>2, <3>1, <4>1
      <4>3. QED
        BY <1>1, <2>3, <3>1, <4>1, <4>2 DEF WellLinked, Nil
    <3>4. QED
      BY <3>2, <3>3
  <2>6. PopFindsItem'
    BY <2>3 DEF PopFindsItem
  <2>7. QED
    BY <2>4, <2>5, <2>6 DEF ListIInv
<1>5. CASE UNCHANGED listVars
  BY <1>5 DEF listVars, ListIInv, ListTypeOK, WellLinked, PopFindsItem
<1>6. QED
  BY <1>2, <1>3, <1>4, <1>5 DEF ListNext

LEMMA ListBegins == ListInit => ListIInv
<1> SUFFICES ASSUME ListInit PROVE ListIInv
  OBVIOUS
<1>1. cells \in Seq(Cell) /\ Len(cells) = 0
  BY EmptySeq DEF ListInit
<1>2. ListTypeOK
  <2>1. head \in 0..Len(cells) /\ tail \in 0..Len(cells)
    BY <1>1 DEF ListInit, Nil
  <2>2. QED
    BY <1>1, <2>1 DEF ListInit, ListTypeOK
<1>3. WellLinked /\ PopFindsItem
  BY DEF ListInit, WellLinked, PopFindsItem, Nil
<1>4. QED
  BY <1>2, <1>3 DEF ListIInv

\* The type, the shape of the list and the check that stays good, for one popper.
THEOREM ListInvariance ==
  ASSUME SinglePopper
  PROVE  ListSpec => []ListIInv
<1>1. ListIInv /\ [ListNext]_listVars => ListIInv'
  BY ListStep
<1>2. QED
  BY ListBegins, <1>1, PTL DEF ListSpec

\* With one popper the length check of Pop stays good until the head is read,
\* so no nil head is dereferenced.
THEOREM PopIsSafe ==
  ASSUME SinglePopper
  PROVE  ListSpec => [](PopFindsItem)
<1>1. ListSpec => []ListIInv
  BY ListInvariance
<1>2. QED
  BY <1>1, PTL DEF ListIInv

-----------------------------------------------------------------------------
HeldOK ==
  /\ Held \in Seq(Value)
  /\ Len(Held) = length
  /\ \A i \in 1..length : Held[i] = cells[head + i - 1].value

LEMMA HeldType == ListIInv => HeldOK
<1> SUFFICES ASSUME ListIInv PROVE HeldOK
  OBVIOUS
<1> USE DEF ListIInv, HeldOK
<1>1. cells \in Seq(Cell) /\ Len(cells) \in Nat /\ head \in 0..Len(cells)
  BY LenProperties DEF ListTypeOK
<1>2. CASE head = Nil
  BY <1>2, EmptySeq DEF Held, WellLinked
<1>3. CASE head # Nil
  <2>1. /\ head \in 1..Len(cells)
        /\ length \in Nat
        /\ length = Len(cells) - head + 1
    BY <1>3, HeadCell DEF WellLinked
  <2>2. \A i \in 1..length : head + i - 1 \in 1..Len(cells)
    BY <1>1, <2>1
  <2>3. \A i \in 1..length : cells[head + i - 1].value \in Value
    <3> TAKE i \in 1..length
    <3>1. cells[head + i - 1] \in Cell
      BY <1>1, <2>2, ElementOfSeq
    <3>2. QED
      BY <3>1 DEF Cell
  <2>4. Held = [i \in 1..length |-> cells[head + i - 1].value]
    BY <1>3 DEF Held
  <2>5. Held \in [1..length -> Value]
    BY <2>3, <2>4
  <2>6. Held \in Seq(Value) /\ Len(Held) = length
    BY <2>1, <2>5, SeqDef, LenProperties
  <2>7. QED
    BY <2>4, <2>6
<1>4. QED
  BY <1>2, <1>3

LEMMA PushPuts ==
  ASSUME ListIInv, ListIInv', NEW x \in Value, PushCell(x)
  PROVE  Held' = Append(Held, x)
<1> DEFINE n == Len(cells)
<1>1. cells \in Seq(Cell) /\ n \in Nat /\ length \in Nat
  BY LenProperties DEF ListIInv, ListTypeOK
<1>2. /\ Len(cells') = n + 1
      /\ cells'[n + 1] = [value |-> x, next |-> Nil]
      /\ \A i \in 1..n : cells'[i].value = cells[i].value
  BY CellsPushed DEF ListIInv
<1>3. /\ Held \in Seq(Value) /\ Len(Held) = length
      /\ \A i \in 1..length : Held[i] = cells[head + i - 1].value
  BY HeldType DEF HeldOK
<1>4. /\ Held' \in Seq(Value) /\ Len(Held') = length'
      /\ \A i \in 1..length' : Held'[i] = cells'[head' + i - 1].value
  <2>1. HeldOK'
    BY HeldType, PTL
  <2>2. QED
    BY <2>1 DEF HeldOK
<1>5. length' = length + 1
  BY <1>1 DEF PushCell, ListIInv, WellLinked
<1>6. \A i \in 1..length : Held'[i] = Held[i]
  <2> TAKE i \in 1..length
  <2>1. head # Nil /\ head' = head
    BY <1>1 DEF PushCell, ListIInv, WellLinked
  <2>2. head \in 1..n /\ length = n - head + 1
    BY <2>1, HeadCell DEF ListIInv, WellLinked
  <2>3. head + i - 1 \in 1..n /\ i \in 1..length'
    BY <1>1, <1>5, <2>2
  <2>4. QED
    BY <1>2, <1>3, <1>4, <2>1, <2>3
<1>7. Held'[length + 1] = x
  <2>1. head' + (length + 1) - 1 = n + 1
    <3>1. CASE head = Nil
      BY <1>1, <3>1 DEF PushCell, ListIInv, WellLinked
    <3>2. CASE head # Nil
      BY <1>1, <3>2, HeadCell DEF PushCell, ListIInv, WellLinked
    <3>3. QED
      BY <3>1, <3>2
  <2>2. length + 1 \in 1..length'
    BY <1>1, <1>5
  <2>3. QED
    BY <1>2, <1>4, <2>1, <2>2
<1>8. QED
  <2> DEFINE a == Append(Held, x)
  <2>1. /\ a \in Seq(Value) /\ Len(a) = length + 1
        /\ \A i \in 1..length : a[i] = Held[i]
        /\ a[length + 1] = x
    BY <1>3, AppendProperties
  <2>2. \A i \in 1..(length + 1) : a[i] = Held'[i]
    <3> HIDE DEF a
    <3>1. QED
      BY <1>1, <1>6, <1>7, <2>1
  <2>3. QED
    <3> HIDE DEF a
    <3>1. Len(a) = Len(Held') /\ \A i \in 1..Len(a) : a[i] = Held'[i]
      BY <1>4, <1>5, <2>1, <2>2
    <3>2. a = Held'
      BY <1>4, <2>1, <3>1, SeqEqual
    <3>3. QED
      BY <3>2 DEF a

LEMMA PopGets ==
  ASSUME ListIInv, ListIInv', NEW p \in Poppers, PopHead(p), head # Nil
  PROVE  /\ Held # <<>>
         /\ Head(Held) = cells[head].value
         /\ Held' = Tail(Held)
<1>1. /\ Held \in Seq(Value) /\ Len(Held) = length
      /\ \A i \in 1..length : Held[i] = cells[head + i - 1].value
  BY HeldType DEF HeldOK
<1>2. /\ Held' \in Seq(Value) /\ Len(Held') = length'
      /\ \A i \in 1..length' : Held'[i] = cells'[head' + i - 1].value
  <2>1. HeldOK'
    BY HeldType, PTL
  <2>2. QED
    BY <2>1 DEF HeldOK
<1>3. /\ head \in 1..Len(cells) /\ Len(cells) \in Nat
      /\ length \in Nat /\ length >= 1 /\ length = Len(cells) - head + 1
      /\ cells[head].next = IF head = Len(cells) THEN Nil ELSE head + 1
  BY HeadCell, LenProperties DEF ListIInv, WellLinked, ListTypeOK
<1>4. Held # <<>>
  <2>1. Len(Held) # 0
    BY <1>1, <1>3
  <2>2. QED
    BY <2>1, EmptySeq
<1>5. Head(Held) = cells[head].value
  <2>1. Head(Held) = Held[1]
    BY <1>1, <1>4
  <2>2. 1 \in 1..length /\ head + 1 - 1 = head
    BY <1>3
  <2>3. QED
    BY <1>1, <2>1, <2>2
<1>6. head' = cells[head].next /\ length' = length - 1 /\ cells' = cells
  BY DEF PopHead
<1>7. /\ Tail(Held) \in Seq(Value) /\ Len(Tail(Held)) = length - 1
      /\ \A i \in 1..(length - 1) : Tail(Held)[i] = Held[i + 1]
  BY <1>1, <1>4, HeadTailProperties
<1>8. \A i \in 1..(length - 1) : Held'[i] = Tail(Held)[i]
  <2> TAKE i \in 1..(length - 1)
  <2>1. head' = head + 1
    BY <1>3, <1>6
  <2>2. i \in 1..length' /\ i + 1 \in 1..length /\ head' + i - 1 = head + (i + 1) - 1
    BY <1>3, <1>6, <2>1
  <2>3. QED
    BY <1>1, <1>2, <1>6, <1>7, <2>2
<1>9. Held' = Tail(Held)
  <2>1. Len(Held') = Len(Tail(Held)) /\ \A i \in 1..Len(Held') : Held'[i] = Tail(Held)[i]
    BY <1>2, <1>6, <1>7, <1>8
  <2>2. QED
    BY <1>2, <1>7, <2>1, SeqEqual
<1>10. QED
  BY <1>4, <1>5, <1>9

(***************************************************************************)
(* The linked list implements the FIFO queue of its comments: every Push   *)
(* puts, every successful Pop gets the oldest item at the step that moves  *)
(* the head, a failing Pop gets nothing at the step that reads the length. *)
(***************************************************************************)
THEOREM QueueImplementsFifo ==
  ASSUME SinglePopper
  PROVE  ListSpec => ImplementsFifo
<1>1. ListInit => Fifo!Init
  BY DEF ListInit, Fifo!Init, Held
<1>2. ListIInv /\ ListIInv' /\ [ListNext]_listVars => [Fifo!Next]_<<Held, answer>>
  <2> SUFFICES ASSUME ListIInv, ListIInv', [ListNext]_listVars
               PROVE  Fifo!Next \/ UNCHANGED <<Held, answer>>
    OBVIOUS
  <2>1. ASSUME NEW x \in Value, PushCell(x) PROVE Fifo!Next
    <3>1. Fifo!Put(x)
      BY <2>1, PushPuts DEF PushCell, Fifo!Put
    <3>2. QED
      BY <3>1 DEF Fifo!Next
  <2>2. ASSUME NEW p \in Poppers, PopCheck(p)
        PROVE  Fifo!Next \/ UNCHANGED <<Held, answer>>
    <3>1. UNCHANGED Held
      BY <2>2 DEF PopCheck, Held
    <3>2. CASE length = 0
      <4>1. Held = <<>>
        BY <3>2 DEF Held, ListIInv, WellLinked
      <4>2. Fifo!GetNothing(p)
        BY <2>2, <3>1, <3>2, <4>1 DEF PopCheck, Fifo!GetNothing
      <4>3. QED
        BY <4>2 DEF Fifo!Next
    <3>3. CASE length # 0
      BY <2>2, <3>1, <3>3 DEF PopCheck
    <3>4. QED
      BY <3>2, <3>3
  <2>3. ASSUME NEW p \in Poppers, PopHead(p) PROVE Fifo!Next
    <3>1. head # Nil
      BY <2>3 DEF PopHead, ListIInv, PopFindsItem
    <3>2. Fifo!Get(p)
      BY <2>3, <3>1, PopGets DEF PopHead, Fifo!Get
    <3>3. QED
      BY <3>2 DEF Fifo!Next
  <2>4. CASE UNCHANGED listVars
    BY <2>4 DEF listVars, Held
  <2>5. QED
    BY <2>1, <2>2, <2>3, <2>4 DEF ListNext
<1>3. ListSpec => []ListIInv
  BY ListInvariance
<1>4. QED
  BY <1>1, <1>2, <1>3, PTL DEF ListSpec, ImplementsFifo, Fifo!Spec

-----------------------------------------------------------------------------
(* The draw contexts. *)

\* A client that has made no context yet.
Without(c) == client[c].place \in {"new", "waiting"}

(***************************************************************************)
(* What holds whatever the clients do: a search is only ever in the map    *)
(* under the key that its client was given, a goroutine works with the key *)
(* of its client, and it steps a search that was made under that key.      *)
(***************************************************************************)
Owned == \A k \in DOMAIN algs_dict : client[algs_dict[k]].key = k /\ ~Without(algs_dict[k])
Making ==
  \A h \in Call : call[h].pc \in {"pick", "store"} =>
    /\ h[2] = 1 /\ call[h].search = h[1] /\ client[h[1]].place = "waiting"
    /\ call[h].pc = "store" => call[h].key \in Key
Asking ==
  \A h \in Call : call[h].pc \in {"check", "look", "steps", "path", "lost"} =>
    call[h].key = client[h[1]].key /\ ~Without(h[1])
Stepping ==
  \A h \in Call : call[h].pc \in InUse =>
    call[h].search \in Client /\ client[call[h].search].key = call[h].key /\ ~Without(call[h].search)
Readied == \A c \in Client : client[c].place = "ready" => client[c].key \in Key
TornLater == \A c \in Client : torn[c] => ~Without(c)

KeyInv == Owned /\ Making /\ Asking /\ Stepping /\ Readied /\ TornLater

(***************************************************************************)
(* What holds as long as no client repeats a request.  A key that no two    *)
(* creations have found free at the same time has one owner: the client    *)
(* that is ready with it, whose search the map holds under it.             *)
(***************************************************************************)
OneAtATime == \A h \in Call : h[2] = 2 => call[h].pc = "idle"
AskingReady == \A h \in Call : call[h].pc \in {"check", "look", "steps", "path", "lost"} =>
  client[h[1]].place = "ready"
Holds ==
  \A c \in Client : client[c].place = "ready" /\ client[c].key \notin clashed =>
    client[c].key \in DOMAIN algs_dict /\ algs_dict[client[c].key] = c
StoreFree ==
  \A h \in Call : call[h].pc = "store" /\ call[h].key \in DOMAIN algs_dict => call[h].key \in clashed
StoreAlone ==
  \A h, o \in Call : h # o /\ call[h].pc = "store" /\ call[o].pc = "store" /\ call[h].key = call[o].key
    => call[h].key \in clashed
StepsOwn ==
  \A h \in Call : call[h].pc \in InUse /\ call[h].key \notin clashed => call[h].search = h[1]
TornClashed == \A c \in Client : torn[c] => client[c].key \in clashed

OneOwner == OneAtATime /\ AskingReady /\ Holds /\ StoreFree /\ StoreAlone /\ StepsOwn /\ TornClashed
OwnInv == repeated = {} => OneOwner

DrawIInv == DrawTypeOK /\ KeyInv /\ OwnInv /\ FinishedIsGone

-----------------------------------------------------------------------------
(* Types.                                                                  *)

LEMMA CallFacts ==
  /\ \A h \in Call : h[1] \in Client /\ h[2] \in {1, 2}
  /\ \A h, o \in Call : h[1] = o[1] /\ h[2] = o[2] => h = o
  /\ \A c \in Client : <<c, 1>> \in Call
  /\ \A c \in Impatient : <<c, 2>> \in Call
BY DrawAssumption DEF Call

\* The steps that a request or its client takes keep to their types.
LEMMA StateFacts ==
  ASSUME DrawTypeOK, NEW h \in Call
  PROVE  /\ Idle \in CallState
         /\ \A where \in {"check", "look", "store"}, k \in Key \cup {NoKey} :
              [Idle EXCEPT !.pc = where, !.key = k] \in CallState
         /\ \A where \in {"look", "steps", "path", "lost"} : [call[h] EXCEPT !.pc = where] \in CallState
         /\ \A k \in Key : [call[h] EXCEPT !.pc = "store", !.key = k] \in CallState
         /\ \A s \in Client : [call[h] EXCEPT !.pc = "steps", !.search = s] \in CallState
         /\ \A c \in Client, place \in {"waiting", "ready", "done", "gone"} :
              [client[c] EXCEPT !.place = place] \in ClientState
BY DEF DrawTypeOK, Idle, CallState, ClientState

LEMMA DrawTypeInit == DrawInit => DrawTypeOK
<1> SUFFICES ASSUME DrawInit PROVE DrawTypeOK
  OBVIOUS
<1> USE DrawAssumption DEF DrawInit
<1>1. DOMAIN algs_dict = {}
  OBVIOUS
<1>2. left \in [Client -> 0..Batches \cup {Endless}] /\ torn \in [Client -> BOOLEAN]
  OBVIOUS
<1>3. call \in [Call -> CallState]
  BY DEF Idle, CallState
<1>4. client \in [Client -> ClientState]
  BY DEF ClientState
<1> QED
  BY <1>1, <1>2, <1>3, <1>4 DEF DrawTypeOK

LEMMA DrawTypeStep == DrawTypeOK /\ KeyInv /\ [DrawNext]_drawVars => DrawTypeOK'
<1> SUFFICES ASSUME DrawTypeOK, KeyInv, [DrawNext]_drawVars PROVE DrawTypeOK'
  OBVIOUS
<1> USE CallFacts, DrawAssumption DEF DrawTypeOK
<1>1. ASSUME NEW c \in Client, Create(c) PROVE DrawTypeOK'
  <2>1. [Idle EXCEPT !.pc = "pick", !.search = c] \in CallState
    BY DEF Idle, CallState
  <2> QED
    BY <1>1, <2>1, StateFacts DEF Create, Leaves
<1>2. ASSUME NEW c \in Client, SendStep(c) PROVE DrawTypeOK'
  <2>1. [Idle EXCEPT !.pc = "check", !.key = client[c].key] \in CallState
    BY DEF Idle, CallState, ClientState
  <2> QED
    BY <1>2, <2>1 DEF SendStep
<1>3. ASSUME NEW c \in Client, Repeat(c) PROVE DrawTypeOK'
  <2>1. [Idle EXCEPT !.pc = "check", !.key = client[c].key] \in CallState
    BY DEF Idle, CallState, ClientState
  <2> QED
    BY <1>3, <2>1 DEF Repeat
<1>4. ASSUME NEW c \in Client, Abandon(c) PROVE DrawTypeOK'
  BY <1>4, StateFacts DEF Abandon, Leaves
<1>5. ASSUME NEW h \in Call, Pick(h) PROVE DrawTypeOK'
  <2>1. PICK k \in Key :
          /\ call' = [call EXCEPT ![h].pc = "store", ![h].key = k]
          /\ clashed' = clashed \cup
              {call[o].key : o \in {p \in Call : call[p].pc = "store" /\ call[p].key = k}}
    BY <1>5 DEF Pick
  <2>2. clashed' \subseteq Key
    BY <2>1
  <2>3. call' \in [Call -> CallState]
    <3>1. [call[h] EXCEPT !.pc = "store", !.key = k] \in CallState
      BY StateFacts
    <3>2. call' = [call EXCEPT ![h] = [call[h] EXCEPT !.pc = "store", !.key = k]]
      BY <2>1
    <3> QED
      BY <3>1, <3>2
  <2> QED
    BY <1>5, <2>2, <2>3 DEF Pick
<1>6. ASSUME NEW h \in Call, Store(h) PROVE DrawTypeOK'
  <2>1. call[h].key \in Key /\ call[h].search \in Client
    BY <1>6 DEF Store, KeyInv, Making, At
  <2>2. DOMAIN algs_dict' = DOMAIN algs_dict \cup {call[h].key}
    BY <1>6 DEF Store
  <2>3. \A k \in DOMAIN algs_dict' : algs_dict'[k] \in Client
    BY <1>6, <2>1 DEF Store
  <2>4. client' \in [Client -> ClientState]
    BY <1>6, <2>1 DEF Store, ClientState
  <2>5. call' \in [Call -> CallState]
    BY <1>6, StateFacts DEF Store
  <2> QED
    BY <1>6, <2>1, <2>2, <2>3, <2>4, <2>5 DEF Store
<1>7. ASSUME NEW h \in Call, Check(h) PROVE DrawTypeOK'
  <2>1. call' \in [Call -> CallState]
    BY <1>7 DEF Check, CallState, Idle
  <2>2. client' \in [Client -> ClientState]
    <3>1. client' = client \/ client' = [client EXCEPT ![h[1]] = [client[h[1]] EXCEPT !.place = "done"]]
      BY <1>7 DEF Check, Leaves
    <3>2. [client[h[1]] EXCEPT !.place = "done"] \in ClientState
      BY StateFacts
    <3> QED
      BY <3>1, <3>2
  <2> QED
    BY <1>7, <2>1, <2>2 DEF Check
<1>8. ASSUME NEW h \in Call, Look(h) PROVE DrawTypeOK'
  <2>1. call' \in [Call -> CallState]
    BY <1>8 DEF Look, Panics, CallState, Idle
  <2>2. client' \in [Client -> ClientState]
    <3>1. client' = client \/ client' = [client EXCEPT ![h[1]] = [client[h[1]] EXCEPT !.place = "gone"]]
      BY <1>8 DEF Look, Panics, Leaves
    <3>2. [client[h[1]] EXCEPT !.place = "gone"] \in ClientState
      BY StateFacts
    <3> QED
      BY <3>1, <3>2
  <2>3. torn' \in [Client -> BOOLEAN]
    <3>1. CASE UNCHANGED torn
      BY <3>1
    <3>2. CASE call[h].key \in DOMAIN algs_dict /\
               \E v \in BOOLEAN : torn' = [torn EXCEPT ![algs_dict[call[h].key]] = v]
      BY <3>2
    <3> QED
      BY <1>8, <3>1, <3>2 DEF Look
  <2> QED
    BY <1>8, <2>1, <2>2, <2>3 DEF Look
<1>9. ASSUME NEW h \in Call, Steps(h) PROVE DrawTypeOK'
  <2>1. call' \in [Call -> CallState]
    BY <1>9 DEF Steps, Panics, CallState, Idle
  <2>2. client' \in [Client -> ClientState]
    <3>1. client' = client \/ client' = [client EXCEPT ![h[1]] = [client[h[1]] EXCEPT !.place = "gone"]]
      BY <1>9 DEF Steps, Panics, Leaves
    <3>2. [client[h[1]] EXCEPT !.place = "gone"] \in ClientState
      BY StateFacts
    <3> QED
      BY <3>1, <3>2
  <2>3. left' \in [Client -> 0..Batches \cup {Endless}]
    <3>1. \A s \in Client : (IF left[s] > 0 THEN left[s] - 1 ELSE left[s]) \in 0..Batches \cup {Endless}
      BY DEF Endless
    <3>2. \/ UNCHANGED left
          \/ left' = [left EXCEPT ![call[h].search] =
                        IF left[call[h].search] > 0 THEN left[call[h].search] - 1 ELSE left[call[h].search]]
      BY <1>9 DEF Steps
    <3> QED
      BY <3>1, <3>2
  <2> QED
    BY <1>9, <2>1, <2>2, <2>3 DEF Steps
<1>10. ASSUME NEW h \in Call, Finish(h) PROVE DrawTypeOK'
  <2>1. call' \in [Call -> CallState]
    BY <1>10 DEF Finish, Panics, CallState, Idle
  <2>2. client' \in [Client -> ClientState]
    BY <1>10 DEF Finish, Panics, Leaves, ClientState
  <2>3. DOMAIN algs_dict' \subseteq Key /\ \A k \in DOMAIN algs_dict' : algs_dict'[k] \in Client
    BY <1>10 DEF Finish
  <2> QED
    BY <1>10, <2>1, <2>2, <2>3 DEF Finish
<1>11. ASSUME MapRace PROVE DrawTypeOK'
  <2>1. call' \in [Call -> CallState]
    BY <1>11 DEF MapRace, CallState, Idle
  <2>2. client' \in [Client -> ClientState]
    BY <1>11 DEF MapRace, ClientState
  <2> QED
    BY <1>11, <2>1, <2>2 DEF MapRace
<1>12. ASSUME UNCHANGED drawVars PROVE DrawTypeOK'
  BY <1>12 DEF drawVars
<1> QED
  BY <1>1, <1>2, <1>3, <1>4, <1>5, <1>6, <1>7, <1>8, <1>9, <1>10, <1>11, <1>12 DEF DrawNext, Handle

-----------------------------------------------------------------------------
(* Keys and their clients.                                                 *)

LEMMA KeyInit == DrawInit => KeyInv /\ OwnInv /\ FinishedIsGone
<1> SUFFICES ASSUME DrawInit PROVE KeyInv /\ OwnInv /\ FinishedIsGone
  OBVIOUS
<1>1. /\ DOMAIN algs_dict = {}
      /\ \A h \in Call : call[h].pc = "idle"
      /\ \A c \in Client : client[c].place = "new" /\ ~torn[c]
  BY DEF DrawInit, Idle
<1> QED
  BY <1>1 DEF KeyInv, InUse, Owned, Making, Asking, Stepping, Readied, TornLater, FinishedIsGone,
              OwnInv, OneOwner, OneAtATime, AskingReady, Holds, StoreFree, StoreAlone, StepsOwn, TornClashed

\* What each step does to the entries, the goroutines and the clients.
LEMMA StepKeeps == DrawTypeOK /\ KeyInv /\ OwnInv /\ FinishedIsGone /\ [DrawNext]_drawVars =>
      KeyInv' /\ OwnInv' /\ FinishedIsGone'
<1> SUFFICES ASSUME DrawTypeOK, KeyInv, OwnInv, FinishedIsGone, [DrawNext]_drawVars
                    PROVE KeyInv' /\ OwnInv' /\ FinishedIsGone'
  OBVIOUS
<1> USE CallFacts DEF DrawTypeOK, KeyInv, Without, OneOwner, InUse
<1>1. ASSUME NEW c \in Client, Create(c) PROVE KeyInv' /\ OwnInv' /\ FinishedIsGone'
  <2>1. /\ UNCHANGED <<algs_dict, torn, clashed>> /\ client[c].place = "new"
        /\ call'[<<c, 1>>].pc = "pick" /\ call'[<<c, 1>>].search = c
        /\ \A o \in Call : o # <<c, 1>> => call'[o] = call[o]
        /\ client'[c].place = "waiting" /\ client'[c].key = client[c].key
        /\ \A d \in Client : d # c => client'[d] = client[d]
    BY <1>1 DEF Create, Idle, Leaves
  <2>2. Owned'
    BY <2>1 DEF Owned, Making
  <2>3. Making'
    BY <2>1 DEF Making, Asking
  <2>4. Asking'
    BY <2>1 DEF Making, Asking, Readied
  <2>5. Stepping'
    BY <2>1 DEF Stepping, Owned, Making, Asking
  <2>6. Readied'
    BY <2>1 DEF Readied, Making
  <2>7. TornLater'
    BY <2>1 DEF TornLater, Owned, Making
  <2>8. FinishedIsGone'
    BY <2>1 DEF FinishedIsGone, Owned, Making, Asking
  <2>9. ASSUME repeated' = {} PROVE OneOwner'
    <3>1. OneOwner
      BY <1>1, <2>9 DEF Create, OwnInv
    <3>2. OneAtATime'
      BY <3>1, <2>1 DEF OneAtATime, Making
    <3>3. AskingReady'
      BY <3>1, <2>1 DEF AskingReady, OneAtATime, Making, Asking
    <3>4. Holds'
      BY <3>1, <2>1 DEF Holds, StoreFree, Owned, Making, Asking, AskingReady
    <3>5. StoreFree'
      BY <3>1, <2>1 DEF StoreFree, StoreAlone, Owned, Making
    <3>6. StoreAlone'
      BY <3>1, <2>1 DEF StoreAlone, Making
    <3>7. StepsOwn'
      BY <3>1, <2>1 DEF StepsOwn, Holds, AskingReady, Asking, Making
    <3>8. TornClashed'
      BY <3>1, <2>1 DEF TornClashed, Owned, Making, Asking, Stepping, StepsOwn, OneAtATime
    <3> QED
      BY <3>2, <3>3, <3>4, <3>5, <3>6, <3>7, <3>8
  <2> QED
    BY <2>2, <2>3, <2>4, <2>5, <2>6, <2>7, <2>8, <2>9 DEF OwnInv
<1>2. ASSUME NEW c \in Client, NEW h \in Call, h[1] = c, UNCHANGED <<algs_dict, torn, client, clashed>>,
             repeated' = {} => repeated = {} /\ h = <<c, 1>>,
             call'[h].pc = "check", call'[h].key = client[c].key, client[c].place = "ready",
             \A o \in Call : o # h => call'[o] = call[o]
      PROVE  KeyInv' /\ OwnInv' /\ FinishedIsGone'
  <2>1. UNCHANGED <<algs_dict, torn, client, clashed>>
    BY <1>2
  <2>2. Owned'
    BY <1>2, <2>1 DEF Owned, Making
  <2>3. Making'
    BY <1>2, <2>1 DEF Making, Asking
  <2>4. Asking'
    BY <1>2, <2>1 DEF Making, Asking, Readied
  <2>5. Stepping'
    BY <1>2, <2>1 DEF Stepping, Owned, Making, Asking
  <2>6. Readied'
    BY <1>2, <2>1 DEF Readied, Making
  <2>7. TornLater'
    BY <1>2, <2>1 DEF TornLater, Owned, Making
  <2>8. FinishedIsGone'
    BY <1>2, <2>1 DEF FinishedIsGone, Owned, Making, Asking
  <2>9. ASSUME repeated' = {} PROVE OneOwner'
    <3>1. OneOwner /\ h = <<c, 1>>
      BY <1>2, <2>9 DEF OwnInv
    <3>2. OneAtATime'
      BY <3>1, <1>2, <2>1 DEF OneAtATime, Making
    <3>3. AskingReady'
      BY <3>1, <1>2, <2>1 DEF AskingReady, OneAtATime, Making, Asking
    <3>4. Holds'
      BY <3>1, <1>2, <2>1 DEF Holds, StoreFree, Owned, Making, Asking, AskingReady
    <3>5. StoreFree'
      BY <3>1, <1>2, <2>1 DEF StoreFree, StoreAlone, Owned, Making
    <3>6. StoreAlone'
      BY <3>1, <1>2, <2>1 DEF StoreAlone, Making
    <3>7. StepsOwn'
      BY <3>1, <1>2, <2>1 DEF StepsOwn, Holds, AskingReady, Asking, Making
    <3>8. TornClashed'
      BY <3>1, <1>2, <2>1 DEF TornClashed, Owned, Making, Asking, Stepping, StepsOwn, OneAtATime
    <3> QED
      BY <3>2, <3>3, <3>4, <3>5, <3>6, <3>7, <3>8
  <2> QED
    BY <2>2, <2>3, <2>4, <2>5, <2>6, <2>7, <2>8, <2>9 DEF OwnInv
<1>3. ASSUME NEW c \in Client, SendStep(c) PROVE KeyInv' /\ OwnInv' /\ FinishedIsGone'
  <2>1. /\ client[c].place = "ready"
        /\ call'[<<c, 1>>].pc = "check" /\ call'[<<c, 1>>].key = client[c].key
        /\ \A o \in Call : o # <<c, 1>> => call'[o] = call[o]
    BY <1>3 DEF SendStep, Idle
  <2>2. <<c, 1>> \in Call
    OBVIOUS
  <2>3. UNCHANGED <<algs_dict, torn, client, clashed, repeated>>
    BY <1>3 DEF SendStep
  <2> DEFINE h == <<c, 1>>
  <2> HIDE DEF h
  <2>4. /\ h \in Call /\ h = <<c, 1>> /\ h[1] = c
        /\ call'[h].pc = "check" /\ call'[h].key = client[c].key
        /\ \A o \in Call : o # h => call'[o] = call[o]
    BY <2>1, <2>2 DEF h
  <2> QED
    BY <1>2, <1>3, <2>1, <2>3, <2>4
<1>4. ASSUME NEW c \in Client, Repeat(c) PROVE KeyInv' /\ OwnInv' /\ FinishedIsGone'
  <2>1. /\ client[c].place = "ready" /\ c \in Impatient
        /\ call'[<<c, 2>>].pc = "check" /\ call'[<<c, 2>>].key = client[c].key
        /\ \A o \in Call : o # <<c, 2>> => call'[o] = call[o]
    BY <1>4 DEF Repeat, Idle
  <2>2. <<c, 2>> \in Call /\ UNCHANGED <<algs_dict, torn, client, clashed>> /\ repeated' # {}
    BY <1>4, <2>1 DEF Repeat, Call
  <2> DEFINE h == <<c, 2>>
  <2> HIDE DEF h
  <2>3. /\ h \in Call /\ h[1] = c
        /\ call'[h].pc = "check" /\ call'[h].key = client[c].key
        /\ \A o \in Call : o # h => call'[o] = call[o]
    BY <2>1, <2>2 DEF h
  <2> QED
    BY <1>2, <1>4, <2>1, <2>2, <2>3
<1>5. ASSUME NEW c \in Client, Abandon(c) PROVE KeyInv' /\ OwnInv' /\ FinishedIsGone'
  <2>1. /\ UNCHANGED <<algs_dict, torn, call, clashed>> /\ client[c].place = "ready"
        /\ \A h \in Call : h[1] = c => call[h].pc = "idle"
        /\ client'[c].place = "gone" /\ client'[c].key = client[c].key
        /\ \A d \in Client : d # c => client'[d] = client[d]
    BY <1>5 DEF Abandon, Leaves, At
  <2>2. Owned'
    BY <2>1 DEF Owned, Making
  <2>3. Making'
    BY <2>1 DEF Making, Asking
  <2>4. Asking'
    BY <2>1 DEF Making, Asking, Readied
  <2>5. Stepping'
    BY <2>1 DEF Stepping, Owned, Making, Asking
  <2>6. Readied'
    BY <2>1 DEF Readied, Making
  <2>7. TornLater'
    BY <2>1 DEF TornLater, Owned, Making
  <2>8. FinishedIsGone'
    BY <2>1 DEF FinishedIsGone, Owned, Making, Asking
  <2>9. ASSUME repeated' = {} PROVE OneOwner'
    <3>1. OneOwner
      BY <1>5, <2>9 DEF Abandon, OwnInv
    <3>2. OneAtATime'
      BY <3>1, <2>1 DEF OneAtATime, Making
    <3>3. AskingReady'
      BY <3>1, <2>1 DEF AskingReady, OneAtATime, Making, Asking
    <3>4. Holds'
      BY <3>1, <2>1 DEF Holds, StoreFree, Owned, Making, Asking, AskingReady
    <3>5. StoreFree'
      BY <3>1, <2>1 DEF StoreFree, StoreAlone, Owned, Making
    <3>6. StoreAlone'
      BY <3>1, <2>1 DEF StoreAlone, Making
    <3>7. StepsOwn'
      BY <3>1, <2>1 DEF StepsOwn, Holds, AskingReady, Asking, Making
    <3>8. TornClashed'
      BY <3>1, <2>1 DEF TornClashed, Owned, Making, Asking, Stepping, StepsOwn, OneAtATime
    <3> QED
      BY <3>2, <3>3, <3>4, <3>5, <3>6, <3>7, <3>8
  <2> QED
    BY <2>2, <2>3, <2>4, <2>5, <2>6, <2>7, <2>8, <2>9 DEF OwnInv
<1>6. ASSUME NEW h \in Call, Pick(h) PROVE KeyInv' /\ OwnInv' /\ FinishedIsGone'
  <2>1. /\ UNCHANGED <<algs_dict, torn, client>> /\ call[h].pc = "pick"
        /\ call'[h].pc = "store" /\ call'[h].search = call[h].search
        /\ call'[h].key \in Key \ DOMAIN algs_dict /\ clashed \subseteq clashed'
        /\ \A o \in Call : call[o].pc = "store" /\ call[o].key = call'[h].key => call[o].key \in clashed'
        /\ \A o \in Call : o # h => call'[o] = call[o]
    BY <1>6 DEF Pick, At
  <2>2. Owned'
    BY <2>1 DEF Owned, Making
  <2>3. Making'
    BY <2>1 DEF Making, Asking
  <2>4. Asking'
    BY <2>1 DEF Making, Asking, Readied
  <2>5. Stepping'
    BY <2>1 DEF Stepping, Owned, Making, Asking
  <2>6. Readied'
    BY <2>1 DEF Readied, Making
  <2>7. TornLater'
    BY <2>1 DEF TornLater, Owned, Making
  <2>8. FinishedIsGone'
    BY <2>1 DEF FinishedIsGone, Owned, Making, Asking
  <2>9. ASSUME repeated' = {} PROVE OneOwner'
    <3>1. OneOwner
      BY <1>6, <2>9 DEF Pick, OwnInv
    <3>2. OneAtATime'
      BY <3>1, <2>1 DEF OneAtATime, Making
    <3>3. AskingReady'
      BY <3>1, <2>1 DEF AskingReady, OneAtATime, Making, Asking
    <3>4. Holds'
      BY <3>1, <2>1 DEF Holds, StoreFree, Owned, Making, Asking, AskingReady
    <3>5. StoreFree'
      BY <3>1, <2>1 DEF StoreFree, StoreAlone, Owned, Making
    <3>6. StoreAlone'
      BY <3>1, <2>1 DEF StoreAlone, Making
    <3>7. StepsOwn'
      BY <3>1, <2>1 DEF StepsOwn, Holds, AskingReady, Asking, Making
    <3>8. TornClashed'
      BY <3>1, <2>1 DEF TornClashed, Owned, Making, Asking, Stepping, StepsOwn, OneAtATime
    <3> QED
      BY <3>2, <3>3, <3>4, <3>5, <3>6, <3>7, <3>8
  <2> QED
    BY <2>2, <2>3, <2>4, <2>5, <2>6, <2>7, <2>8, <2>9 DEF OwnInv
<1>7. ASSUME NEW h \in Call, Store(h) PROVE KeyInv' /\ OwnInv' /\ FinishedIsGone'
  <2>1. /\ UNCHANGED <<torn, clashed>> /\ call[h].pc = "store"
        /\ DOMAIN algs_dict' = DOMAIN algs_dict \cup {call[h].key}
        /\ algs_dict'[call[h].key] = h[1]
        /\ \A k \in DOMAIN algs_dict : k # call[h].key => algs_dict'[k] = algs_dict[k]
    BY <1>7 DEF Store, At, CallState, ClientState, Making
  <2>2. /\ call'[h].pc = "idle" /\ \A o \in Call : o # h => call'[o] = call[o]
        /\ client'[h[1]].place = "ready" /\ client'[h[1]].key = call[h].key
        /\ \A d \in Client : d # h[1] => client'[d] = client[d]
    BY <1>7 DEF Store, Idle, CallState, ClientState
  <2>3. \A o \in Call : o # h /\ o[1] = h[1] => call[o].pc = "idle"
    BY <2>1 DEF Making, Asking, CallState
  <2>4. Owned'
    BY <2>1, <2>2, <2>3 DEF Owned, Making
  <2>5. Making'
    BY <2>1, <2>2, <2>3 DEF Making, Asking
  <2>6. Asking'
    BY <2>1, <2>2, <2>3 DEF Making, Asking, Readied
  <2>7. Stepping'
    BY <2>1, <2>2, <2>3 DEF Stepping, Owned, Making, Asking
  <2>8. Readied'
    BY <2>1, <2>2, <2>3 DEF Readied, Making
  <2>9. TornLater'
    BY <2>1, <2>2, <2>3 DEF TornLater, Owned, Making
  <2>10. FinishedIsGone'
    BY <2>1, <2>2, <2>3 DEF FinishedIsGone, Owned, Making, Asking
  <2>11. ASSUME repeated' = {} PROVE OneOwner'
    <3>1. OneOwner
      BY <1>7, <2>11 DEF Store, OwnInv
    <3>2. OneAtATime'
      BY <3>1, <2>1, <2>2, <2>3 DEF OneAtATime, Making
    <3>3. AskingReady'
      BY <3>1, <2>1, <2>2, <2>3 DEF AskingReady, OneAtATime, Making, Asking
    <3>4. Holds'
      BY <3>1, <2>1, <2>2, <2>3 DEF Holds, StoreFree, Owned, Making, Asking, AskingReady
    <3>5. StoreFree'
      BY <3>1, <2>1, <2>2, <2>3 DEF StoreFree, StoreAlone, Owned, Making
    <3>6. StoreAlone'
      BY <3>1, <2>1, <2>2, <2>3 DEF StoreAlone, Making
    <3>7. StepsOwn'
      BY <3>1, <2>1, <2>2, <2>3 DEF StepsOwn, Holds, AskingReady, Asking, Making
    <3>8. TornClashed'
      BY <3>1, <2>1, <2>2, <2>3
         DEF TornClashed, TornLater, Owned, Making, Asking, Stepping, StepsOwn, OneAtATime
    <3> QED
      BY <3>2, <3>3, <3>4, <3>5, <3>6, <3>7, <3>8
  <2> QED
    BY <2>4, <2>5, <2>6, <2>7, <2>8, <2>9, <2>10, <2>11 DEF OwnInv
<1>8. ASSUME NEW h \in Call, Check(h) PROVE KeyInv' /\ OwnInv' /\ FinishedIsGone'
  <2>1. /\ UNCHANGED <<algs_dict, torn, clashed>> /\ call[h].pc = "check"
        /\ \A o \in Call : o # h => call'[o] = call[o]
        /\ \A d \in Client : d # h[1] => client'[d] = client[d]
    BY <1>8 DEF Check, At, Leaves, CallState, ClientState
  <2>2. \/ UNCHANGED client /\ call'[h].pc = "look" /\ call'[h].key = call[h].key
        \/ /\ call[h].key \notin DOMAIN algs_dict /\ call'[h].pc = "idle"
           /\ client'[h[1]].place = "done" /\ client'[h[1]].key = client[h[1]].key
    BY <1>8 DEF Check, Leaves, Idle, CallState, ClientState
  <2>3. Owned'
    BY <2>1, <2>2 DEF Owned, Making
  <2>4. Making'
    BY <2>1, <2>2 DEF Making, Asking
  <2>5. Asking'
    BY <2>1, <2>2 DEF Making, Asking, Readied
  <2>6. Stepping'
    BY <2>1, <2>2 DEF Stepping, Owned, Making, Asking
  <2>7. Readied'
    BY <2>1, <2>2 DEF Readied, Making
  <2>8. TornLater'
    BY <2>1, <2>2 DEF TornLater, Owned, Making
  <2>9. FinishedIsGone'
    BY <2>1, <2>2 DEF FinishedIsGone, Owned, Making, Asking
  <2>10. ASSUME repeated' = {} PROVE OneOwner'
    <3>1. OneOwner
      BY <1>8, <2>10 DEF Check, OwnInv
    <3>2. OneAtATime'
      BY <3>1, <2>1, <2>2 DEF OneAtATime, Making
    <3>3. AskingReady'
      BY <3>1, <2>1, <2>2 DEF AskingReady, OneAtATime, Making, Asking
    <3>4. Holds'
      BY <3>1, <2>1, <2>2 DEF Holds, StoreFree, Owned, Making, Asking, AskingReady
    <3>5. StoreFree'
      BY <3>1, <2>1, <2>2 DEF StoreFree, StoreAlone, Owned, Making
    <3>6. StoreAlone'
      BY <3>1, <2>1, <2>2 DEF StoreAlone, Making
    <3>7. StepsOwn'
      BY <3>1, <2>1, <2>2 DEF StepsOwn, Holds, AskingReady, Asking, Making
    <3>8. TornClashed'
      BY <3>1, <2>1, <2>2 DEF TornClashed, Owned, Making, Asking, Stepping, StepsOwn, OneAtATime
    <3> QED
      BY <3>2, <3>3, <3>4, <3>5, <3>6, <3>7, <3>8
  <2> QED
    BY <2>3, <2>4, <2>5, <2>6, <2>7, <2>8, <2>9, <2>10 DEF OwnInv
<1>9. ASSUME NEW h \in Call, Look(h) PROVE KeyInv' /\ OwnInv' /\ FinishedIsGone'
  <2>1. /\ UNCHANGED <<algs_dict, clashed>> /\ call[h].pc = "look"
        /\ \A o \in Call : o # h => call'[o] = call[o]
        /\ \A d \in Client : d # h[1] => client'[d] = client[d]
    BY <1>9 DEF Look, Panics, At, Leaves, CallState, ClientState
  <2>2. \/ /\ UNCHANGED client /\ call'[h].pc = "steps" /\ call'[h].key = call[h].key
           /\ call[h].key \in DOMAIN algs_dict /\ call'[h].search = algs_dict[call[h].key]
           /\ \A d \in Client : d # algs_dict[call[h].key] => torn'[d] = torn[d]
        \/ /\ UNCHANGED torn /\ call'[h].pc = "idle"
           /\ client'[h[1]].place = "gone" /\ client'[h[1]].key = client[h[1]].key
    BY <1>9 DEF Look, Panics, Leaves, Idle, CallState, ClientState
  <2>3. Owned'
    BY <2>1, <2>2 DEF Owned, Making
  <2>4. Making'
    BY <2>1, <2>2 DEF Making, Asking
  <2>5. Asking'
    BY <2>1, <2>2 DEF Making, Asking, Readied
  <2>6. Stepping'
    BY <2>1, <2>2 DEF Stepping, Owned, Making, Asking
  <2>7. Readied'
    BY <2>1, <2>2 DEF Readied, Making
  <2>8. TornLater'
    BY <2>1, <2>2 DEF TornLater, Owned, Making
  <2>9. FinishedIsGone'
    BY <2>1, <2>2 DEF FinishedIsGone, Owned, Making, Asking
  <2>10. ASSUME repeated' = {} PROVE OneOwner'
    <3>1. OneOwner
      BY <1>9, <2>10 DEF Look, OwnInv
    <3>2. OneAtATime'
      BY <3>1, <2>1, <2>2 DEF OneAtATime, Making
    <3>3. AskingReady'
      BY <3>1, <2>1, <2>2 DEF AskingReady, OneAtATime, Making, Asking
    <3>4. Holds'
      BY <3>1, <2>1, <2>2 DEF Holds, StoreFree, Owned, Making, Asking, AskingReady
    <3>5. StoreFree'
      BY <3>1, <2>1, <2>2 DEF StoreFree, StoreAlone, Owned, Making
    <3>6. StoreAlone'
      BY <3>1, <2>1, <2>2 DEF StoreAlone, Making
    <3>7. StepsOwn'
      BY <3>1, <2>1, <2>2 DEF StepsOwn, Holds, AskingReady, Asking, Making
    <3>8. TornClashed'
      <4>1. CASE UNCHANGED torn
        BY <3>1, <4>1, <2>1, <2>2 DEF TornClashed
      <4>2. CASE call[h].key \in DOMAIN algs_dict /\ UNCHANGED client
        <5> DEFINE k == call[h].key
                   s == algs_dict[k]
        <5>1. h[2] = 1 /\ k = client[h[1]].key /\ client[h[1]].place = "ready" /\ client[s].key = k
          BY <2>1, <3>1, <4>2 DEF OneAtATime, AskingReady, Asking, Owned
        <5>2. ASSUME torn'[s], ~torn[s], k \notin clashed PROVE FALSE
          <6>1. PICK o \in Call : call[o].pc \in InUse /\ call[o].search = s
            BY <1>9, <4>2, <5>2 DEF Look
          <6>2. s = h[1]
            BY <3>1, <5>1, <5>2 DEF Holds
          <6>3. call[o].search = o[1] /\ o[2] = 1
            BY <3>1, <5>1, <5>2, <6>1 DEF Stepping, StepsOwn, OneAtATime
          <6>4. o = h
            BY <5>1, <6>1, <6>2, <6>3
          <6> QED
            BY <2>1, <6>1, <6>4
        <5>3. \A d \in Client : d # s => torn'[d] = torn[d]
          BY <1>9, <4>2 DEF Look
        <5> QED
          BY <2>1, <3>1, <4>2, <5>1, <5>2, <5>3 DEF TornClashed
      <4> QED
        BY <2>2, <4>1, <4>2
    <3> QED
      BY <3>2, <3>3, <3>4, <3>5, <3>6, <3>7, <3>8
  <2> QED
    BY <2>3, <2>4, <2>5, <2>6, <2>7, <2>8, <2>9, <2>10 DEF OwnInv
<1>10. ASSUME NEW h \in Call, Steps(h) PROVE KeyInv' /\ OwnInv' /\ FinishedIsGone'
  <2>1. /\ UNCHANGED <<algs_dict, torn, clashed>> /\ call[h].pc = "steps"
        /\ \A o \in Call : o # h => call'[o] = call[o]
        /\ \A d \in Client : d # h[1] => client'[d] = client[d]
    BY <1>10 DEF Steps, Panics, At, Leaves, CallState, ClientState
  <2>2. \/ UNCHANGED client /\ call'[h].pc = "path" /\ call'[h].key = call[h].key /\
            call'[h].search = call[h].search
        \/ UNCHANGED client /\ call'[h].pc = "idle"
        \/ /\ call'[h].pc = "idle"
           /\ client'[h[1]].place = "gone" /\ client'[h[1]].key = client[h[1]].key
    BY <1>10 DEF Steps, Panics, Leaves, Idle, CallState, ClientState
  <2>3. Owned'
    BY <2>1, <2>2 DEF Owned, Making
  <2>4. Making'
    BY <2>1, <2>2 DEF Making, Asking
  <2>5. Asking'
    BY <2>1, <2>2 DEF Making, Asking, Readied
  <2>6. Stepping'
    BY <2>1, <2>2 DEF Stepping, Owned, Making, Asking
  <2>7. Readied'
    BY <2>1, <2>2 DEF Readied, Making
  <2>8. TornLater'
    BY <2>1, <2>2 DEF TornLater, Owned, Making
  <2>9. FinishedIsGone'
    BY <2>1, <2>2 DEF FinishedIsGone, Owned, Making, Asking
  <2>10. ASSUME repeated' = {} PROVE OneOwner'
    <3>1. OneOwner
      BY <1>10, <2>10 DEF Steps, OwnInv
    <3>2. OneAtATime'
      BY <3>1, <2>1, <2>2 DEF OneAtATime, Making
    <3>3. AskingReady'
      BY <3>1, <2>1, <2>2 DEF AskingReady, OneAtATime, Making, Asking
    <3>4. Holds'
      BY <3>1, <2>1, <2>2 DEF Holds, StoreFree, Owned, Making, Asking, AskingReady
    <3>5. StoreFree'
      BY <3>1, <2>1, <2>2 DEF StoreFree, StoreAlone, Owned, Making
    <3>6. StoreAlone'
      BY <3>1, <2>1, <2>2 DEF StoreAlone, Making
    <3>7. StepsOwn'
      BY <3>1, <2>1, <2>2 DEF StepsOwn, Holds, AskingReady, Asking, Making
    <3>8. TornClashed'
      BY <3>1, <2>1, <2>2 DEF TornClashed, Owned, Making, Asking, Stepping, StepsOwn, OneAtATime
    <3> QED
      BY <3>2, <3>3, <3>4, <3>5, <3>6, <3>7, <3>8
  <2> QED
    BY <2>3, <2>4, <2>5, <2>6, <2>7, <2>8, <2>9, <2>10 DEF OwnInv
<1>11. ASSUME NEW h \in Call, Finish(h) PROVE KeyInv' /\ OwnInv' /\ FinishedIsGone'
  <2>1. /\ UNCHANGED <<torn, clashed>> /\ call[h].pc = "path"
        /\ \A o \in Call : o # h => call'[o] = call[o]
        /\ \A d \in Client : d # h[1] => client'[d] = client[d]
        /\ client'[h[1]].key = client[h[1]].key
    BY <1>11 DEF Finish, Panics, At, Leaves, Idle, CallState, ClientState
  <2>2. \/ /\ client'[h[1]].place = "done" /\ call'[h].pc = "idle"
           /\ DOMAIN algs_dict' = DOMAIN algs_dict \ {call[h].key}
           /\ \A k \in DOMAIN algs_dict' : algs_dict'[k] = algs_dict[k]
        \/ client'[h[1]].place = "gone" /\ call'[h].pc = "idle" /\ UNCHANGED algs_dict
        \/ /\ call'[h].pc = "lost" /\ call'[h].key = call[h].key /\ call'[h].search = call[h].search
           /\ UNCHANGED <<algs_dict, client>>
    <3>1. CASE /\ algs_dict' = [k \in DOMAIN algs_dict \ {call[h].key} |-> algs_dict[k]]
               /\ call' = [call EXCEPT ![h] = Idle] /\ Leaves(h[1], "done")
      BY <3>1 DEF Leaves, Idle, CallState, ClientState
    <3>2. CASE Panics(h) /\ UNCHANGED algs_dict
      BY <3>2 DEF Panics, Leaves, Idle, CallState, ClientState
    <3>3. CASE call' = [call EXCEPT ![h].pc = "lost"] /\ UNCHANGED <<algs_dict, client>>
      BY <3>3 DEF CallState
    <3> QED
      BY <1>11, <3>1, <3>2, <3>3 DEF Finish
  <2>3. Owned'
    BY <2>1, <2>2 DEF Owned, Making
  <2>4. Making'
    BY <2>1, <2>2 DEF Making, Asking
  <2>5. Asking'
    BY <2>1, <2>2 DEF Making, Asking, Readied
  <2>6. Stepping'
    BY <2>1, <2>2 DEF Stepping, Owned, Making, Asking
  <2>7. Readied'
    BY <2>1, <2>2 DEF Readied, Making
  <2>8. TornLater'
    BY <2>1, <2>2 DEF TornLater, Owned, Making
  <2>9. FinishedIsGone'
    BY <2>1, <2>2 DEF FinishedIsGone, Owned, Making, Asking
  <2>10. ASSUME repeated' = {} PROVE OneOwner'
    <3>1. OneOwner
      BY <1>11, <2>10 DEF Finish, OwnInv
    <3>2. OneAtATime'
      BY <3>1, <2>1, <2>2 DEF OneAtATime, Making
    <3>3. AskingReady'
      BY <3>1, <2>1, <2>2 DEF AskingReady, OneAtATime, Making, Asking
    <3>4. Holds'
      BY <3>1, <2>1, <2>2 DEF Holds, StoreFree, Owned, Making, Asking, AskingReady
    <3>5. StoreFree'
      BY <3>1, <2>1, <2>2 DEF StoreFree, StoreAlone, Owned, Making
    <3>6. StoreAlone'
      BY <3>1, <2>1, <2>2 DEF StoreAlone, Making
    <3>7. StepsOwn'
      BY <3>1, <2>1, <2>2 DEF StepsOwn, Holds, AskingReady, Asking, Making
    <3>8. TornClashed'
      BY <3>1, <2>1, <2>2 DEF TornClashed, Owned, Making, Asking, Stepping, StepsOwn, OneAtATime
    <3> QED
      BY <3>2, <3>3, <3>4, <3>5, <3>6, <3>7, <3>8
  <2> QED
    BY <2>3, <2>4, <2>5, <2>6, <2>7, <2>8, <2>9, <2>10 DEF OwnInv
<1>12. ASSUME MapRace PROVE KeyInv' /\ OwnInv' /\ FinishedIsGone'
  <2>1. /\ DOMAIN algs_dict' = {}
        /\ \A o \in Call : call'[o].pc = "idle"
        /\ \A d \in Client : client'[d].place = "gone" /\ ~torn'[d]
    BY <1>12 DEF MapRace, Idle
  <2>2. Owned'
    BY <2>1 DEF Owned, Making
  <2>3. Making'
    BY <2>1 DEF Making, Asking
  <2>4. Asking'
    BY <2>1 DEF Making, Asking, Readied
  <2>5. Stepping'
    BY <2>1 DEF Stepping, Owned, Making, Asking
  <2>6. Readied'
    BY <2>1 DEF Readied, Making
  <2>7. TornLater'
    BY <2>1 DEF TornLater, Owned, Making
  <2>8. FinishedIsGone'
    BY <2>1 DEF FinishedIsGone, Owned, Making, Asking
  <2>9. OwnInv'
    BY <2>1 DEF OwnInv, OneAtATime, AskingReady, Holds, StoreFree, StoreAlone, StepsOwn, TornClashed
  <2> QED
    BY <2>2, <2>3, <2>4, <2>5, <2>6, <2>7, <2>8, <2>9 DEF OwnInv
<1>13. ASSUME UNCHANGED drawVars PROVE KeyInv' /\ OwnInv' /\ FinishedIsGone'
  BY <1>13 DEF drawVars, Owned, Making, Asking, Stepping, Readied, TornLater, FinishedIsGone,
       OwnInv, OneAtATime, AskingReady, Holds, StoreFree, StoreAlone, StepsOwn, TornClashed
<1> QED
  BY <1>1, <1>3, <1>4, <1>5, <1>6, <1>7, <1>8, <1>9, <1>10, <1>11, <1>12, <1>13 DEF DrawNext, Handle

-----------------------------------------------------------------------------
LEMMA DrawInvInit == DrawInit => DrawIInv
BY DrawTypeInit, KeyInit DEF DrawIInv

LEMMA DrawInvStep == DrawIInv /\ [DrawNext]_drawVars => DrawIInv'
BY DrawTypeStep, StepKeeps DEF DrawIInv

LEMMA DrawInvariance == DrawSpec => []DrawIInv
BY DrawInvInit, DrawInvStep, PTL DEF DrawSpec

(***************************************************************************)
(* Entries, goroutines and clients have their types, with any number of    *)
(* clients and keys (routing.go:115-199).                                  *)
(***************************************************************************)
THEOREM DrawTypeCorrect == DrawSpec => []DrawTypeOK
<1>1. DrawIInv => DrawTypeOK
  BY DEF DrawIInv
<1> QED
  BY <1>1, DrawInvariance, PTL

(***************************************************************************)
(* With any number of clients, keys and batches a client that waits for    *)
(* each answer steps its own search and is alone with it, unless two       *)
(* creations clashed on its key or somebody repeated a request.            *)
(***************************************************************************)
THEOREM EachDrawsItsOwn == DrawSpec => []DrawsItsOwn
<1>1. DrawIInv => DrawsItsOwn
  <2> SUFFICES ASSUME DrawIInv, NEW h \in Call, call[h].pc \in InUse,
                      call[h].key \notin clashed, repeated = {}
               PROVE  call[h].search = h[1] /\ ~torn[h[1]]
    BY DEF DrawsItsOwn
  <2>1. call[h].search = h[1]
    BY DEF DrawIInv, OwnInv, OneOwner, StepsOwn
  <2>2. client[h[1]].key = call[h].key
    BY DEF DrawIInv, KeyInv, Asking, InUse
  <2>3. ~torn[h[1]]
    BY <2>2, CallFacts DEF DrawIInv, OwnInv, OneOwner, TornClashed
  <2> QED
    BY <2>1, <2>3
<1> QED
  BY <1>1, DrawInvariance, PTL

(***************************************************************************)
(* A client that has got its last answer leaves no search behind, whatever *)
(* clashes and repeated requests there were (routing.go:193).              *)
(***************************************************************************)
THEOREM FinishedAlwaysGone == DrawSpec => []FinishedIsGone
<1>1. DrawIInv => FinishedIsGone
  BY DEF DrawIInv
<1> QED
  BY <1>1, DrawInvariance, PTL
=============================================================================
