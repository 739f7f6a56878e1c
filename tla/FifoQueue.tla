----------------------------- MODULE FifoQueue -----------------------------
(***************************************************************************)
(* What the comments of util.Queue promise, and no more: items leave in    *)
(* the order they were put in, each once, and taking from an empty queue   *)
(* returns a false bool and changes nothing.                               *)
(***************************************************************************)
EXTENDS Sequences

CONSTANTS Reader,    \* who takes items out
          Element,   \* what is queued
          Nothing    \* the answer of a take from an empty queue

VARIABLES items,     \* the queue, oldest first
          answer     \* the last answer each reader got

TypeOK ==
  /\ items \in Seq(Element)
  /\ answer \in [Reader -> Element \cup {Nothing}]

Init ==
  /\ items = <<>>
  /\ answer = [r \in Reader |-> Nothing]

Put(x) ==
  /\ items' = Append(items, x)
  /\ UNCHANGED answer

Get(r) ==
  /\ items # <<>>
  /\ answer' = [answer EXCEPT ![r] = Head(items)]
  /\ items' = Tail(items)

GetNothing(r) ==
  /\ items = <<>>
  /\ answer' = [answer EXCEPT ![r] = Nothing]
  /\ UNCHANGED items

Next ==
  \/ \E x \in Element : Put(x)
  \/ \E r \in Reader : Get(r) \/ GetNothing(r)

Spec == Init /\ [][Next]_<<items, answer>>
=============================================================================
