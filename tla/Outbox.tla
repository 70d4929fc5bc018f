------------------------------- MODULE Outbox -------------------------------
(***************************************************************************)
(* What a durable outbox promises, whatever dispatcher drains it: an item  *)
(* is offered to the outside world at most once, in order within its lane, *)
(* and settles only after the world took it.                               *)
(***************************************************************************)
EXTENDS Integers, Sequences

CONSTANTS
  Item,  \* what is to be delivered
  Lane   \* items of one lane are delivered in order

VARIABLES
  queue,   \* items in the order they were enqueued
  lane,    \* lane of an item, fixed once it is enqueued
  tries,   \* how often an item was offered
  taken,   \* items the world took
  settled  \* items known to be taken

vars == <<queue, lane, tries, taken, settled>>

Init ==
  /\ queue = <<>>
  /\ lane \in [Item -> Lane]
  /\ tries = [i \in Item |-> 0]
  /\ taken = {}
  /\ settled = {}

Queued(i) == \E k \in 1..Len(queue) : queue[k] = i

\* At most two items are enqueued in one transaction.
Batches == {<<>>} \cup {<<i>> : i \in Item} \cup {<<i, j>> : i, j \in Item}

Enqueue ==
  /\ \E s \in Batches :
       /\ \A k \in 1..Len(s) : ~Queued(s[k])
       /\ queue' = queue \o s
  /\ lane' \in [Item -> Lane]
  /\ \A i \in Item : Queued(i) => lane'[i] = lane[i]
  /\ UNCHANGED <<tries, taken, settled>>

Try(k) ==
  /\ tries[queue[k]] = 0
  /\ \A j \in 1..(k - 1) : lane[queue[j]] = lane[queue[k]] => queue[j] \in settled
  /\ tries' = [tries EXCEPT ![queue[k]] = 1]
  /\ UNCHANGED <<queue, lane, taken, settled>>

Take(i) ==
  /\ tries[i] = 1 /\ i \notin taken
  /\ taken' = taken \cup {i}
  /\ UNCHANGED <<queue, lane, tries, settled>>

Settle(i) ==
  /\ i \in taken \ settled
  /\ settled' = settled \cup {i}
  /\ UNCHANGED <<queue, lane, tries, taken>>

Next ==
  \/ Enqueue
  \/ \E k \in 1..Len(queue) : Try(k)
  \/ \E i \in Item : Take(i) \/ Settle(i)

Spec == Init /\ [][Next]_vars
=============================================================================
