---------------------------- MODULE BroadcastQueue ----------------------------
(***************************************************************************)
(* What distributed/device_communicators/shm_broadcast.py promises: one    *)
(* writer, many readers, every reader receives every message once and in   *)
(* the order of sending, and the writer is never more than Capacity        *)
(* messages ahead of a reader on its own node.                             *)
(***************************************************************************)
EXTENDS Broadcast

CONSTANTS
  Readers,    \* all readers
  Local,      \* the readers on the writer's node
  Capacity,   \* how far they may be behind
  Messages

VARIABLE queue

Init == queue = EmptyQueue(Readers)

Enqueue(m) == Room(queue, Local, Capacity) /\ queue' = Sent(queue, m)

Dequeue(r) == Lag(queue, r) > 0 /\ queue' = Received(queue, r)

Next == (\E m \in Messages : Enqueue(m)) \/ (\E r \in Readers : Dequeue(r))

Spec == Init /\ [][Next]_queue
=============================================================================
