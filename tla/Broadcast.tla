------------------------------- MODULE Broadcast -------------------------------
(***************************************************************************)
(* A reliable broadcast queue as a value: everything that was sent, and    *)
(* what each reader has received of it.  The operators are used by the     *)
(* specification BroadcastQueue and by MultiprocExecutor, whose queues are *)
(* instances of MessageQueue.                                              *)
(***************************************************************************)
EXTENDS Naturals, Sequences

EmptyQueue(readers) == [sent |-> <<>>, got |-> [r \in readers |-> <<>>]]

\* How many messages reader r is behind.
Lag(q, r) == Len(q.sent) - Len(q.got[r])

\* The sender waits for readers that are more than `capacity' behind.
Room(q, readers, capacity) == \A r \in readers : Lag(q, r) < capacity

Sent(q, m) == [q EXCEPT !.sent = Append(@, m)]

\* The next message of reader r: everything arrives once, and in order.
NextFor(q, r) == q.sent[Len(q.got[r]) + 1]

Received(q, r) == [q EXCEPT !.got[r] = Append(@, NextFor(q, r))]
=============================================================================
