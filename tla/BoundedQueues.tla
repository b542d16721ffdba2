---------------------------- MODULE BoundedQueues ----------------------------
(***************************************************************************)
(* What the kernel's message ports and pipes promise their users: a table  *)
(* of first-in first-out queues, each closed or holding at most Capacity   *)
(* items.  Nothing is lost, duplicated or reordered between Put and Take.  *)
(***************************************************************************)
EXTENDS Integers, Sequences

CONSTANTS Id, Item, Capacity, Closed

VARIABLE queues

\* The sequences of at most Capacity items.
Batch == UNION {[1 .. n -> Item] : n \in 0 .. Capacity}

IsOpen(i) == queues[i] # Closed

Init == queues = [i \in Id |-> Closed]

Open(i) ==
    /\ ~IsOpen(i)
    /\ queues' = [queues EXCEPT ![i] = <<>>]

Close(i) ==
    /\ IsOpen(i)
    /\ queues' = [queues EXCEPT ![i] = Closed]

\* The same items are put into every queue of S (one queue for a send, several
\* for a broadcast); they all fit.
Put(S, items) ==
    /\ \A i \in S : IsOpen(i) /\ Len(queues[i]) + Len(items) <= Capacity
    /\ queues' = [i \in Id |-> IF i \in S THEN queues[i] \o items ELSE queues[i]]

Take(i, n) ==
    /\ IsOpen(i)
    /\ n <= Len(queues[i])
    /\ queues' = [queues EXCEPT ![i] = SubSeq(@, n + 1, Len(@))]

Next ==
    \/ \E i \in Id : Open(i) \/ Close(i)
    \/ \E S \in SUBSET Id, items \in Batch : Put(S, items)
    \/ \E i \in Id, n \in 1 .. Capacity : Take(i, n)

Spec == Init /\ [][Next]_queues
=============================================================================
