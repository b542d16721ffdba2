------------------------------- MODULE IpcPorts -------------------------------
(***************************************************************************)
(* The named message ports of src/kernel/ipc/ipc.c: a table of ports, each *)
(* with a ring of QueueDepth messages, and the slot pool behind it.        *)
(***************************************************************************)
EXTENDS Integers, Sequences, FiniteSets

CONSTANTS MaxPorts,    \* IPC_MAX_PORTS
          QueueDepth,  \* IPC_QUEUE_DEPTH
          Text,        \* message texts
          NoText,      \* a zeroed message buffer
          Name,        \* port names callers pass
          Stored,      \* what ipc_copy_text keeps of a name in name[16]
          NoName

ASSUME IpcAssumption ==
    /\ MaxPorts \in Nat \ {0} /\ QueueDepth \in Nat \ {0}
    /\ NoText \notin Text
    /\ \A n \in Name : Stored[n] # NoName
    /\ NoName \notin Seq(Text)

VARIABLES g_ports, g_port_pool, port_count

vars == <<g_ports, g_port_pool, port_count>>

Slot      == 0 .. MaxPorts - 1
ZeroPort  == [used |-> FALSE, name |-> NoName, queue |-> [k \in 0 .. QueueDepth - 1 |-> NoText],
              head |-> 0, tail |-> 0, count |-> 0]

Init ==
    /\ g_ports = [s \in Slot |-> ZeroPort]
    /\ g_port_pool = {}
    /\ port_count = 0

\* ipc_port_find compares the stored, possibly shortened, name with the full one.
Named(name) == {s \in Slot : g_ports[s].used /\ g_ports[s].name = name}

FirstFree == CHOOSE s \in Slot \ g_port_pool : \A t \in Slot \ g_port_pool : s <= t

\* A name that is in use already, or a full table, changes nothing.
ipc_port_create(name) ==
    /\ Named(name) = {}
    /\ Slot \ g_port_pool # {}
    /\ g_port_pool' = g_port_pool \union {FirstFree}
    /\ g_ports' = [g_ports EXCEPT ![FirstFree] = [ZeroPort EXCEPT !.used = TRUE, !.name = Stored[name]]]
    /\ port_count' = port_count + 1

\* Mutant: the port is wiped but its slot never returns to the pool.
ipc_port_close_keeps_slot(s) ==
    /\ g_ports[s].used
    /\ g_ports' = [g_ports EXCEPT ![s] = ZeroPort]
    /\ port_count' = IF port_count > 0 THEN port_count - 1 ELSE 0
    /\ UNCHANGED g_port_pool

ipc_port_close(s) ==
    /\ g_ports[s].used
    /\ g_ports' = [g_ports EXCEPT ![s] = ZeroPort]
    /\ port_count' = IF port_count > 0 THEN port_count - 1 ELSE 0
    /\ g_port_pool' = g_port_pool \ {s}

\* A position of the ring.
Wrap(n) == n % QueueDepth

\* The port after ipc_send_text; a full queue drops the message.
Queued(p, text) ==
    IF p.count >= QueueDepth THEN p
    ELSE [p EXCEPT !.queue[p.tail] = text, !.tail = Wrap(p.tail + 1), !.count = p.count + 1]

ipc_send_text(s, text) ==
    /\ g_ports[s].used
    /\ g_ports' = [g_ports EXCEPT ![s] = Queued(@, text)]
    /\ UNCHANGED <<g_port_pool, port_count>>

ipc_broadcast_text(text) ==
    /\ g_ports' = [s \in Slot |-> IF g_ports[s].used THEN Queued(g_ports[s], text) ELSE g_ports[s]]
    /\ UNCHANGED <<g_port_pool, port_count>>

\* Mutant: the newest message is taken instead of the oldest.
ipc_recv_newest(s) ==
    /\ g_ports[s].used
    /\ g_ports[s].count # 0
    /\ g_ports' = [g_ports EXCEPT ![s].tail = Wrap(@ + QueueDepth - 1), ![s].count = @ - 1]
    /\ UNCHANGED <<g_port_pool, port_count>>

\* ipc_peek_text is this without the removal, and changes nothing.
ipc_recv_text(s) ==
    /\ g_ports[s].used
    /\ g_ports[s].count # 0
    /\ g_ports' = [g_ports EXCEPT ![s].head = Wrap(@ + 1), ![s].count = @ - 1]
    /\ UNCHANGED <<g_port_pool, port_count>>

Next ==
    \/ \E name \in Name : ipc_port_create(name)
    \/ \E s \in Slot : ipc_port_close(s) \/ ipc_recv_text(s) \/ \E t \in Text : ipc_send_text(s, t)
    \/ \E t \in Text : ipc_broadcast_text(t)

Spec == Init /\ [][Next]_vars
-----------------------------------------------------------------------------

Port == [used : BOOLEAN, name : {Stored[n] : n \in Name} \union {NoName},
         queue : [0 .. QueueDepth - 1 -> Text \union {NoText}],
         head : 0 .. QueueDepth - 1, tail : 0 .. QueueDepth - 1, count : 0 .. QueueDepth]

\* Type invariant of the port table; a free slot is fully wiped.
TypeOK ==
    /\ g_ports \in [Slot -> Port]
    /\ g_port_pool \subseteq Slot
    /\ port_count \in 0 .. MaxPorts
    /\ \A s \in Slot : ~g_ports[s].used => g_ports[s] = ZeroPort

\* The pool bitmap, the used flags and ipc_info's port_count, which are kept
\* apart, always describe the same set of ports, and in every ring tail is
\* count places after head, over messages that were really sent: no create or
\* close leaks a port or hands out one that is in use.
TablesAgree ==
    /\ g_port_pool = {s \in Slot : g_ports[s].used}
    /\ port_count = Cardinality(g_port_pool)
    /\ \A s \in Slot :
         LET p == g_ports[s]
         IN  /\ p.tail = Wrap(p.head + p.count)
             /\ \A k \in 0 .. p.count - 1 : p.queue[Wrap(p.head + k)] \in Text

\* The queue a ring stands for.
Pending(p) == [k \in 1 .. p.count |-> p.queue[Wrap(p.head + (k - 1))]]

Queues == [s \in Slot |-> IF g_ports[s].used THEN Pending(g_ports[s]) ELSE NoName]

Abstract == INSTANCE BoundedQueues WITH
    Id <- Slot, Item <- Text, Capacity <- QueueDepth, Closed <- NoName, queues <- Queues

\* Every port is a bounded first-in first-out queue: sends, broadcasts and
\* receives in any order deliver every queued message once and in order, across
\* any number of wraps of the ring, and a port created in a recycled slot
\* starts empty.
PortsAreQueues == Abstract!Spec
=============================================================================
