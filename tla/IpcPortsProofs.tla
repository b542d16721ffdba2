---------------------------- MODULE IpcPortsProofs ----------------------------
(***************************************************************************)
(* Proofs about IpcPorts, for any table size, queue depth, texts and names: *)
(* the pool, the used flags and the rings agree, and every port is a       *)
(* bounded first-in first-out queue (the refinement of BoundedQueues).     *)
(***************************************************************************)
EXTENDS IpcPorts, WellFoundedInduction, FiniteSetTheorems, SequenceTheorems, TLAPS

\* The scans of the pool go upwards: the first entry that satisfies a test exists as soon as
\* any does.
LEMMA LeastNat ==
    ASSUME NEW T, T \subseteq Nat, T # {}
    PROVE  \E x \in T : \A y \in T : x <= y
<1>1. PICK x \in T : \A y \in T : ~(<<y, x>> \in OpToRel(<, Nat))
  BY NatLessThanWellFounded, WFMin, Zenon
<1>2. \A a, b \in Nat : <<a, b>> \in OpToRel(<, Nat) <=> a < b
  BY DEF OpToRel
<1>3. \A y \in T : ~(y < x)
  BY <1>1, <1>2, Zenon
<1> QED BY <1>3

\* What TablesAgree says of one ring.
Ring(p) ==
    /\ p.tail = Wrap(p.head + p.count)
    /\ \A k \in 0 .. p.count - 1 : p.queue[Wrap(p.head + k)] \in Text

\* The inductive invariant: the two invariants need each other.
IInv == TypeOK /\ TablesAgree

\* An index that passes the end of the ring once continues at its start, as the
\* "% IPC_QUEUE_DEPTH" of ipc_send_text and ipc_recv_text intends.
LEMMA Wraps ==
    ASSUME NEW n \in 0 .. 2 * QueueDepth - 1
    PROVE  Wrap(n) = IF n < QueueDepth THEN n ELSE n - QueueDepth
<1>1. QueueDepth \in Nat \ {0}
  BY IpcAssumption
<1>2. CASE n < QueueDepth
  BY <1>1, <1>2 DEF Wrap
<1>3. CASE n >= QueueDepth
  BY <1>1, <1>3 DEF Wrap
<1> QED
  BY <1>1, <1>2, <1>3

\* Queueing a message keeps the ring a ring and appends the message to the queue
\* it stands for; a full ring is left as it is.
LEMMA QueuedFacts ==
    ASSUME NEW p \in Port, Ring(p), NEW t \in Text
    PROVE  /\ Queued(p, t) \in Port
           /\ Queued(p, t).used = p.used
           /\ Ring(Queued(p, t))
           /\ p.count < QueueDepth => Pending(Queued(p, t)) = Pending(p) \o <<t>>
<1>1. CASE p.count >= QueueDepth
  <2>1. Queued(p, t) = p
    BY <1>1 DEF Queued
  <2>2. ~(p.count < QueueDepth)
    BY <1>1, IpcAssumption DEF Port
  <2> QED
    BY <2>1, <2>2
<1>2. CASE p.count < QueueDepth
  <2> DEFINE q == Queued(p, t)
  <2>1. /\ p.head \in 0 .. QueueDepth - 1 /\ p.tail \in 0 .. QueueDepth - 1
        /\ p.count \in 0 .. QueueDepth - 1 /\ QueueDepth \in Nat \ {0}
        /\ p.queue \in [0 .. QueueDepth - 1 -> Text \union {NoText}]
    BY <1>2, IpcAssumption DEF Port
  <2>2. /\ q = [used |-> p.used, name |-> p.name, queue |-> [p.queue EXCEPT ![p.tail] = t],
                head |-> p.head, tail |-> Wrap(p.tail + 1), count |-> p.count + 1]
        /\ q.used = p.used /\ q.queue = [p.queue EXCEPT ![p.tail] = t]
        /\ q.head = p.head /\ q.tail = Wrap(p.tail + 1) /\ q.count = p.count + 1
    <3>1. ~(p.count >= QueueDepth)
      BY <1>2, <2>1
    <3>2. q = [p EXCEPT !.queue = [p.queue EXCEPT ![p.tail] = t], !.tail = Wrap(p.tail + 1),
                        !.count = p.count + 1]
      BY <3>1 DEF Queued
    <3> QED
      BY <3>2, Zenon DEF Port
  <2> HIDE DEF q
  <2>3. Wrap(p.tail + 1) = IF p.tail + 1 < QueueDepth THEN p.tail + 1 ELSE 0
    BY <2>1, Wraps
  <2>4. q \in Port
    BY <2>1, <2>2, <2>3 DEF Port
  <2>5. p.tail = IF p.head + p.count < QueueDepth THEN p.head + p.count ELSE p.head + p.count - QueueDepth
    BY <2>1, Wraps DEF Ring
  <2>6. q.tail = Wrap(q.head + q.count)
    <3>1. Wrap(p.head + (p.count + 1))
            = IF p.head + p.count + 1 < QueueDepth THEN p.head + p.count + 1
              ELSE p.head + p.count + 1 - QueueDepth
      <4>1. p.head + (p.count + 1) \in 0 .. 2 * QueueDepth - 1
        BY <2>1
      <4> QED
        BY <2>1, <4>1, Wraps, SMTT(40)
    <3> QED
      BY <2>1, <2>2, <2>3, <2>5, <3>1, SMTT(40)
  <2>7. ASSUME NEW k \in 0 .. p.count
        PROVE  q.queue[Wrap(p.head + k)]
                 = IF k = p.count THEN t ELSE p.queue[Wrap(p.head + k)]
    <3>1. Wrap(p.head + k) = IF p.head + k < QueueDepth THEN p.head + k ELSE p.head + k - QueueDepth
      BY <2>1, Wraps
    <3>2. Wrap(p.head + k) = p.tail <=> k = p.count
      BY <2>1, <2>5, <3>1, SMTT(40)
    <3> QED
      BY <2>1, <2>2, <3>1, <3>2
  <2>8. Ring(q)
    BY <2>1, <2>2, <2>6, <2>7, SMTT(40) DEF Ring
  <2>9. Pending(q) = Pending(p) \o <<t>>
    <3>1. Pending(p) \in Seq(Text) /\ Len(Pending(p)) = p.count
      <4>1. ASSUME NEW k \in 1 .. p.count
            PROVE  p.queue[Wrap(p.head + (k - 1))] \in Text
        <5>1. k - 1 \in 0 .. p.count - 1
          BY <2>1
        <5> QED
          BY <5>1 DEF Ring
      <4> QED
        BY <2>1, <4>1, SMTT(40) DEF Pending
    <3>2. Pending(q) = [k \in 1 .. p.count + 1 |-> q.queue[Wrap(p.head + (k - 1))]]
      BY <2>1, <2>2 DEF Pending
    <3>3. Pending(p) \o <<t>> = [k \in 1 .. p.count + 1 |-> IF k = p.count + 1 THEN t ELSE Pending(p)[k]]
      <4> DEFINE u == Pending(p)
                 v == <<t>>
      <4>1. v \in Seq(Text) /\ Len(v) = 1 /\ v[1] = t
        OBVIOUS
      <4>2. u \in Seq(Text) /\ Len(u) = p.count
        BY <3>1
      <4> HIDE DEF u, v
      <4> DEFINE w == u \o v
      <4>3. /\ w \in Seq(Text) /\ Len(w) = Len(u) + Len(v)
            /\ \A k \in 1 .. Len(u) + Len(v) : w[k] = IF k <= Len(u) THEN u[k] ELSE v[k - Len(u)]
        BY <4>1, <4>2, ConcatProperties, Zenon
      <4> HIDE DEF w
      <4>4. ASSUME NEW k \in 1 .. p.count + 1
            PROVE  w[k] = IF k = p.count + 1 THEN t ELSE u[k]
        BY <2>1, <4>1, <4>2, <4>3
      <4>5. w = [k \in 1 .. p.count + 1 |-> w[k]]
        BY <2>1, <4>1, <4>2, <4>3
      <4>6. w = [k \in 1 .. p.count + 1 |-> IF k = p.count + 1 THEN t ELSE u[k]]
        BY <4>4, <4>5
      <4> QED
        BY <4>6 DEF u, v, w
    <3>4. ASSUME NEW k \in 1 .. p.count + 1
          PROVE  q.queue[Wrap(p.head + (k - 1))] = IF k = p.count + 1 THEN t ELSE Pending(p)[k]
      <4>1. k - 1 \in 0 .. p.count /\ (k - 1 = p.count <=> k = p.count + 1)
        BY <2>1
      <4>2. k # p.count + 1 => Pending(p)[k] = p.queue[Wrap(p.head + (k - 1))]
        BY <2>1 DEF Pending
      <4> QED
        BY <2>7, <4>1, <4>2
    <3> QED
      BY <3>2, <3>3, <3>4, SMTT(40)
  <2> QED
    BY <1>2, <2>2, <2>4, <2>8, <2>9, Zenon DEF q
<1>3. p.count >= QueueDepth \/ p.count < QueueDepth
  BY IpcAssumption DEF Port
<1> QED
  BY <1>1, <1>2, <1>3

\* The port after ipc_recv_text.
Taken(p) == [p EXCEPT !.head = Wrap(@ + 1), !.count = @ - 1]

\* Receiving keeps the ring a ring and removes the first message of the queue it
\* stands for.
LEMMA TakenFacts ==
    ASSUME NEW p \in Port, Ring(p), p.count # 0
    PROVE  /\ Taken(p) \in Port
           /\ Taken(p).used = p.used
           /\ Ring(Taken(p))
           /\ Pending(p) \in Seq(Text) /\ Len(Pending(p)) = p.count
           /\ Pending(Taken(p)) = SubSeq(Pending(p), 2, Len(Pending(p)))
<1> DEFINE q == Taken(p)
<1>1. /\ p.head \in 0 .. QueueDepth - 1 /\ p.tail \in 0 .. QueueDepth - 1
      /\ p.count \in 1 .. QueueDepth /\ QueueDepth \in Nat \ {0}
      /\ p.queue \in [0 .. QueueDepth - 1 -> Text \union {NoText}]
  BY IpcAssumption DEF Port
<1>2. /\ q = [used |-> p.used, name |-> p.name, queue |-> p.queue,
              head |-> Wrap(p.head + 1), tail |-> p.tail, count |-> p.count - 1]
      /\ q.used = p.used /\ q.queue = p.queue /\ q.tail = p.tail
      /\ q.head = Wrap(p.head + 1) /\ q.count = p.count - 1
  <2>1. q = [p EXCEPT !.head = Wrap(p.head + 1), !.count = p.count - 1]
    BY DEF Taken
  <2> QED
    BY <2>1, Zenon DEF Port
<1> HIDE DEF q
<1>3. Wrap(p.head + 1) = IF p.head + 1 < QueueDepth THEN p.head + 1 ELSE 0
  BY <1>1, Wraps
<1>4. q \in Port
  BY <1>1, <1>2, <1>3 DEF Port
<1>5. ASSUME NEW k \in 0 .. p.count - 1
      PROVE  Wrap(q.head + k) = Wrap(p.head + (k + 1))
  <2>1. Wrap(p.head + (k + 1)) = IF p.head + (k + 1) < QueueDepth THEN p.head + (k + 1)
                                 ELSE p.head + (k + 1) - QueueDepth
    <3> DEFINE x == p.head + (k + 1)
    <3>1. x \in 0 .. 2 * QueueDepth - 1
      BY <1>1, SMTT(40)
    <3> HIDE DEF x
    <3>2. Wrap(x) = IF x < QueueDepth THEN x ELSE x - QueueDepth
      BY <3>1, Wraps
    <3> QED
      BY <1>1, <3>2 DEF x
  <2>2. Wrap(q.head + k) = IF q.head + k < QueueDepth THEN q.head + k ELSE q.head + k - QueueDepth
    <3> DEFINE x == q.head + k
    <3>1. x \in 0 .. 2 * QueueDepth - 1
      BY <1>1, <1>2, <1>3, SMTT(40)
    <3> HIDE DEF x
    <3>2. Wrap(x) = IF x < QueueDepth THEN x ELSE x - QueueDepth
      BY <3>1, Wraps
    <3> QED
      BY <1>1, <1>2, <1>3, <3>2 DEF x
  <2>3. CASE p.head + 1 < QueueDepth
    BY <1>1, <1>2, <1>3, <2>1, <2>2, <2>3, SMTT(40)
  <2>4. CASE ~(p.head + 1 < QueueDepth)
    <3>1. p.head = QueueDepth - 1 /\ q.head = 0
      BY <1>1, <1>2, <1>3, <2>4
    <3> QED
      BY <1>1, <2>1, <2>2, <3>1
  <2> QED
    BY <2>3, <2>4
<1>6. Ring(q)
  <2>1. q.tail = Wrap(q.head + q.count)
    <3>1. p.count - 1 \in 0 .. p.count - 1 /\ (p.count - 1) + 1 = p.count
      BY <1>1
    <3> QED
      BY <1>2, <1>5, <3>1 DEF Ring
  <2>2. ASSUME NEW k \in 0 .. q.count - 1
        PROVE  q.queue[Wrap(q.head + k)] \in Text
    <3>1. k \in 0 .. p.count - 1 /\ k + 1 \in 0 .. p.count - 1
      BY <1>1, <1>2
    <3> QED
      BY <1>2, <1>5, <3>1 DEF Ring
  <2> QED
    BY <2>1, <2>2 DEF Ring
<1>7. ASSUME NEW k \in 1 .. p.count
      PROVE  /\ Pending(p)[k] = p.queue[Wrap(p.head + (k - 1))]
             /\ p.queue[Wrap(p.head + (k - 1))] \in Text
  <2>1. k - 1 \in 0 .. p.count - 1
    BY <1>1
  <2> QED
    BY <2>1 DEF Ring, Pending
<1>8. Pending(p) \in Seq(Text) /\ Len(Pending(p)) = p.count
  <2>1. \A k \in 1 .. p.count : p.queue[Wrap(p.head + (k - 1))] \in Text
    BY <1>7
  <2> QED
    BY <1>1, <2>1, SMTT(40) DEF Pending
<1>9. Pending(q) = [k \in 1 .. p.count - 1 |-> Pending(p)[k + 1]]
  <2>1. Pending(q) = [k \in 1 .. p.count - 1 |-> p.queue[Wrap(q.head + (k - 1))]]
    BY <1>2 DEF Pending
  <2>2. ASSUME NEW k \in 1 .. p.count - 1
        PROVE  p.queue[Wrap(q.head + (k - 1))] = Pending(p)[k + 1]
    <3>1. k - 1 \in 0 .. p.count - 1 /\ (k - 1) + 1 = k /\ k + 1 \in 1 .. p.count /\ (k + 1) - 1 = k
      BY <1>1
    <3>2. Wrap(q.head + (k - 1)) = Wrap(p.head + k)
      BY <1>5, <3>1
    <3> QED
      BY <1>7, <3>1, <3>2
  <2> QED
    BY <2>1, <2>2
<1>10. SubSeq(Pending(p), 2, Len(Pending(p))) = [k \in 1 .. p.count - 1 |-> Pending(p)[k + 1]]
  <2> DEFINE u == Pending(p)
  <2>1. u \in Seq(Text) /\ Len(u) = p.count
    BY <1>8
  <2> HIDE DEF u
  <2>2. SubSeq(u, 2, Len(u)) = [k \in 1 .. p.count - 1 |-> u[k + 1]]
    BY <1>1, <2>1
  <2> QED
    BY <2>2 DEF u
<1> QED
  BY <1>2, <1>4, <1>6, <1>8, <1>9, <1>10, Zenon DEF q

\* The facts that the step lemmas take from the invariant, port by port.
LEMMA PortFacts ==
    ASSUME IInv
    PROVE  /\ \A s \in Slot : g_ports[s] \in Port /\ Ring(g_ports[s])
           /\ \A s \in Slot : s \in g_port_pool <=> g_ports[s].used
           /\ Slot \subseteq Nat /\ IsFiniteSet(Slot)
           /\ IsFiniteSet(g_port_pool) /\ Cardinality(g_port_pool) \in Nat
           /\ g_port_pool \subseteq Slot
<1>1. \A s \in Slot : g_ports[s] \in Port /\ Ring(g_ports[s])
  BY DEF IInv, TypeOK, TablesAgree, Ring
<1>2. \A s \in Slot : s \in g_port_pool <=> g_ports[s].used
  BY DEF IInv, TablesAgree
<1>3. Slot \subseteq Nat /\ IsFiniteSet(Slot)
  BY IpcAssumption, FS_Interval DEF Slot
<1>4. g_port_pool \subseteq Slot
  BY DEF IInv, TypeOK
<1>5. IsFiniteSet(g_port_pool) /\ Cardinality(g_port_pool) \in Nat
  BY <1>3, <1>4, FS_Subset, FS_CardinalityType, Zenon
<1> QED
  BY <1>1, <1>2, <1>3, <1>4, <1>5

\* The pool never holds more than the MaxPorts slots.
LEMMA PoolBound ==
    ASSUME NEW S, S \subseteq Slot
    PROVE  IsFiniteSet(S) /\ Cardinality(S) \in 0 .. MaxPorts
<1>1. IsFiniteSet(Slot) /\ Cardinality(Slot) = MaxPorts
  <2>1. MaxPorts \in Nat \ {0} /\ 0 \in Int /\ MaxPorts - 1 \in Int
    BY IpcAssumption
  <2>2. Cardinality(0 .. MaxPorts - 1) = IF 0 > MaxPorts - 1 THEN 0 ELSE (MaxPorts - 1) - 0 + 1
    BY <2>1, FS_Interval
  <2> QED
    BY <2>1, <2>2, FS_Interval DEF Slot
<1>2. IsFiniteSet(S) /\ Cardinality(S) <= Cardinality(Slot)
  BY <1>1, FS_Subset
<1>3. Cardinality(S) \in Nat
  BY <1>2, FS_CardinalityType
<1> QED
  BY <1>1, <1>2, <1>3, IpcAssumption

\* A wiped slot satisfies what the invariant says of a ring.
LEMMA WipedPort == ZeroPort \in Port /\ Ring(ZeroPort) /\ ~ZeroPort.used
<1>1. QueueDepth \in Nat \ {0}
  BY IpcAssumption
<1>2. Wrap(0) = 0
  BY <1>1, Wraps
<1> QED
  BY <1>1, <1>2 DEF ZeroPort, Port, Ring

\* A port as ipc_port_create leaves it is an empty ring.
LEMMA NewPort ==
    ASSUME NEW name \in Name
    PROVE  LET p == [ZeroPort EXCEPT !.used = TRUE, !.name = Stored[name]]
           IN  p \in Port /\ Ring(p) /\ p.used /\ Pending(p) = <<>>
<1> DEFINE p == [ZeroPort EXCEPT !.used = TRUE, !.name = Stored[name]]
<1>0. p = [ZeroPort EXCEPT !.used = TRUE, !.name = Stored[name]]
  OBVIOUS
<1> HIDE DEF p
<1>1. p = [used |-> TRUE, name |-> Stored[name], queue |-> [k \in 0 .. QueueDepth - 1 |-> NoText],
           head |-> 0, tail |-> 0, count |-> 0]
  <2>1. /\ ZeroPort \in Port /\ ZeroPort.head = 0 /\ ZeroPort.tail = 0 /\ ZeroPort.count = 0
        /\ ZeroPort.queue = [k \in 0 .. QueueDepth - 1 |-> NoText]
    BY WipedPort DEF ZeroPort
  <2>2. p = [used |-> TRUE, name |-> Stored[name], queue |-> ZeroPort.queue,
             head |-> ZeroPort.head, tail |-> ZeroPort.tail, count |-> ZeroPort.count]
    BY <1>0, <2>1, Zenon DEF Port
  <2> QED
    BY <2>1, <2>2
<1>2. QueueDepth \in Nat \ {0}
  BY IpcAssumption
<1>3. Wrap(0) = 0
  BY <1>2, Wraps
<1>4. p \in Port
  BY <1>1, <1>2 DEF Port
<1>5. Ring(p)
  BY <1>1, <1>3 DEF Ring
<1>6. Pending(p) = <<>>
  BY <1>1 DEF Pending
<1> QED
  <2>1. p.used
    BY <1>1
  <2> QED
    BY <1>4, <1>5, <1>6, <2>1 DEF p

\* ipc_init establishes the invariant.
LEMMA InitInv == Init => IInv
<1> SUFFICES ASSUME Init PROVE IInv
  OBVIOUS
<1>1. Cardinality({}) = 0
  BY FS_EmptySet
<1>2. MaxPorts \in Nat
  BY IpcAssumption
<1>3. \A s \in Slot : g_ports[s] = ZeroPort
  BY DEF Init
<1>4. TypeOK
  BY <1>2, <1>3, WipedPort DEF Init, TypeOK
<1>5. TablesAgree
  BY <1>1, <1>3, WipedPort DEF Init, TablesAgree, Ring
<1> QED
  BY <1>4, <1>5 DEF IInv

\* When every slot changes into a port that is a ring, and the pool and the count
\* follow the used flags, the invariant holds again.
LEMMA Kept ==
    ASSUME g_ports' \in [Slot -> Port],
           \A s \in Slot : Ring(g_ports'[s]) /\ (~g_ports'[s].used => g_ports'[s] = ZeroPort),
           g_port_pool' = {s \in Slot : g_ports'[s].used},
           port_count' = Cardinality(g_port_pool')
    PROVE  IInv'
<1>1. g_port_pool' \subseteq Slot
  OBVIOUS
<1>2. port_count' \in 0 .. MaxPorts
  BY <1>1, PoolBound
<1>3. TypeOK'
  BY <1>1, <1>2 DEF TypeOK
<1>4. TablesAgree'
  BY DEF TablesAgree, Ring
<1> QED
  BY <1>3, <1>4 DEF IInv

\* ipc_port_create takes a slot that is free in the pool and in the table.
LEMMA FirstFreeIsFree ==
    ASSUME IInv, Slot \ g_port_pool # {}
    PROVE  FirstFree \in Slot \ g_port_pool
<1>1. Slot \ g_port_pool \subseteq Nat
  BY PortFacts
<1>2. \E s \in Slot \ g_port_pool : \A t \in Slot \ g_port_pool : s <= t
  BY <1>1, LeastNat, Zenon
<1> QED
  BY <1>2, Zenon DEF FirstFree

\* A create keeps the invariant, and opens an empty queue in a slot that had none.
LEMMA CreateStep ==
    ASSUME IInv, NEW name \in Name, ipc_port_create(name)
    PROVE  /\ IInv'
           /\ \E s \in Slot : /\ ~g_ports[s].used /\ g_ports'[s].used /\ Pending(g_ports'[s]) = <<>>
                              /\ \A r \in Slot \ {s} : g_ports'[r] = g_ports[r]
<1> DEFINE s == FirstFree
           p == [ZeroPort EXCEPT !.used = TRUE, !.name = Stored[name]]
<1>1. /\ g_port_pool' = g_port_pool \union {s} /\ g_ports' = [g_ports EXCEPT ![s] = p]
      /\ port_count' = port_count + 1
  BY DEF ipc_port_create
<1>2. s \in Slot /\ s \notin g_port_pool
  BY FirstFreeIsFree DEF ipc_port_create
<1>3. p \in Port /\ Ring(p) /\ p.used /\ Pending(p) = <<>>
  BY NewPort, Zenon
<1> HIDE DEF s, p
<1>4. g_ports \in [Slot -> Port] /\ \A r \in Slot : ~g_ports[r].used => g_ports[r] = ZeroPort
  BY DEF IInv, TypeOK
<1>5. \A r \in Slot : g_ports'[r] = IF r = s THEN p ELSE g_ports[r]
  BY <1>1, <1>2, <1>4
<1>6. g_ports' \in [Slot -> Port]
  BY <1>1, <1>2, <1>3, <1>4
<1>7. \A r \in Slot : Ring(g_ports'[r]) /\ (~g_ports'[r].used => g_ports'[r] = ZeroPort)
  BY <1>3, <1>4, <1>5, PortFacts
<1>8. g_port_pool' = {r \in Slot : g_ports'[r].used}
  BY <1>1, <1>2, <1>3, <1>5, PortFacts
<1>9. port_count' = Cardinality(g_port_pool')
  <2>1. port_count = Cardinality(g_port_pool)
    BY DEF IInv, TablesAgree
  <2>2. Cardinality(g_port_pool \union {s}) = Cardinality(g_port_pool) + 1
    BY <1>2, PortFacts, FS_AddElement, Zenon
  <2> QED
    BY <1>1, <2>1, <2>2
<1>10. ~g_ports[s].used
  BY <1>2, PortFacts
<1> QED
  BY <1>2, <1>3, <1>5, <1>6, <1>7, <1>8, <1>9, <1>10, Kept

\* A close keeps the invariant; the count it lowers is never zero.
LEMMA CloseStep ==
    ASSUME IInv, NEW s \in Slot, ipc_port_close(s)
    PROVE  /\ IInv'
           /\ g_ports[s].used /\ ~g_ports'[s].used
           /\ \A r \in Slot \ {s} : g_ports'[r] = g_ports[r]
<1>1. /\ g_ports[s].used /\ g_port_pool' = g_port_pool \ {s}
      /\ g_ports' = [g_ports EXCEPT ![s] = ZeroPort]
      /\ port_count' = IF port_count > 0 THEN port_count - 1 ELSE 0
  BY DEF ipc_port_close
<1>2. s \in g_port_pool
  BY <1>1, PortFacts
<1>3. g_ports \in [Slot -> Port] /\ \A r \in Slot : ~g_ports[r].used => g_ports[r] = ZeroPort
  BY DEF IInv, TypeOK
<1>4. \A r \in Slot : g_ports'[r] = IF r = s THEN ZeroPort ELSE g_ports[r]
  BY <1>1, <1>3
<1>5. g_ports' \in [Slot -> Port]
  BY <1>1, <1>3, WipedPort
<1>6. \A r \in Slot : Ring(g_ports'[r]) /\ (~g_ports'[r].used => g_ports'[r] = ZeroPort)
  BY <1>3, <1>4, PortFacts, WipedPort
<1>7. g_port_pool' = {r \in Slot : g_ports'[r].used}
  BY <1>1, <1>4, PortFacts, WipedPort
<1>8. port_count' = Cardinality(g_port_pool')
  <2>1. port_count = Cardinality(g_port_pool) /\ port_count \in Nat
    BY PortFacts DEF IInv, TablesAgree
  <2>2. Cardinality(g_port_pool \ {s}) = Cardinality(g_port_pool) - 1 /\ IsFiniteSet(g_port_pool \ {s})
    BY <1>2, PortFacts, FS_RemoveElement
  <2>3. Cardinality(g_port_pool \ {s}) \in Nat
    BY <2>2, FS_CardinalityType
  <2> QED
    BY <1>1, <2>1, <2>2, <2>3
<1> QED
  BY <1>1, <1>4, <1>5, <1>6, <1>7, <1>8, Kept, WipedPort

\* A receive keeps the invariant and takes the first message of one queue.
LEMMA RecvStep ==
    ASSUME IInv, NEW s \in Slot, ipc_recv_text(s)
    PROVE  /\ IInv'
           /\ g_ports[s].used /\ g_ports'[s] = Taken(g_ports[s]) /\ g_ports[s].count # 0
           /\ \A r \in Slot \ {s} : g_ports'[r] = g_ports[r]
<1>1. g_ports[s].used /\ g_ports[s].count # 0
  BY DEF ipc_recv_text
<1>2. g_ports \in [Slot -> Port] /\ \A r \in Slot : ~g_ports[r].used => g_ports[r] = ZeroPort
  BY DEF IInv, TypeOK
<1>3. g_ports' = [g_ports EXCEPT ![s] = Taken(g_ports[s])]
  BY <1>2, Zenon DEF ipc_recv_text, Taken
<1>4. Taken(g_ports[s]) \in Port /\ Taken(g_ports[s]).used /\ Ring(Taken(g_ports[s]))
  BY <1>1, PortFacts, TakenFacts
<1>5. \A r \in Slot : g_ports'[r] = IF r = s THEN Taken(g_ports[s]) ELSE g_ports[r]
  BY <1>2, <1>3
<1>6. g_ports' \in [Slot -> Port]
  BY <1>2, <1>3, <1>4
<1>7. \A r \in Slot : Ring(g_ports'[r]) /\ (~g_ports'[r].used => g_ports'[r] = ZeroPort)
  BY <1>2, <1>4, <1>5, PortFacts
<1>8. g_port_pool' = {r \in Slot : g_ports'[r].used} /\ port_count' = Cardinality(g_port_pool')
  <2>1. UNCHANGED <<g_port_pool, port_count>>
    BY DEF ipc_recv_text
  <2> QED
    BY <1>1, <1>4, <1>5, <2>1, PortFacts DEF IInv, TablesAgree
<1> QED
  BY <1>1, <1>5, <1>6, <1>7, <1>8, Kept

\* A send to the ports of R, or a broadcast, keeps the invariant.
LEMMA SendStep ==
    ASSUME IInv, NEW t \in Text, NEW R \in SUBSET Slot, \A s \in R : g_ports[s].used,
           g_ports' = [s \in Slot |-> IF s \in R THEN Queued(g_ports[s], t) ELSE g_ports[s]],
           UNCHANGED <<g_port_pool, port_count>>
    PROVE  IInv'
<1>1. g_ports \in [Slot -> Port] /\ \A r \in Slot : ~g_ports[r].used => g_ports[r] = ZeroPort
  BY DEF IInv, TypeOK
<1>2. \A s \in R : Queued(g_ports[s], t) \in Port /\ Queued(g_ports[s], t).used /\ Ring(Queued(g_ports[s], t))
  BY PortFacts, QueuedFacts, Zenon
<1>3. g_ports' \in [Slot -> Port]
  BY <1>1, <1>2
<1>4. \A r \in Slot : Ring(g_ports'[r]) /\ (~g_ports'[r].used => g_ports'[r] = ZeroPort)
  BY <1>1, <1>2, PortFacts
<1>5. g_port_pool' = {r \in Slot : g_ports'[r].used} /\ port_count' = Cardinality(g_port_pool')
  BY <1>2, PortFacts DEF IInv, TablesAgree
<1> QED
  BY <1>3, <1>4, <1>5, Kept

\* The ports that ipc_send_text and ipc_broadcast_text put their message into.
LEMMA SendsAre ==
    ASSUME IInv, NEW t \in Text
    PROVE  /\ \A s \in Slot : ipc_send_text(s, t) =>
                /\ g_ports[s].used
                /\ g_ports' = [r \in Slot |-> IF r \in {s} THEN Queued(g_ports[r], t) ELSE g_ports[r]]
                /\ UNCHANGED <<g_port_pool, port_count>>
           /\ ipc_broadcast_text(t) =>
                /\ g_ports' = [r \in Slot |-> IF r \in {s \in Slot : g_ports[s].used}
                                              THEN Queued(g_ports[r], t) ELSE g_ports[r]]
                /\ UNCHANGED <<g_port_pool, port_count>>
<1>1. g_ports \in [Slot -> Port]
  BY DEF IInv, TypeOK
<1>2. ASSUME NEW s \in Slot, ipc_send_text(s, t)
      PROVE  g_ports' = [r \in Slot |-> IF r \in {s} THEN Queued(g_ports[r], t) ELSE g_ports[r]]
  BY <1>1, <1>2, Zenon DEF ipc_send_text
<1> QED
  BY <1>1, <1>2 DEF ipc_send_text, ipc_broadcast_text

\* Every call of the port API keeps the invariant.
LEMMA NextInv == IInv /\ [Next]_vars => IInv'
<1> SUFFICES ASSUME IInv, [Next]_vars PROVE IInv'
  OBVIOUS
<1>1. ASSUME NEW name \in Name, ipc_port_create(name) PROVE IInv'
  BY <1>1, CreateStep
<1>2. ASSUME NEW s \in Slot, ipc_port_close(s) PROVE IInv'
  BY <1>2, CloseStep
<1>3. ASSUME NEW s \in Slot, ipc_recv_text(s) PROVE IInv'
  BY <1>3, RecvStep
<1>4. ASSUME NEW s \in Slot, NEW t \in Text, ipc_send_text(s, t) PROVE IInv'
  <2> DEFINE R == {s}
  <2>1. /\ R \in SUBSET Slot /\ \A r \in R : g_ports[r].used
        /\ g_ports' = [r \in Slot |-> IF r \in R THEN Queued(g_ports[r], t) ELSE g_ports[r]]
        /\ UNCHANGED <<g_port_pool, port_count>>
    BY <1>4, SendsAre
  <2> HIDE DEF R
  <2> QED
    BY <2>1, SendStep
<1>5. ASSUME NEW t \in Text, ipc_broadcast_text(t) PROVE IInv'
  <2> DEFINE R == {s \in Slot : g_ports[s].used}
  <2>1. /\ R \in SUBSET Slot /\ \A r \in R : g_ports[r].used
        /\ g_ports' = [r \in Slot |-> IF r \in R THEN Queued(g_ports[r], t) ELSE g_ports[r]]
        /\ UNCHANGED <<g_port_pool, port_count>>
    BY <1>5, SendsAre
  <2> HIDE DEF R
  <2> QED
    BY <2>1, SendStep
<1>6. CASE UNCHANGED vars
  BY <1>6 DEF vars, IInv, TypeOK, TablesAgree
<1>7. CASE Next
  BY <1>1, <1>2, <1>3, <1>4, <1>5, <1>7, Zenon DEF Next
<1> QED
  BY <1>6, <1>7

\* The port table keeps its types, for every table size and queue depth.
THEOREM TypeCorrect == Spec => []TypeOK
<1>1. IInv => TypeOK
  BY DEF IInv
<1> QED
  BY <1>1, InitInv, NextInv, PTL DEF Spec

\* The pool, the used flags, port_count and the rings agree, whatever is created,
\* closed, sent, broadcast and received in whatever order.
THEOREM TablesCorrect == Spec => []TablesAgree
<1>1. IInv => TablesAgree
  BY DEF IInv
<1> QED
  BY <1>1, InitInv, NextInv, PTL DEF Spec

-----------------------------------------------------------------------------
(* The refinement: each call is a step of BoundedQueues on Queues, or none. *)

\* The queue of a ring is a sequence of texts as long as the ring's count, and
\* therefore not the value that stands for a closed port.
LEMMA PendingFacts ==
    ASSUME NEW p \in Port, Ring(p)
    PROVE  /\ Pending(p) \in Seq(Text) /\ Len(Pending(p)) = p.count
           /\ p.count \in 0 .. QueueDepth
           /\ Pending(p) # NoName
<1>1. p.count \in 0 .. QueueDepth /\ QueueDepth \in Nat
  BY IpcAssumption DEF Port
<1>2. ASSUME NEW k \in 1 .. p.count
      PROVE  p.queue[Wrap(p.head + (k - 1))] \in Text
  <2>1. k - 1 \in 0 .. p.count - 1
    BY <1>1
  <2> QED
    BY <2>1 DEF Ring
<1>3. Pending(p) \in Seq(Text) /\ Len(Pending(p)) = p.count
  BY <1>1, <1>2 DEF Pending
<1>4. Pending(p) # NoName
  BY <1>3, IpcAssumption
<1> QED
  BY <1>1, <1>3, <1>4

\* What Queues holds for one port, before and after a step.
LEMMA QueueOf ==
    ASSUME IInv, IInv', NEW s \in Slot
    PROVE  /\ Queues[s] = IF g_ports[s].used THEN Pending(g_ports[s]) ELSE NoName
           /\ Queues'[s] = IF g_ports'[s].used THEN Pending(g_ports'[s]) ELSE NoName
           /\ g_ports[s].used <=> Queues[s] # NoName
           /\ g_ports[s].used => Queues[s] \in Seq(Text) /\ Len(Queues[s]) = g_ports[s].count
<1>1. Queues[s] = IF g_ports[s].used THEN Pending(g_ports[s]) ELSE NoName
  BY DEF Queues
<1>2. Queues'[s] = IF g_ports'[s].used THEN Pending(g_ports'[s]) ELSE NoName
  BY DEF Queues
<1>3. g_ports[s] \in Port /\ Ring(g_ports[s])
  BY PortFacts
<1> QED
  BY <1>1, <1>2, <1>3, PendingFacts

\* A create opens a queue.
LEMMA CreateOpens ==
    ASSUME IInv, IInv', NEW name \in Name, ipc_port_create(name)
    PROVE  \E s \in Slot : Abstract!Open(s)
<1>1. PICK s \in Slot : /\ ~g_ports[s].used /\ g_ports'[s].used /\ Pending(g_ports'[s]) = <<>>
                        /\ \A r \in Slot \ {s} : g_ports'[r] = g_ports[r]
  BY CreateStep
<1>2. ~(Queues[s] # NoName)
  BY <1>1, QueueOf
<1>3. Queues' = [Queues EXCEPT ![s] = <<>>]
  <2>1. Queues'[s] = <<>>
    BY <1>1, QueueOf
  <2>2. \A r \in Slot \ {s} : Queues'[r] = Queues[r]
    BY <1>1 DEF Queues
  <2>3. Queues' = [r \in Slot |-> Queues'[r]] /\ Queues = [r \in Slot |-> Queues[r]]
    BY DEF Queues
  <2> QED
    BY <2>1, <2>2, <2>3
<1> QED
  BY <1>2, <1>3, ZenonT(40) DEF Abstract!Open, Abstract!IsOpen

\* A close closes a queue.
LEMMA CloseCloses ==
    ASSUME IInv, IInv', NEW s \in Slot, ipc_port_close(s)
    PROVE  Abstract!Close(s)
<1>1. /\ g_ports[s].used /\ ~g_ports'[s].used
      /\ \A r \in Slot \ {s} : g_ports'[r] = g_ports[r]
  BY CloseStep
<1>2. Queues[s] # NoName
  BY <1>1, QueueOf
<1>3. Queues' = [Queues EXCEPT ![s] = NoName]
  <2>1. Queues'[s] = NoName
    BY <1>1, QueueOf
  <2>2. \A r \in Slot \ {s} : Queues'[r] = Queues[r]
    BY <1>1 DEF Queues
  <2>3. Queues' = [r \in Slot |-> Queues'[r]] /\ Queues = [r \in Slot |-> Queues[r]]
    BY DEF Queues
  <2> QED
    BY <2>1, <2>2, <2>3
<1> QED
  BY <1>2, <1>3 DEF Abstract!Close, Abstract!IsOpen

\* A receive takes one item off the front of a queue.
LEMMA RecvTakes ==
    ASSUME IInv, IInv', NEW s \in Slot, ipc_recv_text(s)
    PROVE  Abstract!Take(s, 1)
<1>1. /\ g_ports[s].used /\ g_ports'[s] = Taken(g_ports[s]) /\ g_ports[s].count # 0
      /\ \A r \in Slot \ {s} : g_ports'[r] = g_ports[r]
  BY RecvStep
<1>2. g_ports[s] \in Port /\ Ring(g_ports[s])
  BY PortFacts
<1>3. Queues[s] # NoName /\ Queues[s] = Pending(g_ports[s])
  BY <1>1, QueueOf
<1>4. 1 <= Len(Queues[s])
  BY <1>1, <1>2, <1>3, PendingFacts, SMTT(40)
<1>5. Queues'[s] = SubSeq(Queues[s], 2, Len(Queues[s]))
  BY <1>1, <1>2, <1>3, TakenFacts, QueueOf
<1>6. Queues' = [Queues EXCEPT ![s] = SubSeq(Queues[s], 1 + 1, Len(Queues[s]))]
  <2>1. \A r \in Slot \ {s} : Queues'[r] = Queues[r]
    BY <1>1 DEF Queues
  <2>2. Queues' = [r \in Slot |-> Queues'[r]] /\ Queues = [r \in Slot |-> Queues[r]]
    BY DEF Queues
  <2> QED
    BY <1>5, <2>1, <2>2
<1> QED
  BY <1>3, <1>4, <1>6 DEF Abstract!Take, Abstract!IsOpen

\* A message sent to the ports of R is put into those whose queue has room; the
\* others drop it.
LEMMA SendPuts ==
    ASSUME IInv, IInv', NEW t \in Text, NEW R \in SUBSET Slot, \A s \in R : g_ports[s].used,
           g_ports' = [s \in Slot |-> IF s \in R THEN Queued(g_ports[s], t) ELSE g_ports[s]]
    PROVE  \E S \in SUBSET Slot, items \in Abstract!Batch : Abstract!Put(S, items)
<1> DEFINE S == {s \in R : g_ports[s].count < QueueDepth}
<1>1. \A s \in Slot : g_ports[s] \in Port /\ Ring(g_ports[s])
  BY PortFacts
<1>2. QueueDepth \in Nat \ {0} /\ \A s \in Slot : g_ports[s].count \in 0 .. QueueDepth
  BY <1>1, PendingFacts, IpcAssumption
<1>3. <<t>> \in Abstract!Batch
  <2>1. <<t>> \in [1 .. 1 -> Text] /\ 1 \in 0 .. QueueDepth
    BY <1>2
  <2> QED
    BY <2>1 DEF Abstract!Batch
<1>4. ASSUME NEW s \in S
      PROVE  /\ s \in Slot /\ Queues[s] # NoName /\ Len(Queues[s]) + Len(<<t>>) <= QueueDepth
             /\ Queues'[s] = Queues[s] \o <<t>>
  <2>1. s \in Slot /\ s \in R /\ g_ports[s].used /\ g_ports[s].count < QueueDepth
    OBVIOUS
  <2>2. Queues[s] = Pending(g_ports[s]) /\ Queues[s] # NoName /\ Len(Queues[s]) = g_ports[s].count
    BY <2>1, QueueOf
  <2>3. g_ports'[s] = Queued(g_ports[s], t) /\ g_ports'[s].used
    BY <1>1, <2>1, QueuedFacts, ZenonT(40)
  <2>4. Queues'[s] = Pending(Queued(g_ports[s], t))
    BY <2>1, <2>3, QueueOf
  <2>5. Len(<<t>>) = 1
    OBVIOUS
  <2> QED
    BY <1>1, <1>2, <2>1, <2>2, <2>4, <2>5, QueuedFacts, SMTT(40)
<1>5. ASSUME NEW s \in Slot, s \notin S
      PROVE  Queues'[s] = Queues[s]
  <2>1. g_ports'[s] = g_ports[s]
    <3>1. CASE s \notin R
      BY <3>1
    <3>2. CASE s \in R
      <4>1. g_ports[s].count >= QueueDepth
        BY <1>2, <1>5, <3>2
      <4>2. Queued(g_ports[s], t) = g_ports[s]
        BY <4>1, Zenon DEF Queued
      <4> QED
        BY <3>2, <4>2
    <3> QED
      BY <3>1, <3>2
  <2> QED
    BY <2>1, QueueOf
<1> HIDE DEF S
<1>6. Queues' = [s \in Slot |-> IF s \in S THEN Queues[s] \o <<t>> ELSE Queues[s]]
  <2>1. Queues' = [s \in Slot |-> Queues'[s]]
    BY DEF Queues
  <2> QED
    BY <1>4, <1>5, <2>1
<1>7. Abstract!Put(S, <<t>>)
  BY <1>4, <1>6, SMTT(40) DEF Abstract!Put, Abstract!IsOpen
<1>8. S \in SUBSET Slot
  BY <1>4
<1> QED
  BY <1>3, <1>7, <1>8

\* Every call is a step of the abstract queues or leaves them as they are.
LEMMA NextRefines == IInv /\ IInv' /\ [Next]_vars => [Abstract!Next]_Queues
<1> SUFFICES ASSUME IInv, IInv', [Next]_vars PROVE [Abstract!Next]_Queues
  OBVIOUS
<1>1. ASSUME NEW name \in Name, ipc_port_create(name) PROVE Abstract!Next
  BY <1>1, CreateOpens DEF Abstract!Next
<1>2. ASSUME NEW s \in Slot, ipc_port_close(s) PROVE Abstract!Next
  BY <1>2, CloseCloses DEF Abstract!Next
<1>3. ASSUME NEW s \in Slot, ipc_recv_text(s) PROVE Abstract!Next
  <2>1. 1 \in 1 .. QueueDepth
    BY IpcAssumption
  <2>2. Abstract!Take(s, 1)
    BY <1>3, RecvTakes
  <2> QED
    BY <2>1, <2>2 DEF Abstract!Next
<1>4. ASSUME NEW s \in Slot, NEW t \in Text, ipc_send_text(s, t) PROVE Abstract!Next
  <2> DEFINE R == {s}
  <2>1. /\ R \in SUBSET Slot /\ \A r \in R : g_ports[r].used
        /\ g_ports' = [r \in Slot |-> IF r \in R THEN Queued(g_ports[r], t) ELSE g_ports[r]]
    BY <1>4, SendsAre
  <2> HIDE DEF R
  <2>2. \E S \in SUBSET Slot, items \in Abstract!Batch : Abstract!Put(S, items)
    BY <2>1, SendPuts
  <2> QED
    BY <2>2 DEF Abstract!Next
<1>5. ASSUME NEW t \in Text, ipc_broadcast_text(t) PROVE Abstract!Next
  <2> DEFINE R == {s \in Slot : g_ports[s].used}
  <2>1. /\ R \in SUBSET Slot /\ \A r \in R : g_ports[r].used
        /\ g_ports' = [r \in Slot |-> IF r \in R THEN Queued(g_ports[r], t) ELSE g_ports[r]]
    BY <1>5, SendsAre
  <2> HIDE DEF R
  <2>2. \E S \in SUBSET Slot, items \in Abstract!Batch : Abstract!Put(S, items)
    BY <2>1, SendPuts
  <2> QED
    BY <2>2 DEF Abstract!Next
<1>6. CASE UNCHANGED vars
  BY <1>6 DEF vars, Queues
<1>7. CASE Next
  BY <1>1, <1>2, <1>3, <1>4, <1>5, <1>7, ZenonT(40) DEF Next
<1> QED
  BY <1>6, <1>7

\* The ports refine the bounded first-in first-out queues, for every number of
\* ports, queue depth and set of texts: nothing that ipc_send_text queued is lost,
\* repeated or reordered before ipc_recv_text delivers it, across any number of
\* wraps of the ring, and a port made in a recycled slot starts empty.
THEOREM PortsRefineQueues == Spec => PortsAreQueues
<1>1. Init => Abstract!Init
  <2> SUFFICES ASSUME Init PROVE Queues = [s \in Slot |-> NoName]
    BY DEF Abstract!Init
  <2>1. \A s \in Slot : g_ports[s] = ZeroPort /\ ~ZeroPort.used
    BY WipedPort DEF Init
  <2> QED
    BY <2>1 DEF Queues
<1> QED
  BY <1>1, InitInv, NextInv, NextRefines, PTL DEF Spec, PortsAreQueues, Abstract!Spec
=============================================================================
