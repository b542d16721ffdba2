------------------------------ MODULE Sockets -------------------------------
(***************************************************************************)
(* The TCP sockets of src/kernel/net/socket.c over the connections of      *)
(* tcp.c, used by programs, with a network and remote hosts at the other   *)
(* end.  The kernel runs one call or one segment at a time.  External: the *)
(* network loses, duplicates and reorders; a remote is a host that follows *)
(* RFC 9293, retransmits what is not acknowledged, and holds one           *)
(* conversation.  The next hop is resolved: a send does not wait for ARP.  *)
(***************************************************************************)
EXTENDS Tcp, FiniteSets, SequencesExt

CONSTANTS MaxSockets,  \* SOCKET_MAX_SOCKETS
          Ports,       \* local ports
          Isns,        \* the initial sequence numbers the kernel generates, in turn
          PeerIsn,     \* and of a remote
          Writes, Reads,  \* the lengths of a send, and of the buffer of a receive
          MaxSent, MaxWritten,  \* bounds on the bytes the remotes send and are sent
          MaxEvents,   \* bound on the calls and the transmissions of remotes
          InFlight     \* bound on the segments on their way to the kernel

VARIABLES
    conns, listeners,   \* g_connections, g_listeners: a port, or 0
    g_seq_secret,       \* what tcp_generate_conn_seq returns next: an index of Isns
    socks,              \* g_sockets; local_port is 0 in an unused one
    inbound,            \* external: the segments in flight to the kernel
    peer,               \* external: the remotes
    app,                \* history: the remote a socket talks to, and what was read
    stale,              \* history: sockets whose connection ended under them
    crossed,            \* history: conversations that a stale socket took part in
    unclaimed,          \* history: conversations that accept had no socket for
    events              \* the calls and the transmissions of remotes so far

kernel == <<conns, listeners, g_seq_secret, socks>>
history == <<app, stale, crossed, unclaimed>>
vars == <<kernel, inbound, peer, history, events>>

Total(f) == FoldFunction(+, 0, f)
SocketIds == 1 .. MaxSockets
Unused == [local_port |-> 0, tcp_handle |-> -1]
NobodyYet == [of |-> NoRemote, read |-> <<>>]

Idle == [state |-> "IDLE", port |-> 0, sent |-> 0, una |-> 0, fin |-> FALSE, mixed |-> FALSE,
         rcv |-> 0, got |-> <<>>, closed |-> FALSE, wrote |-> 0]

Init ==
    /\ conns = [h \in Handles |-> Free]
    /\ listeners = [l \in 1 .. MaxListeners |-> 0]
    /\ g_seq_secret = 1
    /\ socks = [s \in SocketIds |-> Unused]
    /\ inbound = {}
    /\ peer = [p \in Remotes |-> Idle]
    /\ app = [s \in SocketIds |-> NobodyYet]
    /\ stale = {} /\ crossed = {} /\ unclaimed = {} /\ events = 0

-----------------------------------------------------------------------------
(* External: what a remote, a record of peer, makes of a segment, and its    *)
(* answer.  A segment of the kernel arrives in the step that sends it, or    *)
(* never: a delay shows to the kernel as a delay of the answer.              *)

Finished(q) == q.sent + IF q.fin THEN 1 ELSE 0

\* The conversation is over: nothing of it is remembered.
Dead == [Idle EXCEPT !.state = "DEAD"]

IsOver(q) == q.closed /\ q.fin /\ q.una = Finished(q)

PeerAnswer(q, seg, seq, ack, flags) ==
    [q |-> q, answer |-> {Segment(seg.remote, seg.port, seq, ack, flags, <<>>)}]

PeerIgnores(q) == [q |-> q, answer |-> {}]

\* Data and FIN in order are taken and acknowledged, and the rest answered.
PeerTakes(q, seg) ==
    LET next == seg.seq = q.rcv
        fin == next /\ "FIN" \in seg.flags
        taken == IF next THEN seg.data ELSE <<>>
        rcv == Plus(q.rcv, Len(taken) + IF fin THEN 1 ELSE 0)
        acked == Plus(seg.ack, -Plus(PeerIsn, 1))
        now == [q EXCEPT !.state = "OPEN", !.rcv = rcv, !.got = @ \o taken, !.closed = @ \/ fin,
                         !.una = IF acked <= Finished(q) /\ acked > @ THEN acked ELSE @]
        r == IF IsOver(now) THEN Dead ELSE now
    IN  IF next /\ seg.data = <<>> /\ ~fin THEN PeerIgnores(r)
        ELSE PeerAnswer(r, seg, Plus(PeerIsn, 1 + Finished(q)), rcv, {"ACK"})

PeerReceives(q, seg) ==
    CASE q.state = "LISTEN" ->
             PeerAnswer([q EXCEPT !.state = "SYN_RCVD", !.rcv = Plus(seg.seq, 1)], seg,
                        PeerIsn, Plus(seg.seq, 1), {"SYN", "ACK"})
      [] q.state = "REFUSE" ->
             PeerAnswer(Dead, seg, 0, Plus(seg.seq, 1), {"RST", "ACK"})
      [] q.state = "SYN_SENT" /\ "SYN" \in seg.flags ->
             PeerAnswer([q EXCEPT !.state = "OPEN", !.rcv = Plus(seg.seq, 1)], seg,
                        Plus(PeerIsn, 1), Plus(seg.seq, 1), {"ACK"})
      [] "RST" \in seg.flags ->
             PeerIgnores(IF q.state = "SYN_SENT" THEN Dead ELSE q)
      [] q.state = "DEAD" -> PeerAnswer(q, seg, seg.ack, 0, {"RST"})
      [] OTHER -> PeerTakes(q, seg)

\* The segments out arrive in turn, up to the first that is lost, and the
\* answers join those in flight; there is room for InFlight of them.
Transmit(out, arrive, flying, remotes) ==
    LET Go(now, seg) ==
            LET r == PeerReceives(now.peer[seg.remote], seg)
                room == Cardinality(now.flying) + Cardinality(r.answer) <= InFlight
            IN  [peer |-> [now.peer EXCEPT ![seg.remote] = r.q],
                 flying |-> IF room THEN now.flying \cup r.answer ELSE now.flying]
    IN  /\ arrive \in 0 .. Len(out)
        /\ LET end == FoldLeft(Go, [peer |-> remotes, flying |-> flying],
                           SubSeq(out, 1, arrive))
           IN  peer' = end.peer /\ inbound' = end.flying

-----------------------------------------------------------------------------
(* socket.c *)

IsSocket(s) == socks[s].local_port # 0

socket_port_in_use(port) == \E s \in SocketIds : socks[s].local_port = port

FreeSockets == {s \in SocketIds : ~IsSocket(s)}

\* The sockets but s that name a connection which a step with this table ends.
Orphaned(table, s) ==
    {t \in SocketIds \ {s} : LET h == socks[t].tcp_handle
                             IN  IsSocket(t) /\ IsOpen(conns, h) /\ ~IsOpen(table, h)}

\* The conversation that a call through a stale socket ends up in.
Crossing(s) ==
    IF s \in stale /\ IsOpen(conns, socks[s].tcp_handle) THEN {conns[socks[s].tcp_handle].remote} ELSE {}

Isn == Isns[g_seq_secret]

Generated(opens) ==
    g_seq_secret' = IF opens THEN (g_seq_secret % Len(Isns)) + 1 ELSE g_seq_secret

\* The port is the caller's or the next ephemeral one; either way it is free.
socket_tcp_open(port) ==
    /\ ~socket_port_in_use(port) /\ FreeSockets # {}
    /\ socks' = [socks EXCEPT ![Min(FreeSockets)] = [Unused EXCEPT !.local_port = port]]
    /\ UNCHANGED <<conns, listeners, g_seq_secret, inbound, peer, history>>

socket_tcp_connect(s, p, role, arrive) ==
    LET h == ConnectHandle(conns, socks[s].local_port)
        result == tcp_connect(conns, p, socks[s].local_port, Isn)
    IN  /\ IsSocket(s) /\ peer[p].state = "IDLE" /\ h # -1
        /\ conns' = result.conns
        /\ Transmit(result.out, arrive, inbound,
                    [peer EXCEPT ![p].state = role, ![p].port = socks[s].local_port])
        /\ Generated(TRUE)
        /\ socks' = [socks EXCEPT ![s].tcp_handle = h]
        /\ app' = [app EXCEPT ![s] = [NobodyYet EXCEPT !.of = p]]
        /\ stale' = stale \ {s}
        /\ UNCHANGED <<listeners, crossed, unclaimed>>

socket_tcp_listen(s) ==
    /\ IsSocket(s)
    /\ listeners' = tcp_listen_port(listeners, socks[s].local_port)
    /\ UNCHANGED <<conns, socks, g_seq_secret, inbound, peer, history>>

\* The connection is marked as accepted before a socket is found for it.
socket_tcp_accept(s) ==
    LET h == Min(AcceptReady(conns, socks[s].local_port))
        c == Min(FreeSockets)
    IN  /\ IsSocket(s) /\ AcceptReady(conns, socks[s].local_port) # {}
        /\ conns' = [conns EXCEPT ![h].accepted = TRUE]
        /\ IF FreeSockets = {}
           THEN unclaimed' = unclaimed \cup {conns[h].remote} /\ UNCHANGED <<socks, app>>
           ELSE /\ socks' = [socks EXCEPT ![c] = [local_port |-> socks[s].local_port,
                                                  tcp_handle |-> h]]
                /\ app' = [app EXCEPT ![c] = [NobodyYet EXCEPT !.of = conns[h].remote]]
                /\ UNCHANGED unclaimed
        /\ UNCHANGED <<listeners, g_seq_secret, inbound, peer, stale, crossed>>

\* chunks of the data go out before a send fails; none is the error -1.
socket_tcp_send(s, len, chunks, arrive) ==
    LET h == socks[s].tcp_handle
        p == app[s].of
        data == Accepted([k \in 1 .. len |-> <<p, peer[p].wrote + k>>], chunks)
        result == tcp_send(conns, h, data)
    IN  /\ IsSocket(s) /\ IsOpen(conns, h) /\ conns[h].state = "ESTABLISHED"
        /\ data # <<>> /\ len + Total([q \in Remotes |-> peer[q].wrote]) <= MaxWritten
        /\ conns' = result.conns
        /\ Transmit(result.out, arrive, inbound, [peer EXCEPT ![p].wrote = @ + Len(data)])
        /\ crossed' = crossed \cup Crossing(s)
        /\ UNCHANGED <<listeners, g_seq_secret, socks, app, stale, unclaimed>>

socket_tcp_recv(s, size) ==
    LET h == socks[s].tcp_handle
    IN  /\ IsSocket(s) /\ IsOpen(conns, h) /\ Received(conns[h], size) # <<>>
        /\ conns' = tcp_recv(conns, h, size).conns
        /\ app' = [app EXCEPT ![s].read = @ \o Received(conns[h], size)]
        /\ crossed' = crossed \cup Crossing(s)
        /\ UNCHANGED <<listeners, g_seq_secret, socks, inbound, peer, stale, unclaimed>>

\* Mutant: the connection is left as it is.
CloseSocketOnly(s, arrive) ==
    /\ IsSocket(s) /\ arrive = 0
    /\ socks' = [socks EXCEPT ![s] = Unused]
    /\ app' = [app EXCEPT ![s] = NobodyYet]
    /\ stale' = stale \ {s}
    /\ UNCHANGED <<conns, listeners, g_seq_secret, inbound, peer, crossed, unclaimed>>

\* A listening port stays in g_listeners: nothing calls tcp_unlisten_port.
socket_close(s, arrive) ==
    LET result == tcp_close(conns, socks[s].tcp_handle)
    IN  /\ IsSocket(s)
        /\ conns' = result.conns /\ Transmit(result.out, arrive, inbound, peer)
        /\ socks' = [socks EXCEPT ![s] = Unused]
        /\ app' = [app EXCEPT ![s] = NobodyYet]
        /\ stale' = (stale \cup Orphaned(result.conns, s)) \ {s}
        /\ crossed' = crossed \cup Crossing(s)
        /\ UNCHANGED <<listeners, g_seq_secret, unclaimed>>

\* net_update: the next segment.
tcp_receive(seg, arrive) ==
    LET result == tcp_handle_ipv4(conns, listeners, seg, Isn)
        synack == \E i \in DOMAIN result.out : result.out[i].flags = {"SYN", "ACK"}
    IN  /\ conns' = result.conns /\ Generated(synack)
        /\ Transmit(result.out, arrive, inbound \ {seg}, peer)
        /\ stale' = stale \cup Orphaned(result.conns, 0)
        /\ UNCHANGED <<listeners, socks, app, crossed, unclaimed>>

-----------------------------------------------------------------------------
(* External: what the remotes and the network do by themselves *)

Room == Cardinality(inbound) < InFlight

\* The first SYN of a client, or another one.
PeerConnect(p, port) ==
    /\ Room
    /\ peer[p].state = "IDLE" \/ (peer[p].state = "SYN_SENT" /\ peer[p].port = port)
    /\ peer' = [peer EXCEPT ![p].state = "SYN_SENT", ![p].port = port]
    /\ inbound' = inbound \cup {Segment(p, port, PeerIsn, 0, {"SYN"}, <<>>)}
    /\ UNCHANGED <<kernel, history>>

\* Bytes una + 1 to last of the stream, for the first time or again; fin: its end.
PeerSend(p, last, fin) ==
    LET una == peer[p].una
        flags == {"ACK"} \cup IF fin THEN {"FIN"} ELSE {}
        bytes == [i \in 1 .. (last - una) |-> <<p, una + i>>]
    IN  /\ Room /\ peer[p].state = "OPEN"
        /\ last >= una /\ (last > una \/ fin)
        /\ peer[p].fin => last <= peer[p].sent
        /\ fin => last >= peer[p].sent
        /\ last > peer[p].sent => last - peer[p].sent + Total([q \in Remotes |-> peer[q].sent]) <= MaxSent
        /\ peer' = [peer EXCEPT ![p].sent = Max({@, last}), ![p].fin = @ \/ fin,
                                ![p].mixed = @ \/ (fin /\ last > una)]
        /\ inbound' = inbound \cup {Segment(p, peer[p].port, Plus(PeerIsn, 1 + una),
                                            peer[p].rcv, flags, bytes)}
        /\ UNCHANGED <<kernel, history>>

PeerAbort(p) ==
    /\ Room /\ peer[p].state = "OPEN"
    /\ peer' = [peer EXCEPT ![p] = Dead]
    /\ inbound' = inbound \cup {Segment(p, peer[p].port, Plus(PeerIsn, 1 + Finished(peer[p])),
                                        peer[p].rcv, {"RST", "ACK"}, <<>>)}
    /\ UNCHANGED <<kernel, history>>

Lose(seg) ==
    /\ inbound' = inbound \ {seg}
    /\ UNCHANGED <<kernel, peer, history>>

-----------------------------------------------------------------------------
Program ==
    \/ \E port \in Ports : socket_tcp_open(port)
    \/ \E s \in SocketIds :
          \/ \E p \in Remotes, role \in {"LISTEN", "REFUSE"}, arrive \in 0 .. 1 :
                socket_tcp_connect(s, p, role, arrive)
          \/ socket_tcp_listen(s) \/ socket_tcp_accept(s)
          \/ \E arrive \in 0 .. 1 : socket_close(s, arrive)
          \/ \E len \in Writes, chunks, arrive \in 0 .. MaxWritten : socket_tcp_send(s, len, chunks, arrive)
          \/ \E size \in Reads : socket_tcp_recv(s, size)

Receive ==
    /\ UNCHANGED events
    /\ \E seg \in inbound, arrive \in 0 .. 1 :
          tcp_receive(seg, arrive)

Remote ==
    \E p \in Remotes :
       \/ \E port \in Ports : PeerConnect(p, port)
       \/ \E last \in 0 .. MaxSent, fin \in BOOLEAN : PeerSend(p, last, fin)
       \/ PeerAbort(p)

Event == events < MaxEvents /\ events' = events + 1 /\ (Program \/ Remote)

Network == UNCHANGED events /\ \E seg \in inbound : Lose(seg)

Next == Event \/ Receive \/ Network

Spec == Init /\ [][Next]_vars

-----------------------------------------------------------------------------
\* Numbers keep their width, rx_len its buffer and the tables their indices.
TypeOK ==
    /\ \A h \in Handles :
          /\ {conns[h].seq_num, conns[h].ack_num, conns[h].remote_ack} \subseteq Seq32
          /\ Len(conns[h].rx_buffer) <= BufferSize
          /\ conns[h].rx_read_pos \in 0 .. Len(conns[h].rx_buffer)
    /\ listeners \in [1 .. MaxListeners -> Ports \cup {0}]
    /\ \A s \in SocketIds : /\ socks[s].local_port \in Ports \cup {0}
                            /\ socks[s].tcp_handle \in Handles \cup {-1}
    /\ stale \subseteq SocketIds /\ crossed \cup unclaimed \subseteq Remotes

\* The first n bytes of a conversation.
Stream(p, n) == [i \in 1 .. n |-> <<p, i>>]

\* What a program reads from a socket (tcp_recv) is what the remote it talks to
\* sent, from the first byte on, in order, without a gap or a repetition,
\* whatever the network loses, reorders or repeats; and a remote gets what the
\* program wrote (tcp_send) in the same way.  Not so for a socket whose
\* connection was reset under it, and for the conversation it then reads from or
\* writes to: tcp_handle still names the entry, which by then is someone else's.
StreamsAreFaithful ==
    \A p \in Remotes \ crossed :
        /\ peer[p].got = Stream(p, Len(peer[p].got)) /\ Len(peer[p].got) <= peer[p].wrote
        /\ \A s \in SocketIds \ stale :
              app[s].of = p => app[s].read = Stream(p, Len(app[s].read))

\* The sockets a connection belongs to.
ReadersOf(h) == {s \in SocketIds \ stale : IsSocket(s) /\ socks[s].tcp_handle = h}

\* The bytes taken from a connection: read by its socket, or still in rx_buffer.
Taken(h) ==
    LET readers == ReadersOf(h)
    IN  (IF readers = {} THEN <<>> ELSE app[Min(readers)].read)
            \o Received(conns[h], BufferSize)

\* ack_num covers exactly the bytes that were read or are in rx_buffer, so that
\* nothing the kernel acknowledged, and the remote forgot, is lost; and a
\* connection in CLOSE_WAIT has the whole stream, so that a program that sees the
\* end has seen everything.  Not so when data and FIN came in one segment: the
\* handler acknowledges seq + 1 and drops the data.
AcknowledgedIsKept ==
    \A h \in Handles :
        LET p == conns[h].remote
            n == Len(Taken(h))
            fin == IF conns[h].state = "CLOSE_WAIT" THEN 1 ELSE 0
        IN  conns[h].state \in {"ESTABLISHED", "CLOSE_WAIT"} /\ p \notin crossed \cup unclaimed
            /\ peer[p].state # "DEAD" /\ ~peer[p].mixed =>
                /\ Taken(h) = Stream(p, n) /\ conns[h].ack_num = Plus(PeerIsn, 1 + n + fin)
                /\ fin = 1 => n = peer[p].sent

\* In an established connection the acknowledgement a remote would send now
\* passes tcp_ack_valid, so that its segments are not dropped.  Not so once half
\* of the sequence numbers were written: remote_ack stays at its first value.
PeerIsHeard ==
    \A h \in Handles :
        LET p == conns[h].remote
        IN  conns[h].state = "ESTABLISHED" /\ peer[p].state = "OPEN" /\ p \notin crossed
            /\ peer[p].wrote < Half => tcp_ack_valid(conns[h], peer[p].rcv)

\* A port that listens on after its socket was closed.
Deserted(port) == tcp_port_has_listener(listeners, port) /\ ~socket_port_in_use(port)

\* No entry of the four is lost: a connection that is not closing belongs to a
\* socket, or waits for an accept that some socket can call.  Not so after an
\* accept that found no free socket, and on a port whose listening socket was
\* closed, since the listener stays.
ConnectionsAreReachable ==
    \A h \in Handles :
        conns[h].state \in {"SYN_SENT", "ESTABLISHED", "CLOSE_WAIT"} =>
            \/ ReadersOf(h) # {}
            \/ ~conns[h].accepted /\ socket_port_in_use(conns[h].local_port)
            \/ Deserted(conns[h].local_port)
            \/ conns[h].remote \in unclaimed

\* A reset that acknowledges all that was sent ends the connection, whether it
\* refuses the SYN or comes later ("TCP: inbound RST resets the connection" in
\* test_net.c).  Not so in two cases where tcp_ack_valid takes the number for an
\* old one: in SYN_SENT remote_ack is still 0 and the number may be in the upper
\* half, and in ESTABLISHED half of the sequence numbers may have been written.
ResetEndsTheConnection ==
    \A seg \in inbound, h \in Handles :
        /\ h \in ConnectionOf(conns, seg) /\ "RST" \in seg.flags /\ seg.ack = conns[h].seq_num
        /\ \/ conns[h].state = "SYN_SENT" /\ conns[h].seq_num < Half
           \/ conns[h].state = "ESTABLISHED" /\ Plus(conns[h].seq_num, -conns[h].remote_ack) < Half
        => tcp_handle_ipv4(conns, listeners, seg, Isn).conns[h] = Free
=============================================================================
