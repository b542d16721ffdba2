-------------------------------- MODULE Tcp ---------------------------------
(***************************************************************************)
(* The connection table and the segment handler of src/kernel/net/tcp.c,   *)
(* as functions from one table to the next.  A function returns the table  *)
(* and the sequence of segments it sends.  A remote address and port       *)
(* are one model value; a segment names the remote and the local port.     *)
(* Sequence numbers have SeqBits bits in place of 32.  The fields          *)
(* remote_seq and remote_window are written and never read, rx_ready is    *)
(* rx_len > 0, and TIME_WAIT is left in the statement that enters it.      *)
(***************************************************************************)
EXTENDS Integers, Sequences, FiniteSetsExt

CONSTANTS MaxConnections,  \* TCP_MAX_CONNECTIONS
          MaxListeners,    \* TCP_MAX_LISTENERS
          SegmentSize,     \* TCP_MAX_SEGMENT_SIZE
          BufferSize,      \* the bytes of rx_buffer
          SeqBits,         \* the width of a sequence number
          Remotes, NoRemote

Handles == 1 .. MaxConnections
Seq32 == 0 .. (2 ^ SeqBits - 1)
Plus(a, b) == (a + b) % (2 ^ SeqBits)
Half == 2 ^ (SeqBits - 1)

Free == [used |-> FALSE, passive |-> FALSE, accepted |-> FALSE, state |-> "CLOSED",
         remote |-> NoRemote, local_port |-> 0, seq_num |-> 0, ack_num |-> 0, remote_ack |-> 0,
         rx_buffer |-> <<>>, rx_read_pos |-> 0]

\* The casts to int32_t: a difference is not negative in its lower half.
tcp_seq_between(value, start, end) ==
    Plus(value, -start) < Half /\ Plus(end, -value) < Half

tcp_ack_valid(conn, ack) == tcp_seq_between(ack, conn.remote_ack, conn.seq_num)

Segment(remote, port, seq, ack, flags, data) ==
    [remote |-> remote, port |-> port, seq |-> seq, ack |-> ack, flags |-> flags, data |-> data]

tcp_send_segment(conn, flags, data) ==
    Segment(conn.remote, conn.local_port, conn.seq_num, conn.ack_num, flags, data)

FreeHandles(conns) == {h \in Handles : ~conns[h].used}

tcp_port_in_use(conns, port) == \E h \in Handles : conns[h].used /\ conns[h].local_port = port

tcp_port_has_listener(listeners, port) == \E l \in DOMAIN listeners : listeners[l] = port

\* A call that leaves the table alone and sends these segments.
Only(conns, segments) == [conns |-> conns, out |-> segments]

\* The whole entry becomes conn.
Becomes(conns, h, conn, segments) == Only([conns EXCEPT ![h] = conn], segments)

-----------------------------------------------------------------------------
(* Opening *)

\* The free place of the listener table, 0 where the code returns -1.
tcp_listen_port(listeners, port) ==
    LET places == {l \in DOMAIN listeners : listeners[l] = 0}
    IN  IF places = {} THEN listeners ELSE [listeners EXCEPT ![Min(places)] = port]

\* A send that fails clears the entry again, as if the SYN had not come.
tcp_passive_open(conns, seg, isn) ==
    LET h == Min(FreeHandles(conns))
        conn == [Free EXCEPT !.used = TRUE, !.passive = TRUE, !.state = "SYN_RCVD",
                             !.remote = seg.remote, !.local_port = seg.port,
                             !.seq_num = isn, !.ack_num = Plus(seg.seq, 1)]
    IN  IF FreeHandles(conns) = {} THEN Only(conns, <<>>)
        ELSE Becomes(conns, h, [conn EXCEPT !.seq_num = Plus(isn, 1)],
                     <<tcp_send_segment(conn, {"SYN", "ACK"}, <<>>)>>)

\* The handle, -1 for an error.  When the SYN cannot be sent the entry is given
\* back and the call fails, which leaves nothing behind.
ConnectHandle(conns, port) ==
    IF tcp_port_in_use(conns, port) \/ FreeHandles(conns) = {} THEN -1
    ELSE Min(FreeHandles(conns))

tcp_connect(conns, remote, port, isn) ==
    LET h == ConnectHandle(conns, port)
        conn == [Free EXCEPT !.used = TRUE, !.state = "SYN_SENT", !.remote = remote,
                             !.local_port = port, !.seq_num = isn]
    IN  IF h = -1 THEN Only(conns, <<>>)
        ELSE Becomes(conns, h, [conn EXCEPT !.seq_num = Plus(isn, 1)],
                     <<tcp_send_segment(conn, {"SYN"}, <<>>)>>)

\* The handles tcp_accept_ready looks for; it takes the first.
AcceptReady(conns, port) ==
    {h \in Handles : /\ conns[h].used /\ conns[h].passive /\ ~conns[h].accepted
                     /\ conns[h].local_port = port /\ conns[h].state = "ESTABLISHED"}

-----------------------------------------------------------------------------
(* The calls on an open connection *)

IsOpen(conns, h) == h \in Handles /\ conns[h].used

tcp_close(conns, h) ==
    LET conn == conns[h]
        fin == <<tcp_send_segment(conn, {"FIN", "ACK"}, <<>>)>>
        closing(state) == [conn EXCEPT !.state = state, !.seq_num = Plus(@, 1)]
    IN  CASE ~IsOpen(conns, h) -> Only(conns, <<>>)
          [] conn.state = "ESTABLISHED" -> Becomes(conns, h, closing("FIN_WAIT_1"), fin)
          [] conn.state = "CLOSE_WAIT" -> Becomes(conns, h, closing("LAST_ACK"), fin)
          [] OTHER -> Becomes(conns, h, Free, <<>>)

\* The bytes of the chunks that went out before a send failed: all of them,
\* or a multiple of SegmentSize.
Accepted(data, chunks) == SubSeq(data, 1, Min({Len(data), chunks * SegmentSize}))

Chunks(data) == (Len(data) + SegmentSize - 1) \div SegmentSize

\* Mutant: every chunk is copied from the start of the data.
SendSameBytes(conns, h, data) ==
    LET conn == conns[h]
        segment(k) == tcp_send_segment([conn EXCEPT !.seq_num = Plus(@, k * SegmentSize)],
                                       {"PSH", "ACK"}, SubSeq(data, 1, Min({Len(data), SegmentSize})))
    IN  Becomes(conns, h, [conn EXCEPT !.seq_num = Plus(@, Len(data))],
                [k \in 1 .. Chunks(data) |-> segment(k - 1)])

\* data is what goes out.
tcp_send(conns, h, data) ==
    LET conn == conns[h]
        chunk(k) == SubSeq(data, k * SegmentSize + 1, Min({Len(data), (k + 1) * SegmentSize}))
        segment(k) == tcp_send_segment([conn EXCEPT !.seq_num = Plus(@, k * SegmentSize)],
                                       {"PSH", "ACK"}, chunk(k))
    IN  Becomes(conns, h, [conn EXCEPT !.seq_num = Plus(@, Len(data))],
                [k \in 1 .. Chunks(data) |-> segment(k - 1)])

\* What tcp_recv copies into a buffer of size bytes.
Received(conn, size) ==
    SubSeq(conn.rx_buffer, conn.rx_read_pos + 1,
           Min({Len(conn.rx_buffer), conn.rx_read_pos + size}))

\* Mutant: a partial read empties the buffer.
RecvDropsRest(conns, h, size) ==
    Becomes(conns, h, [conns[h] EXCEPT !.rx_buffer = <<>>, !.rx_read_pos = 0], <<>>)

tcp_recv(conns, h, size) ==
    LET conn == conns[h]
        read == conn.rx_read_pos + Len(Received(conn, size))
    IN  IF read >= Len(conn.rx_buffer)
        THEN Becomes(conns, h, [conn EXCEPT !.rx_buffer = <<>>, !.rx_read_pos = 0], <<>>)
        ELSE Becomes(conns, h, [conn EXCEPT !.rx_read_pos = read], <<>>)

-----------------------------------------------------------------------------
(* tcp_handle_ipv4: one handler for each state, after the checks on the      *)
(* headers and the sums.                                                     *)

HandleUnknown(conns, listeners, seg, isn) ==
    CASE ~("SYN" \in seg.flags /\ "ACK" \notin seg.flags) -> Only(conns, <<>>)
      [] tcp_port_has_listener(listeners, seg.port) -> tcp_passive_open(conns, seg, isn)
      [] OTHER -> Only(conns, <<Segment(seg.remote, seg.port, 0, Plus(seg.seq, 1),
                                        {"RST", "ACK"}, <<>>)>>)

\* The entry with a new number to acknowledge, and the ACK that says so.
Acked(conns, h, conn) == Becomes(conns, h, conn, <<tcp_send_segment(conn, {"ACK"}, <<>>)>>)

\* Mutant: a connection that is being opened takes no reset.
SynSentNoReset(conns, h, seg) ==
    LET conn == conns[h]
    IN  CASE {"SYN", "ACK"} \subseteq seg.flags /\ seg.ack = conn.seq_num ->
                 Acked(conns, h, [conn EXCEPT !.state = "ESTABLISHED", !.remote_ack = seg.ack,
                                              !.ack_num = Plus(seg.seq, 1)])
          [] OTHER -> Only(conns, <<>>)

HandleSynSent(conns, h, seg) ==
    LET conn == conns[h]
    IN  CASE {"SYN", "ACK"} \subseteq seg.flags /\ seg.ack = conn.seq_num ->
                 Acked(conns, h, [conn EXCEPT !.state = "ESTABLISHED", !.remote_ack = seg.ack,
                                              !.ack_num = Plus(seg.seq, 1)])
          [] "RST" \in seg.flags /\ tcp_ack_valid(conn, seg.ack) -> Becomes(conns, h, Free, <<>>)
          [] OTHER -> Only(conns, <<>>)

\* Mutant: the acknowledgement of the SYN/ACK is not recorded.
SynRcvdNoAck(conns, h, seg) ==
    LET conn == conns[h]
    IN  CASE "RST" \in seg.flags -> Becomes(conns, h, Free, <<>>)
          [] "ACK" \in seg.flags /\ seg.ack = conn.seq_num /\ seg.seq = conn.ack_num ->
                 Becomes(conns, h, [conn EXCEPT !.state = "ESTABLISHED"], <<>>)
          [] OTHER -> Only(conns, <<>>)

HandleSynRcvd(conns, h, seg) ==
    LET conn == conns[h]
    IN  CASE "RST" \in seg.flags -> Becomes(conns, h, Free, <<>>)
          [] "ACK" \in seg.flags /\ seg.ack = conn.seq_num /\ seg.seq = conn.ack_num ->
                 Becomes(conns, h, [conn EXCEPT !.state = "ESTABLISHED", !.remote_ack = seg.ack], <<>>)
          [] OTHER -> Only(conns, <<>>)

IsNext(conn, seg) == seg.seq = conn.ack_num

\* Mutant: bytes already read count as free space.
FitsUnread(conn, data) ==
    Len(data) <= BufferSize - (Len(conn.rx_buffer) - conn.rx_read_pos)

\* The space after rx_len: what was read is given back when all of it was.
Fits(conn, data) == Len(data) <= BufferSize - Len(conn.rx_buffer)

HandleEstablished(conns, h, seg) ==
    LET conn == conns[h]
    IN  CASE "RST" \in seg.flags ->
                 IF seg.seq = conn.ack_num \/ tcp_ack_valid(conn, seg.ack)
                 THEN Becomes(conns, h, Free, <<>>) ELSE Only(conns, <<>>)
          [] "ACK" \in seg.flags /\ ~tcp_ack_valid(conn, seg.ack) -> Only(conns, <<>>)
          [] ~IsNext(conn, seg) -> Acked(conns, h, conn)
          [] "FIN" \in seg.flags ->
                 Acked(conns, h, [conn EXCEPT !.state = "CLOSE_WAIT",
                                              !.ack_num = Plus(seg.seq, 1)])
          [] seg.data # <<>> /\ Fits(conn, seg.data) ->
                 Acked(conns, h, [conn EXCEPT !.rx_buffer = @ \o seg.data,
                                              !.ack_num = Plus(seg.seq, Len(seg.data))])
          [] OTHER -> Only(conns, <<>>)

\* FIN_WAIT_1 and FIN_WAIT_2: the peer's FIN frees the entry.
HandleFinWait(conns, h, seg) ==
    LET conn == conns[h]
        fin == "FIN" \in seg.flags /\ seg.seq = conn.ack_num
        acked == "ACK" \in seg.flags /\ seg.ack = conn.seq_num
    IN  CASE fin -> Becomes(conns, h, Free,
                            <<tcp_send_segment([conn EXCEPT !.ack_num = Plus(@, 1)], {"ACK"}, <<>>)>>)
          [] acked -> Becomes(conns, h, [conn EXCEPT !.state = "FIN_WAIT_2"], <<>>)
          [] OTHER -> Only(conns, <<>>)

HandleLastAck(conns, h, seg) ==
    IF "ACK" \in seg.flags /\ seg.ack = conns[h].seq_num
    THEN Becomes(conns, h, Free, <<>>) ELSE Only(conns, <<>>)

ConnectionOf(conns, seg) ==
    {h \in Handles : conns[h].used /\ conns[h].remote = seg.remote /\ conns[h].local_port = seg.port}

tcp_handle_ipv4(conns, listeners, seg, isn) ==
    LET h == Min(ConnectionOf(conns, seg))
    IN  IF ConnectionOf(conns, seg) = {} THEN HandleUnknown(conns, listeners, seg, isn)
        ELSE CASE conns[h].state = "SYN_SENT" -> HandleSynSent(conns, h, seg)
               [] conns[h].state = "SYN_RCVD" -> HandleSynRcvd(conns, h, seg)
               [] conns[h].state = "ESTABLISHED" -> HandleEstablished(conns, h, seg)
               [] conns[h].state \in {"FIN_WAIT_1", "FIN_WAIT_2"} -> HandleFinWait(conns, h, seg)
               [] conns[h].state = "LAST_ACK" -> HandleLastAck(conns, h, seg)
               [] OTHER -> Only(conns, <<>>)
=============================================================================
