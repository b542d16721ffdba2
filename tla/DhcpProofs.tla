----------------------------- MODULE DhcpProofs -----------------------------
(***************************************************************************)
(* What Dhcp.tla's run checks of the client's safety on a small instance,  *)
(* for every number of attempts, transactions and addresses and every      *)
(* lease.                                                                  *)
(***************************************************************************)
EXTENDS Dhcp, TLAPS

\* Why no earlier transaction interferes: a transaction not yet begun has no request,
\* one whose offer has just been taken has none either, and the wait for the ACK ends
\* with ACK in g_reply_msgtype exactly when the ACK made the client BOUND.
Transactions ==
    /\ \A x \in Xid : x > g_xid => asked[x] = NoIp
    /\ pc = "offer?" \/ (pc = "discover" /\ g_offer # NoIp) => asked[g_xid] = NoIp
    /\ pc = "ack?" => (g_state = "BOUND" <=> g_reply_msgtype = "ACK")

\* The room that Begin asked for is enough for the attempts still to come.
Room ==
    /\ pc = "discover" => g_xid + Attempts - attempt <= MaxXid
    /\ pc = "offer?" => g_xid + Attempts - attempt - 1 <= MaxXid
    /\ pc \in {"offer?", "request", "ack?"} => attempt < Attempts

IInv == TypeOK /\ LeaseIsTheOneRequested /\ RequestNamesTheOffer /\ Transactions /\ Room

\* The client of dhcp.c starts, all zero, in the inductive invariant.
LEMMA InitInv == Init => IInv
<1> SUFFICES ASSUME Init
             PROVE  IInv
    OBVIOUS
<1> USE DhcpAssumption DEF Init, Xid
<1>0. g_got_reply \in BOOLEAN
    BY Zenon
<1>1. TypeOK
    BY <1>0 DEF TypeOK
<1>2. LeaseIsTheOneRequested /\ RequestNamesTheOffer
    BY DEF LeaseIsTheOneRequested, RequestNamesTheOffer, HoldsLease
<1>3. Transactions
    BY DEF Transactions
<1>4. Room
    BY SMTT(40) DEF Room
<1>5. QED
    BY <1>1, <1>2, <1>3, <1>4 DEF IInv

\* Every step of the client, of the server and of the clock preserves it.
LEMMA NextInv == IInv /\ [Next]_vars => IInv'
<1> SUFFICES ASSUME IInv, [Next]_vars
             PROVE  IInv'
    OBVIOUS
<1> USE DhcpAssumption DEF IInv, TypeOK, LeaseIsTheOneRequested, RequestNamesTheOffer,
        Transactions, Room, HoldsLease, Xid
<1>1. ASSUME NEW xid \in Xid, HandleNak(xid)
      PROVE  IInv'
    BY <1>1 DEF HandleNak, IsOurs, Waiting, lease
<1>2. ASSUME NEW xid \in Xid, HandleAck(xid)
      PROVE  IInv'
    BY <1>2 DEF HandleAck, IsOurs, Waiting
<1>3. ASSUME NEW xid \in Xid, NEW ip \in Ip \union {NoIp}, HandleOffer(xid, ip)
      PROVE  IInv'
    BY <1>3 DEF HandleOffer, IsOurs, lease, reply
<1>4. ASSUME Begin
      PROVE  IInv'
    <2> USE <1>4 DEF Begin, lease
    <2>0. g_got_reply' \in BOOLEAN
        BY Zenon
    <2>1. TypeOK'
        BY <2>0
    <2>2. LeaseIsTheOneRequested' /\ RequestNamesTheOffer'
        OBVIOUS
    <2>3. Transactions'
        OBVIOUS
    <2>4. Room'
        OBVIOUS
    <2>5. QED
        BY <2>1, <2>2, <2>3, <2>4
<1>5. ASSUME NEW sent \in BOOLEAN, Discover(sent)
      PROVE  IInv'
    <2> USE <1>5 DEF Discover, GiveUp, lease
    <2>0. g_got_reply' \in BOOLEAN
        BY Zenon
    <2>1. TypeOK'
        BY <2>0, SMTT(40)
    <2>2. LeaseIsTheOneRequested' /\ RequestNamesTheOffer'
        BY SMTT(40)
    <2>3. Transactions'
        BY SMTT(40)
    <2>4. Room'
        BY SMTT(40)
    <2>5. QED
        BY <2>1, <2>2, <2>3, <2>4, SMTT(40)
<1>6. ASSUME NEW sent \in BOOLEAN, Request(sent)
      PROVE  IInv'
    <2> USE <1>6 DEF Request, GiveUp, lease
    <2>1. TypeOK'
        OBVIOUS
    <2>2. LeaseIsTheOneRequested' /\ RequestNamesTheOffer'
        OBVIOUS
    <2>3. Transactions'
        BY SMTT(40)
    <2>4. Room'
        BY SMTT(40)
    <2>5. QED
        BY <2>1, <2>2, <2>3, <2>4
<1>7. CASE DiscoverWaited
    BY <1>7, SMTT(40) DEF DiscoverWaited, lease, reply
<1>8. CASE Selected
    BY <1>8, SMTT(40) DEF Selected, GiveUp, lease, reply
<1>9. CASE RequestWaited
    BY <1>9, SMTT(40) DEF RequestWaited, GiveUp, lease, reply
<1>10. CASE RenewTick
    BY <1>10 DEF RenewTick, reply
<1>11. CASE Second
    BY <1>11, SMTT(40) DEF Second, Min, reply
<1>12. CASE UNCHANGED vars
    BY <1>12 DEF vars
<1>13. QED
    BY Zenon, <1>1, <1>2, <1>3, <1>4, <1>5, <1>6, <1>7, <1>8, <1>9, <1>10, <1>11, <1>12
       DEF Next, net_dhcp_request, Step, Tick, ExpireTick

\* At every point of every discovery the state of the client is one its step
\* belongs to, and the transaction ids and attempts stay in range.
THEOREM TypeCorrect == Spec => []TypeOK
<1>1. IInv => TypeOK
    BY DEF IInv
<1>2. QED
    BY InitInv, NextInv, <1>1, PTL DEF Spec

\* dhcp_handle_packet never lets an answer to an earlier transaction decide the
\* address in use, whatever the network loses, repeats or reorders.
THEOREM LeaseCorrect == Spec => []LeaseIsTheOneRequested
<1>1. IInv => LeaseIsTheOneRequested
    BY DEF IInv
<1>2. QED
    BY InitInv, NextInv, <1>1, PTL DEF Spec

\* dhcp_start_discovery asks for the address offered in the same transaction.
THEOREM RequestCorrect == Spec => []RequestNamesTheOffer
<1>1. IInv => RequestNamesTheOffer
    BY DEF IInv
<1>2. QED
    BY InitInv, NextInv, <1>1, PTL DEF Spec
=============================================================================
