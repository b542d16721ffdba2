-------------------------------- MODULE Dhcp --------------------------------
(***************************************************************************)
(* The DHCP client: src/kernel/net/dhcp.c.  The network is external: it    *)
(* loses, delays, duplicates and reorders, so that any answer to a message *)
(* ever sent can arrive at any time, any number of times.  Transaction ids *)
(* are taken to be fresh.  Time is counted in seconds since the lease.     *)
(* There is one thread of control: the timer interrupt calls net_update    *)
(* only while a program runs, and a discovery started then runs behind an  *)
(* interrupt gate, with interrupts off.                                    *)
(***************************************************************************)
EXTENDS Integers

CONSTANTS Ip, NoIp,          \* addresses; NoIp is 0.0.0.0
          Attempts,          \* DHCP_RETRY_ATTEMPTS
          MaxXid,            \* bound on the transactions
          T1, T2, Lease,     \* renew_time, rebind_time, lease_time
          Pause              \* the five seconds between renewals

ASSUME DhcpAssumption ==
    /\ NoIp \notin Ip
    /\ Attempts \in Nat \ {0} /\ MaxXid \in Nat /\ Pause \in Nat
    /\ T1 \in Nat /\ T2 \in Nat /\ Lease \in Nat /\ 0 < T1 /\ T1 < T2 /\ T2 < Lease

VARIABLES
    g_state, g_xid, g_got_reply, g_reply_msgtype,
    g_offer,      \* the address offered, NoIp when g_offer is not valid
    g_lease,      \* the address leased, NoIp before the first lease
    elapsed,      \* seconds since g_lease_start, up to Lease
    since_tx,     \* seconds since g_last_renew_tx, up to Lease
    pc, attempt,  \* where dhcp_start_discovery stands, "idle" outside it
    asked         \* network: the address a REQUEST of each transaction named

vars == <<g_state, g_xid, g_got_reply, g_reply_msgtype, g_offer, g_lease, elapsed, since_tx,
          pc, attempt, asked>>
lease == <<g_lease, elapsed, since_tx>>
reply == <<g_got_reply, g_reply_msgtype>>

Xid == 0 .. MaxXid
Min(a, b) == IF a < b THEN a ELSE b

Init ==
    /\ g_state = "INIT" /\ g_xid = 0
    /\ g_got_reply = FALSE /\ g_reply_msgtype = "none"
    /\ g_offer = NoIp /\ g_lease = NoIp
    /\ elapsed = 0 /\ since_tx = 0
    /\ pc = "idle" /\ attempt = 0
    /\ asked = [x \in Xid |-> NoIp]

-----------------------------------------------------------------------------
(* dhcp_handle_packet *)

\* Mutant: the transaction id is not compared.
IsOursAny(xid) == pc \in {"idle", "offer?", "ack?"} /\ xid \in 1 .. g_xid

\* Packets are handled in net_update: between calls, or in dhcp_wait_reply.
IsOurs(xid) == pc \in {"idle", "offer?", "ack?"} /\ xid > 0 /\ xid = g_xid

\* Mutant: an OFFER is taken in any state.
HandleOfferAlways(xid, ip) ==
    /\ IsOurs(xid) /\ ip # NoIp
    /\ g_offer' = ip
    /\ g_got_reply' = TRUE /\ g_reply_msgtype' = "OFFER"
    /\ UNCHANGED <<g_state, g_xid, lease, pc, attempt, asked>>

\* An OFFER of no address still wipes the candidate.
HandleOffer(xid, ip) ==
    /\ IsOurs(xid) /\ g_state = "SELECTING"
    /\ g_offer' = ip
    /\ IF ip = NoIp THEN UNCHANGED reply
       ELSE g_got_reply' = TRUE /\ g_reply_msgtype' = "OFFER"
    /\ UNCHANGED <<g_state, g_xid, lease, pc, attempt, asked>>

Waiting == g_state \in {"REQUESTING", "RENEWING", "REBINDING"}

HandleNak(xid) ==
    /\ IsOurs(xid) /\ Waiting /\ asked[xid] # NoIp
    /\ g_got_reply' = TRUE /\ g_reply_msgtype' = "NAK"
    /\ UNCHANGED <<g_state, g_xid, g_offer, lease, pc, attempt, asked>>

\* The server confirms the address that was asked for.
HandleAck(xid) ==
    /\ IsOurs(xid) /\ Waiting /\ asked[xid] # NoIp
    /\ g_lease' = asked[xid] /\ elapsed' = 0 /\ since_tx' = 0
    /\ g_state' = "BOUND"
    /\ g_got_reply' = TRUE /\ g_reply_msgtype' = "ACK"
    /\ UNCHANGED <<g_xid, g_offer, pc, attempt, asked>>

-----------------------------------------------------------------------------
(* dhcp_start_discovery: a blocking call, from the boot, the shell or the    *)
(* tick.  A send may fail; a wait ends with a reply or runs out.             *)

Begin ==
    /\ g_xid + Attempts <= MaxXid
    /\ g_state' = "SELECTING" /\ g_offer' = NoIp
    /\ g_got_reply' = FALSE /\ g_reply_msgtype' = "none"
    /\ pc' = "discover" /\ attempt' = 0
    /\ UNCHANGED <<g_xid, lease, asked>>

net_dhcp_request == pc = "idle" /\ Begin

GiveUp == g_state' = "INIT" /\ pc' = "idle"

Discover(sent) ==
    /\ pc = "discover" /\ attempt < Attempts /\ g_offer = NoIp
    /\ g_xid' = g_xid + 1
    /\ g_got_reply' = FALSE
    /\ IF sent THEN pc' = "offer?" /\ UNCHANGED g_state ELSE GiveUp
    /\ UNCHANGED <<g_reply_msgtype, g_offer, lease, attempt, asked>>

DiscoverWaited ==
    /\ pc = "offer?"
    /\ pc' = "discover" /\ attempt' = attempt + 1
    /\ UNCHANGED <<g_state, g_xid, reply, g_offer, lease, asked>>

\* An offer that came in leads to the request; without one the call fails.
Selected ==
    /\ pc = "discover" /\ (attempt = Attempts \/ g_offer # NoIp)
    /\ IF g_offer = NoIp THEN GiveUp /\ UNCHANGED attempt
       ELSE g_state' = "REQUESTING" /\ pc' = "request" /\ attempt' = 0
    /\ UNCHANGED <<g_xid, reply, g_offer, lease, asked>>

Request(sent) ==
    /\ pc = "request" /\ attempt < Attempts
    /\ g_got_reply' = FALSE /\ g_reply_msgtype' = "none"
    /\ IF sent THEN /\ pc' = "ack?" /\ asked' = [asked EXCEPT ![g_xid] = g_offer]
                    /\ UNCHANGED g_state
       ELSE GiveUp /\ UNCHANGED asked
    /\ UNCHANGED <<g_xid, g_offer, lease, attempt>>

\* Mutant: the attempts are not counted.
RequestWaitedForever ==
    /\ pc = "ack?"
    /\ CASE g_reply_msgtype = "ACK" -> pc' = "idle" /\ UNCHANGED g_state
         [] g_reply_msgtype = "NAK" -> GiveUp
         [] OTHER -> pc' = "request" /\ UNCHANGED g_state
    /\ UNCHANGED <<g_xid, reply, g_offer, lease, attempt, asked>>

RequestWaited ==
    /\ pc = "ack?"
    /\ CASE g_reply_msgtype = "ACK" -> pc' = "idle" /\ UNCHANGED <<g_state, attempt>>
         [] g_reply_msgtype = "NAK" -> GiveUp /\ UNCHANGED attempt
         [] OTHER -> /\ attempt' = attempt + 1
                     /\ IF attempt + 1 = Attempts THEN GiveUp
                        ELSE pc' = "request" /\ UNCHANGED g_state
    /\ UNCHANGED <<g_xid, reply, g_offer, lease, asked>>

-----------------------------------------------------------------------------
(* The lease: dhcp_tick, called from every net_update.  While a discovery is *)
(* in progress the state is not BOUND and the tick does nothing.             *)

\* Mutant: the lease has to be exceeded.
ExpiredLate == g_state = "BOUND" /\ elapsed > Lease

Expired == g_state = "BOUND" /\ elapsed >= Lease

ExpireTick == pc = "idle" /\ Expired /\ Begin

\* T1 and T2.  The server's answer names the transaction of the lease.
RenewTick ==
    /\ pc = "idle" /\ g_state = "BOUND" /\ ~Expired /\ since_tx >= Pause
    /\ elapsed >= T1
    /\ g_state' = IF elapsed >= T2 THEN "REBINDING" ELSE "RENEWING"
    /\ since_tx' = 0
    /\ UNCHANGED <<g_xid, reply, g_offer, g_lease, elapsed, pc, attempt, asked>>

Second ==
    /\ g_lease # NoIp /\ elapsed < Lease
    /\ elapsed' = elapsed + 1 /\ since_tx' = Min(since_tx + 1, Lease)
    /\ UNCHANGED <<g_state, g_xid, reply, g_offer, g_lease, pc, attempt, asked>>

Step == \/ \E sent \in BOOLEAN : Discover(sent) \/ Request(sent)
        \/ DiscoverWaited \/ Selected \/ RequestWaited
Tick == ExpireTick \/ RenewTick

Next ==
    \/ \E xid \in Xid : HandleNak(xid) \/ HandleAck(xid)
                          \/ \E ip \in Ip \union {NoIp} : HandleOffer(xid, ip)
    \/ net_dhcp_request \/ Step \/ Tick \/ Second

\* Calls go on, net_update is called again and again, time passes.  Nothing is
\* assumed of the network.
Fairness == WF_vars(Step) /\ WF_vars(Tick) /\ WF_vars(Second)

Spec == Init /\ [][Next]_vars /\ Fairness
-----------------------------------------------------------------------------

\* Type invariant; a blocking call is in the state its step belongs to.
TypeOK ==
    /\ g_state \in {"INIT", "SELECTING", "REQUESTING", "BOUND", "RENEWING", "REBINDING"}
    /\ g_xid \in Xid
    /\ g_got_reply \in BOOLEAN /\ g_reply_msgtype \in {"none", "OFFER", "ACK", "NAK"}
    /\ g_offer \in Ip \union {NoIp} /\ g_lease \in Ip \union {NoIp}
    /\ elapsed \in 0 .. Lease /\ since_tx \in 0 .. Lease
    /\ pc \in {"idle", "discover", "offer?", "request", "ack?"} /\ attempt \in 0 .. Attempts
    /\ asked \in [Xid -> Ip \union {NoIp}]
    /\ g_state \in CASE pc = "idle" -> {"INIT", "BOUND", "RENEWING", "REBINDING"}
                      [] pc \in {"discover", "offer?"} -> {"SELECTING"}
                      [] pc = "request" -> {"REQUESTING"}
                      [] pc = "ack?" -> {"REQUESTING", "BOUND"}

HoldsLease == g_state \in {"BOUND", "RENEWING", "REBINDING"}

\* The address in use is the one selected in the latest discovery and asked for
\* in the current transaction: no late, repeated or reordered OFFER or ACK of an
\* earlier transaction can put another one in its place (dhcp_handle_packet).
LeaseIsTheOneRequested ==
    HoldsLease => g_lease # NoIp /\ g_lease = g_offer /\ asked[g_xid] = g_lease

\* What is asked for was offered in the same transaction: when an address is
\* being requested no request of this transaction named another one.
RequestNamesTheOffer ==
    g_state = "REQUESTING" => g_offer # NoIp /\ asked[g_xid] \in {NoIp, g_offer}

\* dhcp_start_discovery always returns, whatever the network does.
DiscoveryReturns == pc # "idle" ~> pc = "idle"

\* dhcp.c: "at lease expiry fall back to DISCOVER."  A client that is BOUND when its lease
\* runs out starts over (as long as the bound on the transactions leaves room).  One that is
\* RENEWING or REBINDING does not: dhcp_tick looks at BOUND only, so a lost answer or a NAK
\* leaves it there with an expired address.
ExpiryFallsBack ==
    g_state = "BOUND" /\ elapsed >= Lease /\ g_xid + Attempts <= MaxXid ~> elapsed < Lease \/ ~HoldsLease
=============================================================================
