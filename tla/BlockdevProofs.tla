--------------------------- MODULE BlockdevProofs ----------------------------
(***************************************************************************)
(* What block I/O promises, for disks, commands and transfers of every     *)
(* size: a sector holds what was last written to it, a read that returns   *)
(* true returns the disk, and a transfer fails only for a cause.           *)
(*                                                                         *)
(* The invariant follows a transfer down to the sector.  The call of the   *)
(* driver is the next piece of the transfer (Piece).  An AHCI command that *)
(* has started carries this call's sectors, and what it has yet to move is *)
(* still in the bounce buffer, unless a command that timed out shared it   *)
(* (Waits, Polls, Idles, InFlight).  The virtio ring, as long as no read   *)
(* has failed, is at rest, or has this call's request submitted, in hand   *)
(* or returned (Settled).  Every sector up to done is right (Done).        *)
(***************************************************************************)
EXTENDS Blockdev, TLAPS

\* The values of the records and of the disks.
Value == 0 .. (100 + 10 * MaxCalls + Capacity)
Name == {"none", "ahci", "virtio", "ata"}
Cause == {"none", "refused", "device", "no status"}
Index == 0 .. (IndexSize - 1)
Header == [lba : Nat, count : Nat]
Command == [write : BOOLEAN, lba : Nat, count : Nat]
Hba == [cmd : Command, done : Nat, ci : BOOLEAN, tfes : BOOLEAN, stopped : BOOLEAN]
Ring == [avail_idx : Index, used_idx : Index, next_used : Index]
Request == [header : Header, status : {"none", "ok", "error"}]
Vdev == [next : Index, cur : Header, done : Nat, answered : BOOLEAN]
Call == [dev : Name, write : BOOLEAN, lba : Nat, count : Nat, buffer : Seq(Nat), done : Nat,
         ok : BOOLEAN, cause : Cause]
Io == [at : {"none", "begin", "wait", "poll", "ended"}, dev : Name, write : BOOLEAN, lba : Nat,
       count : Nat, data : Seq(Nat), ok : BOOLEAN, cause : Cause]

\* The transfer and the driver call.
Transfers ==
    /\ g_blockdevs \in Tables /\ running \in BOOLEAN /\ calls \in 0 .. MaxCalls
    /\ call \in Call
    /\ Len(call.buffer) = call.count /\ call.done <= call.count
    /\ io \in Io
    /\ ata_disk \in [Sectors -> Nat]
    /\ last \in [{"ahci", "ata"} -> [Sectors -> SUBSET Value]]

\* The AHCI driver and its controller: a command stays within the buffer and the disk.
AhciTypes ==
    /\ g_ahci_data \in [1 .. AhciMax -> Nat] /\ slot_bitmap \in BOOLEAN
    /\ hba \in Hba
    /\ hba.done <= hba.cmd.count /\ hba.cmd.count <= AhciMax /\ hba.cmd.lba + hba.cmd.count <= Capacity
    /\ ahci_disk \in [Sectors -> Nat]

\* The virtio-blk driver and its device.
VblkTypes ==
    /\ ring \in Ring /\ request \in Request /\ request.header.count <= VblkMax
    /\ data_dma \in [1 .. VblkMax -> Nat] /\ busy \in BOOLEAN
    /\ vdev \in Vdev
    /\ vdev.done <= vdev.cur.count /\ vdev.cur.count <= VblkMax
    /\ unsettled \in Nat

Types == Transfers /\ AhciTypes /\ VblkTypes

\* The driver call is the next piece of the transfer.
Piece ==
    /\ running => call.dev # "none" /\ ~call.ok /\ call.done < call.count
    /\ call.dev = "none" => call = NoCall /\ calls = 0
    /\ call.ok => call.done = call.count
    /\ call.write => \A i \in 1 .. call.count : call.buffer[i] = 10 * calls + i
    /\ io.at = "none" => io = Quiet
    /\ io.at # "none" =>
         /\ running /\ io.dev = call.dev /\ io.write = call.write /\ io.lba = Start /\ io.count = Chunk
         /\ io.ok \/ io.write => Len(io.data) = io.count
         /\ io.write => \A i \in 1 .. io.count : io.data[i] = call.buffer[call.done + i]
    /\ io.write /\ io.dev = "virtio" => io.at = "ended" /\ ~io.ok
    /\ io.ok => io.at = "ended"
    /\ io.at = "wait" => io.dev = "ahci"
    /\ io.at = "poll" => io.dev \in {"ahci", "virtio"}
    /\ io.at \in {"begin", "wait", "poll"} => io.cause = "none"

\* The sectors of a device.
Size(d) == IF d = "virtio" THEN VblkCapacity ELSE Capacity

\* A driver that waits was asked for sectors of its disk and holds its only slot.
Slots ==
    /\ slot_bitmap = (io.at \in {"wait", "poll"} /\ io.dev = "ahci")
    /\ busy = (io.at = "poll" /\ io.dev = "virtio")
    /\ io.at \in {"wait", "poll"} \/ io.ok => io.lba + io.count <= Size(io.dev)

\* What a write offers the disk may hold.
Offered ==
    running /\ call.write /\ call.dev # "virtio" =>
      \A i \in 1 .. call.count : call.lba + i - 1 \in Sectors =>
          call.buffer[i] \in last[call.dev][call.lba + i - 1]

\* Two AHCI commands shared the bounce buffer for the sector.
Spoilt(d, l) == d = "ahci" /\ l \in exposed

\* What the controller has yet to write may be written.
InFlight ==
    hba.cmd.write => \A i \in A!Ahead :
        g_ahci_data[i] \in last["ahci"][hba.cmd.lba + i - 1] \/ hba.cmd.lba + i - 1 \in exposed

\* The i-th sector of a write is in the bounce buffer; the i-th sector has been moved.
Sent(i) == g_ahci_data[i] = io.data[i] \/ io.lba + i - 1 \in exposed
Moved(i) == IF io.write THEN ahci_disk[io.lba + i - 1] = io.data[i] \/ io.lba + i - 1 \in exposed
                        ELSE g_ahci_data[i] = ahci_disk[io.lba + i - 1]

\* A write that waits for the port has its sectors in the buffer, and a read that may still
\* overwrite them was counted against them.
Waits ==
    io.at = "wait" /\ io.write =>
      /\ \A i \in 1 .. io.count : Sent(i)
      /\ ~hba.cmd.write => \A i \in A!Ahead : i <= io.count => io.lba + i - 1 \in exposed

\* A command that the controller works on is the one the driver polls for; one that it has
\* completed without an error has moved every sector.
Polls ==
    io.at = "poll" /\ io.dev = "ahci" =>
      /\ A!Busy => /\ hba.cmd = [write |-> io.write, lba |-> io.lba, count |-> io.count]
                   /\ \A i \in 1 .. hba.done : Moved(i)
                   /\ io.write => \A i \in A!Ahead : Sent(i)
      /\ ~A!Busy /\ ~hba.ci /\ ~hba.tfes => \A i \in 1 .. io.count : Moved(i)

\* No driver call failed.
Live == (running \/ call.ok) /\ ~(io.at = "ended" /\ ~io.ok)

\* After a piece that succeeded the controller is idle.
Idles == Live /\ call.dev = "ahci" /\ (call.done > 0 \/ io.at = "ended") /\ io.at # "poll" => ~A!Busy

\* Sector l of d and the value v agree: a write has put it there, a read has found it there.
Holds(d, write, l, v) ==
    IF write THEN d # "virtio" => Disk(d)[l] = v \/ Spoilt(d, l)
    ELSE (d = "virtio" => unsettled = 0) => v = Content(d, l)

\* The transfer so far, and a driver call that succeeded, agree with the disk.
Done ==
    /\ Live => (call.done > 0 => call.lba + call.done <= Size(call.dev))
               /\ \A i \in 1 .. call.done : Holds(call.dev, call.write, call.lba + i - 1, call.buffer[i])
    /\ io.ok => \A i \in 1 .. io.count : Holds(io.dev, io.write, io.lba + i - 1, io.data[i])

\* The places of the virtio ring until a read fails: nothing asked; asked; with the device,
\* which has filled some of the buffer; and returned.
AtRest == /\ ring.avail_idx = vdev.next /\ ring.used_idx = vdev.next /\ ring.next_used = vdev.next
          /\ vdev.cur = V!Nothing /\ vdev.done = 0 /\ ~vdev.answered
Filled(n) == \A i \in 1 .. n : data_dma[i] = V!Content(io.lba + i - 1)
Submitted == /\ ring.avail_idx = V!Succ(vdev.next) /\ ring.used_idx = vdev.next
             /\ ring.next_used = vdev.next
             /\ vdev.cur = V!Nothing /\ vdev.done = 0 /\ ~vdev.answered
InHand == /\ ring.avail_idx = vdev.next /\ vdev.next = V!Succ(ring.next_used)
          /\ ring.used_idx = ring.next_used
          /\ vdev.cur = request.header /\ Filled(vdev.done)
          /\ vdev.answered => /\ request.status # "none"
                              /\ request.status = "ok" => vdev.done = vdev.cur.count
Returned == /\ ring.avail_idx = vdev.next /\ vdev.next = V!Succ(ring.next_used)
            /\ ring.used_idx = vdev.next
            /\ vdev.cur = V!Nothing /\ vdev.done = 0 /\ ~vdev.answered
            /\ request.status # "none" /\ (request.status = "ok" => Filled(io.count))
\* Until a read fails the ring holds the request that is polled for, or nothing.
Settled ==
    unsettled = 0 =>
      IF io.at = "poll" /\ io.dev = "virtio"
      THEN /\ request.header = [lba |-> io.lba, count |-> io.count]
           /\ Submitted \/ InHand \/ Returned
      ELSE AtRest

\* The causes of a failure that are the device's; and what a driver call that failed had.
Excused(cause) == cause = "device" \/ (cause = "no status" /\ unsettled > 1)
Failures ==
    /\ io.at = "ended" /\ ~io.ok =>
         Excused(io.cause) \/ (io.write /\ io.dev = "virtio") \/ io.lba + io.count > Size(io.dev)
    /\ FailureHasACause

\* The inductive invariant
IInv == /\ Types /\ Piece /\ Slots /\ Offered /\ InFlight /\ Waits /\ Polls /\ Idles /\ Done /\ Settled
        /\ Failures /\ SectorsHoldTheLastWrite

-----------------------------------------------------------------------------
\* The sizes are not 0, and the ring has at least two indices (BlockdevAssumption).
LEMMA Sizes ==
    /\ AhciMax \in Nat \ {0} /\ VblkMax \in Nat \ {0} /\ AtaMax \in Nat \ {0}
    /\ Capacity \in Nat \ {0} /\ VblkCapacity \in Nat \ {0} /\ MaxCalls \in Nat \ {0}
    /\ IndexSize \in Nat \ {0} /\ IndexSize > 1
BY BlockdevAssumption

\* The i-th of n sectors is on the disk and not beyond the n sectors.
OfPiece(lba, n, i) ==
    /\ lba + i - 1 \in Sectors /\ lba + i - 1 \in Covered(lba, n) /\ (lba + i - 1) - lba + 1 = i
    /\ \A m \in Nat : lba + i - 1 \notin Covered(lba + n, m)

\* The j-th place behind the first m is one of c places.
OfTransfer(lba, m, c, j) == m + j \in 1 .. c /\ lba + (m + j) - 1 = (lba + m) + j - 1

\* The sectors of a piece that ends on the disk.
LEMMA OnDisk ==
    ASSUME NEW lba \in Nat, NEW n \in Nat, lba + n <= Capacity, NEW i \in 1 .. n
    PROVE  OfPiece(lba, n, i)
BY Sizes DEF Sectors, Covered, OfPiece

\* The sectors of a piece, counted from its first.
LEMMA CoveredIs ==
    ASSUME NEW lba \in Nat, NEW n \in Nat, NEW l \in Covered(lba, n)
    PROVE  l \in Sectors /\ l - lba + 1 \in 1 .. n /\ lba + (l - lba + 1) - 1 = l
BY Sizes DEF Covered, Sectors

\* A place in a piece is a place in the transfer.
LEMMA InTransfer ==
    ASSUME NEW lba \in Nat, NEW m \in Nat, NEW n \in Nat, NEW c \in Nat, m + n <= c, NEW j \in 1 .. n
    PROVE  OfTransfer(lba, m, c, j)
BY DEF OfTransfer

\* t is the n elements of s behind the first m.
IsCut(t, s, m, n) ==
    t \in Seq(Nat) /\ Len(t) = n /\ \A i \in 1 .. n : t[i] = s[m + i]

\* u is s with t stored behind its first m elements.
IsStored(u, s, t, m) ==
    /\ u \in Seq(Nat) /\ Len(u) = Len(s)
    /\ \A i \in 1 .. m : u[i] = s[i]
    /\ \A i \in 1 .. Len(t) : u[m + i] = t[i]

\* A part of a sequence.
LEMMA CutFacts ==
    ASSUME NEW s \in Seq(Nat), NEW m \in Nat, NEW n \in Nat, m + n <= Len(s)
    PROVE  IsCut(SubSeq(s, m + 1, m + n), s, m, n)
<1>1. (m + n) - (m + 1) + 1 = n
  OBVIOUS
<1>2. \A i \in (m + 1) .. (m + n) : s[i] \in Nat
  OBVIOUS
<1> QED BY <1>1, <1>2 DEF IsCut

\* A sequence after another was stored into it.
LEMMA StoredFacts ==
    ASSUME NEW s \in Seq(Nat), NEW t \in Seq(Nat), NEW m \in Nat, NEW n \in Nat, n = Len(s),
           m + Len(t) <= n, NEW u,
           u = [i \in 1 .. n |-> IF i \in (m + 1) .. (m + Len(t)) THEN t[i - m] ELSE s[i]]
    PROVE  IsStored(u, s, t, m)
<1>1. Len(t) \in Nat
  OBVIOUS
<1>2. \A i \in 1 .. n : u[i] \in Nat
  <2> TAKE i \in 1 .. n
  <2>1. CASE i \in (m + 1) .. (m + Len(t))
    <3>1. i - m \in 1 .. Len(t)
      BY <1>1, <2>1
    <3> QED BY <2>1, <3>1
  <2>2. CASE i \notin (m + 1) .. (m + Len(t))
    BY <2>2
  <2> QED BY <2>1, <2>2
<1>3. u \in [1 .. n -> Nat]
  BY <1>2
<1>4. u \in Seq(Nat) /\ Len(u) = n
  BY <1>3
<1>5. \A i \in 1 .. m : u[i] = s[i]
  BY <1>1
<1>6. ASSUME NEW i \in 1 .. Len(t)
      PROVE  u[m + i] = t[i]
  <2>1. m + i \in (m + 1) .. (m + Len(t)) /\ m + i \in 1 .. n /\ (m + i) - m = i
    BY <1>1
  <2> QED BY <2>1
<1> QED BY <1>4, <1>5, <1>6 DEF IsStored

\* blockdev_dispatch_sectors: the next piece is not empty, not longer than a command, and ends
\* within the transfer.
LEMMA Chunks ==
    ASSUME Types, Piece, running
    PROVE  /\ call.dev \in {"ahci", "virtio", "ata"} /\ max_transfer_sectors(call.dev) \in Nat \ {0}
           /\ Chunk \in 1 .. max_transfer_sectors(call.dev) /\ call.done + Chunk <= call.count
           /\ Start \in Nat /\ Start + Chunk <= call.lba + call.count
<1>1. call.dev \in {"ahci", "virtio", "ata"} /\ call.done < call.count
  BY DEF Types, Transfers, Piece, Call, Name
<1>2. max_transfer_sectors(call.dev) \in Nat \ {0}
  BY <1>1, Sizes DEF max_transfer_sectors
<1>3. call.count \in Nat /\ call.done \in Nat /\ call.lba \in Nat
  BY DEF Types, Transfers, Call
<1> QED BY <1>1, <1>2, <1>3 DEF Chunk, Start

\* blockdev_init: the invariant holds at first.
LEMMA InitInv == Init => IInv
<1> SUFFICES ASSUME Init PROVE IInv
  OBVIOUS
<1> USE Sizes DEF Init
<1>1. Transfers
  <2>1. A!Initially \in [Sectors -> Value] /\ Value \subseteq Nat
    BY DEF A!Initially, Sectors, Value
  <2>2. call \in Call /\ Len(call.buffer) = call.count /\ call.done <= call.count
    BY DEF NoCall, Call, Name, Cause
  <2>3. io \in Io
    BY DEF Quiet, Io, Name, Cause
  <2>4. last \in [{"ahci", "ata"} -> [Sectors -> SUBSET Value]]
    BY <2>1
  <2>5. ata_disk \in [Sectors -> Nat]
    BY <2>1, ZenonT(40)
  <2>6. running \in BOOLEAN /\ g_blockdevs \in Tables
    BY Zenon
  <2>7. calls \in 0 .. MaxCalls
    OBVIOUS
  <2> QED BY <2>2, <2>3, <2>4, <2>5, <2>6, <2>7, Zenon DEF Transfers
<1>2. AhciTypes
  <2>1. g_ahci_data \in [1 .. AhciMax -> Nat] /\ slot_bitmap \in BOOLEAN
    BY ZenonT(40) DEF A!AhciInit
  <2>2. hba \in Hba
    BY DEF A!AhciInit, A!NoCommand, Hba, Command
  <2>3. hba.done <= hba.cmd.count /\ hba.cmd.count <= AhciMax /\ hba.cmd.lba + hba.cmd.count <= Capacity
    BY DEF A!AhciInit, A!NoCommand
  <2>4. ahci_disk \in [Sectors -> Nat]
    BY DEF A!AhciInit, A!Initially, Sectors
  <2> QED BY <2>1, <2>2, <2>3, <2>4 DEF AhciTypes
<1>3. VblkTypes
  <2>1. 0 \in Index
    BY DEF Index
  <2>2. ring \in Ring /\ request \in Request /\ request.header.count <= VblkMax
    BY <2>1 DEF V!VblkInit, V!Nothing, Ring, Request, Header
  <2>3. data_dma \in [1 .. VblkMax -> Nat] /\ busy \in BOOLEAN /\ unsettled \in Nat
    BY ZenonT(40) DEF V!VblkInit
  <2>4. vdev \in Vdev /\ vdev.done <= vdev.cur.count /\ vdev.cur.count <= VblkMax
    BY <2>1 DEF V!VblkInit, V!Nothing, Vdev, Header
  <2> QED BY <2>2, <2>3, <2>4 DEF VblkTypes
<1>4. Piece
  BY DEF Piece, Quiet, NoCall
<1>5. Slots
  BY ZenonT(40) DEF Slots, Quiet, A!AhciInit, V!VblkInit
<1>6. Offered
  BY DEF Offered
<1>7. InFlight
  BY DEF InFlight, A!AhciInit, A!NoCommand
<1>8. Waits /\ Polls /\ Idles
  BY DEF Waits, Polls, Idles, Quiet, NoCall
<1>9. Done
  BY DEF Done, Quiet, NoCall, Live
<1>10. Settled
  BY DEF Settled, Quiet, AtRest, V!VblkInit
<1>11. Failures
  BY DEF Failures, FailureHasACause, Quiet
<1>12. SectorsHoldTheLastWrite
  BY DEF SectorsHoldTheLastWrite, Disk, A!AhciInit, A!Initially, Sectors
<1> QED BY <1>1, <1>2, <1>3, <1>4, <1>5, <1>6, <1>7, <1>8, <1>9, <1>10, <1>11, <1>12 DEF IInv, Types

-----------------------------------------------------------------------------

\* The sectors of the command in flight are on the disk.
LEMMA AheadIsOnDisk ==
    ASSUME AhciTypes, NEW i \in A!Ahead
    PROVE  hba.cmd.lba + i - 1 \in Sectors /\ i \in 1 .. AhciMax
<1>1. /\ hba.done \in Nat /\ hba.cmd.lba \in Nat /\ hba.cmd.count \in Nat
      /\ hba.cmd.count <= AhciMax /\ hba.cmd.lba + hba.cmd.count <= Capacity
  BY DEF AhciTypes, Hba, Command
<1>2. i \in (hba.done + 1) .. hba.cmd.count
  BY DEF A!Ahead
<1>3. i \in 1 .. hba.cmd.count
  BY <1>1, <1>2
<1> QED BY <1>1, <1>3, Sizes DEF Sectors

\* What the controller has yet to write may still be written when more may be.
LEMMA InFlightStays ==
    ASSUME AhciTypes, InFlight, UNCHANGED <<hba, g_ahci_data>>, exposed \subseteq exposed',
           \A l \in Sectors : last["ahci"][l] \subseteq last'["ahci"][l]
    PROVE  InFlight'
<1> SUFFICES ASSUME hba.cmd.write, NEW i \in A!Ahead
             PROVE  g_ahci_data[i] \in last'["ahci"][hba.cmd.lba + i - 1] \/ hba.cmd.lba + i - 1 \in exposed'
  BY DEF InFlight, A!Ahead
<1>1. g_ahci_data[i] \in last["ahci"][hba.cmd.lba + i - 1] \/ hba.cmd.lba + i - 1 \in exposed
  BY DEF InFlight
<1> QED BY <1>1, AheadIsOnDisk

\* A transfer begins: nothing is done yet, and a write offers its data.
LEMMA RawStep ==
    ASSUME IInv, NEW d \in {"ahci", "virtio", "ata"}, NEW write \in BOOLEAN, NEW lba \in Nat,
           NEW count \in Nat \ {0}, blockdev_raw(d, write, lba, count)
    PROVE  IInv'
<1> DEFINE buffer == [i \in 1 .. count |-> IF write THEN 10 * (calls + 1) + i ELSE 0]
           old(l) == last[d][l]
<1>0. /\ ~running /\ calls < MaxCalls /\ running' = TRUE /\ calls' = calls + 1
      /\ call' = [dev |-> d, write |-> write, lba |-> lba, count |-> count,
                  buffer |-> buffer, done |-> 0, ok |-> FALSE, cause |-> "none"]
      /\ last' = IF write /\ d # "virtio"
                 THEN [last EXCEPT ![d] = [l \in Sectors |->
                           IF l \in Covered(lba, count) THEN @[l] \cup {buffer[l - lba + 1]} ELSE @[l]]]
                 ELSE last
      /\ UNCHANGED <<g_blockdevs, io, ahci, vblk, ata_disk>>
  BY DEF blockdev_raw
<1>1. /\ call'.dev = d /\ call'.write = write /\ call'.lba = lba /\ call'.count = count
      /\ call'.buffer = buffer /\ call'.done = 0 /\ call'.ok = FALSE /\ call'.cause = "none"
  BY <1>0
<1>2. Types /\ Piece /\ io.at = "none" /\ io = Quiet /\ calls \in Nat
  <2>1. Types /\ Piece
    BY DEF IInv
  <2>2. io.at = "none" /\ io = Quiet
    BY <1>0, <2>1 DEF Piece
  <2>3. calls \in 0 .. MaxCalls
    BY <2>1 DEF Types, Transfers
  <2> QED BY <2>1, <2>2, <2>3
<1>3. buffer \in Seq(Nat) /\ Len(buffer) = count /\ \A i \in 1 .. count : write => buffer[i] = 10 * (calls + 1) + i
  BY <1>2
<1> HIDE DEF buffer
<1>4. /\ last' \in [{"ahci", "ata"} -> [Sectors -> SUBSET Value]]
      /\ \A e \in {"ahci", "ata"}, l \in Sectors : last[e][l] \subseteq last'[e][l]
      /\ write /\ d # "virtio" => \A l \in Sectors : l \in Covered(lba, count) => buffer[l - lba + 1] \in last'[d][l]
  <2>1. CASE write /\ d # "virtio"
    <3>1. \A l \in Covered(lba, count) : buffer[l - lba + 1] \in Value
      BY <1>0, <1>2, <1>3, <2>1, Sizes DEF Covered, Sectors, Value
    <3>2. d \in {"ahci", "ata"} /\ last \in [{"ahci", "ata"} -> [Sectors -> SUBSET Value]]
      BY <1>2, <2>1 DEF Types, Transfers
    <3> DEFINE new == [l \in Sectors |-> IF l \in Covered(lba, count) THEN old(l) \cup {buffer[l - lba + 1]} ELSE old(l)]
    <3>3. new \in [Sectors -> SUBSET Value] /\ last' = [last EXCEPT ![d] = new]
      BY <1>0, <2>1, <3>1, <3>2
    <3>4. \A l \in Sectors : /\ last[d][l] \subseteq new[l]
                             /\ l \in Covered(lba, count) => buffer[l - lba + 1] \in new[l]
      OBVIOUS
    <3> HIDE DEF new
    <3> QED BY <3>2, <3>3, <3>4
  <2>2. CASE ~(write /\ d # "virtio")
    BY <1>0, <1>2, <2>2 DEF Types, Transfers
  <2> QED BY <2>1, <2>2
<1> HIDE DEF old
<1>5. Transfers'
  <2>1. call' \in Call
    BY <1>0, <1>3 DEF Call, Name, Cause
  <2>2. Len(call'.buffer) = call'.count /\ call'.done <= call'.count
    BY <1>1, <1>3
  <2>3. running' \in BOOLEAN /\ g_blockdevs' = g_blockdevs /\ io' = io /\ ata_disk' = ata_disk
    BY <1>0
  <2>4. calls' \in 0 .. MaxCalls
    BY <1>0, <1>2, Sizes
  <2> QED BY <1>2, <1>4, <2>1, <2>2, <2>3, <2>4, Zenon DEF Types, Transfers
<1>6. AhciTypes' /\ VblkTypes'
  BY <1>0, <1>2 DEF Types, AhciTypes, VblkTypes, ahci, vblk
<1>7. Piece'
  BY <1>0, <1>1, <1>2, <1>3, SMTT(40) DEF Piece, Quiet
<1>8. Slots' /\ Settled'
  BY <1>0 DEF IInv, Slots, Settled, AtRest, Submitted, InHand, Returned, Filled, ahci, vblk
<1>9. Offered'
  <2> SUFFICES ASSUME write, d # "virtio", NEW i \in 1 .. count, lba + i - 1 \in Sectors
               PROVE  buffer[i] \in last'[d][lba + i - 1]
    BY <1>1, Zenon DEF Offered, Sectors
  <2>1. lba + i - 1 \in Covered(lba, count) /\ (lba + i - 1) - lba + 1 = i
    BY Sizes DEF Covered, Sectors
  <2> QED BY <1>4, <2>1
<1>10. InFlight'
  BY <1>0, <1>2, <1>4, InFlightStays DEF IInv, Types, ahci
<1>11. Waits' /\ Polls' /\ Idles'
  BY <1>0, <1>1, <1>2 DEF Waits, Polls, Idles, Quiet
<1>12. Done'
  BY <1>0, <1>1, <1>2 DEF Done, Quiet
<1>13. Failures'
  BY <1>0, <1>2, SMTT(40) DEF Failures, FailureHasACause, Quiet
<1>14. SectorsHoldTheLastWrite'
  BY <1>0, <1>4 DEF IInv, SectorsHoldTheLastWrite, Disk, ahci
<1> QED BY <1>5, <1>6, <1>7, <1>8, <1>9, <1>10, <1>11, <1>12, <1>13, <1>14 DEF IInv, Types

\* The next piece goes to the driver.
LEMMA DispatchStep ==
    ASSUME IInv, dispatch
    PROVE  IInv'
<1> DEFINE refuses == call.write /\ call.dev = "virtio"
           data == SubSeq(call.buffer, call.done + 1, call.done + Chunk)
<1>0. /\ running /\ io.at = "none" /\ call.done < call.count
      /\ io' = [at |-> IF refuses THEN "ended" ELSE "begin",
                dev |-> call.dev, write |-> call.write, lba |-> Start, count |-> Chunk, ok |-> FALSE,
                cause |-> IF refuses THEN "refused" ELSE "none", data |-> data]
      /\ UNCHANGED <<g_blockdevs, call, running, last, calls, ahci, vblk, ata_disk>>
  BY DEF dispatch, transfer
<1>1. Types /\ Piece /\ call \in Call /\ Len(call.buffer) = call.count
  BY DEF IInv, Types, Transfers
<1>2. /\ call.dev \in {"ahci", "virtio", "ata"} /\ call.count \in Nat /\ call.done \in Nat
      /\ call.buffer \in Seq(Nat) /\ call.write \in BOOLEAN
      /\ Chunk \in Nat \ {0} /\ call.done + Chunk <= call.count /\ Start \in Nat
  BY <1>0, <1>1, Chunks DEF Call
<1>3. data \in Seq(Nat) /\ Len(data) = Chunk /\ \A i \in 1 .. Chunk : data[i] = call.buffer[call.done + i]
  <2>1. call.done + Chunk <= Len(call.buffer) /\ Chunk \in Nat
    BY <1>1, <1>2
  <2>2. IsCut(data, call.buffer, call.done, Chunk)
    BY <1>2, <2>1, CutFacts, Zenon
  <2> QED BY <2>2, Zenon DEF IsCut
<1> HIDE DEF data
<1>4. /\ io'.at = (IF refuses THEN "ended" ELSE "begin") /\ io'.dev = call.dev
      /\ io'.write = call.write /\ io'.lba = Start /\ io'.count = Chunk /\ io'.ok = FALSE
      /\ io'.cause = (IF refuses THEN "refused" ELSE "none") /\ io'.data = data
  BY <1>0
<1>5. Transfers'
  <2>1. io' \in Io
    BY <1>0, <1>2, <1>3 DEF Io, Name, Cause
  <2> QED BY <1>0, <1>1, <2>1 DEF Types, Transfers
<1>6. AhciTypes' /\ VblkTypes'
  BY <1>0, <1>1 DEF Types, AhciTypes, VblkTypes, ahci, vblk
<1>7. Piece'
  <2>1. Start' = Start /\ Chunk' = Chunk
    BY <1>0 DEF Start, Chunk
  <2> QED BY <1>0, <1>1, <1>3, <1>4, <2>1 DEF Piece
<1>8. Slots'
  BY <1>0, <1>4 DEF IInv, Slots, ahci, vblk
<1>9. Settled'
  BY <1>0, <1>4 DEF IInv, Settled, AtRest, vblk
<1>10. Offered' /\ SectorsHoldTheLastWrite'
  BY <1>0, SMTT(40) DEF IInv, Offered, SectorsHoldTheLastWrite, Disk, ahci
<1>11. InFlight'
  BY <1>0, <1>1, InFlightStays DEF IInv, Types, ahci
<1>12. Waits' /\ Polls'
  BY <1>4 DEF Waits, Polls
<1>13. Idles'
  BY <1>0, <1>1, <1>4, SMTT(40) DEF IInv, Idles, Live, A!Busy, ahci
<1>14. Done'
  BY <1>0, <1>1, <1>4 DEF IInv, Done, Live, Holds, Disk, Spoilt, Content, ahci, vblk
<1>15. Failures'
  BY <1>0, <1>4 DEF IInv, Failures, FailureHasACause
<1> QED BY <1>5, <1>6, <1>7, <1>8, <1>9, <1>10, <1>11, <1>12, <1>13, <1>14, <1>15, SMTT(40) DEF IInv, Types

\* The driver returns: its piece is done, or the transfer has failed.
LEMMA NextStep ==
    ASSUME IInv, dispatch_next
    PROVE  IInv'
<1> DEFINE done == call.done + io.count
           ends == ~io.ok \/ done = call.count
           buffer == IF call.write THEN call.buffer ELSE Stored(io.data)
           held == [l \in Sectors |-> IF l \in Covered(call.lba, call.count)
                                      THEN {call.buffer[l - call.lba + 1]} ELSE last[call.dev][l]]
<1>0. /\ io.at = "ended" /\ io' = Quiet /\ running' = ~ends
      /\ call' = IF io.ok THEN [call EXCEPT !.done = done, !.ok = ends, !.buffer = buffer]
                 ELSE [call EXCEPT !.cause = io.cause]
      /\ last' = IF io.ok /\ ends /\ call.write THEN [last EXCEPT ![call.dev] = held] ELSE last
      /\ UNCHANGED <<g_blockdevs, calls, ahci, vblk, ata_disk>>
  BY DEF dispatch_next
<1>1. Types /\ Piece /\ call \in Call /\ io \in Io /\ Len(call.buffer) = call.count
  BY DEF IInv, Types, Transfers
<1>2. /\ running /\ io.dev = call.dev /\ io.write = call.write /\ io.lba = call.lba + call.done
      /\ io.count = Chunk /\ (io.ok \/ io.write => Len(io.data) = io.count)
      /\ ~call.ok /\ call.done < call.count
      /\ io.write => \A i \in 1 .. io.count : io.data[i] = call.buffer[call.done + i]
  BY <1>0, <1>1 DEF Piece, Start
<1>3. /\ call.dev \in {"ahci", "virtio", "ata"} /\ call.count \in Nat /\ call.done \in Nat /\ call.lba \in Nat
      /\ call.buffer \in Seq(Nat) /\ call.write \in BOOLEAN /\ io.ok \in BOOLEAN /\ io.data \in Seq(Nat)
      /\ io.count \in Nat \ {0} /\ done <= call.count /\ io.lba + io.count <= call.lba + call.count
      /\ io.cause \in Cause
  BY <1>1, <1>2, Chunks, SMTT(40) DEF Call, Io
<1>4. /\ io'.at = "none" /\ io'.ok = FALSE
  BY <1>0 DEF Quiet
<1>5. io.ok => /\ buffer \in Seq(Nat) /\ Len(buffer) = call.count
               /\ \A i \in 1 .. call.done : buffer[i] = call.buffer[i]
               /\ \A i \in 1 .. io.count : buffer[call.done + i] = io.data[i]
               /\ call.write => buffer = call.buffer
  <2> SUFFICES ASSUME io.ok
               PROVE  /\ buffer \in Seq(Nat) /\ Len(buffer) = call.count
                      /\ \A i \in 1 .. call.done : buffer[i] = call.buffer[i]
                      /\ \A i \in 1 .. io.count : buffer[call.done + i] = io.data[i]
                      /\ call.write => buffer = call.buffer
    OBVIOUS
  <2>1. CASE call.write
    BY <1>1, <1>2, <1>3, <2>1, ZenonT(40)
  <2>2. CASE ~call.write
    <3>1. /\ buffer = [i \in 1 .. call.count |-> IF i \in (call.done + 1) .. (call.done + Len(io.data))
                                                 THEN io.data[i - call.done] ELSE call.buffer[i]]
          /\ Len(io.data) = io.count
      BY <1>2, <2>2 DEF Stored
    <3> HIDE DEF buffer
    <3>2. call.count = Len(call.buffer) /\ call.done + Len(io.data) <= call.count
      BY <1>1, <1>3, <3>1
    <3>3. IsStored(buffer, call.buffer, io.data, call.done)
      BY <1>3, <3>1, <3>2, StoredFacts, Zenon
    <3> QED BY <1>1, <2>2, <3>1, <3>3, ZenonT(40) DEF IsStored
  <2> QED BY <2>1, <2>2, <1>3, ZenonT(40)
<1> HIDE DEF buffer
<1>6. /\ call'.dev = call.dev /\ call'.write = call.write /\ call'.lba = call.lba /\ call'.count = call.count
      /\ io.ok => call'.done = done /\ call'.ok = ends /\ call'.buffer = buffer /\ call'.cause = call.cause
      /\ ~io.ok => call'.done = call.done /\ call'.ok = call.ok /\ call'.buffer = call.buffer /\ call'.cause = io.cause
  BY <1>0, <1>1 DEF Call
<1>7. io.ok => /\ call.lba + done <= Size(call.dev)
               /\ \A i \in 1 .. done : Holds(call.dev, call.write, call.lba + i - 1, buffer[i])
  <2> SUFFICES ASSUME io.ok
               PROVE  /\ call.lba + done <= Size(call.dev)
                      /\ \A i \in 1 .. done : Holds(call.dev, call.write, call.lba + i - 1, buffer[i])
    OBVIOUS
  <2>1. call.lba + done <= Size(call.dev)
    BY <1>2, <1>3 DEF IInv, Slots
  <2>2. \A i \in 1 .. call.done : Holds(call.dev, call.write, call.lba + i - 1, call.buffer[i])
    BY <1>2 DEF IInv, Done, Live
  <2>3. \A i \in 1 .. io.count : Holds(call.dev, call.write, io.lba + i - 1, io.data[i])
    BY <1>2 DEF IInv, Done
  <2>4. ASSUME NEW i \in 1 .. done
        PROVE  Holds(call.dev, call.write, call.lba + i - 1, buffer[i])
    <3>1. CASE i <= call.done
      BY <1>3, <1>5, <2>2, <3>1
    <3>2. CASE i > call.done
      <4> DEFINE j == i - call.done
      <4>1. j \in 1 .. io.count /\ call.done + j = i
        BY <1>3, <3>2
      <4>2. (call.lba + call.done) + j - 1 = call.lba + i - 1
        BY <1>3, SMTT(40)
      <4> HIDE DEF j
      <4>3. Holds(call.dev, call.write, call.lba + i - 1, io.data[j])
        BY <1>2, <2>3, <4>1, <4>2
      <4> QED BY <1>5, <4>1, <4>3
    <3> QED BY <1>3, <3>1, <3>2
  <2> QED BY <2>1, <2>4
<1>8. /\ last' \in [{"ahci", "ata"} -> [Sectors -> SUBSET Value]]
      /\ \A e \in {"ahci", "ata"}, l \in Sectors :
           \/ last'[e][l] = last[e][l]
           \/ /\ io.ok /\ ends /\ call.write /\ e = call.dev /\ l \in Covered(call.lba, call.count)
              /\ last'[e][l] = {call.buffer[l - call.lba + 1]}
  <2>0. last \in [{"ahci", "ata"} -> [Sectors -> SUBSET Value]]
    BY <1>1 DEF Types, Transfers
  <2>1. CASE io.ok /\ ends /\ call.write
    <3>1. call.dev \in {"ahci", "ata"}
      BY <1>1, <1>2, <1>3, <2>1, SMTT(40) DEF Piece
    <3>2. \A l \in Covered(call.lba, call.count) : call.buffer[l - call.lba + 1] \in Value
      <4>1. \A i \in 1 .. call.count : call.buffer[i] = 10 * calls + i
        BY <1>1, <2>1 DEF Piece
      <4>2. calls \in Nat /\ calls <= MaxCalls
        BY <1>1, Sizes DEF Types, Transfers
      <4>3. ASSUME NEW l \in Covered(call.lba, call.count)
            PROVE  /\ l - call.lba + 1 \in 1 .. call.count
                   /\ 10 * calls + (l - call.lba + 1) \in Value
        <5>1. l \in Int /\ call.lba <= l /\ l < call.lba + call.count /\ l < Capacity
          BY Sizes DEF Covered, Sectors
        <5>2. l - call.lba + 1 \in 1 .. call.count /\ l - call.lba + 1 <= Capacity
          BY <1>3, <5>1, Sizes, SMTT(40)
        <5>3. 10 * calls \in Nat /\ 10 * calls <= 10 * MaxCalls
          BY <4>2, Sizes
        <5> QED BY <5>2, <5>3, Sizes DEF Value
      <4> QED BY <4>1, <4>3
    <3>3. held \in [Sectors -> SUBSET Value]
      BY <2>0, <3>1, <3>2
    <3>4. last' = [last EXCEPT ![call.dev] = held]
      BY <1>0, <2>1
    <3>5. \A l \in Sectors : held[l] = IF l \in Covered(call.lba, call.count)
                                       THEN {call.buffer[l - call.lba + 1]} ELSE last[call.dev][l]
      OBVIOUS
    <3> HIDE DEF held, ends, done
    <3> QED BY <2>0, <2>1, <3>1, <3>3, <3>4, <3>5
  <2>2. CASE ~(io.ok /\ ends /\ call.write)
    BY <1>0, <2>0, <2>2
  <2> QED BY <2>1, <2>2
<1> HIDE DEF held
<1>9. Transfers'
  <2>1. call' \in Call
    <3>1. ends \in BOOLEAN /\ done \in Nat
      BY <1>3
    <3>2. CASE io.ok
      <4>1. call' = [call EXCEPT !.done = done, !.ok = ends, !.buffer = buffer]
        BY <1>0, <3>2
      <4> HIDE DEF ends, done
      <4> QED BY <1>1, <1>5, <3>1, <3>2, <4>1, ZenonT(40) DEF Call
    <3>3. CASE ~io.ok
      BY <1>0, <1>1, <1>3, <3>3, ZenonT(40) DEF Call
    <3> QED BY <3>2, <3>3
  <2>2. Len(call'.buffer) = call'.count /\ call'.done <= call'.count
    BY <1>1, <1>3, <1>5, <1>6
  <2>3. io' \in Io
    BY <1>0 DEF Quiet, Io, Name, Cause
  <2>4. running' \in BOOLEAN
    BY <1>0, Zenon
  <2> QED BY <1>0, <1>1, <1>8, <2>1, <2>2, <2>3, <2>4, Zenon DEF Types, Transfers
<1>10. AhciTypes' /\ VblkTypes'
  BY <1>0, <1>1 DEF Types, AhciTypes, VblkTypes, ahci, vblk
<1>11. Piece'
  <2>1. running' => call'.dev # "none" /\ ~call'.ok /\ call'.done < call'.count
    <3> SUFFICES ASSUME running' PROVE call'.dev # "none" /\ ~call'.ok /\ call'.done < call'.count
      OBVIOUS
    <3>1. io.ok /\ done # call.count /\ ~ends
      BY <1>0, ZenonT(40)
    <3>2. call'.done = done /\ ~call'.ok
      BY <1>6, <3>1, ZenonT(40)
    <3>3. done < call.count
      BY <1>3, <3>1
    <3> HIDE DEF done
    <3> QED BY <1>3, <1>6, <3>2, <3>3
  <2>2. call'.ok => call'.done = call'.count
    BY <1>2, <1>3, <1>6, ZenonT(40)
  <2>3. call'.write => \A i \in 1 .. call'.count : call'.buffer[i] = 10 * calls' + i
    BY <1>0, <1>1, <1>3, <1>5, <1>6 DEF Piece
  <2>4. call'.dev # "none"
    BY <1>3, <1>6
  <2>5. io' = Quiet /\ ~io'.write
    BY <1>0 DEF Quiet
  <2> QED BY <1>4, <2>1, <2>2, <2>3, <2>4, <2>5 DEF Piece
<1>12. Slots' /\ Settled'
  BY <1>0, <1>4 DEF IInv, Slots, Settled, AtRest, ahci, vblk
<1>13. Offered'
  <2> SUFFICES ASSUME running'
               PROVE  Offered'
    BY DEF Offered
  <2>1. io.ok /\ ~ends
    BY <1>0, ZenonT(40)
  <2>2. last' = last
    BY <1>0, <2>1
  <2> QED BY <1>2, <1>5, <1>6, <2>1, <2>2, SMTT(40) DEF IInv, Offered
<1>14. io.ok /\ call.dev = "ahci" => ~A!Busy
  BY <1>0, <1>2 DEF IInv, Idles, Live
<1>15. InFlight'
  <2>1. CASE io.ok /\ call.dev = "ahci"
    BY <1>0, <1>14, <2>1 DEF InFlight, A!Busy, A!NoCommand, ahci
  <2>2. CASE ~(io.ok /\ call.dev = "ahci")
    BY <1>0, <1>1, <1>8, <2>2, InFlightStays DEF IInv, Types, ahci
  <2> QED BY <2>1, <2>2
<1>16. Waits' /\ Polls'
  BY <1>4 DEF Waits, Polls
<1>17. Idles'
  BY <1>0, <1>2, <1>4, <1>6, <1>14, ZenonT(40) DEF Idles, Live, A!Busy, ahci
<1>18. Done'
  <2>1. ~io'.ok
    BY <1>4
  <2>2. CASE io.ok
    <3>1. /\ call'.lba + call'.done <= Size(call'.dev)
          /\ \A i \in 1 .. call'.done : Holds(call'.dev, call'.write, call'.lba + i - 1, call'.buffer[i])
      BY <1>6, <1>7, <2>2
    <3>2. \A d, w, l, v : Holds(d, w, l, v)' = Holds(d, w, l, v)
      BY <1>0 DEF Holds, Disk, Spoilt, Content, ahci, vblk
    <3> QED BY <2>1, <3>1, <3>2 DEF Done
  <2>3. CASE ~io.ok
    <3>1. ~running' /\ ~call'.ok
      BY <1>0, <1>2, <1>6, <2>3, ZenonT(40)
    <3> QED BY <2>1, <3>1 DEF Done, Live
  <2> QED BY <2>2, <2>3
<1>19. Failures'
  <2>1. CASE io.ok
    BY <1>0, <1>4, <1>6, <2>1 DEF Failures, FailureHasACause
  <2>2. CASE ~io.ok
    <3>1. Excused(io.cause) \/ (call.write /\ call.dev = "virtio") \/ io.lba + io.count > Size(call.dev)
      BY <1>0, <1>2, <2>2 DEF IInv, Failures
    <3>2. io.lba \in Nat /\ Size(call.dev) \in Nat
      BY <1>1, Sizes DEF Size, Io
    <3>3. Excused(io.cause) \/ (call.write /\ call.dev = "virtio") \/ call.lba + call.count > Size(call.dev)
      BY <1>3, <3>1, <3>2
    <3>4. Size(call.dev) = (IF call.dev = "virtio" THEN VblkCapacity ELSE Capacity) /\ Size(call.dev) \in Nat
      BY Sizes DEF Size
    <3>5. ~running' /\ call'.cause = io.cause /\ unsettled' = unsettled
      BY <1>0, <1>6, <2>2, ZenonT(40) DEF vblk
    <3>6. call.lba + call.count <= Size(call.dev) => ~(call.lba + call.count > Size(call.dev))
      BY <1>3, <3>4
    <3>7. FailureHasACause'
      BY <1>6, <3>3, <3>4, <3>5, <3>6 DEF FailureHasACause, Excused
    <3> QED BY <1>4, <3>7 DEF Failures
  <2> QED BY <2>1, <2>2
<1>20. SectorsHoldTheLastWrite'
  <2> SUFFICES ASSUME NEW d \in {"ahci", "ata"}, NEW l \in Sectors
               PROVE  Disk(d)[l] \in last'[d][l] \/ (d = "ahci" /\ l \in exposed)
    BY <1>0 DEF SectorsHoldTheLastWrite, Disk, ahci
  <2>1. CASE last'[d][l] = last[d][l]
    BY <2>1 DEF IInv, SectorsHoldTheLastWrite
  <2>2. CASE /\ io.ok /\ ends /\ call.write /\ d = call.dev /\ l \in Covered(call.lba, call.count)
             /\ last'[d][l] = {call.buffer[l - call.lba + 1]}
    <3> DEFINE i == l - call.lba + 1
    <3>1. i \in 1 .. done /\ call.lba + i - 1 = l
      BY <1>3, <2>2, Sizes, SMTT(40) DEF Covered, Sectors
    <3>2. Holds(d, TRUE, l, buffer[i]) /\ buffer[i] = call.buffer[i]
      BY <1>5, <1>7, <2>2, <3>1, ZenonT(40)
    <3> QED BY <2>2, <3>2 DEF Holds, Spoilt
  <2> QED BY <1>8, <2>1, <2>2
<1> QED BY <1>9, <1>10, <1>11, <1>12, <1>13, <1>15, <1>16, <1>17, <1>18, <1>19, <1>20 DEF IInv, Types

-----------------------------------------------------------------------------
\* What a step of a driver leaves of its call.
SameCall == /\ io'.dev = io.dev /\ io'.write = io.write /\ io'.lba = io.lba /\ io'.count = io.count
            /\ io.write => io'.data = io.data

\* The call of a driver that has not returned: the piece it was asked for.
LEMMA CallFacts ==
    ASSUME IInv, io.at \in {"begin", "wait", "poll"}
    PROVE  /\ running /\ io.dev = call.dev /\ io.write = call.write /\ io.lba = call.lba + call.done
           /\ io.count \in Nat \ {0} /\ io.count <= max_transfer_sectors(io.dev)
           /\ io.dev \in {"ahci", "virtio", "ata"}
           /\ call.done + io.count <= call.count /\ call.done \in Nat /\ call.count \in Nat /\ call.lba \in Nat
           /\ io.lba \in Nat /\ io.write \in BOOLEAN /\ io.data \in Seq(Nat) /\ ~io.ok /\ ~call.ok
           /\ io.cause = "none" /\ ~(io.write /\ io.dev = "virtio")
           /\ io.write => /\ Len(io.data) = io.count
                          /\ \A i \in 1 .. io.count : io.data[i] = call.buffer[call.done + i]
<1>1. Types /\ Piece /\ call \in Call /\ io \in Io /\ running
  BY DEF IInv, Types, Transfers, Piece
<1>2. /\ io.dev = call.dev /\ io.write = call.write /\ io.lba = Start /\ io.count = Chunk
      /\ io.write => /\ Len(io.data) = io.count
                     /\ \A i \in 1 .. io.count : io.data[i] = call.buffer[call.done + i]
      /\ ~io.ok /\ ~call.ok /\ io.cause = "none" /\ ~(io.write /\ io.dev = "virtio")
  BY <1>1 DEF Piece
<1>3. /\ call.done \in Nat /\ call.count \in Nat /\ call.lba \in Nat /\ io.lba \in Nat
      /\ io.write \in BOOLEAN /\ io.data \in Seq(Nat)
  BY <1>1 DEF Call, Io
<1>4. /\ call.dev \in {"ahci", "virtio", "ata"} /\ max_transfer_sectors(call.dev) \in Nat
      /\ Chunk \in 1 .. max_transfer_sectors(call.dev) /\ call.done + Chunk <= call.count
  BY <1>1, Chunks
<1>5. Chunk \in Nat \ {0} /\ Chunk <= max_transfer_sectors(call.dev)
  BY <1>4, SMTT(40)
<1> QED BY <1>1, <1>2, <1>3, <1>4, <1>5 DEF Start

\* A step of a driver keeps its call the next piece of the transfer.
LEMMA PieceStays ==
    ASSUME IInv, io.at \in {"begin", "wait", "poll"}, UNCHANGED transfer, SameCall,
           io'.at # "none", io'.ok => io'.at = "ended" /\ Len(io'.data) = io.count,
           io'.at = "wait" => io.dev = "ahci", io'.at = "poll" => io.dev \in {"ahci", "virtio"},
           io'.at \in {"begin", "wait", "poll"} => io'.cause = io.cause
    PROVE  Piece'
<1>1. Piece
  BY DEF IInv
<1>2. /\ running' = running /\ call' = call /\ calls' = calls /\ Start' = Start /\ Chunk' = Chunk
  BY DEF transfer, Start, Chunk
<1>3. /\ running /\ io.dev = call.dev /\ io.write = call.write /\ io.lba = Start /\ io.count = Chunk
      /\ ~(io.write /\ io.dev = "virtio") /\ io.cause = "none"
      /\ io.write => /\ Len(io.data) = io.count
                     /\ \A i \in 1 .. io.count : io.data[i] = call.buffer[call.done + i]
  BY <1>1 DEF Piece
<1> QED BY <1>1, <1>2, <1>3 DEF Piece, SameCall

\* ATA: the sectors move one by one.
LEMMA AtaStep ==
    ASSUME IInv, NEW moved \in 0 .. AtaMax, NEW ok \in BOOLEAN, ata_sectors(moved, ok)
    PROVE  IInv'
<1> DEFINE to == [l \in Sectors |-> IF l \in Covered(io.lba, moved) THEN io.data[l - io.lba + 1]
                                    ELSE ata_disk[l]]
           fits == io.lba + io.count - 1 < Capacity
           got == [i \in 1 .. moved |-> ata_disk[io.lba + i - 1]]
<1>0. /\ io.at = "begin" /\ io.dev = "ata"
      /\ moved <= io.count /\ (ok => moved = io.count /\ fits)
      /\ ~fits => moved = 0
      /\ io' = [io EXCEPT !.at = "ended", !.ok = ok,
                          !.cause = IF ok THEN @ ELSE IF fits THEN "device" ELSE "refused",
                          !.data = IF io.write THEN @ ELSE got]
      /\ ata_disk' = IF io.write THEN to ELSE ata_disk
      /\ UNCHANGED <<transfer, ahci, vblk>>
  BY DEF ata_sectors
<1>1. Types /\ io \in Io /\ call \in Call /\ ata_disk \in [Sectors -> Nat] /\ moved \in Nat
  BY Sizes DEF IInv, Types, Transfers
<1>2. /\ running /\ call.dev = "ata" /\ io.write = call.write /\ io.lba = call.lba + call.done
      /\ io.count \in Nat \ {0} /\ call.done + io.count <= call.count
      /\ call.done \in Nat /\ call.count \in Nat /\ call.lba \in Nat
      /\ io.lba \in Nat /\ io.write \in BOOLEAN /\ io.data \in Seq(Nat) /\ io.cause = "none"
      /\ io.write => /\ Len(io.data) = io.count
                     /\ \A i \in 1 .. io.count : io.data[i] = call.buffer[call.done + i]
  BY <1>0, CallFacts
<1>3. /\ io'.at = "ended" /\ io'.ok = ok /\ SameCall
      /\ io'.cause = (IF ok THEN io.cause ELSE IF fits THEN "device" ELSE "refused")
      /\ ~io.write => io'.data = got
  BY <1>0, <1>1 DEF Io, SameCall
<1>4. moved > 0 => io.lba + io.count <= Capacity
  BY <1>0, <1>1, <1>2, Sizes, SMTT(40)
<1>5. got \in Seq(Nat) /\ Len(got) = moved /\ \A i \in 1 .. moved : got[i] = ata_disk[io.lba + i - 1]
  <2>1. \A i \in 1 .. moved : io.lba + i - 1 \in Sectors
    <3> TAKE i \in 1 .. moved
    <3>0. moved > 0 /\ moved <= io.count
      BY <1>0, <1>1
    <3>1. io.lba + moved <= Capacity
      BY <1>1, <1>2, <1>4, <3>0, Sizes
    <3>2. OfPiece(io.lba, moved, i)
      BY <1>1, <1>2, <3>1, OnDisk, Zenon
    <3> QED BY <3>2, Zenon DEF OfPiece
  <2> QED BY <1>1, <2>1
<1>6. /\ io.write => to \in [Sectors -> Nat]
      /\ \A l \in Sectors : to[l] = IF l \in Covered(io.lba, moved) THEN io.data[l - io.lba + 1] ELSE ata_disk[l]
  <2>1. io.write => \A l \in Covered(io.lba, moved) : io.data[l - io.lba + 1] \in Nat
    <3> SUFFICES ASSUME io.write, NEW l \in Covered(io.lba, moved)
                 PROVE  io.data[l - io.lba + 1] \in Nat
      OBVIOUS
    <3>1. l - io.lba + 1 \in 1 .. moved
      BY <1>1, <1>2, CoveredIs, Zenon
    <3>2. l - io.lba + 1 \in 1 .. Len(io.data)
      BY <1>0, <1>1, <1>2, <3>1
    <3> QED BY <1>2, <3>2, SMTT(40)
  <2> QED BY <1>1, <2>1
<1> HIDE DEF to, got
<1>7. Transfers'
  <2>1. io' \in Io
    <3>1. (IF ok THEN io.cause ELSE IF fits THEN "device" ELSE "refused") \in Cause
      BY <1>1 DEF Io, Cause
    <3>2. (IF io.write THEN io.data ELSE got) \in Seq(Nat)
      BY <1>2, <1>5
    <3> QED BY <1>0, <1>1, <3>1, <3>2, ZenonT(40) DEF Io
  <2>2. ata_disk' \in [Sectors -> Nat]
    BY <1>0, <1>1, <1>6
  <2> QED BY <1>0, <1>1, <2>1, <2>2 DEF Types, Transfers, transfer
<1>8. AhciTypes' /\ VblkTypes'
  BY <1>0, <1>1 DEF Types, AhciTypes, VblkTypes, ahci, vblk
<1>9. Piece'
  <2>1. ok => Len(io'.data) = io.count
    BY <1>0, <1>2, <1>3, <1>5 DEF SameCall
  <2> QED BY <1>0, <1>3, <2>1, PieceStays
<1>10. Slots'
  <2>1. ok => io.lba + io.count <= Capacity
    BY <1>0, <1>2, <1>4
  <2> QED BY <1>0, <1>3, <2>1 DEF IInv, Slots, Size, SameCall, ahci, vblk
<1>11. Settled'
  BY <1>0, <1>3 DEF IInv, Settled, AtRest, vblk
<1>12. Offered'
  BY <1>0 DEF IInv, Offered, transfer
<1>13. InFlight'
  BY <1>0, <1>1, InFlightStays DEF IInv, Types, ahci, transfer
<1>14. Waits' /\ Polls' /\ Idles'
  BY <1>0, <1>2, <1>3 DEF Waits, Polls, Idles, transfer
<1>15. ok => \A i \in 1 .. call.done : Holds("ata", call.write, call.lba + i - 1, call.buffer[i])'
  <2> SUFFICES ASSUME ok, NEW i \in 1 .. call.done
               PROVE  Holds("ata", call.write, call.lba + i - 1, call.buffer[i])'
    BY <1>0 DEF transfer
  <2>1. Holds("ata", call.write, call.lba + i - 1, call.buffer[i]) /\ call.lba + call.done <= Capacity
    BY <1>0, <1>2, CallFacts DEF IInv, Done, Live, Size
  <2>2. call.lba + i - 1 \in Sectors /\ call.lba + i - 1 \notin Covered(io.lba, moved)
    <3>1. OfPiece(call.lba, call.done, i)
      BY <1>2, <2>1, OnDisk, Zenon
    <3> QED BY <1>1, <1>2, <3>1, Zenon DEF OfPiece
  <2>3. ata_disk'[call.lba + i - 1] = ata_disk[call.lba + i - 1]
    BY <1>0, <1>6, <2>2
  <2> QED BY <1>0, <2>1, <2>3 DEF Holds, Disk, Spoilt, Content, transfer
<1>16. ok => \A i \in 1 .. io.count : Holds("ata", io.write, io.lba + i - 1, io.data[i])'
  <2> SUFFICES ASSUME ok, NEW i \in 1 .. io.count
               PROVE  Holds("ata", io.write, io.lba + i - 1, io.data[i])'
    BY <1>3 DEF SameCall
  <2>0. moved = io.count /\ io.lba + io.count <= Capacity
    BY <1>0, <1>2, <1>4
  <2>1. /\ io.lba + i - 1 \in Sectors /\ io.lba + i - 1 \in Covered(io.lba, moved)
        /\ (io.lba + i - 1) - io.lba + 1 = i
    <3>1. OfPiece(io.lba, io.count, i)
      BY <1>1, <1>2, <2>0, OnDisk, Zenon
    <3> QED BY <2>0, <3>1, Zenon DEF OfPiece
  <2>2. CASE io.write
    <3>1. ata_disk'[io.lba + i - 1] = io.data[i]
      BY <1>0, <1>6, <2>1, <2>2
    <3> QED BY <1>3, <2>2, <3>1 DEF Holds, Disk, SameCall
  <2>3. CASE ~io.write
    <3>1. io'.data[i] = ata_disk[io.lba + i - 1] /\ ata_disk' = ata_disk
      BY <1>0, <1>3, <1>5, <2>0, <2>3
    <3> QED BY <1>3, <2>3, <3>1 DEF Holds, Disk, Content, SameCall
  <2> QED BY <2>2, <2>3
<1>17. Done'
  <2>1. call' = call /\ running' = running
    BY <1>0 DEF transfer
  <2>2. CASE ok
    <3>1. call.done > 0 => call.lba + call.done <= Size(call.dev)
      BY <1>0, <1>2, CallFacts DEF IInv, Done, Live
    <3> QED BY <1>0, <1>2, <1>3, <1>15, <1>16, <2>1, <2>2, <3>1, SMTT(40) DEF Done, Size, SameCall
  <2>3. CASE ~ok
    BY <1>3, <2>3 DEF Done, Live
  <2> QED BY <2>2, <2>3
<1>18. Failures'
  <2>1. FailureHasACause'
    BY <1>0, <1>2 DEF FailureHasACause, transfer
  <2>2. ~ok => io'.cause = "device" \/ io.lba + io.count > Capacity
    BY <1>2, <1>3, Sizes
  <2> QED BY <1>0, <1>3, <2>1, <2>2 DEF Failures, Excused, Size, SameCall
<1>19. SectorsHoldTheLastWrite'
  <2> SUFFICES ASSUME NEW d \in {"ahci", "ata"}, NEW l \in Sectors
               PROVE  Disk(d)'[l] \in last[d][l] \/ (d = "ahci" /\ l \in exposed)
    BY <1>0 DEF SectorsHoldTheLastWrite, Disk, ahci, transfer
  <2>0. Disk(d)[l] \in last[d][l] \/ (d = "ahci" /\ l \in exposed)
    BY DEF IInv, SectorsHoldTheLastWrite
  <2>1. CASE d = "ata" /\ io.write /\ l \in Covered(io.lba, moved)
    <3> DEFINE j == l - io.lba + 1
    <3>1. j \in 1 .. moved /\ io.lba + j - 1 = l
      BY <1>1, <1>2, <2>1, CoveredIs
    <3>2. ata_disk'[l] = io.data[j]
      BY <1>0, <1>6, <2>1
    <3> HIDE DEF j
    <3>3. j \in 1 .. io.count /\ io.data[j] = call.buffer[call.done + j]
      <4>1. moved <= io.count /\ io.count \in Nat
        BY <1>0, <1>1, <1>2
      <4>2. j \in 1 .. io.count
        BY <3>1, <4>1
      <4> QED BY <1>2, <2>1, <4>2
    <3>4. call.done + j \in 1 .. call.count /\ call.lba + (call.done + j) - 1 = l
      <4>1. io.count \in Nat
        BY <1>2
      <4>2. OfTransfer(call.lba, call.done, call.count, j)
        BY <1>2, <3>3, <4>1, InTransfer, ZenonT(40)
      <4> QED BY <1>2, <3>1, <4>2, Zenon DEF OfTransfer
    <3>5. call.buffer[call.done + j] \in last["ata"][l]
      BY <1>2, <2>1, <3>4 DEF IInv, Offered
    <3> QED BY <2>1, <3>2, <3>3, <3>5 DEF Disk
  <2>2. CASE ~(d = "ata" /\ io.write /\ l \in Covered(io.lba, moved))
    BY <1>0, <1>6, <2>0, <2>2 DEF Disk, ahci
  <2> QED BY <2>1, <2>2
<1> QED BY <1>7, <1>8, <1>9, <1>10, <1>11, <1>12, <1>13, <1>14, <1>17, <1>18, <1>19 DEF IInv, Types

-----------------------------------------------------------------------------
\* What the disks hold they still hold when they are left alone.
HoldsOn == \A d, w, l, v : Holds(d, w, l, v) => Holds(d, w, l, v)'

\* The disks are left alone.
LEMMA DisksStay ==
    ASSUME UNCHANGED <<ahci_disk, ata_disk, unsettled>>, exposed \subseteq exposed'
    PROVE  HoldsOn
<1> SUFFICES ASSUME NEW d, NEW w, NEW l, NEW v, Holds(d, w, l, v)
             PROVE  Holds(d, w, l, v)'
  BY DEF HoldsOn
<1> QED BY DEF Holds, Disk, Content, Spoilt

\* What was done stays done while the drivers go on.
LEMMA DoneStays ==
    ASSUME Done, UNCHANGED transfer, HoldsOn, Live' => Live, ~io'.ok
    PROVE  Done'
<1>1. call' = call
  BY DEF transfer
<1> QED BY <1>1 DEF Done, HoldsOn

\* A failure of a driver ends its call.
LEMMA CallFails ==
    ASSUME IInv, io.at \in {"begin", "wait", "poll"}, UNCHANGED <<transfer, ata_disk>>, NEW c \in Cause,
           io' = [io EXCEPT !.at = "ended", !.cause = c]
    PROVE  /\ io'.at = "ended" /\ ~io'.ok /\ io'.cause = c /\ SameCall
           /\ Transfers' /\ Piece' /\ Offered' /\ Waits' /\ Polls' /\ Idles' /\ Done'
<1>1. io \in Io /\ ~io.ok /\ Transfers
  BY CallFacts DEF IInv, Types, Transfers
<1>2. io'.at = "ended" /\ io'.ok = io.ok /\ io'.cause = c /\ SameCall /\ io' \in Io
  BY <1>1, ZenonT(40) DEF Io, SameCall
<1>3. Transfers'
  BY <1>1, <1>2 DEF Transfers, transfer
<1>4. Piece'
  BY <1>1, <1>2, PieceStays
<1>5. Offered'
  BY DEF IInv, Offered, transfer
<1>6. Waits' /\ Polls' /\ Idles' /\ Done'
  BY <1>1, <1>2 DEF Waits, Polls, Idles, Done, Live
<1> QED BY <1>1, <1>2, <1>3, <1>4, <1>5, <1>6

\* A driver's failure has a cause, or the piece is not on the disk.
LEMMA FailureStays ==
    ASSUME IInv, io.at \in {"begin", "wait", "poll"}, UNCHANGED transfer, SameCall,
           io'.at = "ended" /\ ~io'.ok => Excused(io.cause)' \/ io.lba + io.count > Size(io.dev)
    PROVE  Failures'
<1>1. running'
  BY CallFacts DEF transfer
<1> QED BY <1>1 DEF Failures, FailureHasACause, SameCall, Size

\* An AHCI call fails after it took the slot.
LEMMA AhciFails ==
    ASSUME IInv, io.at \in {"wait", "poll"}, io.dev = "ahci", UNCHANGED <<transfer, vblk, ata_disk>>,
           io' = A!Failed("device"), slot_bitmap' = FALSE,
           UNCHANGED <<g_ahci_data, hba, ahci_disk, exposed>>
    PROVE  IInv'
<1>1. io' = [io EXCEPT !.at = "ended", !.cause = "device"] /\ "device" \in Cause
  BY SMTT(40) DEF A!Failed, Cause
<1>2. /\ io'.at = "ended" /\ ~io'.ok /\ io'.cause = "device" /\ SameCall
      /\ Transfers' /\ Piece' /\ Offered' /\ Waits' /\ Polls' /\ Idles' /\ Done'
  BY <1>1, CallFails, ZenonT(40)
<1>3. AhciTypes' /\ VblkTypes'
  BY ZenonT(40) DEF IInv, Types, AhciTypes, VblkTypes, vblk
<1>4. Slots'
  BY <1>2, ZenonT(40) DEF IInv, Slots, vblk
<1>5. InFlight'
  BY InFlightStays DEF IInv, Types, transfer
<1>6. Settled'
  BY <1>2 DEF IInv, Settled, AtRest, vblk
<1>7. Failures'
  BY <1>2, FailureStays DEF Excused
<1>8. SectorsHoldTheLastWrite'
  BY DEF IInv, SectorsHoldTheLastWrite, Disk, transfer
<1> QED BY <1>2, <1>3, <1>4, <1>5, <1>6, <1>7, <1>8 DEF IInv, Types

\* The call begins: what a command still in flight and the new one both use is exposed.
LEMMA AhciBeginStep ==
    ASSUME IInv, A!ahci_begin, UNCHANGED <<transfer, vblk, ata_disk>>
    PROVE  IInv'
<1> DEFINE accepts == A!InRange(io.lba, io.count, AhciMax)
           fill == IF io.write THEN io.data ELSE [i \in 1 .. io.count |-> 0]
<1>0. /\ io.at = "begin" /\ io.dev = "ahci"
      /\ io' = IF ~accepts \/ slot_bitmap THEN A!Failed("refused") ELSE [io EXCEPT !.at = "wait"]
      /\ g_ahci_data' = IF accepts THEN A!Filled(fill) ELSE g_ahci_data
      /\ exposed' = IF accepts THEN exposed \cup A!Mixed ELSE exposed
      /\ slot_bitmap' = (slot_bitmap \/ accepts)
      /\ UNCHANGED <<hba, ahci_disk>>
  BY DEF A!ahci_begin
<1>1. /\ running /\ call.dev = "ahci" /\ io.write = call.write /\ io.lba = call.lba + call.done
      /\ io.count \in Nat \ {0} /\ io.count <= AhciMax
      /\ io.lba \in Nat /\ io.write \in BOOLEAN /\ io.data \in Seq(Nat) /\ ~io.ok
      /\ io.write => Len(io.data) = io.count
  BY <1>0, CallFacts DEF max_transfer_sectors
<1>2. Types /\ AhciTypes /\ io \in Io /\ ~slot_bitmap /\ ~busy
  BY <1>0, ZenonT(40) DEF IInv, Types, Transfers, Slots
<1>3. VblkTypes' /\ Offered' /\ exposed \subseteq exposed' /\ HoldsOn
  BY <1>0, <1>2, DisksStay DEF IInv, Types, VblkTypes, Offered, vblk, transfer
<1>4. SectorsHoldTheLastWrite'
  BY <1>0, <1>3 DEF IInv, SectorsHoldTheLastWrite, Disk, transfer
<1>5. CASE ~accepts
  <2>1. io' = [io EXCEPT !.at = "ended", !.cause = "refused"] /\ "refused" \in Cause
    BY <1>0, <1>5 DEF A!Failed, Cause
  <2>2. /\ io'.at = "ended" /\ ~io'.ok /\ io'.cause = "refused" /\ SameCall
        /\ Transfers' /\ Piece' /\ Offered' /\ Waits' /\ Polls' /\ Idles' /\ Done'
    BY <1>0, <2>1, CallFails, ZenonT(40)
  <2>3. g_ahci_data' = g_ahci_data /\ exposed' = exposed /\ ~slot_bitmap' /\ slot_bitmap' \in BOOLEAN
    BY <1>0, <1>2, <1>5, ZenonT(40)
  <2>4. AhciTypes'
    BY <1>0, <1>2, <2>3, ZenonT(40) DEF AhciTypes
  <2>5. Slots' /\ Settled'
    BY <1>0, <1>2, <2>2, <2>3 DEF IInv, Slots, Settled, AtRest, vblk
  <2>6. InFlight'
    BY <1>0, <1>2, <2>3, InFlightStays DEF IInv, transfer
  <2>7. io.lba + io.count > Size(io.dev)
    BY <1>0, <1>1, <1>5, Sizes DEF Size, A!InRange
  <2>8. Failures'
    BY <1>0, <2>2, <2>7, FailureStays
  <2> QED BY <1>3, <1>4, <2>2, <2>4, <2>5, <2>6, <2>8 DEF IInv, Types
<1>6. CASE accepts
  <2>0. io.lba + io.count <= Capacity
    BY <1>1, <1>6, Sizes DEF A!InRange
  <2>1. /\ io' = [io EXCEPT !.at = "wait"] /\ g_ahci_data' = A!Filled(fill)
        /\ exposed' = exposed \cup A!Mixed /\ slot_bitmap' = TRUE
    BY <1>0, <1>2, <1>6, ZenonT(40)
  <2>2. io'.at = "wait" /\ io'.ok = io.ok /\ io'.cause = io.cause /\ SameCall /\ io' \in Io
    BY <1>2, <2>1, SMTT(40) DEF Io, SameCall
  <2>3. /\ g_ahci_data' \in [1 .. AhciMax -> Nat]
        /\ io.write => \A i \in 1 .. io.count : g_ahci_data'[i] = io.data[i]
        /\ \A i \in 1 .. AhciMax : i > io.count => g_ahci_data'[i] = g_ahci_data[i]
    <3>1. fill \in Seq(Nat) /\ Len(fill) = io.count /\ (io.write => fill = io.data)
      BY <1>1
    <3> HIDE DEF fill
    <3>2. /\ g_ahci_data \in [1 .. AhciMax -> Nat]
          /\ g_ahci_data' = [i \in 1 .. AhciMax |-> IF i <= io.count THEN fill[i] ELSE g_ahci_data[i]]
      BY <1>2, <2>1, <3>1 DEF A!Filled, AhciTypes
    <3>3. \A i \in 1 .. AhciMax : i <= io.count => i \in 1 .. io.count /\ fill[i] \in Nat
      BY <1>1, <3>1, Sizes
    <3>4. \A i \in 1 .. io.count : i \in 1 .. AhciMax /\ i <= io.count
      BY <1>1, Sizes
    <3>5. g_ahci_data' \in [1 .. AhciMax -> Nat]
      BY <3>2, <3>3
    <3>6. \A i \in 1 .. AhciMax : i > io.count => ~(i <= io.count)
      BY <1>1, Sizes
    <3> QED BY <3>1, <3>2, <3>4, <3>5, <3>6
  <2>4. Transfers'
    BY <1>2, <2>2 DEF Types, Transfers, transfer
  <2>5. AhciTypes'
    BY <1>0, <1>2, <2>1, <2>3, ZenonT(40) DEF AhciTypes
  <2>6. Piece'
    BY <1>0, <1>1, <2>2, PieceStays
  <2>7. Slots' /\ Settled'
    BY <1>0, <1>2, <2>0, <2>1, <2>2 DEF IInv, Slots, Settled, AtRest, SameCall, Size, vblk
  <2>8. InFlight'
    <3> SUFFICES ASSUME hba.cmd.write, NEW i \in A!Ahead
                 PROVE  \/ g_ahci_data'[i] \in last["ahci"][hba.cmd.lba + i - 1]
                        \/ hba.cmd.lba + i - 1 \in exposed'
      BY <1>0, ZenonT(40) DEF InFlight, A!Ahead, transfer
    <3>1. i \in 1 .. AhciMax /\ (g_ahci_data[i] \in last["ahci"][hba.cmd.lba + i - 1] \/ hba.cmd.lba + i - 1 \in exposed)
      BY <1>2, AheadIsOnDisk DEF IInv, InFlight
    <3>2. CASE i <= io.count
      BY <2>1, <3>2 DEF A!Mixed
    <3>3. CASE ~(i <= io.count)
      <4>1. i > io.count
        BY <1>1, <3>1, <3>3, Sizes
      <4> QED BY <1>3, <2>3, <3>1, <4>1
    <3> QED BY <3>2, <3>3
  <2>9. Waits'
    <3>1. ASSUME io.write, NEW i \in 1 .. io.count
          PROVE  Sent(i)'
      BY <2>2, <2>3, <3>1 DEF Sent, SameCall
    <3>2. ASSUME io.write, ~hba.cmd.write, NEW i \in A!Ahead, i <= io.count
          PROVE  io.lba + i - 1 \in exposed'
      BY <2>1, <3>2 DEF A!Mixed
    <3> QED BY <1>0, <2>2, <3>1, <3>2 DEF Waits, SameCall, A!Ahead
  <2>10. Polls'
    BY <2>2 DEF Polls
  <2>11. Live' = Live /\ Live
    BY <1>0, <1>1, <2>2 DEF Live, transfer
  <2>12. Idles'
    BY <1>0, <2>2, <2>11 DEF IInv, Idles, A!Busy, transfer
  <2>13. Done'
    BY <1>1, <1>3, <2>2, <2>11, DoneStays DEF IInv
  <2>14. Failures'
    BY <1>0, <2>2, FailureStays
  <2> QED BY <1>3, <1>4, <2>4, <2>5, <2>6, <2>7, <2>8, <2>9, <2>10, <2>12, <2>13, <2>14 DEF IInv, Types
<1> QED BY <1>5, <1>6

\* The command is issued: no other is in flight, and its data are in the buffer.
LEMMA AhciIssueStep ==
    ASSUME IInv, A!ahci_issue, UNCHANGED <<transfer, vblk, ata_disk>>
    PROVE  IInv'
<1> DEFINE new == [write |-> io.write, lba |-> io.lba, count |-> io.count]
<1>0. PICK starts \in BOOLEAN :
        /\ io.at = "wait" /\ io.dev = "ahci" /\ ~A!Busy
        /\ hba' = A!Issued(starts) /\ io' = [io EXCEPT !.at = "poll"]
        /\ UNCHANGED <<g_ahci_data, slot_bitmap, ahci_disk, exposed>>
  BY DEF A!ahci_issue, A!PortNotBusy
<1>1. /\ running /\ call.dev = "ahci" /\ io.write = call.write /\ io.lba = call.lba + call.done
      /\ io.count \in Nat \ {0} /\ io.count <= AhciMax /\ call.done + io.count <= call.count
      /\ call.done \in Nat /\ call.count \in Nat /\ call.lba \in Nat
      /\ io.lba \in Nat /\ io.write \in BOOLEAN /\ ~io.ok
      /\ io.write => \A i \in 1 .. io.count : io.data[i] = call.buffer[call.done + i]
  BY <1>0, CallFacts DEF max_transfer_sectors
<1>2. Types /\ AhciTypes /\ io \in Io /\ hba \in Hba /\ io.lba + io.count <= Capacity
  BY <1>0 DEF IInv, Types, Transfers, AhciTypes, Slots, Size
<1>3. io'.at = "poll" /\ io'.ok = io.ok /\ io'.cause = io.cause /\ SameCall /\ io' \in Io
  BY <1>0, <1>2 DEF Io, SameCall
<1>4. /\ hba'.cmd = (IF starts THEN new ELSE A!NoCommand) /\ hba'.done = 0 /\ hba'.ci = TRUE /\ hba' \in Hba
      /\ new # A!NoCommand
  <2>1. new \in Command /\ hba.cmd = A!NoCommand
    BY <1>0, <1>1 DEF Command, A!Busy
  <2>2. new # A!NoCommand
    BY <1>1 DEF A!NoCommand
  <2> HIDE DEF new
  <2>3. hba' = [hba EXCEPT !.ci = TRUE, !.tfes = FALSE, !.stopped = @ /\ ~starts,
                           !.done = IF A!Busy THEN @ ELSE 0,
                           !.cmd = IF A!Busy \/ ~starts THEN @ ELSE new]
    BY <1>0 DEF A!Issued, new
  <2>4. hba'.cmd = (IF starts THEN new ELSE A!NoCommand) /\ hba'.done = 0 /\ hba'.ci = TRUE
    BY <1>0, <1>2, <2>1, <2>3, SMTT(40) DEF Hba
  <2>5. PICK s \in BOOLEAN, c \in Command :
          hba' = [hba EXCEPT !.ci = TRUE, !.tfes = FALSE, !.stopped = s, !.done = 0, !.cmd = c]
    <3>1. (hba.stopped /\ ~starts) \in BOOLEAN
      BY Zenon
    <3>2. (IF A!Busy \/ ~starts THEN hba.cmd ELSE new) \in Command
      BY <1>2, <2>1 DEF Hba
    <3>3. (IF A!Busy THEN hba.done ELSE 0) = 0
      BY <1>0
    <3> QED BY <2>3, <3>1, <3>2, <3>3, ZenonT(40)
  <2>6. hba' \in Hba
    BY <1>2, <2>5, ZenonT(40) DEF Hba
  <2> QED BY <2>2, <2>4, <2>6
<1>5. A!Busy' = starts /\ (starts => hba'.cmd = new) /\ A!NoCommand.write = FALSE
  BY <1>4 DEF A!Busy, A!NoCommand
<1>6. starts => /\ hba'.cmd.write = io.write /\ hba'.cmd.lba = io.lba /\ hba'.cmd.count = io.count
                /\ A!Ahead' = 1 .. io.count
  BY <1>4 DEF A!Ahead
<1>7. Transfers' /\ VblkTypes' /\ Offered'
  BY <1>2, <1>3, ZenonT(40) DEF IInv, Types, Transfers, VblkTypes, Offered, transfer, vblk
<1>8. AhciTypes'
  <2>1. CASE starts
    <3>1. /\ hba'.done <= hba'.cmd.count /\ hba'.cmd.count <= AhciMax
          /\ hba'.cmd.lba + hba'.cmd.count <= Capacity
      <4>1. io.count <= AhciMax /\ io.lba + io.count <= Capacity /\ io.count \in Nat
        BY <1>1, <1>2
      <4>2. hba'.done = 0 /\ hba'.cmd.count = io.count /\ hba'.cmd.lba = io.lba
        BY <1>4, <1>6, <2>1
      <4> QED BY <4>1, <4>2
    <3> QED BY <1>0, <1>2, <1>4, <3>1 DEF AhciTypes
  <2>2. CASE ~starts
    BY <1>0, <1>2, <1>4, <2>2, Sizes DEF AhciTypes, A!NoCommand
  <2> QED BY <2>1, <2>2
<1>9. Piece'
  BY <1>0, <1>1, <1>3, PieceStays
<1>10. Slots' /\ Settled'
  BY <1>0, <1>3 DEF IInv, Slots, Settled, AtRest, SameCall, vblk
<1>11. io.write => \A i \in 1 .. io.count : Sent(i)
  BY <1>0 DEF IInv, Waits
<1>12. InFlight'
  <2> SUFFICES ASSUME starts, io.write, NEW i \in 1 .. io.count
               PROVE  g_ahci_data[i] \in last["ahci"][io.lba + i - 1] \/ io.lba + i - 1 \in exposed
    BY <1>0, <1>4, <1>5, <1>6, ZenonT(40) DEF InFlight, transfer
  <2>1. io.count \in Nat
    BY <1>1
  <2>2. OfPiece(io.lba, io.count, i)
    BY <1>1, <1>2, <2>1, OnDisk, Zenon
  <2>3. OfTransfer(call.lba, call.done, call.count, i)
    BY <1>1, <2>1, InTransfer, Zenon
  <2>4. call.done + i \in 1 .. call.count /\ call.lba + (call.done + i) - 1 = io.lba + i - 1
    BY <1>1, <2>3, Zenon DEF OfTransfer
  <2>5. io.lba + i - 1 \in Sectors
    BY <2>2, Zenon DEF OfPiece
  <2>6. call.buffer[call.done + i] \in last["ahci"][io.lba + i - 1]
    BY <1>1, <2>4, <2>5 DEF IInv, Offered
  <2> QED BY <1>1, <1>11, <2>6 DEF Sent
<1>13. Waits'
  BY <1>3 DEF Waits
<1>14. Polls'
  <2>1. io.write => \A i \in 1 .. io.count : Sent(i)'
    BY <1>0, <1>3, <1>11 DEF Sent, SameCall
  <2>2. \A i \in 1 .. hba'.done : FALSE
    BY <1>4
  <2>3. A!Busy' => hba'.cmd = [write |-> io'.write, lba |-> io'.lba, count |-> io'.count]
    BY <1>3, <1>5 DEF SameCall
  <2>4. A!Busy' => A!Ahead' = 1 .. io.count
    BY <1>5, <1>6
  <2> QED BY <1>3, <1>4, <2>1, <2>2, <2>3, <2>4, ZenonT(40) DEF Polls, SameCall
<1>15. Idles'
  BY <1>3, SMTT(40) DEF Idles
<1>16. Done'
  <2>1. Live' => Live
    BY <1>0, <1>3 DEF Live, transfer
  <2>2. HoldsOn
    BY <1>0, DisksStay DEF vblk
  <2> QED BY <1>1, <1>3, <2>1, <2>2, DoneStays DEF IInv
<1>17. Failures'
  BY <1>0, <1>3, FailureStays
<1>18. SectorsHoldTheLastWrite'
  BY <1>0 DEF IInv, SectorsHoldTheLastWrite, Disk, transfer
<1> QED BY <1>7, <1>8, <1>9, <1>10, <1>12, <1>13, <1>14, <1>15, <1>16, <1>17, <1>18 DEF IInv, Types

\* The command has ended without an error: all its sectors moved.
LEMMA AhciPollStep ==
    ASSUME IInv, A!ahci_poll, UNCHANGED <<transfer, vblk, ata_disk>>
    PROVE  IInv'
<1> DEFINE data == IF io.write THEN io.data ELSE SubSeq(g_ahci_data, 1, io.count)
<1>0. /\ io.at = "poll" /\ io.dev = "ahci" /\ (hba.tfes \/ ~hba.ci)
      /\ slot_bitmap' = FALSE
      /\ io' = IF hba.tfes \/ A!Busy THEN A!Failed("device") ELSE A!Succeeded(data)
      /\ UNCHANGED <<g_ahci_data, hba, ahci_disk, exposed>>
  BY DEF A!ahci_poll
<1>1. CASE hba.tfes \/ A!Busy
  BY <1>0, <1>1, AhciFails, ZenonT(40)
<1>2. CASE ~(hba.tfes \/ A!Busy)
  <2>1. /\ running /\ call.dev = "ahci" /\ ~call.ok
        /\ io.count \in Nat \ {0} /\ io.count <= AhciMax
        /\ io.lba \in Nat /\ io.write \in BOOLEAN /\ io.data \in Seq(Nat) /\ ~io.ok
        /\ io.write => Len(io.data) = io.count
    BY <1>0, CallFacts DEF max_transfer_sectors
  <2>2. Types /\ AhciTypes /\ io \in Io /\ io.lba + io.count <= Capacity
    BY <1>0 DEF IInv, Types, Transfers, Slots, Size
  <2>3. \A i \in 1 .. io.count : Moved(i)
    BY <1>0, <1>2, ZenonT(40) DEF IInv, Polls
  <2>4. /\ data \in Seq(Nat) /\ Len(data) = io.count
        /\ ~io.write => \A i \in 1 .. io.count : data[i] = g_ahci_data[i]
    <3>1. CASE io.write
      BY <2>1, <3>1
    <3>2. CASE ~io.write
      <4>1. g_ahci_data \in Seq(Nat) /\ Len(g_ahci_data) = AhciMax
        BY <2>2, Sizes DEF AhciTypes
      <4>2. SubSeq(g_ahci_data, 1, io.count) = SubSeq(g_ahci_data, 0 + 1, 0 + io.count)
        BY <2>1
      <4>3. 0 \in Nat /\ io.count \in Nat /\ 0 + io.count <= Len(g_ahci_data)
        BY <2>1, <4>1
      <4>4. IsCut(data, g_ahci_data, 0, io.count)
        BY <3>2, <4>1, <4>2, <4>3, CutFacts, Zenon
      <4> HIDE DEF data
      <4> QED BY <2>1, <4>4 DEF IsCut
    <3> QED BY <3>1, <3>2
  <2>5. io.write => data = io.data
    OBVIOUS
  <2> HIDE DEF data
  <2>6. io' = [io EXCEPT !.at = "ended", !.ok = TRUE, !.data = data]
    BY <1>0, <1>2 DEF A!Succeeded
  <2>7. /\ io'.at = "ended" /\ io'.ok = TRUE /\ io'.data = data /\ SameCall /\ io' \in Io
    BY <2>2, <2>4, <2>5, <2>6, ZenonT(40) DEF Io, SameCall
  <2>8. Transfers' /\ AhciTypes' /\ VblkTypes' /\ Offered'
    BY <1>0, <2>2, <2>7, ZenonT(40) DEF IInv, Types, Transfers, AhciTypes, VblkTypes, Offered, transfer, vblk
  <2>9. Piece'
    BY <1>0, <2>4, <2>7, PieceStays, SMTT(40)
  <2>10. Slots' /\ Settled'
    BY <1>0, <2>2, <2>7, ZenonT(40) DEF IInv, Slots, Settled, AtRest, SameCall, Size, vblk
  <2>11. InFlight'
    BY <1>0, <2>2, InFlightStays, ZenonT(40) DEF IInv, transfer
  <2>12. Waits' /\ Polls' /\ Idles'
    BY <1>0, <1>2, <2>7 DEF Waits, Polls, Idles, A!Busy
  <2>13. HoldsOn
    BY <1>0, DisksStay, SMTT(40) DEF vblk
  <2>14. Done'
    <3>1. ASSUME NEW i \in 1 .. io.count
          PROVE  Holds("ahci", io.write, io.lba + i - 1, data[i])
      BY <2>3, <2>4, <2>5, SMTT(40) DEF Moved, Holds, Disk, Spoilt, Content
    <3>2. /\ call.done > 0 => call.lba + call.done <= Size(call.dev)
          /\ \A i \in 1 .. call.done : Holds(call.dev, call.write, call.lba + i - 1, call.buffer[i])
      BY <1>0, <2>1 DEF IInv, Done, Live
    <3>3. call' = call
      BY DEF transfer
    <3>4. \A i \in 1 .. call'.done : Holds(call.dev, call.write, call.lba + i - 1, call.buffer[i])'
      BY <2>13, <3>2, <3>3, SMTT(40) DEF HoldsOn
    <3>5. \A i \in 1 .. io'.count : Holds(io.dev, io.write, io.lba + i - 1, io.data[i])'
      BY <1>0, <2>7, <2>13, <3>1 DEF HoldsOn, SameCall
    <3> QED BY <3>2, <3>3, <3>4, <3>5, SMTT(40) DEF Done
  <2>15. Failures'
    BY <1>0, <2>7, FailureStays
  <2>16. SectorsHoldTheLastWrite'
    BY <1>0 DEF IInv, SectorsHoldTheLastWrite, Disk, transfer
  <2> QED BY <2>8, <2>9, <2>10, <2>11, <2>12, <2>14, <2>15, <2>16 DEF IInv, Types
<1> QED BY <1>1, <1>2

\* What a step of the controller leaves alone.
LEMMA HbaLeaves ==
    ASSUME IInv, UNCHANGED <<transfer, io, slot_bitmap, exposed, vblk, ata_disk>>
    PROVE  Transfers' /\ VblkTypes' /\ Piece' /\ Slots' /\ Offered' /\ Settled' /\ Failures' /\ Live' = Live
<1>1. Transfers' /\ VblkTypes' /\ Offered' /\ Live' = Live
  BY SMTT(40) DEF IInv, Types, Transfers, VblkTypes, Offered, Live, transfer, vblk
<1>2. Piece' /\ Slots'
  BY ZenonT(40) DEF IInv, Piece, Slots, Start, Chunk, transfer, vblk
<1>3. Settled'
  BY ZenonT(40) DEF IInv, Settled, AtRest, Submitted, InHand, Returned, Filled, vblk
<1>4. Failures'
  BY DEF IInv, Failures, FailureHasACause, Excused, transfer, vblk
<1> QED BY <1>1, <1>2, <1>3, <1>4, SMTT(40)

\* The controller moves a sector.
LEMMA HbaTransferStep ==
    ASSUME IInv, A!HbaTransfer, UNCHANGED <<transfer, vblk, ata_disk>>
    PROVE  IInv'
<1>1. AhciTypes /\ hba \in Hba
  BY DEF IInv, Types, AhciTypes
<1>2. /\ hba.done \in Nat /\ hba.cmd.lba \in Nat /\ hba.cmd.count \in Nat /\ hba.cmd.write \in BOOLEAN
      /\ hba.cmd.count <= AhciMax /\ hba.done < hba.cmd.count
  BY <1>1 DEF AhciTypes, Hba, Command, A!HbaTransfer
<1>3. PICK n \in Nat, at \in Nat : n = hba.done + 1 /\ at = hba.cmd.lba + n - 1 /\ at = hba.cmd.lba + hba.done
  BY <1>2
<1>4. /\ A!Busy /\ hba' = [hba EXCEPT !.done = n]
      /\ IF hba.cmd.write THEN ahci_disk' = [ahci_disk EXCEPT ![at] = g_ahci_data[n]] /\ UNCHANGED g_ahci_data
         ELSE g_ahci_data' = [g_ahci_data EXCEPT ![n] = ahci_disk[at]] /\ UNCHANGED ahci_disk
      /\ UNCHANGED <<io, slot_bitmap, exposed>>
  BY <1>3 DEF A!HbaTransfer
<1>5. n \in A!Ahead
  BY <1>2, <1>3 DEF A!Ahead
<1>6. at \in Sectors /\ n \in 1 .. AhciMax
  BY <1>1, <1>3, <1>5, AheadIsOnDisk, Zenon
<1>7. hba'.cmd = hba.cmd /\ hba'.done = n /\ hba'.ci = hba.ci /\ hba'.tfes = hba.tfes /\ hba' \in Hba /\ n <= hba.cmd.count
  BY <1>1, <1>2, <1>3, <1>4, SMTT(40) DEF Hba
<1>8. /\ A!Busy' = A!Busy
      /\ \A i \in A!Ahead' : i \in A!Ahead /\ i # n
      /\ \A i \in 1 .. hba'.done : i \in 1 .. hba.done \/ i = n
      /\ \A i \in 1 .. hba.done : i # n
  BY <1>2, <1>3, <1>7 DEF A!Ahead, A!Busy
<1>9. /\ hba.cmd.write => /\ ahci_disk' \in [Sectors -> Nat] /\ g_ahci_data' = g_ahci_data
                          /\ ahci_disk'[at] = g_ahci_data[n]
                          /\ \A l \in Sectors : l # at => ahci_disk'[l] = ahci_disk[l]
      /\ ~hba.cmd.write => /\ g_ahci_data' \in [1 .. AhciMax -> Nat] /\ ahci_disk' = ahci_disk
                           /\ g_ahci_data'[n] = ahci_disk[at]
                           /\ \A i \in 1 .. AhciMax : i # n => g_ahci_data'[i] = g_ahci_data[i]
  BY <1>1, <1>4, <1>6, ZenonT(40) DEF AhciTypes
<1>10. Transfers' /\ VblkTypes' /\ Piece' /\ Slots' /\ Offered' /\ Settled' /\ Failures' /\ Live' = Live
  BY <1>4, HbaLeaves
<1>11. AhciTypes'
  BY <1>1, <1>4, <1>7, <1>9, SMTT(40) DEF AhciTypes
<1>12. hba.cmd.write => g_ahci_data[n] \in last["ahci"][at] \/ at \in exposed
  BY <1>3, <1>5 DEF IInv, InFlight
<1>13. InFlight'
  <2> SUFFICES ASSUME hba.cmd.write, NEW i \in A!Ahead'
               PROVE  g_ahci_data[i] \in last["ahci"][hba.cmd.lba + i - 1] \/ hba.cmd.lba + i - 1 \in exposed
    BY <1>4, <1>7, <1>9 DEF InFlight, transfer
  <2> QED BY <1>8 DEF IInv, InFlight
<1>14. Waits'
  <2> SUFFICES ASSUME io.at = "wait", io.write
               PROVE  /\ \A i \in 1 .. io.count : Sent(i)'
                      /\ ~hba.cmd.write => \A i \in A!Ahead' : i <= io.count => io.lba + i - 1 \in exposed
    BY <1>4, <1>7 DEF Waits
  <2>1. /\ \A i \in 1 .. io.count : Sent(i)
        /\ ~hba.cmd.write => \A i \in A!Ahead : i <= io.count => io.lba + i - 1 \in exposed
    BY DEF IInv, Waits
  <2>2. ASSUME NEW i \in 1 .. io.count
        PROVE  Sent(i)'
    <3>1. CASE hba.cmd.write \/ i # n
      <4>1. i \in 1 .. AhciMax
        <5>1. io.count \in Nat /\ io.count <= AhciMax
          BY CallFacts, ZenonT(40) DEF IInv, Piece, max_transfer_sectors
        <5> QED BY <5>1, Sizes
      <4> QED BY <1>4, <1>9, <2>1, <3>1, <4>1 DEF Sent
    <3>2. CASE ~hba.cmd.write /\ i = n
      <4>1. i <= io.count
        BY CallFacts
      <4> QED BY <1>4, <1>5, <2>1, <3>2, <4>1 DEF Sent
    <3> QED BY <3>1, <3>2
  <2> QED BY <1>8, <2>1, <2>2
<1>15. io.at = "poll" /\ io.dev = "ahci" =>
         /\ hba.cmd = [write |-> io.write, lba |-> io.lba, count |-> io.count]
         /\ hba.cmd.write = io.write /\ hba.cmd.lba = io.lba /\ hba.cmd.count = io.count
         /\ \A i \in 1 .. hba.done : Moved(i)
         /\ io.write => \A i \in A!Ahead : Sent(i)
  BY <1>4 DEF IInv, Polls
<1>16. Polls'
  <2> SUFFICES ASSUME io.at = "poll", io.dev = "ahci"
               PROVE  /\ \A i \in 1 .. hba'.done : Moved(i)'
                      /\ io.write => \A i \in A!Ahead' : Sent(i)'
    BY <1>4, <1>7, <1>8, <1>15 DEF Polls
  <2>1. ASSUME NEW i \in 1 .. hba.done
        PROVE  Moved(i)'
    <3>1. Moved(i) /\ i # n /\ i \in 1 .. AhciMax
      BY <1>2, <1>8, <1>15, Sizes, SMTT(40)
    <3>2. io.lba + i - 1 # at /\ io.lba + i - 1 \in Sectors
      <4>1. hba.cmd.lba + hba.cmd.count <= Capacity /\ i \in 1 .. hba.cmd.count
        BY <1>1, <1>2 DEF AhciTypes
      <4>2. OfPiece(hba.cmd.lba, hba.cmd.count, i)
        BY <1>2, <4>1, OnDisk, Zenon
      <4> QED BY <1>2, <1>3, <1>15, <3>1, <4>2, SMTT(40) DEF OfPiece
    <3> QED BY <1>4, <1>9, <1>15, <3>1, <3>2, SMTT(40) DEF Moved
  <2>2. Moved(n)'
    <3>1. io.lba + n - 1 = at
      BY <1>3, <1>15, ZenonT(40)
    <3>2. io.write => Sent(n)
      BY <1>5, <1>15, ZenonT(40)
    <3> QED BY <1>4, <1>9, <1>15, <3>1, <3>2, SMTT(40) DEF Moved, Sent
  <2>3. ASSUME io.write, NEW i \in A!Ahead'
        PROVE  Sent(i)'
    BY <1>4, <1>8, <1>9, <1>15, <2>3 DEF Sent
  <2> QED BY <1>8, <2>1, <2>2, <2>3
<1>17. Idles'
  BY <1>4, <1>8, <1>10, SMTT(40) DEF IInv, Idles, transfer
<1>18. Done'
  <2>1. ASSUME Live, call.dev = "ahci", NEW i \in 1 .. call.done
        PROVE  call.lba + i - 1 \in Sectors /\ (hba.cmd.write => call.lba + i - 1 # at)
    <3>0. call.done \in Nat /\ call.lba \in Nat /\ call.done > 0
      BY DEF IInv, Types, Transfers, Call
    <3>1. io.at = "poll"
      BY <1>4, <2>1, <3>0, SMTT(40) DEF IInv, Idles
    <3>2. io.dev = "ahci" /\ io.lba = call.lba + call.done
      BY <2>1, <3>1, CallFacts, SMTT(40)
    <3>3. call.lba + call.done <= Capacity
      BY <2>1, <3>0 DEF IInv, Done, Size
    <3>4. OfPiece(call.lba, call.done, i)
      BY <3>0, <3>3, OnDisk, Zenon
    <3>5. call.lba + i - 1 < at
      <4>1. at = call.lba + call.done + hba.done
        BY <1>3, <1>15, <3>1, <3>2
      <4> QED BY <1>2, <3>0, <4>1, SMTT(40)
    <3> QED BY <1>6, <3>4, <3>5, <3>0, Sizes DEF OfPiece, Sectors
  <2>2. ASSUME Live, NEW i \in 1 .. call.done, Holds(call.dev, call.write, call.lba + i - 1, call.buffer[i])
        PROVE  Holds(call.dev, call.write, call.lba + i - 1, call.buffer[i])'
    <3>0. call' = call /\ unsettled' = unsettled /\ ata_disk' = ata_disk
      BY SMTT(40) DEF transfer, vblk
    <3>1. call.dev = "ahci" => ahci_disk'[call.lba + i - 1] = ahci_disk[call.lba + i - 1]
      BY <1>9, <2>1, <2>2
    <3> QED BY <1>4, <2>2, <3>0, <3>1 DEF Holds, Disk, Content, Spoilt
  <2>3. io.ok => io.dev # "ahci"
    BY <1>4 DEF IInv, Idles, Live, Piece
  <2>4. ASSUME io.ok, NEW i \in 1 .. io.count, Holds(io.dev, io.write, io.lba + i - 1, io.data[i])
        PROVE  Holds(io.dev, io.write, io.lba + i - 1, io.data[i])'
    BY <1>4, <2>3, <2>4 DEF Holds, Disk, Content, Spoilt, vblk
  <2>5. call' = call /\ io' = io
    BY <1>4 DEF transfer
  <2> QED BY <1>10, <2>2, <2>4, <2>5, ZenonT(40) DEF IInv, Done
<1>19. SectorsHoldTheLastWrite'
  <2> SUFFICES ASSUME NEW d \in {"ahci", "ata"}, NEW l \in Sectors
               PROVE  Disk(d)'[l] \in last[d][l] \/ (d = "ahci" /\ l \in exposed)
    BY <1>4 DEF SectorsHoldTheLastWrite, Disk, transfer
  <2>0. Disk(d)[l] \in last[d][l] \/ (d = "ahci" /\ l \in exposed)
    BY DEF IInv, SectorsHoldTheLastWrite
  <2> QED BY <1>9, <1>12, <2>0 DEF Disk
<1> QED BY <1>10, <1>11, <1>13, <1>14, <1>16, <1>17, <1>18, <1>19, SMTT(40) DEF IInv, Types

\* The controller ends a command, with or without an error.
LEMMA HbaEndStep ==
    ASSUME IInv, A!HbaComplete \/ A!HbaFail, UNCHANGED <<transfer, vblk, ata_disk>>
    PROVE  IInv'
<1>1. AhciTypes /\ hba \in Hba
  BY DEF IInv, Types, AhciTypes
<1>2. /\ A!Busy /\ UNCHANGED <<io, g_ahci_data, slot_bitmap, ahci_disk, exposed>>
      /\ \/ hba.done = hba.cmd.count /\ hba' = [hba EXCEPT !.cmd = A!NoCommand, !.done = 0, !.ci = FALSE]
         \/ hba' = [hba EXCEPT !.cmd = A!NoCommand, !.done = 0, !.tfes = TRUE, !.stopped = TRUE]
  BY DEF A!HbaComplete, A!HbaFail
<1>3. A!NoCommand \in Command /\ A!NoCommand.write = FALSE /\ A!NoCommand.count = 0 /\ A!NoCommand.lba = 0
  BY DEF A!NoCommand, Command
<1>4. /\ hba' \in Hba /\ hba'.cmd = A!NoCommand /\ hba'.done = 0 /\ ~A!Busy'
      /\ hba'.tfes = TRUE \/ hba.done = hba.cmd.count
  <2>1. CASE hba.done = hba.cmd.count /\ hba' = [hba EXCEPT !.cmd = A!NoCommand, !.done = 0, !.ci = FALSE]
    BY <1>1, <1>3, <2>1, ZenonT(40) DEF Hba, A!Busy
  <2>2. CASE hba' = [hba EXCEPT !.cmd = A!NoCommand, !.done = 0, !.tfes = TRUE, !.stopped = TRUE]
    BY <1>1, <1>3, <2>2, ZenonT(40) DEF Hba, A!Busy
  <2> QED BY <1>2, <2>1, <2>2, ZenonT(40)
<1>5. Transfers' /\ VblkTypes' /\ Piece' /\ Slots' /\ Offered' /\ Settled' /\ Failures' /\ Live' = Live
  BY <1>2, HbaLeaves
<1>6. AhciTypes'
  BY <1>1, <1>2, <1>3, <1>4, Sizes DEF AhciTypes
<1>7. A!Ahead' = {}
  BY <1>3, <1>4 DEF A!Ahead
<1>8. InFlight' /\ Idles'
  BY <1>3, <1>4 DEF InFlight, Idles
<1>9. Waits'
  BY <1>2, <1>7 DEF IInv, Waits, Sent
<1>10. Polls'
  <2> SUFFICES ASSUME io.at = "poll", io.dev = "ahci", hba.done = hba.cmd.count
               PROVE  \A i \in 1 .. io.count : Moved(i)'
    BY <1>2, <1>4 DEF Polls
  <2>1. hba.cmd.count = io.count /\ \A i \in 1 .. hba.done : Moved(i)
    BY <1>2, SMTT(40) DEF IInv, Polls
  <2> QED BY <1>2, <2>1 DEF Moved
<1>11. Done'
  <2>1. HoldsOn
    BY <1>2, DisksStay DEF vblk
  <2>2. call' = call /\ io' = io
    BY <1>2 DEF transfer
  <2> QED BY <1>5, <2>1, <2>2 DEF IInv, Done, HoldsOn
<1>12. SectorsHoldTheLastWrite'
  BY <1>2 DEF IInv, SectorsHoldTheLastWrite, Disk, transfer
<1> QED BY <1>5, <1>6, <1>8, <1>9, <1>10, <1>11, <1>12 DEF IInv, Types

-----------------------------------------------------------------------------
\* What a step of virtio-blk leaves alone.
LEMMA VblkLeaves ==
    ASSUME IInv, UNCHANGED <<transfer, ahci, ata_disk>>
    PROVE  AhciTypes' /\ Offered' /\ InFlight' /\ SectorsHoldTheLastWrite'
<1>1. AhciTypes' /\ Offered' /\ SectorsHoldTheLastWrite'
  BY DEF IInv, Types, AhciTypes, Offered, SectorsHoldTheLastWrite, Disk, transfer, ahci
<1>2. InFlight'
  BY InFlightStays DEF IInv, Types, transfer, ahci
<1> QED BY <1>1, <1>2, SMTT(40)

\* Ring indices count modulo the size of the ring, which is more than one.
LEMMA Succeeds ==
    ASSUME NEW i \in Index
    PROVE  V!Succ(i) \in Index /\ V!Succ(i) # i
<1>1. i \in Nat /\ i < IndexSize
  BY Sizes DEF Index
<1>2. CASE i + 1 < IndexSize
  BY <1>1, <1>2, Sizes DEF Index, V!Succ
<1>3. CASE i + 1 = IndexSize
  <2>1. V!Succ(i) = 0
    BY <1>1, <1>3, Sizes DEF V!Succ
  <2> QED BY <1>1, <1>3, <2>1, Sizes DEF Index
<1> QED BY <1>1, <1>2, <1>3, Sizes

\* A read begins: the ring is at rest, unless an earlier read failed.
LEMMA VblkBeginStep ==
    ASSUME IInv, V!vblk_begin, UNCHANGED <<transfer, ahci, ata_disk>>
    PROVE  IInv'
<1>0. io.at = "begin" /\ io.dev = "virtio"
  BY DEF V!vblk_begin
<1>1. /\ running /\ call.dev = "virtio" /\ io.count \in Nat \ {0} /\ io.count <= VblkMax
      /\ io.lba \in Nat /\ ~io.ok /\ ~io.write
  BY <1>0, CallFacts DEF max_transfer_sectors
<1>2. Types /\ VblkTypes /\ io \in Io /\ ~slot_bitmap /\ ~busy
  BY <1>0, ZenonT(40) DEF IInv, Types, Transfers, Slots
<1>3. AhciTypes' /\ Offered' /\ InFlight' /\ SectorsHoldTheLastWrite' /\ slot_bitmap' = slot_bitmap
  BY VblkLeaves DEF ahci
<1>4. CASE ~V!Accepts
  <2>0. io' = V!Failed("refused") /\ UNCHANGED vblk
    BY <1>4 DEF V!vblk_begin, V!vblk_vars, vblk
  <2>1. io' = [io EXCEPT !.at = "ended", !.cause = "refused"] /\ "refused" \in Cause
    BY <2>0 DEF V!Failed, Cause
  <2>2. /\ io'.at = "ended" /\ ~io'.ok /\ io'.cause = "refused" /\ SameCall
        /\ Transfers' /\ Piece' /\ Offered' /\ Waits' /\ Polls' /\ Idles' /\ Done'
    BY <1>0, <2>1, CallFails, ZenonT(40)
  <2>3. VblkTypes' /\ Slots' /\ Settled'
    BY <1>0, <1>2, <1>3, <2>0, <2>2, ZenonT(40) DEF IInv, VblkTypes, Slots, Settled, AtRest, vblk
  <2>4. io.lba + io.count > Size(io.dev)
    BY <1>0, <1>1, <1>2, <1>4, Sizes DEF Size, V!Accepts
  <2>5. Failures'
    BY <1>0, <2>2, <2>4, FailureStays
  <2> QED BY <1>3, <2>2, <2>3, <2>5 DEF IInv, Types
<1>5. CASE V!Accepts
  <2>0. /\ io' = [io EXCEPT !.at = "poll"] /\ busy' = TRUE
        /\ data_dma' = [i \in 1 .. VblkMax |-> IF i <= io.count THEN 0 ELSE data_dma[i]]
        /\ request' = [header |-> [lba |-> io.lba, count |-> io.count], status |-> "none"]
        /\ ring' = [ring EXCEPT !.avail_idx = V!Succ(@)]
        /\ UNCHANGED <<vdev, unsettled>>
    BY <1>5 DEF V!vblk_begin
  <2>1. io'.at = "poll" /\ io'.ok = io.ok /\ io'.cause = io.cause /\ SameCall /\ io' \in Io
    BY <1>2, <2>0, SMTT(40) DEF Io, SameCall
  <2>2. io.lba + io.count <= VblkCapacity
    BY <1>1, <1>5, Sizes DEF V!Accepts
  <2>3. Transfers'
    BY <1>2, <2>1 DEF Types, Transfers, transfer
  <2>4. ring \in Ring /\ V!Succ(ring.avail_idx) \in Index
    BY <1>2, Succeeds DEF VblkTypes, Ring
  <2>5. /\ ring' \in Ring /\ ring'.avail_idx = V!Succ(ring.avail_idx)
        /\ ring'.used_idx = ring.used_idx /\ ring'.next_used = ring.next_used
    BY <2>0, <2>4 DEF Ring
  <2>6. request' \in Request /\ request'.header = [lba |-> io.lba, count |-> io.count] /\ request'.header.count = io.count
    BY <1>1, <2>0 DEF Request, Header
  <2>7. data_dma' \in [1 .. VblkMax -> Nat]
    BY <1>2, <2>0 DEF VblkTypes
  <2>8. VblkTypes'
    BY <1>1, <1>2, <2>0, <2>5, <2>6, <2>7 DEF VblkTypes
  <2>9. Piece'
    BY <1>0, <1>1, <2>1, PieceStays
  <2>10. Slots'
    <3>1. slot_bitmap' = FALSE /\ busy' = TRUE
      BY <1>0, <1>3, <2>0, ZenonT(40) DEF IInv, Slots
    <3> QED BY <1>0, <2>1, <2>2, <3>1, ZenonT(40) DEF Slots, SameCall, Size
  <2>11. Waits' /\ Polls' /\ Idles'
    BY <1>0, <2>1 DEF Waits, Polls, Idles, SameCall
  <2>12. Live' => Live
    BY <1>0, <2>1 DEF Live, transfer
  <2>13. Done'
    <3>1. HoldsOn
      BY <2>0, DisksStay DEF ahci
    <3> QED BY <1>1, <2>1, <2>12, <3>1, DoneStays DEF IInv
  <2>14. Settled'
    <3> SUFFICES ASSUME unsettled = 0
                 PROVE  Submitted'
      BY <1>0, <2>0, <2>1, <2>6 DEF Settled, SameCall
    <3>1. AtRest
      BY <1>0 DEF IInv, Settled
    <3> QED BY <2>0, <2>5, <3>1 DEF AtRest, Submitted
  <2>15. Failures'
    BY <1>0, <2>1, FailureStays
  <2> QED BY <1>3, <2>3, <2>8, <2>9, <2>10, <2>11, <2>13, <2>14, <2>15 DEF IInv, Types
<1> QED BY <1>4, <1>5

\* One more read has failed.
LEMMA OneMore == \A n \in Nat : n + 1 \in Nat /\ n + 1 # 0 /\ (n > 0 => n + 1 > 1)
OBVIOUS

\* A read fails after it was submitted.
LEMMA VblkFails ==
    ASSUME IInv, io.at = "poll", io.dev = "virtio", UNCHANGED <<transfer, ahci, ata_disk>>,
           NEW c \in {"device", "no status"}, c = "no status" => unsettled > 0,
           io' = V!Failed(c), busy' = FALSE, unsettled' = unsettled + 1,
           UNCHANGED <<ring, request, data_dma, vdev>>
    PROVE  IInv'
<1>1. io' = [io EXCEPT !.at = "ended", !.cause = c] /\ c \in Cause
  BY ZenonT(40) DEF V!Failed, Cause
<1>2. /\ io'.at = "ended" /\ ~io'.ok /\ io'.cause = c /\ SameCall
      /\ Transfers' /\ Piece' /\ Offered' /\ Waits' /\ Polls' /\ Idles' /\ Done'
  BY <1>1, CallFails, ZenonT(40)
<1>3. AhciTypes' /\ Offered' /\ InFlight' /\ SectorsHoldTheLastWrite' /\ slot_bitmap' = slot_bitmap
  BY VblkLeaves DEF ahci
<1>4. unsettled \in Nat /\ unsettled' \in Nat /\ unsettled' # 0 /\ (unsettled > 0 => unsettled' > 1)
  <2>1. unsettled \in Nat
    BY ZenonT(40) DEF IInv, Types, VblkTypes
  <2> QED BY <2>1, OneMore, ZenonT(40)
<1>5. VblkTypes'
  BY <1>4, ZenonT(40) DEF IInv, Types, VblkTypes
<1>6. Slots' /\ Settled'
  BY <1>2, <1>3, <1>4, ZenonT(40) DEF IInv, Slots, Settled
<1>7. Failures'
  <2>1. Excused(io.cause)'
    BY <1>2, <1>4 DEF Excused
  <2> QED BY <1>2, <2>1, FailureStays
<1> QED BY <1>2, <1>3, <1>5, <1>6, <1>7 DEF IInv, Types

\* The poll gives up.
LEMMA VblkTimeoutStep ==
    ASSUME IInv, V!vblk_timeout, UNCHANGED <<transfer, ahci, ata_disk>>
    PROVE  IInv'
BY VblkFails DEF V!vblk_timeout

\* The used index moved.  Unless a read failed before, this read moved it, and the status
\* is its own.
LEMMA VblkPollStep ==
    ASSUME IInv, V!vblk_poll, UNCHANGED <<transfer, ahci, ata_disk>>
    PROVE  IInv'
<1>0. /\ io.at = "poll" /\ io.dev = "virtio" /\ ring.next_used # ring.used_idx /\ busy' = FALSE
      /\ UNCHANGED <<request, data_dma, vdev>>
  BY ZenonT(40) DEF V!vblk_poll, V!Pending
<1>1. Types /\ VblkTypes /\ io \in Io /\ unsettled \in Nat /\ ring \in Ring /\ request \in Request
  BY SMTT(40) DEF IInv, Types, Transfers, VblkTypes
<1>2. unsettled = 0 => Returned
  BY <1>0 DEF IInv, Settled, Submitted, InHand
<1>3. CASE request.status # "ok"
  <2>1. CASE request.status = "error"
    BY <1>0, <1>3, <2>1, VblkFails DEF V!vblk_poll
  <2>2. CASE request.status # "error"
    <3>1. request.status = "none"
      BY <1>1, <1>3, <2>2 DEF Request
    <3>2. unsettled > 0
      BY <1>1, <1>2, <3>1 DEF Returned
    <3> QED BY <1>0, <1>3, <2>2, <3>2, VblkFails DEF V!vblk_poll
  <2> QED BY <2>1, <2>2
<1>4. CASE request.status = "ok"
  <2> DEFINE data == SubSeq(data_dma, 1, io.count)
  <2>0. io' = V!Succeeded(data) /\ ring' = [ring EXCEPT !.next_used = V!Succ(@)] /\ unsettled' = unsettled
    BY <1>4 DEF V!vblk_poll
  <2>1. /\ running /\ call.dev = "virtio" /\ io.count \in Nat \ {0} /\ io.count <= VblkMax
        /\ io.lba \in Nat /\ ~io.ok /\ ~io.write
    BY <1>0, CallFacts, SMTT(40) DEF max_transfer_sectors
  <2>2. data \in Seq(Nat) /\ Len(data) = io.count /\ \A i \in 1 .. io.count : data[i] = data_dma[i]
    <3>1. data_dma \in Seq(Nat) /\ Len(data_dma) = VblkMax
      BY <1>1, Sizes DEF VblkTypes
    <3>2. data = SubSeq(data_dma, 0 + 1, 0 + io.count)
      BY <2>1
    <3>3. 0 \in Nat /\ io.count \in Nat /\ 0 + io.count <= Len(data_dma)
      BY <2>1, <3>1
    <3>4. IsCut(data, data_dma, 0, io.count)
      BY <3>1, <3>2, <3>3, CutFacts, Zenon
    <3> HIDE DEF data
    <3> QED BY <2>1, <3>4, SMTT(40) DEF IsCut
  <2> HIDE DEF data
  <2>3. /\ io'.at = "ended" /\ io'.ok = TRUE /\ io'.data = data /\ SameCall /\ io' \in Io
    BY <1>1, <2>0, <2>1, <2>2, ZenonT(40) DEF V!Succeeded, Io, SameCall
  <2>4. Transfers'
    BY <1>1, <2>3 DEF Types, Transfers, transfer
  <2>5. V!Succ(ring.next_used) \in Index
    BY <1>1, Succeeds DEF Ring
  <2>6. /\ ring' \in Ring /\ ring'.next_used = V!Succ(ring.next_used)
        /\ ring'.used_idx = ring.used_idx /\ ring'.avail_idx = ring.avail_idx
    BY <1>1, <2>0, <2>5 DEF Ring
  <2>7. VblkTypes'
    BY <1>0, <1>1, <2>0, <2>6, ZenonT(40) DEF VblkTypes
  <2>8. AhciTypes' /\ Offered' /\ InFlight' /\ SectorsHoldTheLastWrite' /\ slot_bitmap' = slot_bitmap
    BY VblkLeaves DEF ahci
  <2>9. Piece'
    BY <1>0, <2>2, <2>3, PieceStays
  <2>10. Slots'
    BY <1>0, <2>3, <2>8, ZenonT(40) DEF IInv, Slots, SameCall, Size
  <2>11. Waits' /\ Polls' /\ Idles'
    BY <1>0, <2>1, <2>3 DEF Waits, Polls, Idles, transfer
  <2>12. Settled'
    BY <1>0, <1>2, <2>0, <2>3, <2>6 DEF Settled, Returned, AtRest
  <2>13. Done'
    <3>0. HoldsOn
      BY <2>0, DisksStay, SMTT(40) DEF ahci
    <3>1. ASSUME NEW i \in 1 .. io.count
          PROVE  Holds("virtio", FALSE, io.lba + i - 1, data[i])
      BY <1>2, <1>4, <2>2, SMTT(40) DEF Returned, Filled, Holds, Content
    <3>2. /\ call.done > 0 => call.lba + call.done <= Size(call.dev)
          /\ \A i \in 1 .. call.done : Holds(call.dev, call.write, call.lba + i - 1, call.buffer[i])
      BY <1>0, <2>1 DEF IInv, Done, Live
    <3>3. call' = call
      BY DEF transfer
    <3>4. \A i \in 1 .. call'.done : Holds(call.dev, call.write, call.lba + i - 1, call.buffer[i])'
      BY <3>0, <3>2, <3>3 DEF HoldsOn
    <3>5. io'.write = FALSE
      BY <1>1, <2>1, <2>3, SMTT(40) DEF SameCall, Io
    <3>6. \A i \in 1 .. io'.count : Holds(io.dev, io.write, io.lba + i - 1, io.data[i])'
      BY <1>0, <2>3, <3>0, <3>1, <3>5, ZenonT(40) DEF HoldsOn, SameCall
    <3> QED BY <3>2, <3>3, <3>4, <3>6 DEF Done
  <2>14. Failures'
    BY <1>0, <2>3, FailureStays
  <2> QED BY <2>4, <2>7, <2>8, <2>9, <2>10, <2>11, <2>12, <2>13, <2>14 DEF IInv, Types
<1> QED BY <1>3, <1>4

\* What a step of the virtio device leaves alone.
LEMMA VdevLeaves ==
    ASSUME IInv, UNCHANGED <<transfer, ahci, ata_disk, io, busy, unsettled>>
    PROVE  /\ Transfers' /\ AhciTypes' /\ Piece' /\ Slots' /\ Offered' /\ InFlight' /\ Waits' /\ Polls' /\ Idles'
           /\ Done' /\ Failures' /\ SectorsHoldTheLastWrite'
<1>1. AhciTypes' /\ Offered' /\ InFlight' /\ SectorsHoldTheLastWrite'
  BY VblkLeaves
<1>2. Transfers'
  BY SMTT(40) DEF IInv, Types, Transfers, transfer
<1>3. Piece' /\ Slots'
  BY ZenonT(40) DEF IInv, Piece, Slots, Start, Chunk, transfer, ahci
<1>4. Waits' /\ Polls'
  BY ZenonT(40) DEF IInv, Waits, Polls, Sent, Moved, A!Ahead, A!Busy, ahci
<1>5. Idles'
  BY SMTT(40) DEF IInv, Idles, Live, A!Busy, ahci, transfer
<1>6. Done'
  <2>1. HoldsOn
    BY DisksStay DEF ahci
  <2>2. call' = call /\ io' = io /\ Live' = Live
    BY SMTT(40) DEF transfer, Live
  <2> QED BY <2>1, <2>2, ZenonT(40) DEF IInv, Done, HoldsOn
<1>7. Failures'
  BY DEF IInv, Failures, FailureHasACause, Excused, transfer
<1> QED BY <1>1, <1>2, <1>3, <1>4, <1>5, <1>6, <1>7

\* The device takes a request, moves a sector, answers, and returns the chain.
LEMMA VdevStep ==
    ASSUME IInv, V!VblkDevice, UNCHANGED <<transfer, ahci, ata_disk>>
    PROVE  IInv'
<1>1. VblkTypes /\ ring \in Ring /\ vdev \in Vdev /\ request \in Request
  BY DEF IInv, Types, VblkTypes
<1>2. UNCHANGED <<io, busy, unsettled>>
  BY DEF V!VblkDevice, V!VdevTake, V!VdevTransfer, V!VdevUsed, V!VdevStatus
<1>3. /\ Transfers' /\ AhciTypes' /\ Piece' /\ Slots' /\ Offered' /\ InFlight' /\ Waits' /\ Polls' /\ Idles'
      /\ Done' /\ Failures' /\ SectorsHoldTheLastWrite'
  BY <1>2, VdevLeaves
<1>4. V!Nothing \in Header /\ V!Nothing.count = 0
  BY DEF V!Nothing, Header
<1>5. io.at = "poll" /\ io.dev = "virtio" =>
        io.count \in Nat \ {0} /\ [lba |-> io.lba, count |-> io.count] # V!Nothing
  <2> SUFFICES ASSUME io.at = "poll", io.dev = "virtio"
               PROVE  io.count \in Nat \ {0} /\ [lba |-> io.lba, count |-> io.count] # V!Nothing
    BY SMTT(40)
  <2>1. io.count \in Nat \ {0}
    BY CallFacts
  <2> QED BY <2>1 DEF V!Nothing
<1>6. CASE V!VdevTake
  <2>1. /\ vdev.cur = V!Nothing /\ vdev.next # ring.avail_idx
        /\ vdev' = [vdev EXCEPT !.cur = request.header, !.next = V!Succ(@)]
        /\ UNCHANGED <<ring, request, data_dma>>
    BY <1>6 DEF V!VdevTake
  <2>2. V!Succ(vdev.next) \in Index /\ request.header \in Header /\ vdev.done = 0
    BY <1>1, <1>4, <2>1, Succeeds DEF Vdev, Request, VblkTypes
  <2>3. /\ vdev' \in Vdev /\ vdev'.cur = request.header /\ vdev'.next = V!Succ(vdev.next)
        /\ vdev'.done = vdev.done /\ vdev'.answered = vdev.answered
    BY <1>1, <2>1, <2>2, ZenonT(40) DEF Vdev
  <2>4. VblkTypes'
    <3>1. request.header.count \in Nat
      BY <1>1 DEF Request, Header
    <3> QED BY <1>1, <1>2, <2>1, <2>2, <2>3, <3>1 DEF VblkTypes
  <2>5. Settled'
    <3> SUFFICES ASSUME unsettled = 0
                 PROVE  Settled'
      BY <1>2 DEF Settled
    <3>1. io.at = "poll" /\ io.dev = "virtio" /\ Submitted /\ request.header = [lba |-> io.lba, count |-> io.count]
      BY <1>5, <2>1 DEF IInv, Settled, AtRest, InHand, Returned
    <3>2. InHand'
      BY <1>2, <2>1, <2>3, <3>1 DEF Submitted, InHand, Filled
    <3> QED BY <1>2, <2>1, <3>1, <3>2 DEF Settled
  <2> QED BY <1>3, <2>4, <2>5 DEF IInv, Types
<1>7. CASE V!VdevTransfer
  <2>1. PICK n \in Nat : n = vdev.done + 1
    BY <1>1 DEF Vdev
  <2>2. /\ vdev.done \in Nat /\ vdev.cur.lba \in Nat /\ vdev.cur.count \in Nat /\ vdev.cur.count <= VblkMax
        /\ vdev.done < vdev.cur.count
    BY <1>1, <1>7 DEF V!VdevTransfer, Vdev, Header, VblkTypes
  <2>3. /\ ~vdev.answered
        /\ data_dma' = [data_dma EXCEPT ![n] = V!Content(vdev.cur.lba + vdev.done)]
        /\ vdev' = [vdev EXCEPT !.done = n]
        /\ UNCHANGED <<ring, request>>
    BY <1>7, <2>1 DEF V!VdevTransfer
  <2>4. /\ vdev' \in Vdev /\ vdev'.done = n /\ vdev'.cur = vdev.cur /\ vdev'.next = vdev.next
        /\ vdev'.answered = vdev.answered /\ n <= vdev.cur.count /\ n \in 1 .. VblkMax
    BY <1>1, <2>1, <2>2, <2>3, Sizes DEF Vdev
  <2>5. /\ data_dma' \in [1 .. VblkMax -> Nat] /\ data_dma'[n] = V!Content(vdev.cur.lba + n - 1)
        /\ \A i \in 1 .. VblkMax : i # n => data_dma'[i] = data_dma[i]
    <3>1. vdev.cur.lba + n - 1 = vdev.cur.lba + vdev.done /\ V!Content(vdev.cur.lba + vdev.done) \in Nat
      BY <2>1, <2>2 DEF V!Content
    <3> QED BY <1>1, <2>3, <2>4, <3>1 DEF VblkTypes
  <2>6. VblkTypes'
    BY <1>1, <1>2, <2>2, <2>3, <2>4, <2>5 DEF VblkTypes
  <2>7. Settled'
    <3> SUFFICES ASSUME unsettled = 0
                 PROVE  Settled'
      BY <1>2 DEF Settled
    <3>0. vdev.cur # V!Nothing
      BY <1>4, <2>2, SMTT(40)
    <3>1. io.at = "poll" /\ io.dev = "virtio" /\ InHand /\ request.header = [lba |-> io.lba, count |-> io.count]
      BY <3>0, SMTT(40) DEF IInv, Settled, AtRest, Submitted, Returned
    <3>2. vdev.cur.lba = io.lba
      BY <3>1 DEF InHand
    <3>3. \A i \in 1 .. n : data_dma'[i] = V!Content(io.lba + i - 1)
      <4> TAKE i \in 1 .. n
      <4>1. CASE i = n
        BY <2>5, <3>2, <4>1, SMTT(40)
      <4>2. CASE i # n
        <5>1. i \in 1 .. vdev.done /\ i \in 1 .. VblkMax
          BY <2>1, <2>2, <4>2, Sizes
        <5> QED BY <2>5, <3>1, <4>2, <5>1, SMTT(40) DEF InHand, Filled
      <4> QED BY <4>1, <4>2
    <3>4. InHand'
      BY <1>2, <2>3, <2>4, <3>1, <3>3 DEF InHand, Filled
    <3> QED BY <1>2, <2>3, <3>1, <3>4, SMTT(40) DEF Settled
  <2> QED BY <1>3, <2>6, <2>7 DEF IInv, Types
<1>8. CASE V!VdevUsed
  <2>1. /\ vdev.answered
        /\ ring' = [ring EXCEPT !.used_idx = V!Succ(@)]
        /\ vdev' = [vdev EXCEPT !.cur = V!Nothing, !.done = 0, !.answered = FALSE]
        /\ UNCHANGED <<request, data_dma>>
    BY <1>8 DEF V!VdevUsed
  <2>2. V!Succ(ring.used_idx) \in Index
    BY <1>1, Succeeds DEF Ring
  <2>3. /\ ring' \in Ring /\ ring'.used_idx = V!Succ(ring.used_idx)
        /\ ring'.next_used = ring.next_used /\ ring'.avail_idx = ring.avail_idx
    BY <1>1, <2>1, <2>2 DEF Ring
  <2>4. /\ vdev' \in Vdev /\ vdev'.cur = V!Nothing /\ vdev'.done = 0 /\ vdev'.answered = FALSE
        /\ vdev'.next = vdev.next
    BY <1>1, <1>4, <2>1, ZenonT(40) DEF Vdev
  <2>5. VblkTypes'
    BY <1>1, <1>2, <1>4, <2>1, <2>3, <2>4, Sizes DEF VblkTypes
  <2>6. Settled'
    <3> SUFFICES ASSUME unsettled = 0
                 PROVE  Settled'
      BY <1>2 DEF Settled
    <3>1. io.at = "poll" /\ io.dev = "virtio" /\ InHand /\ request.header = [lba |-> io.lba, count |-> io.count]
      BY <2>1, SMTT(40) DEF IInv, Settled, AtRest, Submitted, Returned
    <3>2. vdev.cur.count = io.count
      BY <3>1 DEF InHand
    <3>3. Returned'
      BY <1>2, <2>1, <2>3, <2>4, <3>1, <3>2 DEF InHand, Returned, Filled
    <3> QED BY <1>2, <2>1, <3>1, <3>3 DEF Settled
  <2> QED BY <1>3, <2>5, <2>6 DEF IInv, Types
<1>9. ASSUME NEW s \in {"ok", "error"}, V!VdevStatus(s)
      PROVE  IInv'
  <2>1. /\ vdev.cur # V!Nothing /\ ~vdev.answered /\ (s = "ok" => vdev.done = vdev.cur.count)
        /\ request' = [request EXCEPT !.status = s]
        /\ vdev' = [vdev EXCEPT !.answered = TRUE]
        /\ UNCHANGED <<ring, data_dma>>
    BY <1>9 DEF V!VdevStatus
  <2>2. request' \in Request /\ request'.status = s /\ request'.header = request.header
    BY <1>1, <2>1 DEF Request
  <2>3. /\ vdev' \in Vdev /\ vdev'.answered = TRUE /\ vdev'.cur = vdev.cur /\ vdev'.done = vdev.done
        /\ vdev'.next = vdev.next
    BY <1>1, <2>1, ZenonT(40) DEF Vdev
  <2>4. VblkTypes'
    BY <1>1, <1>2, <2>1, <2>2, <2>3, SMTT(40) DEF VblkTypes
  <2>5. Settled'
    <3> SUFFICES ASSUME unsettled = 0
                 PROVE  Settled'
      BY <1>2 DEF Settled
    <3>1. io.at = "poll" /\ io.dev = "virtio" /\ InHand /\ request.header = [lba |-> io.lba, count |-> io.count]
      BY <2>1 DEF IInv, Settled, AtRest, Submitted, Returned
    <3>2. InHand'
      BY <1>2, <2>1, <2>2, <2>3, <3>1 DEF InHand, Filled
    <3> QED BY <1>2, <2>2, <3>1, <3>2 DEF Settled
  <2> QED BY <1>3, <2>4, <2>5 DEF IInv, Types
<1> QED BY <1>6, <1>7, <1>8, <1>9 DEF V!VblkDevice

-----------------------------------------------------------------------------
\* Every step keeps the invariant.
LEMMA NextInv == IInv /\ [Next]_vars => IInv'
<1> SUFFICES ASSUME IInv, [Next]_vars
             PROVE  IInv'
  OBVIOUS
<1>1. CASE Asks
  <2>1. PICK i \in DOMAIN g_blockdevs, write \in BOOLEAN, e \in Extents :
          blockdev_raw(g_blockdevs[i], write, e[1], e[2])
    BY <1>1 DEF Asks
  <2>2. g_blockdevs[i] \in {"ahci", "virtio", "ata"}
    BY <2>1, SMTT(40) DEF IInv, Types, Transfers, Tables
  <2>3. e[1] \in Nat /\ e[2] \in Nat \ {0}
    BY BlockdevAssumption
  <2> QED BY <2>1, <2>2, <2>3, RawStep
<1>2. CASE Ahci
  <2>1. CASE A!ahci_busy
    BY <1>2, <2>1, AhciFails, ZenonT(40) DEF Ahci, A!ahci_busy
  <2>2. CASE A!ahci_timeout
    BY <1>2, <2>2, AhciFails, ZenonT(40) DEF Ahci, A!ahci_timeout
  <2> QED BY <1>2, <2>1, <2>2, AhciBeginStep, AhciIssueStep, AhciPollStep DEF Ahci, A!AhciKernel
<1>3. CASE Vblk
  BY <1>3, VblkBeginStep, VblkPollStep, VblkTimeoutStep DEF Vblk, V!VblkKernel
<1>4. CASE Devices
  BY <1>4, HbaTransferStep, HbaEndStep, VdevStep DEF Devices, A!AhciDevice
<1>5. CASE \E moved \in 0 .. AtaMax, ok \in BOOLEAN : ata_sectors(moved, ok)
  BY <1>5, AtaStep
<1>6. CASE UNCHANGED vars
  <2>1. UNCHANGED <<transfer, io, ahci, vblk, ata_disk>> /\ UNCHANGED <<io, busy, unsettled>>
    BY <1>6, SMTT(40) DEF vars, vblk
  <2>2. /\ Transfers' /\ AhciTypes' /\ Piece' /\ Slots' /\ Offered' /\ InFlight' /\ Waits' /\ Polls' /\ Idles'
        /\ Done' /\ Failures' /\ SectorsHoldTheLastWrite'
    BY <2>1, VdevLeaves, SMTT(40)
  <2>3. VblkTypes' /\ Settled'
    BY <2>1, ZenonT(40) DEF IInv, Types, VblkTypes, Settled, AtRest, Submitted, InHand, Returned, Filled, vblk
  <2> QED BY <2>2, <2>3 DEF IInv, Types
<1> QED BY <1>1, <1>2, <1>3, <1>4, <1>5, <1>6, DispatchStep, NextStep DEF Next, Kernel

\* The invariant holds in every state.
THEOREM Invariance == Spec => []IInv
<1>1. Init => IInv
  BY InitInv
<1>2. IInv /\ [Next]_vars => IInv'
  BY NextInv
<1> QED BY <1>1, <1>2, PTL DEF Spec

\* Block I/O: lengths, positions and ring indices stay in their ranges, whatever the sizes of
\* the disks and of the drivers' commands.
THEOREM BlockTypes == Spec => []TypeOK
<1>1. IInv => TypeOK
  <2> SUFFICES ASSUME IInv
               PROVE  TypeOK
    BY SMTT(40)
  <2>1. Types /\ Piece /\ call \in Call /\ io \in Io /\ hba \in Hba /\ ring \in Ring /\ vdev \in Vdev
    BY ZenonT(40) DEF IInv, Types, Transfers, AhciTypes, VblkTypes
  <2>2. call.done \in 0 .. call.count /\ Len(call.buffer) = call.count
    <3>1. call.done \in Nat /\ call.count \in Nat
      BY <2>1 DEF Call
    <3>2. Len(call.buffer) = call.count /\ call.done <= call.count
      BY <2>1 DEF Types, Transfers
    <3> QED BY <3>1, <3>2
  <2>3. io.at \in {"none", "begin", "wait", "poll", "ended"} /\ (io.at # "none" => running)
    BY <2>1, ZenonT(40) DEF Io, Piece
  <2>4. hba.done \in 0 .. hba.cmd.count /\ DOMAIN g_ahci_data = 1 .. AhciMax
    BY <2>1 DEF Types, AhciTypes, Hba, Command
  <2>5. {ring.avail_idx, ring.used_idx, ring.next_used, vdev.next} \subseteq 0 .. (IndexSize - 1)
    BY <2>1 DEF Ring, Vdev, Index
  <2>6. \A d \in {"ahci", "ata"} : last[d] \in [Sectors -> SUBSET (0 .. (100 + 10 * MaxCalls + Capacity))]
    BY <2>1 DEF Types, Transfers, Value
  <2> QED BY <2>2, <2>3, <2>4, <2>5, <2>6, ZenonT(40) DEF TypeOK
<1> QED BY <1>1, Invariance, PTL, ZenonT(40)

\* Block I/O: a sector holds what the last write that returned true put there, or what a write
\* that failed since, or is under way, would have put there, unless two AHCI commands shared
\* the bounce buffer for it (blockdev_dispatch_sectors over ahci_issue_data_command).
THEOREM WritesReachTheDisk == Spec => []SectorsHoldTheLastWrite
<1>1. IInv => SectorsHoldTheLastWrite
  BY SMTT(40) DEF IInv
<1> QED BY <1>1, Invariance, PTL

\* Block I/O: a read that returns true has filled the buffer with the sectors it asked for, on
\* virtio-blk as long as no read has failed.
THEOREM ReadsAreExact == Spec => []ReadsReturnTheDisk
<1>1. IInv => ReadsReturnTheDisk
  <2> SUFFICES ASSUME IInv, ~running, call.ok, ~call.write, call.dev = "virtio" => unsettled = 0,
                      NEW i \in 1 .. call.count
               PROVE  call.buffer[i] = Content(call.dev, call.lba + i - 1)
    BY SMTT(40) DEF ReadsReturnTheDisk
  <2>1. Live /\ call.done = call.count
    BY ZenonT(40) DEF IInv, Piece, Live
  <2> QED BY <2>1, ZenonT(40) DEF IInv, Done, Holds
<1> QED BY <1>1, Invariance, PTL

\* Block I/O: a transfer within the disk fails only when the device was late or refused, or, on
\* virtio-blk, when an earlier read failed and this one did not wait; no piece is too long for
\* its driver, and no failure leaves the slot or busy taken.
THEOREM FailuresHaveCauses == Spec => []FailureHasACause
<1>1. IInv => FailureHasACause
  BY DEF IInv, Failures
<1> QED BY <1>1, Invariance, PTL
=============================================================================
