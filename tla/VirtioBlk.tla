----------------------------- MODULE VirtioBlk ------------------------------
(***************************************************************************)
(* virtio_blk_read_sectors of src/drivers/virtio/virtio_blk.c: one         *)
(* descriptor chain, one request header, one status byte and one data      *)
(* buffer, used again by every read.  A read that fails, because the       *)
(* device was late or refused, leaves next_used where it was.  Ring        *)
(* indices count modulo IndexSize in place of 2^16; the device only ever   *)
(* returns chain 0, the one there is.  The driver call under way is io.    *)
(* External: the device, which takes one request at a time, reads the      *)
(* header when it takes it, and moves one sector at a time.                *)
(***************************************************************************)
EXTENDS Integers, Sequences

CONSTANTS VblkMax,    \* VIRTIO_BLK_MAX_SECTORS_PER_IO
          VblkCapacity,
          IndexSize

VARIABLES
    io,          \* the call of a driver: at, dev, write, lba, count, data, ok, cause
    ring,        \* avail_idx, used_idx and the driver's next_used
    request,     \* the header, the length of the data descriptor, and the status
    data_dma,    \* the data buffer, by sectors
    busy,
    vdev,        \* external: the next request to take, and the one in hand
    unsettled    \* history: the reads that failed after they were submitted

vblk_vars == <<ring, request, data_dma, busy, vdev, unsettled>>

Nothing == [lba |-> 0, count |-> 0]
Content(l) == 200 + l
\* Mutant: an index wider than the ring's.
SuccWide(index) == index + 1

Succ(index) == (index + 1) % IndexSize

VblkInit ==
    /\ ring = [avail_idx |-> 0, used_idx |-> 0, next_used |-> 0]
    /\ request = [header |-> Nothing, status |-> "none"]
    /\ data_dma = [i \in 1 .. VblkMax |-> 0]
    /\ busy = FALSE
    /\ vdev = [next |-> 0, cur |-> Nothing, done |-> 0, answered |-> FALSE]
    /\ unsettled = 0

Accepts == /\ ~busy /\ io.count \in 1 .. VblkMax
           /\ io.lba < VblkCapacity /\ io.count <= VblkCapacity - io.lba

Succeeded(data) == [io EXCEPT !.at = "ended", !.ok = TRUE, !.data = data]
Failed(cause) == [io EXCEPT !.at = "ended", !.cause = cause]

-----------------------------------------------------------------------------
\* Up to the notification: buffers cleared, header and chain written, and the
\* chain made available.
vblk_begin ==
    /\ io.at = "begin" /\ io.dev = "virtio"
    /\ IF ~Accepts THEN io' = Failed("refused") /\ UNCHANGED vblk_vars
       ELSE /\ io' = [io EXCEPT !.at = "poll"]
            /\ busy' = TRUE
            /\ data_dma' = [i \in 1 .. VblkMax |-> IF i <= io.count THEN 0 ELSE data_dma[i]]
            /\ request' = [header |-> [lba |-> io.lba, count |-> io.count], status |-> "none"]
            /\ ring' = [ring EXCEPT !.avail_idx = Succ(@)]
            /\ UNCHANGED <<vdev, unsettled>>

Pending == ring.next_used = ring.used_idx

\* The used index moved, for this request or for an earlier one, and the status
\* byte decides.  The entry is consumed only when it says ok.
vblk_poll ==
    /\ io.at = "poll" /\ io.dev = "virtio" /\ ~Pending
    /\ busy' = FALSE
    /\ IF request.status = "ok"
       THEN /\ io' = Succeeded(SubSeq(data_dma, 1, io.count))
            /\ ring' = [ring EXCEPT !.next_used = Succ(@)]
            /\ UNCHANGED unsettled
       ELSE /\ io' = Failed(IF request.status = "error" THEN "device" ELSE "no status")
            /\ unsettled' = unsettled + 1
            /\ UNCHANGED ring
    /\ UNCHANGED <<request, data_dma, vdev>>

\* The poll gives up.  The request stays with the device.
vblk_timeout ==
    /\ io.at = "poll" /\ io.dev = "virtio" /\ Pending
    /\ io' = Failed("device") /\ busy' = FALSE /\ unsettled' = unsettled + 1
    /\ UNCHANGED <<ring, request, data_dma, vdev>>

VblkKernel == vblk_begin \/ vblk_poll \/ vblk_timeout

-----------------------------------------------------------------------------
(* External: the device *)

VdevTake ==
    /\ vdev.cur = Nothing /\ vdev.next # ring.avail_idx
    /\ vdev' = [vdev EXCEPT !.cur = request.header, !.next = Succ(@)]
    /\ UNCHANGED <<io, ring, request, data_dma, busy, unsettled>>

VdevTransfer ==
    /\ vdev.done < vdev.cur.count /\ ~vdev.answered
    /\ data_dma' = [data_dma EXCEPT ![vdev.done + 1] = Content(vdev.cur.lba + vdev.done)]
    /\ vdev' = [vdev EXCEPT !.done = @ + 1]
    /\ UNCHANGED <<io, ring, request, busy, unsettled>>

\* All sectors are there, or the device refuses.
VdevStatus(status) ==
    /\ vdev.cur # Nothing /\ ~vdev.answered
    /\ status = "ok" => vdev.done = vdev.cur.count
    /\ request' = [request EXCEPT !.status = status]
    /\ vdev' = [vdev EXCEPT !.answered = TRUE]
    /\ UNCHANGED <<io, ring, data_dma, busy, unsettled>>

VdevUsed ==
    /\ vdev.answered
    /\ ring' = [ring EXCEPT !.used_idx = Succ(@)]
    /\ vdev' = [vdev EXCEPT !.cur = Nothing, !.done = 0, !.answered = FALSE]
    /\ UNCHANGED <<io, request, data_dma, busy, unsettled>>

VblkDevice == VdevTake \/ VdevTransfer \/ VdevUsed \/ \E s \in {"ok", "error"} : VdevStatus(s)
=============================================================================
