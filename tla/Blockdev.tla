------------------------------ MODULE Blockdev ------------------------------
(***************************************************************************)
(* The block device layer of src/drivers/storage/blockdev.c over its       *)
(* drivers: the table of devices, the transfers of any length that the     *)
(* file systems ask for, cut into pieces the device takes, and the         *)
(* drivers below, AHCI (Ahci), virtio-blk (VirtioBlk, read only) and ATA   *)
(* PIO (here).  The kernel runs one transfer at a time, and the devices    *)
(* work beside it.  The I/O scheduler's hook is never installed.           *)
(***************************************************************************)
EXTENDS Integers, Sequences

CONSTANTS AhciMax, VblkMax, AtaMax,   \* the sectors of one command
          Capacity, VblkCapacity,     \* the sectors of the disks
          IndexSize,                  \* the modulus of the virtio ring indices
          Extents,                    \* what is asked for: first sectors and lengths
          MaxCalls                    \* bound on the transfers

VARIABLES
    g_blockdevs,   \* the table: the names of the devices, in order
    call,          \* the transfer under way, or the last: its arguments and done
    running,       \* it is under way
    io,            \* the call of a driver that dispatch waits for
    g_ahci_data, slot_bitmap, hba, ahci_disk, exposed,
    ring, request, data_dma, busy, vdev, unsettled,
    ata_disk,      \* external: the sectors of the ATA disk
    last,          \* history: what each sector may hold, by device
    calls          \* the transfers so far

A == INSTANCE Ahci
V == INSTANCE VirtioBlk

ahci == <<g_ahci_data, slot_bitmap, hba, ahci_disk, exposed>>
vblk == <<ring, request, data_dma, busy, vdev, unsettled>>
transfer == <<g_blockdevs, call, running, last, calls>>
vars == <<transfer, io, ahci, vblk, ata_disk>>

ASSUME BlockdevAssumption ==
    /\ {AhciMax, VblkMax, AtaMax, Capacity, VblkCapacity, IndexSize, MaxCalls} \subseteq Nat \ {0}
    /\ IndexSize > 1
    /\ Extents \subseteq Nat \X (Nat \ {0})

Quiet == [at |-> "none", dev |-> "none", write |-> FALSE, lba |-> 0, count |-> 0,
          data |-> <<>>, ok |-> FALSE, cause |-> "none"]
NoCall == [dev |-> "none", write |-> FALSE, lba |-> 0, count |-> 0, buffer |-> <<>>,
           done |-> 0, ok |-> FALSE, cause |-> "none"]

Sectors == 0 .. (Capacity - 1)

\* blockdev_init: the disks that were found, and the ATA entry in any case.
Tables == {<<"ata">>, <<"ahci", "ata">>, <<"virtio", "ata">>, <<"ahci", "virtio", "ata">>}

Init ==
    /\ g_blockdevs \in Tables
    /\ call = NoCall /\ running = FALSE /\ io = Quiet
    /\ A!AhciInit /\ V!VblkInit
    /\ ata_disk = A!Initially
    /\ last = [d \in {"ahci", "ata"} |-> [l \in Sectors |-> {A!Initially[l]}]]
    /\ calls = 0

\* max_transfer_sectors, as registered
max_transfer_sectors(d) ==
    CASE d = "ahci" -> AhciMax [] d = "virtio" -> VblkMax [] d = "ata" -> AtaMax

Covered(lba, n) == {l \in Sectors : lba <= l /\ l < lba + n}

-----------------------------------------------------------------------------
\* blockdev_raw_read_sectors, blockdev_raw_write_sectors: a file system asks.
\* The buffer of a write holds a value of its own in each sector.
blockdev_raw(d, write, lba, count) ==
    LET buffer == [i \in 1 .. count |-> IF write THEN 10 * (calls + 1) + i ELSE 0]
    IN  /\ ~running /\ calls < MaxCalls
        /\ running' = TRUE /\ calls' = calls + 1
        /\ call' = [dev |-> d, write |-> write, lba |-> lba, count |-> count,
                    buffer |-> buffer, done |-> 0, ok |-> FALSE, cause |-> "none"]
        /\ last' = IF write /\ d # "virtio"
                   THEN [last EXCEPT ![d] = [l \in Sectors |->
                             IF l \in Covered(lba, count) THEN @[l] \cup {buffer[l - lba + 1]} ELSE @[l]]]
                   ELSE last
        /\ UNCHANGED <<g_blockdevs, io, ahci, vblk, ata_disk>>

Chunk ==
    LET rest == call.count - call.done
    IN  IF rest > max_transfer_sectors(call.dev) THEN max_transfer_sectors(call.dev) ELSE rest

Start == call.lba + call.done

\* blockdev_dispatch_sectors, one turn of the loop: the next piece goes to the
\* driver; virtio-blk has no write function but blockdev_no_write_sectors.
dispatch ==
    /\ running /\ io.at = "none" /\ call.done < call.count
    /\ io' = [at |-> IF call.write /\ call.dev = "virtio" THEN "ended" ELSE "begin",
              dev |-> call.dev, write |-> call.write, lba |-> Start, count |-> Chunk, ok |-> FALSE,
              cause |-> IF call.write /\ call.dev = "virtio" THEN "refused" ELSE "none",
              data |-> SubSeq(call.buffer, call.done + 1, call.done + Chunk)]
    /\ UNCHANGED <<transfer, ahci, vblk, ata_disk>>

\* Mutant: every piece is stored at the start of the buffer.
StoredAtStart(data) ==
    [i \in 1 .. call.count |-> IF i <= Len(data) THEN data[i] ELSE call.buffer[i]]

Stored(data) ==
    [i \in 1 .. call.count |-> IF i \in (call.done + 1) .. (call.done + Len(data))
                               THEN data[i - call.done] ELSE call.buffer[i]]

\* The driver returns.  A failure ends the transfer; so does the last piece,
\* after which the sectors of a write hold it and nothing else.
dispatch_next ==
    LET done == call.done + io.count
        ends == ~io.ok \/ done = call.count
    IN  /\ io.at = "ended"
        /\ io' = Quiet /\ running' = ~ends
        /\ call' = IF io.ok THEN [call EXCEPT !.done = done, !.ok = ends,
                                              !.buffer = IF call.write THEN @ ELSE Stored(io.data)]
                   ELSE [call EXCEPT !.cause = io.cause]
        /\ last' = IF io.ok /\ ends /\ call.write
                   THEN [last EXCEPT ![call.dev] = [l \in Sectors |->
                             IF l \in Covered(call.lba, call.count)
                             THEN {call.buffer[l - call.lba + 1]} ELSE @[l]]]
                   ELSE last
        /\ UNCHANGED <<g_blockdevs, calls, ahci, vblk, ata_disk>>

\* blockdev_ata_read_sectors and blockdev_ata_write_sectors: sectors move one by
\* one through the data port until a wait gives up, for a write the one after
\* the last sector included.  The last address is the disk's in place of 2^28 - 1.
ata_sectors(moved, ok) ==
    LET to == [l \in Sectors |-> IF l \in Covered(io.lba, moved) THEN io.data[l - io.lba + 1]
                                 ELSE ata_disk[l]]
        fits == io.lba + io.count - 1 < Capacity
    IN  /\ io.at = "begin" /\ io.dev = "ata"
        /\ moved <= io.count /\ (ok => moved = io.count /\ fits)
        /\ ~ok => moved < io.count \/ io.write
        /\ ~fits => moved = 0
        /\ io' = [io EXCEPT !.at = "ended", !.ok = ok,
                            !.cause = IF ok THEN @ ELSE IF fits THEN "device" ELSE "refused",
                            !.data = IF io.write THEN @
                                     ELSE [i \in 1 .. moved |-> ata_disk[io.lba + i - 1]]]
        /\ ata_disk' = IF io.write THEN to ELSE ata_disk
        /\ UNCHANGED <<transfer, ahci, vblk>>

-----------------------------------------------------------------------------
Ahci == A!AhciKernel /\ UNCHANGED <<transfer, vblk, ata_disk>>

Vblk == V!VblkKernel /\ UNCHANGED <<transfer, ahci, ata_disk>>

Kernel ==
    \/ dispatch \/ dispatch_next \/ Ahci \/ Vblk
    \/ \E moved \in 0 .. AtaMax, ok \in BOOLEAN : ata_sectors(moved, ok)

Devices ==
    \/ A!AhciDevice /\ UNCHANGED <<transfer, vblk, ata_disk>>
    \/ V!VblkDevice /\ UNCHANGED <<transfer, ahci, ata_disk>>

Asks ==
    \E i \in DOMAIN g_blockdevs, write \in BOOLEAN, e \in Extents :
        blockdev_raw(g_blockdevs[i], write, e[1], e[2])

Next == Asks \/ Kernel \/ Devices

\* The kernel runs until a transfer it started has returned.
Spec == Init /\ [][Next]_vars /\ WF_vars(Kernel)

-----------------------------------------------------------------------------
\* Lengths and indices in their ranges; done never passes count.
TypeOK ==
    /\ call.done \in 0 .. call.count /\ Len(call.buffer) = call.count
    /\ io.at \in {"none", "begin", "wait", "poll", "ended"} /\ (io.at # "none" => running)
    /\ DOMAIN g_ahci_data = 1 .. AhciMax /\ hba.done \in 0 .. hba.cmd.count
    /\ {ring.avail_idx, ring.used_idx, ring.next_used, vdev.next} \subseteq 0 .. (IndexSize - 1)
    /\ \A d \in {"ahci", "ata"} : last[d] \in [Sectors -> SUBSET (0 .. (100 + 10 * MaxCalls + Capacity))]

Disk(d) == IF d = "ahci" THEN ahci_disk ELSE ata_disk

\* A sector holds what the last write that returned true put there, or what one
\* of the writes to it that failed since, or is under way, would have put there:
\* a command that ahci_issue_data_command gave up never lands after a later
\* write.  Not so when the controller still works on such a command as the next
\* call of the driver fills g_ahci_data, before it looks at the port: an old
\* write then stores the new call's data at its own sectors, and an old read
\* replaces the data of the new write, which returns true all the same.
SectorsHoldTheLastWrite ==
    \A d \in {"ahci", "ata"}, l \in Sectors :
        Disk(d)[l] \in last[d][l] \/ (d = "ahci" /\ l \in exposed)

Content(d, l) == IF d = "virtio" THEN V!Content(l) ELSE Disk(d)[l]

\* A read that returns true has filled the caller's buffer with the sectors it
\* asked for, whatever the pieces and whatever earlier commands the device still
\* works on.  Not so on virtio-blk once a read has failed: next_used stays
\* behind, a later read takes an earlier completion for its own, and may return
\* the sectors of the request before it.
ReadsReturnTheDisk ==
    ~running /\ call.ok /\ ~call.write /\ (call.dev = "virtio" => unsettled = 0) =>
        \A i \in 1 .. call.count : call.buffer[i] = Content(call.dev, call.lba + i - 1)

\* A transfer within the disk fails only when the device was late or refused: no
\* piece is longer than the driver takes (blockdev.c: a larger one is rejected
\* by the driver), and no failure leaves the slot or busy taken.  Not so on
\* virtio-blk, where after one failed read the next ones do not wait.
FailureHasACause ==
    ~running /\ calls > 0 /\ ~call.ok /\ (call.write => call.dev # "virtio")
    /\ call.lba + call.count <= (IF call.dev = "virtio" THEN VblkCapacity ELSE Capacity) =>
        \/ call.cause = "device"
        \/ call.cause = "no status" /\ unsettled > 1

\* Every transfer returns, though a device may never answer: every wait of the
\* drivers has a limit.
TransfersReturn == running ~> ~running
=============================================================================
