------------------------------- MODULE Ahci --------------------------------
(***************************************************************************)
(* The data commands of src/drivers/storage/ahci.c on the active port: the *)
(* one command slot, the one bounce buffer that every command shares, the  *)
(* wait for the port and the poll for the end, both of which may give up.  *)
(* The driver call under way is io, which Blockdev starts and ends.        *)
(* External: the controller, which fetches a command when it is issued,    *)
(* keeps BSY until it is over, and moves one sector at a time.             *)
(***************************************************************************)
EXTENDS Integers, Sequences

CONSTANTS AhciMax,   \* AHCI_MAX_SECTORS_PER_IO
          Capacity   \* capacity_sectors

VARIABLES
    io,            \* the call of a driver: at, dev, write, lba, count, data, ok, cause
    g_ahci_data,   \* the bounce buffer, by sectors
    slot_bitmap,   \* slot 0 is taken
    hba,           \* external: the controller and its port registers
    ahci_disk,     \* external: the sectors of the disk
    exposed        \* history: sectors that two commands shared the buffer for

ahci_vars == <<g_ahci_data, slot_bitmap, hba, ahci_disk, exposed>>

NoCommand == [write |-> FALSE, lba |-> 0, count |-> 0]

\* AHCI_PX_TFD_BSY
Busy == hba.cmd # NoCommand

Initially == [l \in 0 .. (Capacity - 1) |-> 100 + l]

AhciInit ==
    /\ g_ahci_data = [i \in 1 .. AhciMax |-> 0]
    /\ slot_bitmap = FALSE
    /\ hba = [cmd |-> NoCommand, done |-> 0, ci |-> FALSE, tfes |-> FALSE, stopped |-> FALSE]
    /\ ahci_disk = Initially
    /\ exposed = {}

InRange(lba, count, max) == count \in 1 .. max /\ lba < Capacity /\ count <= Capacity - lba

Succeeded(data) == [io EXCEPT !.at = "ended", !.ok = TRUE, !.data = data]
Failed(cause) == [io EXCEPT !.at = "ended", !.cause = cause]

\* The buffer after a memcpy of data, or a memset of as many zeros, to its start.
Filled(data) == [i \in 1 .. AhciMax |-> IF i <= Len(data) THEN data[i] ELSE g_ahci_data[i]]

\* The places of the buffer that an abandoned command has not come to.
Ahead == (hba.done + 1) .. hba.cmd.count

\* The sectors that get the wrong data when the buffer is filled now: those an
\* abandoned write has yet to fetch from it, and those of the new write whose
\* places an abandoned read has yet to store into.
Mixed ==
    LET both == {i \in Ahead : i <= io.count}
    IN  IF hba.cmd.write THEN {hba.cmd.lba + i - 1 : i \in both}
        ELSE IF io.write THEN {io.lba + i - 1 : i \in both} ELSE {}

-----------------------------------------------------------------------------
\* ahci_read_sectors and ahci_write_sectors up to the wait in
\* ahci_issue_data_command: the buffer is filled before the port is looked at.
ahci_begin ==
    LET accepts == InRange(io.lba, io.count, AhciMax)
        fill == IF io.write THEN io.data ELSE [i \in 1 .. io.count |-> 0]
    IN  /\ io.at = "begin" /\ io.dev = "ahci"
        /\ io' = IF ~accepts \/ slot_bitmap THEN Failed("refused") ELSE [io EXCEPT !.at = "wait"]
        /\ g_ahci_data' = IF accepts THEN Filled(fill) ELSE g_ahci_data
        /\ exposed' = IF accepts THEN exposed \cup Mixed ELSE exposed
        /\ slot_bitmap' = (slot_bitmap \/ accepts)
        /\ UNCHANGED <<hba, ahci_disk>>

\* Mutant: a write does not wait for the port.
WriteAtOnce == io.write \/ ~Busy

\* ahci_wait_port_not_busy
PortNotBusy == ~Busy

\* External: the command is fetched, unless the controller stopped at an error.
Issued(starts) ==
    LET new == [write |-> io.write, lba |-> io.lba, count |-> io.count]
    IN  [hba EXCEPT !.ci = TRUE, !.tfes = FALSE, !.stopped = @ /\ ~starts,
                    !.done = IF Busy THEN @ ELSE 0,
                    !.cmd = IF Busy \/ ~starts THEN @ ELSE new]

ahci_issue ==
    /\ io.at = "wait" /\ io.dev = "ahci" /\ PortNotBusy
    /\ \E starts \in BOOLEAN : (starts \/ hba.stopped) /\ hba' = Issued(starts)
    /\ io' = [io EXCEPT !.at = "poll"]
    /\ UNCHANGED <<g_ahci_data, slot_bitmap, ahci_disk, exposed>>

\* The wait for the port gives up; the slot is given back.
ahci_busy ==
    /\ io.at = "wait" /\ io.dev = "ahci" /\ ~PortNotBusy
    /\ io' = Failed("device") /\ slot_bitmap' = FALSE
    /\ UNCHANGED <<g_ahci_data, hba, ahci_disk, exposed>>

\* The poll sees an error, or the slot's bit of CI clear; a read is copied out.
ahci_poll ==
    /\ io.at = "poll" /\ io.dev = "ahci" /\ (hba.tfes \/ ~hba.ci)
    /\ slot_bitmap' = FALSE
    /\ io' = IF hba.tfes \/ Busy THEN Failed("device")
             ELSE Succeeded(IF io.write THEN io.data ELSE SubSeq(g_ahci_data, 1, io.count))
    /\ UNCHANGED <<g_ahci_data, hba, ahci_disk, exposed>>

\* Mutant: the slot stays taken.
TimeoutKeepsSlot ==
    /\ io.at = "poll" /\ io.dev = "ahci"
    /\ io' = Failed("device")
    /\ UNCHANGED ahci_vars

\* Mutant: the poll goes on until the controller answers.
NeverTimeout == FALSE /\ UNCHANGED <<io, ahci_vars>>

\* The poll gives up.  The command stays with the controller.
ahci_timeout ==
    /\ io.at = "poll" /\ io.dev = "ahci"
    /\ io' = Failed("device") /\ slot_bitmap' = FALSE
    /\ UNCHANGED <<g_ahci_data, hba, ahci_disk, exposed>>

AhciKernel == ahci_begin \/ ahci_issue \/ ahci_busy \/ ahci_poll \/ ahci_timeout

-----------------------------------------------------------------------------
(* External: the controller *)

HbaTransfer ==
    LET at == hba.cmd.lba + hba.done
    IN  /\ Busy /\ hba.done < hba.cmd.count
        /\ hba' = [hba EXCEPT !.done = @ + 1]
        /\ IF hba.cmd.write
           THEN ahci_disk' = [ahci_disk EXCEPT ![at] = g_ahci_data[hba.done + 1]]
                /\ UNCHANGED g_ahci_data
           ELSE g_ahci_data' = [g_ahci_data EXCEPT ![hba.done + 1] = ahci_disk[at]]
                /\ UNCHANGED ahci_disk
        /\ UNCHANGED <<io, slot_bitmap, exposed>>

HbaComplete ==
    /\ Busy /\ hba.done = hba.cmd.count
    /\ hba' = [hba EXCEPT !.cmd = NoCommand, !.done = 0, !.ci = FALSE]
    /\ UNCHANGED <<io, g_ahci_data, slot_bitmap, ahci_disk, exposed>>

HbaFail ==
    /\ Busy
    /\ hba' = [hba EXCEPT !.cmd = NoCommand, !.done = 0, !.tfes = TRUE, !.stopped = TRUE]
    /\ UNCHANGED <<io, g_ahci_data, slot_bitmap, ahci_disk, exposed>>

AhciDevice == HbaTransfer \/ HbaComplete \/ HbaFail
=============================================================================
