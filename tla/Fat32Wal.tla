------------------------------ MODULE Fat32Wal ------------------------------
(***************************************************************************)
(* The FAT32 write-ahead log of src/fs/fat32.c: the logged sector write,   *)
(* the unlogged writes that share the volume with it, the replay that      *)
(* fat32_init() runs at mount, the clean mark of file_unmount_all() and    *)
(* the boot-time chkdsk of src/fs/chkdsk.c.  Every ata_write_sector() is a *)
(* step of its own, and the power may fail between any two steps.          *)
(* A sector write is taken to be atomic and durable when it returns.       *)
(***************************************************************************)
EXTENDS Integers

CONSTANTS Lba,      \* sectors of the volume outside the log area
          NoLba,    \* the target field of a zero-filled record header
          Image,    \* contents a sector can have
          Zero,     \* the zero-filled sector
          RawLba,   \* sectors that are also written without the log
          WalMax    \* g_wal_max: records that fit in the log area

ASSUME WalAssumption ==
    /\ NoLba \notin Lba
    /\ Zero \in Image
    /\ RawLba \subseteq Lba
    /\ WalMax \in Nat \ {0}

VARIABLES
    disk,         \* medium: the sectors outside the log area
    log,          \* medium: the three sectors of each log record
    hdr,          \* medium: the log header sector
    g_wal_next,   \* memory: next record slot
    dirty_boot,   \* memory: g_wal_dirty_boot
    pc,           \* the next sector write of the running operation
    op,           \* memory: locals of fat32_logged_write_sector
    ri,           \* memory: loop index of wal_recover
    acceptable,   \* history: contents a sector may have after a crash now
    exposed,      \* history: sectors that the replay may damage (see Crash, RawWrite)
    touched,      \* history: metadata changed since the mount or the last clean mark
    unchecked,    \* history: power failed while touched, and no chkdsk has run since
    missed        \* history: one of those failures left no DIRTY header (see Crash)

medium  == <<disk, log, hdr>>
memory  == <<g_wal_next, dirty_boot, op, ri>>
history == <<acceptable, exposed, touched, unchecked, missed>>
vars    == <<medium, memory, pc, history>>

Slots   == 0 .. WalMax - 1
Writing == {"rec_hdr", "rec_old", "rec_new", "target", "commit", "log_hdr"}
NoOp    == [tl |-> NoLba, old |-> Zero, new |-> Zero, idx |-> 0]
ZeroRec == [st |-> "none", tl |-> NoLba, old |-> Zero, new |-> Zero]

\* Record i is one that a replay starting now would apply to sector l.
Replayable(i, l) == i < hdr.next /\ log[i].st # "none" /\ log[i].tl = l

-----------------------------------------------------------------------------

\* A volume whose log area has never been used: no header magic, no records.
Init ==
    /\ disk \in [Lba -> Image]
    /\ log = [i \in Slots |-> ZeroRec]
    /\ hdr = [magic |-> FALSE, clean |-> FALSE, next |-> 0]
    /\ g_wal_next = 0
    /\ dirty_boot = FALSE
    /\ pc = "off"
    /\ op = NoOp
    /\ ri = 0
    /\ acceptable = [l \in Lba |-> {disk[l]}]
    /\ exposed = {}
    /\ touched = FALSE
    /\ unchecked = FALSE
    /\ missed = FALSE

(***************************************************************************)
(* fat32_logged_write_sector(target_lba, newbuf)                           *)
(***************************************************************************)

\* Read the old image; a full log restarts at slot 0, in memory only.
BeginWrite(l, v) ==
    /\ pc = "idle"
    /\ LET idx == IF g_wal_next >= WalMax THEN 0 ELSE g_wal_next
       IN  /\ g_wal_next' = idx
           /\ op' = [tl |-> l, old |-> disk[l], new |-> v, idx |-> idx]
    /\ pc' = "rec_hdr"
    /\ acceptable' = [acceptable EXCEPT ![l] = {disk[l], v}]
    /\ UNCHANGED <<medium, dirty_boot, ri, exposed, touched, unchecked, missed>>

\* Record header, IN_PROGRESS.
WriteRecHeader ==
    /\ pc = "rec_hdr"
    /\ log' = [log EXCEPT ![op.idx] =
                 [st |-> "inprogress", tl |-> op.tl, old |-> @.old, new |-> @.new]]
    /\ pc' = "rec_old"
    /\ UNCHANGED <<disk, hdr, memory, history>>

WriteOldImage ==
    /\ pc = "rec_old"
    /\ log' = [log EXCEPT ![op.idx] =
                 [st |-> @.st, tl |-> @.tl, old |-> op.old, new |-> @.new]]
    /\ pc' = "rec_new"
    /\ UNCHANGED <<disk, hdr, memory, history>>

WriteNewImage ==
    /\ pc = "rec_new"
    /\ log' = [log EXCEPT ![op.idx] =
                 [st |-> @.st, tl |-> @.tl, old |-> @.old, new |-> op.new]]
    /\ pc' = "target"
    /\ UNCHANGED <<disk, hdr, memory, history>>

\* The real write.
WriteTarget ==
    /\ pc = "target"
    /\ disk' = [disk EXCEPT ![op.tl] = op.new]
    /\ pc' = "commit"
    /\ touched' = TRUE
    /\ UNCHANGED <<log, hdr, memory, acceptable, exposed, unchecked, missed>>

CommitRecord ==
    /\ pc = "commit"
    /\ log' = [log EXCEPT ![op.idx] =
                 [st |-> "committed", tl |-> @.tl, old |-> @.old, new |-> @.new]]
    /\ pc' = "log_hdr"
    /\ UNCHANGED <<disk, hdr, memory, history>>

\* wal_write_header(DIRTY, g_wal_next); the write has returned, so the sector
\* must hold the new image from here on.
WriteLogHeader ==
    /\ pc = "log_hdr"
    /\ g_wal_next' = op.idx + 1
    /\ hdr' = [magic |-> TRUE, clean |-> FALSE, next |-> op.idx + 1]
    /\ pc' = "idle"
    /\ op' = NoOp
    /\ acceptable' = [acceptable EXCEPT ![op.tl] = {op.new}]
    /\ exposed' = {l \in exposed \ {op.tl} :
                     \E i \in Slots : i <= op.idx /\ log[i].st # "none" /\ log[i].tl = l}
    /\ UNCHANGED <<disk, log, dirty_boot, ri, touched, unchecked, missed>>

(***************************************************************************)
(* A sector written past the log: fat32_zero_cluster() and the data        *)
(* clusters of fat32_write_file().  A replayable record that still names   *)
(* the sector will overwrite it, which "exposed" remembers.                *)
(***************************************************************************)
RawWrite(l, v) ==
    /\ pc = "idle"
    /\ disk' = [disk EXCEPT ![l] = v]
    /\ acceptable' = [acceptable EXCEPT ![l] = {v}]
    /\ exposed' = IF \E i \in Slots : Replayable(i, l) THEN exposed \union {l} ELSE exposed
    /\ UNCHANGED <<log, hdr, memory, pc, touched, unchecked, missed>>

(***************************************************************************)
(* fat32_init(): wal_recover(), then chkdsk_auto_on_boot().                *)
(***************************************************************************)

\* No MWLG magic: start an empty, clean log.
MountFreshLog ==
    /\ pc = "off"
    /\ ~hdr.magic
    /\ hdr' = [magic |-> TRUE, clean |-> TRUE, next |-> 0]
    /\ g_wal_next' = 0
    /\ dirty_boot' = FALSE
    /\ pc' = "boot"
    /\ acceptable' = [l \in Lba |-> {disk[l]}]
    /\ exposed' = {}
    /\ UNCHANGED <<disk, log, op, ri, touched, unchecked, missed>>

BeginReplay ==
    /\ pc = "off"
    /\ hdr.magic
    /\ ri' = 0
    /\ pc' = "replay"
    /\ UNCHANGED <<medium, g_wal_next, dirty_boot, op, history>>

\* limit = min(next, maxrec).
ReplayLimit == IF hdr.next > WalMax THEN WalMax ELSE hdr.next

\* Mutant: the status of the record is not looked at, every record is redone.
ReplayImageRedoAll(r) == r.new

\* The image that the replay of record r puts on its target.
ReplayImage(r) == IF r.st = "inprogress" THEN r.old ELSE r.new

ReplayRecord ==
    /\ pc = "replay"
    /\ ri < ReplayLimit
    /\ disk' = IF log[ri].st = "none" THEN disk
               ELSE [disk EXCEPT ![log[ri].tl] = ReplayImage(log[ri])]
    /\ ri' = ri + 1
    /\ UNCHANGED <<log, hdr, g_wal_next, dirty_boot, op, pc, history>>

\* Mutant: the loop runs to limit inclusive, and stops only beyond it.
EndReplayLate ==
    /\ pc = "replay"
    /\ ri > ReplayLimit
    /\ dirty_boot' = ~hdr.clean
    /\ g_wal_next' = 0
    /\ hdr' = [magic |-> TRUE, clean |-> TRUE, next |-> 0]
    /\ pc' = "boot"
    /\ acceptable' = [l \in Lba |-> {disk[l]}]
    /\ exposed' = {}
    /\ UNCHANGED <<disk, log, op, ri, touched, unchecked, missed>>

\* Mutant: the header is reset first, and the flag taken from it afterwards.
EndReplayResetFirst ==
    /\ pc = "replay"
    /\ ri >= ReplayLimit
    /\ dirty_boot' = FALSE
    /\ g_wal_next' = 0
    /\ hdr' = [magic |-> TRUE, clean |-> TRUE, next |-> 0]
    /\ pc' = "boot"
    /\ acceptable' = [l \in Lba |-> {disk[l]}]
    /\ exposed' = {}
    /\ UNCHANGED <<disk, log, op, ri, touched, unchecked, missed>>

\* The flag is taken from the header just before the header is reset.
EndReplay ==
    /\ pc = "replay"
    /\ ri >= ReplayLimit
    /\ dirty_boot' = ~hdr.clean
    /\ g_wal_next' = 0
    /\ hdr' = [magic |-> TRUE, clean |-> TRUE, next |-> 0]
    /\ pc' = "boot"
    /\ acceptable' = [l \in Lba |-> {disk[l]}]
    /\ exposed' = {}
    /\ UNCHANGED <<disk, log, op, ri, touched, unchecked, missed>>

\* chkdsk_auto_on_boot(): a full check only when the mount saw a dirty log.
ChkdskAutoOnBoot ==
    /\ pc = "boot"
    /\ pc' = "idle"
    /\ unchecked' = (unchecked /\ ~dirty_boot)
    /\ missed' = (missed /\ ~dirty_boot)
    /\ UNCHANGED <<medium, memory, acceptable, exposed, touched>>

\* Mutant: the clean mark resets the slot in memory and not the header on disk.
MarkCleanInMemory ==
    /\ pc = "idle"
    /\ g_wal_next' = 0
    /\ touched' = FALSE
    /\ exposed' = {}
    /\ UNCHANGED <<medium, dirty_boot, op, ri, pc, acceptable, unchecked, missed>>

\* fat32_wal_mark_clean(), called by file_unmount_all() on an orderly shutdown.
MarkClean ==
    /\ pc = "idle"
    /\ hdr' = [magic |-> TRUE, clean |-> TRUE, next |-> 0]
    /\ g_wal_next' = 0
    /\ touched' = FALSE
    /\ exposed' = {}
    /\ UNCHANGED <<disk, log, dirty_boot, op, ri, pc, acceptable, unchecked, missed>>

\* A record whose header has been reused while the log header still covers its
\* slot, and whose old image is still the one of the previous lap.
WrapWindow == pc = "rec_old" /\ op.idx < hdr.next

\* Power failure (or the power-off that ends an orderly shutdown).
Crash ==
    /\ pc # "off"
    /\ pc' = "off"
    /\ g_wal_next' = 0
    /\ dirty_boot' = FALSE
    /\ op' = NoOp
    /\ ri' = 0
    /\ exposed' = IF WrapWindow THEN exposed \union {op.tl} ELSE exposed
    /\ unchecked' = (unchecked \/ touched)
    /\ missed' = (missed \/ (touched /\ hdr.clean) \/ (pc = "boot" /\ dirty_boot))
    /\ touched' = FALSE
    /\ UNCHANGED <<medium, acceptable>>

-----------------------------------------------------------------------------

LoggedWrite ==
    \/ \E l \in Lba, v \in Image : BeginWrite(l, v)
    \/ WriteRecHeader
    \/ WriteOldImage
    \/ WriteNewImage
    \/ WriteTarget
    \/ CommitRecord
    \/ WriteLogHeader

Mount ==
    \/ MountFreshLog
    \/ BeginReplay
    \/ ReplayRecord
    \/ EndReplay
    \/ ChkdskAutoOnBoot

Next ==
    \/ LoggedWrite
    \/ \E l \in RawLba, v \in Image : RawWrite(l, v)
    \/ Mount
    \/ MarkClean
    \/ Crash

Spec == Init /\ [][Next]_vars

\* The boot code runs to completion once it has started.
FairSpec == Spec /\ WF_vars(Mount)

-----------------------------------------------------------------------------

Record == [st : {"none", "inprogress", "committed"}, tl : Lba \union {NoLba},
           old : Image, new : Image]

\* Type invariant.  While a write runs its locals name a real sector and slot,
\* and a record with a valid header names a real sector.
TypeOK ==
    /\ disk \in [Lba -> Image]
    /\ log \in [Slots -> Record]
    /\ \A i \in Slots : log[i].st # "none" => log[i].tl \in Lba
    /\ hdr \in [magic : BOOLEAN, clean : BOOLEAN, next : 0 .. WalMax]
    /\ g_wal_next \in 0 .. WalMax
    /\ dirty_boot \in BOOLEAN
    /\ pc \in {"off", "replay", "boot", "idle"} \union Writing
    /\ op \in [tl : Lba \union {NoLba}, old : Image, new : Image, idx : Slots]
    /\ pc \in Writing => op.tl \in Lba
    /\ ri \in 0 .. WalMax
    /\ acceptable \in [Lba -> SUBSET Image]
    /\ exposed \subseteq Lba
    /\ touched \in BOOLEAN
    /\ unchecked \in BOOLEAN
    /\ missed \in BOOLEAN

ReplayFinished == pc = "replay" /\ ri >= ReplayLimit

\* When wal_recover() has gone through the log, every sector holds the last
\* image whose write returned, or, if a logged write of it was cut short, the
\* image before or after that write: however often the power failed, during
\* writes or during earlier replays.  The exception is the sectors of
\* "exposed": those written past the log while a record still named them, and
\* the one whose record header was reused by a full log just before the crash.
RecoveryAtomic ==
    ReplayFinished => \A l \in Lba \ exposed : disk[l] \in acceptable[l]

\* "A clean unmount writes the log header CLEAN, so a normal boot skips all
\* recovery": unless power failed after metadata had changed, the replay finds
\* an empty log marked CLEAN, so it writes nothing and asks for no chkdsk.
CleanBootSkipsRecovery ==
    pc = "replay" /\ ~unchecked => ReplayLimit = 0 /\ hdr.clean

\* The boot path terminates: when the power stops failing, a volume that is off
\* is mounted and usable, whatever the log holds.
BootCompletes ==
    <>[][~Crash]_vars => (pc = "off" ~> pc = "idle")

\* What docs/wal-chkdsk-report.md and the comment in fat32_logged_write_sector
\* say of the restart of a full log: it is safe, because every earlier record
\* has been applied to disk.  So with no unlogged writes, no sector is ever
\* damaged by the replay.
CheckpointIsSafe ==
    ReplayFinished => \A l \in Lba \ RawLba : disk[l] \in acceptable[l]

\* "An abnormal shutdown leaves it DIRTY and the boot path then runs chkdsk as a
\* second safety net": when the power failed after metadata had changed, the
\* volume is checked before normal operation goes on.  Two windows are left, in
\* which Crash sets "missed": in the first logged write of a session, after its
\* target and before the header turns DIRTY; and at boot, between the reset of
\* the header and the check.
AbnormalShutdownIsChecked ==
    pc = "idle" /\ unchecked => missed
=============================================================================
