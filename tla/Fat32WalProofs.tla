--------------------------- MODULE Fat32WalProofs ---------------------------
(***************************************************************************)
(* Proofs about Fat32Wal, for every volume, every set of sector contents   *)
(* and every log size: type correctness, RecoveryAtomic,                   *)
(* CleanBootSkipsRecovery and AbnormalShutdownIsChecked.                   *)
(***************************************************************************)
EXTENDS Fat32Wal, TLAPS

USE DEF Slots, Writing

\* A running write owns one slot; the header covers the records before it, or
\* the whole log when the log is being restarted.
HeaderSync ==
    /\ pc \in {"boot", "idle"} => hdr.next = g_wal_next
    /\ pc \in Writing =>
         /\ g_wal_next = op.idx
         /\ hdr.next = op.idx \/ (op.idx = 0 /\ hdr.next = WalMax)

\* How much of the record of a running write has reached the medium.
RecordSync ==
    /\ pc \in {"rec_old", "rec_new", "target", "commit"} =>
         log[op.idx].st = "inprogress"
    /\ pc = "log_hdr" => log[op.idx].st = "committed"
    /\ pc \in Writing \ {"rec_hdr"} => log[op.idx].tl = op.tl
    /\ pc \in Writing \ {"rec_hdr", "rec_old"} => log[op.idx].old = op.old
    /\ pc \in {"target", "commit", "log_hdr"} => log[op.idx].new = op.new

\* While the volume is mounted the disk is exactly what the writes made it.
RunningDisk ==
    /\ pc \in {"boot", "idle"} => \A l \in Lba : acceptable[l] = {disk[l]}
    /\ pc \in Writing =>
         /\ acceptable[op.tl] = {op.old, op.new}
         /\ disk[op.tl] = IF pc \in {"commit", "log_hdr"} THEN op.new ELSE op.old
         /\ \A l \in Lba \ {op.tl} : acceptable[l] = {disk[l]}

\* While it is not, a sector that is not as it should be is one that a record
\* still to be replayed names.
StoppedDisk ==
    pc \in {"off", "replay"} =>
      \A l \in Lba \ exposed :
        \/ disk[l] \in acceptable[l]
        \/ \E i \in Slots : (pc = "replay" => i >= ri) /\ Replayable(i, l)

\* The last replayable record of a sector puts an acceptable image on it.
LastRecord ==
    \A l \in Lba \ exposed, i \in Slots :
      /\ Replayable(i, l)
      /\ \A j \in Slots : j > i => ~Replayable(j, l)
      /\ ~(WrapWindow /\ i = op.idx)
      => ReplayImage(log[i]) \in acceptable[l]

IInv ==
    /\ TypeOK
    /\ HeaderSync
    /\ RecordSync
    /\ RunningDisk
    /\ StoppedDisk
    /\ LastRecord

\* The DIRTY flag and the history of power failures.
CleanInv ==
    /\ hdr.magic /\ ~hdr.clean => touched \/ unchecked
    /\ ~hdr.magic => hdr.next = 0
    /\ hdr.clean => hdr.next = 0
    /\ pc \in {"off", "replay", "boot"} => ~touched
    /\ pc = "boot" => hdr.clean
    /\ pc # "off" => hdr.magic
    /\ pc \in {"commit", "log_hdr"} => touched

\* Where the order to check the volume is kept until chkdsk runs: in the header,
\* then in g_wal_dirty_boot.
CheckInv ==
    /\ unchecked /\ pc \in {"off", "replay"} => missed \/ (hdr.magic /\ ~hdr.clean)
    /\ unchecked /\ pc = "boot" => missed \/ dirty_boot
    /\ unchecked /\ pc \in {"idle"} \union Writing => missed

-----------------------------------------------------------------------------

\* A volume that has never been mounted has the right types.
LEMMA InitType == Init => TypeOK
<1> SUFFICES ASSUME Init PROVE TypeOK
  OBVIOUS
<1> USE WalAssumption DEF Init, TypeOK, Record, ZeroRec, NoOp
<1>1. acceptable \in [Lba -> SUBSET Image]
  OBVIOUS
<1>2. log \in [Slots -> Record]
  OBVIOUS
<1>3. op \in [tl : Lba \union {NoLba}, old : Image, new : Image, idx : Slots]
  OBVIOUS
<1>4. hdr \in [magic : BOOLEAN, clean : BOOLEAN, next : 0 .. WalMax]
  OBVIOUS
<1> QED
  BY <1>1, <1>2, <1>3, <1>4

\* Every step of the code keeps the types: in particular a slot index stays
\* inside the log area when a full log restarts, and the replay only ever
\* writes to sectors that a record with a valid header names.
LEMMA TypeStep == TypeOK /\ RecordSync /\ [Next]_vars => TypeOK'
<1> SUFFICES ASSUME TypeOK, RecordSync, [Next]_vars PROVE TypeOK'
  OBVIOUS
<1> USE WalAssumption DEF TypeOK, Record, medium, memory, history
<1>1. ASSUME NEW l \in Lba, NEW v \in Image, BeginWrite(l, v) PROVE TypeOK'
  BY <1>1 DEF BeginWrite
<1>2. CASE WriteRecHeader
  BY <1>2 DEF WriteRecHeader
<1>3. CASE WriteOldImage
  BY <1>3 DEF WriteOldImage
<1>4. CASE WriteNewImage
  BY <1>4 DEF WriteNewImage
<1>5. CASE WriteTarget
  BY <1>5 DEF WriteTarget
<1>6. CASE CommitRecord
  <2>1. log[op.idx] \in Record
    OBVIOUS
  <2>2. log' \in [Slots -> Record]
    BY <1>6, <2>1 DEF CommitRecord
  <2>3. log'[op.idx].tl \in Lba
    BY <1>6, <2>1 DEF CommitRecord, RecordSync
  <2>4. \A i \in Slots \ {op.idx} : log'[i] = log[i]
    BY <1>6 DEF CommitRecord
  <2> QED
    BY <1>6, <2>2, <2>3, <2>4 DEF CommitRecord
<1>7. CASE WriteLogHeader
  BY <1>7 DEF WriteLogHeader, NoOp
<1>8. ASSUME NEW l \in RawLba, NEW v \in Image, RawWrite(l, v) PROVE TypeOK'
  BY <1>8 DEF RawWrite
<1>9. CASE MountFreshLog
  <2>1. acceptable' \in [Lba -> SUBSET Image]
    BY <1>9 DEF MountFreshLog
  <2>2. hdr' \in [magic : BOOLEAN, clean : BOOLEAN, next : 0 .. WalMax]
    BY <1>9 DEF MountFreshLog
  <2> QED
    BY <1>9, <2>1, <2>2 DEF MountFreshLog
<1>10. CASE BeginReplay
  BY <1>10 DEF BeginReplay
<1>11. CASE ReplayRecord
  BY <1>11 DEF ReplayRecord, ReplayLimit, ReplayImage
<1>12. CASE EndReplay
  BY <1>12 DEF EndReplay
<1>13. CASE ChkdskAutoOnBoot
  BY <1>13 DEF ChkdskAutoOnBoot
<1>14. CASE MarkClean
  <2>1. hdr' \in [magic : BOOLEAN, clean : BOOLEAN, next : 0 .. WalMax]
    BY <1>14 DEF MarkClean
  <2> QED
    BY <1>14, <2>1 DEF MarkClean
<1>15. CASE Crash
  <2>1. op' \in [tl : Lba \union {NoLba}, old : Image, new : Image, idx : Slots]
    BY <1>15 DEF Crash, NoOp
  <2>2. exposed' \subseteq Lba
    BY <1>15 DEF Crash, WrapWindow
  <2>3. unchecked' \in BOOLEAN /\ missed' \in BOOLEAN
    BY <1>15, Zenon DEF Crash
  <2>4. dirty_boot' \in BOOLEAN /\ touched' \in BOOLEAN
    BY <1>15 DEF Crash
  <2>5. g_wal_next' \in 0 .. WalMax /\ ri' \in 0 .. WalMax
    BY <1>15 DEF Crash
  <2>6. pc' = "off" /\ UNCHANGED <<medium, acceptable>>
    BY <1>15 DEF Crash
  <2> QED
    BY <2>1, <2>2, <2>3, <2>4, <2>5, <2>6
<1>16. CASE UNCHANGED vars
  BY <1>16 DEF vars
<1> QED
  BY <1>1, <1>2, <1>3, <1>4, <1>5, <1>6, <1>7, <1>8, <1>9, <1>10, <1>11,
     <1>12, <1>13, <1>14, <1>15, <1>16 DEF Next, LoggedWrite, Mount

\* The log header, g_wal_next and the record of a running write move together.
LEMMA SyncStep ==
  TypeOK /\ HeaderSync /\ RecordSync /\ [Next]_vars => HeaderSync' /\ RecordSync'
<1> SUFFICES ASSUME TypeOK, HeaderSync, RecordSync, [Next]_vars
             PROVE  HeaderSync' /\ RecordSync'
  OBVIOUS
<1> USE WalAssumption DEF HeaderSync, RecordSync, medium, memory, history
<1>1. ASSUME NEW l \in Lba, NEW v \in Image, BeginWrite(l, v)
      PROVE  HeaderSync' /\ RecordSync'
  BY <1>1 DEF BeginWrite, TypeOK
<1>2. CASE WriteRecHeader
  <2>1. log'[op.idx] =
          [st |-> "inprogress", tl |-> op.tl, old |-> log[op.idx].old, new |-> log[op.idx].new]
    BY <1>2 DEF WriteRecHeader, TypeOK
  <2> QED
    BY <1>2, <2>1 DEF WriteRecHeader
<1>3. CASE WriteOldImage
  <2>1. log'[op.idx] =
          [st |-> log[op.idx].st, tl |-> log[op.idx].tl, old |-> op.old, new |-> log[op.idx].new]
    BY <1>3 DEF WriteOldImage, TypeOK
  <2> QED
    BY <1>3, <2>1 DEF WriteOldImage
<1>4. CASE WriteNewImage
  <2>1. log'[op.idx] =
          [st |-> log[op.idx].st, tl |-> log[op.idx].tl, old |-> log[op.idx].old, new |-> op.new]
    BY <1>4 DEF WriteNewImage, TypeOK
  <2> QED
    BY <1>4, <2>1 DEF WriteNewImage
<1>5. CASE WriteTarget
  BY <1>5 DEF WriteTarget
<1>6. CASE CommitRecord
  <2>1. log'[op.idx] =
          [st |-> "committed", tl |-> log[op.idx].tl, old |-> log[op.idx].old, new |-> log[op.idx].new]
    BY <1>6 DEF CommitRecord, TypeOK
  <2> QED
    BY <1>6, <2>1 DEF CommitRecord
<1>7. CASE WriteLogHeader
  BY <1>7 DEF WriteLogHeader
<1>8. ASSUME NEW l \in RawLba, NEW v \in Image, RawWrite(l, v)
      PROVE  HeaderSync' /\ RecordSync'
  BY <1>8 DEF RawWrite
<1>9. CASE MountFreshLog
  BY <1>9 DEF MountFreshLog
<1>10. CASE BeginReplay
  BY <1>10 DEF BeginReplay
<1>11. CASE ReplayRecord
  BY <1>11 DEF ReplayRecord
<1>12. CASE EndReplay
  BY <1>12 DEF EndReplay
<1>13. CASE ChkdskAutoOnBoot
  BY <1>13 DEF ChkdskAutoOnBoot
<1>14. CASE MarkClean
  BY <1>14 DEF MarkClean
<1>15. CASE Crash
  BY <1>15 DEF Crash
<1>16. CASE UNCHANGED vars
  BY <1>16, SMTT(40) DEF vars
<1> QED
  BY <1>1, <1>2, <1>3, <1>4, <1>5, <1>6, <1>7, <1>8, <1>9, <1>10, <1>11,
     <1>12, <1>13, <1>14, <1>15, <1>16 DEF Next, LoggedWrite, Mount
\* A mounted volume holds what the writes that returned put there.
LEMMA RunningStep == IInv /\ [Next]_vars => RunningDisk'
<1> SUFFICES ASSUME IInv, [Next]_vars PROVE RunningDisk'
  OBVIOUS
<1> USE WalAssumption DEF IInv, TypeOK, RunningDisk, medium, memory, history
<1>1. ASSUME NEW l \in Lba, NEW v \in Image, BeginWrite(l, v) PROVE RunningDisk'
  BY <1>1 DEF BeginWrite
<1>2. CASE WriteRecHeader
  BY <1>2 DEF WriteRecHeader
<1>3. CASE WriteOldImage
  BY <1>3 DEF WriteOldImage
<1>4. CASE WriteNewImage
  BY <1>4 DEF WriteNewImage
<1>5. CASE WriteTarget
  BY <1>5 DEF WriteTarget
<1>6. CASE CommitRecord
  BY <1>6 DEF CommitRecord
<1>7. CASE WriteLogHeader
  BY <1>7 DEF WriteLogHeader
<1>8. ASSUME NEW l \in RawLba, NEW v \in Image, RawWrite(l, v) PROVE RunningDisk'
  BY <1>8 DEF RawWrite
<1>9. CASE MountFreshLog
  BY <1>9 DEF MountFreshLog
<1>10. CASE BeginReplay
  BY <1>10 DEF BeginReplay
<1>11. CASE ReplayRecord
  BY <1>11 DEF ReplayRecord
<1>12. CASE EndReplay
  BY <1>12 DEF EndReplay
<1>13. CASE ChkdskAutoOnBoot
  BY <1>13 DEF ChkdskAutoOnBoot
<1>14. CASE MarkClean
  BY <1>14 DEF MarkClean
<1>15. CASE Crash
  BY <1>15 DEF Crash
<1>16. CASE UNCHANGED vars
  BY <1>16, SMTT(40) DEF vars
<1> QED
  BY <1>1, <1>2, <1>3, <1>4, <1>5, <1>6, <1>7, <1>8, <1>9, <1>10, <1>11,
     <1>12, <1>13, <1>14, <1>15, <1>16 DEF Next, LoggedWrite, Mount

\* A sector that a crash left wrong is always still named by a record that the
\* replay has yet to apply.
LEMMA StoppedStep == IInv /\ [Next]_vars => StoppedDisk'
<1> SUFFICES ASSUME IInv, [Next]_vars PROVE StoppedDisk'
  OBVIOUS
<1> USE WalAssumption DEF IInv, TypeOK, RunningDisk, StoppedDisk, Replayable, medium, memory, history
<1>1. ASSUME NEW l \in Lba, NEW v \in Image, BeginWrite(l, v) PROVE StoppedDisk'
  BY <1>1 DEF BeginWrite
<1>2. CASE WriteRecHeader
  BY <1>2 DEF WriteRecHeader
<1>3. CASE WriteOldImage
  BY <1>3 DEF WriteOldImage
<1>4. CASE WriteNewImage
  BY <1>4 DEF WriteNewImage
<1>5. CASE WriteTarget
  BY <1>5 DEF WriteTarget
<1>6. CASE CommitRecord
  BY <1>6 DEF CommitRecord
<1>7. CASE WriteLogHeader
  BY <1>7 DEF WriteLogHeader
<1>8. ASSUME NEW l \in RawLba, NEW v \in Image, RawWrite(l, v) PROVE StoppedDisk'
  BY <1>8 DEF RawWrite
<1>9. CASE MountFreshLog
  BY <1>9 DEF MountFreshLog
<1>10. CASE BeginReplay
  BY <1>10 DEF BeginReplay
<1>11. CASE ReplayRecord
  <2> SUFFICES ASSUME NEW l \in Lba \ exposed, disk'[l] \notin acceptable[l]
               PROVE  \E i \in Slots : i >= ri + 1 /\ Replayable(i, l)
    BY <1>11 DEF ReplayRecord
  <2>1. ri \in Slots /\ ri < hdr.next
    BY <1>11 DEF ReplayRecord, ReplayLimit
  <2>2. CASE Replayable(ri, l)
    <3>1. disk'[l] = ReplayImage(log[ri])
      BY <1>11, <2>1, <2>2 DEF ReplayRecord
    <3>2. \E j \in Slots : j > ri /\ Replayable(j, l)
      BY <1>11, <2>1, <2>2, <3>1 DEF LastRecord, WrapWindow, ReplayRecord
    <3> QED
      BY <3>2, <2>1
  <2>3. CASE ~Replayable(ri, l)
    <3>1. disk'[l] = disk[l]
      BY <1>11, <2>1, <2>3 DEF ReplayRecord
    <3>2. PICK i \in Slots : i >= ri /\ Replayable(i, l)
      BY <1>11, <3>1 DEF ReplayRecord
    <3> QED
      BY <2>1, <2>3, <3>2
  <2> QED
    BY <2>2, <2>3
<1>12. CASE EndReplay
  BY <1>12 DEF EndReplay
<1>13. CASE ChkdskAutoOnBoot
  BY <1>13 DEF ChkdskAutoOnBoot
<1>14. CASE MarkClean
  BY <1>14 DEF MarkClean
<1>15. CASE Crash
  BY <1>15 DEF Crash
<1>16. CASE UNCHANGED vars
  BY <1>16, SMTT(40) DEF vars
<1> QED
  BY <1>1, <1>2, <1>3, <1>4, <1>5, <1>6, <1>7, <1>8, <1>9, <1>10, <1>11,
     <1>12, <1>13, <1>14, <1>15, <1>16 DEF Next, LoggedWrite, Mount

\* The last record of a sector always carries an acceptable image.
LEMMA LastStep == IInv /\ [Next]_vars => LastRecord'
<1> SUFFICES ASSUME IInv, [Next]_vars PROVE LastRecord'
  OBVIOUS
<1> USE WalAssumption DEF IInv, TypeOK, HeaderSync, RecordSync, RunningDisk, LastRecord, Replayable, ReplayImage, WrapWindow, medium, memory, history
<1>1. ASSUME NEW l \in Lba, NEW v \in Image, BeginWrite(l, v) PROVE LastRecord'
  BY <1>1 DEF BeginWrite
<1>2. CASE WriteRecHeader
  BY <1>2 DEF WriteRecHeader
<1>3. CASE WriteOldImage
  BY <1>3 DEF WriteOldImage
<1>4. CASE WriteNewImage
  BY <1>4 DEF WriteNewImage
<1>5. CASE WriteTarget
  BY <1>5 DEF WriteTarget
<1>6. CASE CommitRecord
  BY <1>6, SMTT(40) DEF CommitRecord
<1>7. CASE WriteLogHeader
  BY <1>7, SMTT(40) DEF WriteLogHeader
<1>8. ASSUME NEW l \in RawLba, NEW v \in Image, RawWrite(l, v) PROVE LastRecord'
  BY <1>8, SMTT(40) DEF RawWrite
<1>9. CASE MountFreshLog
  BY <1>9, SMTT(40) DEF MountFreshLog
<1>10. CASE BeginReplay
  BY <1>10, SMTT(40) DEF BeginReplay
<1>11. CASE ReplayRecord
  BY <1>11, SMTT(40) DEF ReplayRecord
<1>12. CASE EndReplay
  BY <1>12 DEF EndReplay
<1>13. CASE ChkdskAutoOnBoot
  BY <1>13, SMTT(40) DEF ChkdskAutoOnBoot
<1>14. CASE MarkClean
  BY <1>14, SMTT(40) DEF MarkClean
<1>15. CASE Crash
  BY <1>15, SMTT(40) DEF Crash
<1>16. CASE UNCHANGED vars
  BY <1>16, SMTT(40) DEF vars
<1> QED
  BY <1>1, <1>2, <1>3, <1>4, <1>5, <1>6, <1>7, <1>8, <1>9, <1>10, <1>11,
     <1>12, <1>13, <1>14, <1>15, <1>16, ZenonT(40) DEF Next, LoggedWrite, Mount


\* The flag of the log header and the history of power failures agree.
LEMMA CleanStep == TypeOK /\ CleanInv /\ [Next]_vars => CleanInv'
<1> SUFFICES ASSUME TypeOK, CleanInv, [Next]_vars PROVE CleanInv'
  BY SMTT(40)
<1> USE DEF TypeOK, CleanInv, medium, memory, history
<1>1. CASE LoggedWrite
  BY <1>1 DEF LoggedWrite, BeginWrite, WriteRecHeader, WriteOldImage, WriteNewImage,
              WriteTarget, CommitRecord, WriteLogHeader
<1>2. ASSUME NEW l \in RawLba, NEW v \in Image, RawWrite(l, v) PROVE CleanInv'
  BY <1>2, SMTT(40) DEF RawWrite
<1>3. CASE Mount
  BY <1>3 DEF Mount, MountFreshLog, BeginReplay, ReplayRecord, EndReplay, ChkdskAutoOnBoot
<1>4. CASE MarkClean
  BY <1>4 DEF MarkClean
<1>5. CASE Crash
  BY <1>5 DEF Crash
<1>6. CASE UNCHANGED vars
  BY <1>6, SMTT(40) DEF vars
<1> QED
  BY <1>1, <1>2, <1>3, <1>4, <1>5, <1>6 DEF Next

\* The order to check survives every step until chkdsk has run.
LEMMA CheckStep == TypeOK /\ CleanInv /\ CheckInv /\ [Next]_vars => CheckInv'
<1> SUFFICES ASSUME TypeOK, CleanInv, CheckInv, [Next]_vars PROVE CheckInv'
  BY SMTT(40)
<1> USE DEF TypeOK, CheckInv, medium, memory, history
<1>1. CASE LoggedWrite
  BY <1>1 DEF LoggedWrite, BeginWrite, WriteRecHeader, WriteOldImage, WriteNewImage,
              WriteTarget, CommitRecord, WriteLogHeader
<1>2. ASSUME NEW l \in RawLba, NEW v \in Image, RawWrite(l, v) PROVE CheckInv'
  BY <1>2, SMTT(40) DEF RawWrite
<1>3. CASE Mount
  BY <1>3 DEF Mount, MountFreshLog, BeginReplay, ReplayRecord, EndReplay, ChkdskAutoOnBoot
<1>4. CASE MarkClean
  BY <1>4 DEF MarkClean
<1>5. CASE Crash
  BY <1>5 DEF Crash, CleanInv
<1>6. CASE UNCHANGED vars
  BY <1>6 DEF vars
<1> QED
  BY <1>1, <1>2, <1>3, <1>4, <1>5, <1>6 DEF Next

-----------------------------------------------------------------------------

\* The inductive invariant behind the theorems below: the slot the header
\* covers, how far the running write has got, and what each sector may hold.
THEOREM Inductive == Spec => []IInv
<1>1. Init => IInv
  <2> SUFFICES ASSUME Init PROVE IInv
    OBVIOUS
  <2>1. TypeOK
    BY InitType
  <2>2. HeaderSync /\ RecordSync /\ RunningDisk /\ StoppedDisk
    BY DEF Init, HeaderSync, RecordSync, RunningDisk, StoppedDisk
  <2>3. LastRecord
    BY DEF Init, LastRecord, Replayable
  <2> QED
    BY <2>1, <2>2, <2>3 DEF IInv
<1>2. IInv /\ [Next]_vars => IInv'
  BY TypeStep, SyncStep, RunningStep, StoppedStep, LastStep DEF IInv
<1> QED
  BY <1>1, <1>2, PTL DEF Spec

\* Type correctness of the write-ahead log: slot indices stay inside the log
\* area and the replay only writes sectors that a valid record names.
THEOREM TypeCorrect == Spec => []TypeOK
<1>1. IInv => TypeOK
  BY DEF IInv
<1> QED
  BY <1>1, Inductive, PTL

\* Crash atomicity of logged sector writes, for every log size: wal_recover()
\* leaves every sector that is not exposed with its image before or after the
\* write that the crash interrupted.
THEOREM RecoveryCorrect == Spec => []RecoveryAtomic
<1>1. IInv => RecoveryAtomic
  <2> SUFFICES ASSUME IInv, ReplayFinished, NEW l \in Lba \ exposed
               PROVE  disk[l] \in acceptable[l]
    BY DEF RecoveryAtomic
  <2>1. ri \in Nat /\ hdr.next \in Nat /\ ri >= hdr.next
    BY WalAssumption DEF IInv, TypeOK, ReplayFinished, ReplayLimit
  <2>2. \A i \in Slots : i >= ri => ~Replayable(i, l)
    BY <2>1 DEF Replayable
  <2> QED
    BY <2>2 DEF IInv, StoppedDisk, ReplayFinished
<1> QED
  BY <1>1, Inductive, PTL

\* An orderly shutdown costs nothing at the next boot: without a power failure
\* after a metadata change the replay finds a CLEAN, empty log.
THEOREM CleanBoot == Spec => []CleanBootSkipsRecovery
<1>1. Init => CleanInv
  BY DEF Init, CleanInv
<1>2. CleanInv => CleanBootSkipsRecovery
  BY WalAssumption DEF CleanInv, CleanBootSkipsRecovery, ReplayLimit
<1> QED
  BY <1>1, <1>2, CleanStep, TypeCorrect, PTL DEF Spec

\* chkdsk as a second safety net, for every log size: after a power failure that
\* followed a metadata change no session starts without a check, unless the
\* failure fell into one of the two windows that Crash names.
THEOREM ShutdownChecked == Spec => []AbnormalShutdownIsChecked
<1>1. Init => CleanInv /\ CheckInv
  BY DEF Init, CleanInv, CheckInv
<1>2. CheckInv => AbnormalShutdownIsChecked
  BY DEF CheckInv, AbnormalShutdownIsChecked
<1> QED
  BY <1>1, <1>2, CleanStep, CheckStep, TypeCorrect, PTL DEF Spec
=============================================================================
