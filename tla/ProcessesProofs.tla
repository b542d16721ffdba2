--------------------------- MODULE ProcessesProofs ---------------------------
(***************************************************************************)
(* Proofs about Processes, for any table size and any number of process    *)
(* ids: the table, the pool and the calls in progress stay consistent      *)
(* under any nesting of programs, forks, waits, faults and terminations;   *)
(* waitpid never has to block, and what executes is the current process.   *)
(***************************************************************************)
EXTENDS Processes, WellFoundedInduction, TLAPS

\* The scans of the process table go upwards: the first slot that satisfies a test exists as soon
\* as any does.
LEMMA LeastNat ==
    ASSUME NEW T, T \subseteq Nat, T # {}
    PROVE  \E x \in T : \A y \in T : x <= y
<1>1. PICK x \in T : \A y \in T : ~(<<y, x>> \in OpToRel(<, Nat))
  BY NatLessThanWellFounded, WFMin, Zenon
<1>2. \A a, b \in Nat : <<a, b>> \in OpToRel(<, Nat) <=> a < b
  BY DEF OpToRel
<1>3. \A y \in T : ~(y < x)
  BY <1>1, <1>2, Zenon
<1> QED BY <1>3

\* What the calls in progress know of the table: their process ids were handed
\* out, a captured program has a caller, and the PCB pointers that sys_waitpid
\* holds across the run of a child still mean that child as long as it has a PCB
\* at all.
Frames ==
    \A k \in DOMAIN stack :
      /\ stack[k].kind = "capture" => k # 1
      /\ stack[k].pid # NoPid => stack[k].pid \in 1 .. g_next_pid - 1
      /\ stack[k].kind = "child" =>
           /\ stack[k].child \in Slot /\ stack[k].caller \in Slot
           /\ \A s \in Slot : g_pcbs[s].used /\ g_pcbs[s].pid = stack[k].pid => s = stack[k].child

\* The inductive invariant.
IInv == TypeOK /\ UsedSlotsAreReserved /\ RunningIsOnTheStack /\ Frames

\* Smallest picks a member of every non-empty set of slots.
LEMMA SmallestIn ==
    ASSUME NEW S, S \subseteq Slot, S # {}
    PROVE  Smallest(S) \in S
<1>1. S \subseteq Nat
  BY PcbAssumption DEF Slot
<1>2. \E x \in S : \A y \in S : x <= y
  BY <1>1, LeastNat, Zenon
<1> QED
  BY <1>2, Zenon DEF Smallest

\* No slot is called NoSlot.
LEMMA SlotNumbers == Slot \subseteq Nat /\ NoSlot \notin Slot
  BY PcbAssumption DEF Slot, NoSlot

\* pcb_find_by_pid finds a used PCB with that id, or there is none.
LEMMA FindFacts ==
    ASSUME NEW pcbs, NEW pid
    PROVE  \/ /\ Find(pcbs, pid) = NoSlot
              /\ \A s \in Slot : ~(pcbs[s].used /\ pcbs[s].pid = pid)
           \/ /\ Find(pcbs, pid) \in Slot /\ Find(pcbs, pid) # NoSlot
              /\ pcbs[Find(pcbs, pid)].used /\ pcbs[Find(pcbs, pid)].pid = pid
<1> DEFINE S == {s \in Slot : pcbs[s].used /\ pcbs[s].pid = pid}
<1>1. S \subseteq Slot /\ (S # {} => Smallest(S) \in S)
  BY SmallestIn
<1>2. Find(pcbs, pid) = IF S = {} THEN NoSlot ELSE Smallest(S)
  BY DEF Find
<1> QED
  BY <1>1, <1>2, SlotNumbers

\* pcb_claim_slot gives a slot whose process, if it has one, is not running.
LEMMA ClaimedFacts ==
    ASSUME IInv, Claimed # NoSlot
    PROVE  Claimed \in Slot /\ ~(g_pcbs[Claimed].used /\ g_pcbs[Claimed].state = "RUNNING")
<1>1. CASE g_pcb_pool # Slot
  <2>1. Slot \ g_pcb_pool # {} /\ Slot \ g_pcb_pool \subseteq Slot
    BY <1>1, Zenon DEF IInv, TypeOK
  <2>2. Smallest(Slot \ g_pcb_pool) \in Slot \ g_pcb_pool
    BY <2>1, SmallestIn
  <2> QED
    BY <1>1, <2>2 DEF Claimed, IInv, UsedSlotsAreReserved
<1>2. CASE g_pcb_pool = Slot
  <2>1. Recyclable # {} /\ Claimed = Smallest(Recyclable)
    BY <1>2 DEF Claimed
  <2>2. Recyclable \subseteq Slot
    BY DEF Recyclable
  <2>3. Smallest(Recyclable) \in Recyclable
    BY <2>1, <2>2, SmallestIn
  <2> QED
    BY <2>1, <2>3 DEF Recyclable
<1> QED
  BY <1>1, <1>2

\* A step that starts no process keeps the invariant when what is still marked
\* RUNNING was RUNNING before and has its call among those that remain.
LEMMA NoNewProcess ==
    ASSUME IInv, g_next_pid' = g_next_pid,
           g_pcbs' \in [Slot -> Pcb], g_pcb_pool' \subseteq Slot, g_current_pid' \in -1 .. MaxPid,
           displaced' \subseteq Pid \union {NoPid},
           stack' \in Seq(Frame),
           \A k \in DOMAIN stack' : k \in DOMAIN stack /\ stack'[k] = stack[k],
           \A s \in Slot : g_pcbs'[s].used =>
             /\ g_pcbs[s].used /\ g_pcbs'[s].pid = g_pcbs[s].pid /\ s \in g_pcb_pool'
             /\ g_pcbs'[s].state = "RUNNING" => \E k \in DOMAIN stack' : stack'[k].pid = g_pcbs[s].pid
    PROVE  IInv'
<1>1. \A s, t \in Slot : g_pcbs'[s].used =>
        /\ g_pcbs'[s].pid \in 1 .. g_next_pid' - 1
        /\ s # t /\ g_pcbs'[t].used => g_pcbs'[s].pid # g_pcbs'[t].pid
  BY DEF IInv, TypeOK
<1>2. TypeOK'
  BY <1>1 DEF TypeOK, IInv
<1>3. UsedSlotsAreReserved'
  BY DEF UsedSlotsAreReserved
<1>4. RunningIsOnTheStack'
  BY DEF RunningIsOnTheStack
<1>5. Frames'
  BY DEF IInv, Frames
<1> QED
  BY <1>2, <1>3, <1>4, <1>5 DEF IInv

\* pcb_finish_process changes nothing but the state of one PCB, to an ended one.
LEMMA FinishFacts ==
    ASSUME NEW pcbs \in [Slot -> Pcb], NEW pid, NEW state \in Reapable
    PROVE  /\ Finish(pcbs, pid, state) \in [Slot -> Pcb]
           /\ \A s \in Slot :
                /\ Finish(pcbs, pid, state)[s].used = pcbs[s].used
                /\ Finish(pcbs, pid, state)[s].pid = pcbs[s].pid
                /\ Finish(pcbs, pid, state)[s].parent = pcbs[s].parent
                /\ \/ Finish(pcbs, pid, state)[s].state = pcbs[s].state
                   \/ Finish(pcbs, pid, state)[s].state \in Reapable
<1> DEFINE f == Find(pcbs, pid)
<1>1. CASE f = NoSlot
  BY <1>1 DEF Finish
<1>2. CASE f \in Slot /\ f # NoSlot
  <2>1. Finish(pcbs, pid, state) = [pcbs EXCEPT ![f].state = state]
    BY <1>2 DEF Finish
  <2> HIDE DEF f
  <2> QED
    BY <1>2, <2>1 DEF Pcb
<1> QED
  BY <1>1, <1>2, FindFacts

\* What it ends is ended: no PCB with that id is running afterwards, provided the
\* ids of the used PCBs differ.
LEMMA FinishEnds ==
    ASSUME NEW pcbs \in [Slot -> Pcb], NEW pid, NEW state \in Reapable,
           \A s, t \in Slot : pcbs[s].used /\ pcbs[t].used /\ pcbs[s].pid = pcbs[t].pid => s = t
    PROVE  \A s \in Slot : pcbs[s].used /\ pcbs[s].pid = pid => Finish(pcbs, pid, state)[s].state = state
<1> SUFFICES ASSUME NEW s \in Slot, pcbs[s].used, pcbs[s].pid = pid
             PROVE  Finish(pcbs, pid, state)[s].state = state
  OBVIOUS
<1>1. Find(pcbs, pid) = s /\ s # NoSlot
  BY FindFacts, SlotNumbers, ZenonT(40)
<1> QED
  BY <1>1 DEF Finish, Pcb

\* "RUNNING" is not the state of an ended process.
LEMMA RunningNotReapable == "RUNNING" \notin Reapable /\ "READY" # "RUNNING" /\ "FREE" # "RUNNING"
  BY DEF Reapable

\* The invariant in the form the step lemmas use.
LEMMA TableFacts ==
    ASSUME IInv
    PROVE  /\ g_pcbs \in [Slot -> Pcb] /\ g_pcb_pool \subseteq Slot /\ g_next_pid \in 1 .. MaxPid + 1
           /\ g_current_pid \in -1 .. MaxPid /\ displaced \subseteq Pid \union {NoPid}
           /\ stack \in Seq(Frame)
           /\ \A s, t \in Slot : g_pcbs[s].used /\ g_pcbs[t].used /\ g_pcbs[s].pid = g_pcbs[t].pid => s = t
           /\ \A s \in Slot : g_pcbs[s].used => s \in g_pcb_pool /\ g_pcbs[s].pid \in 1 .. g_next_pid - 1
           /\ \A s \in Slot : g_pcbs[s].used /\ g_pcbs[s].state = "RUNNING" =>
                \E k \in DOMAIN stack : stack[k].pid = g_pcbs[s].pid
  BY DEF IInv, TypeOK, UsedSlotsAreReserved, RunningIsOnTheStack

\* Taking the innermost call off the stack leaves the others as they were.
LEMMA PopFacts ==
    ASSUME stack \in Seq(Frame), stack # <<>>
    PROVE  /\ Top \in Frame /\ Len(stack) \in DOMAIN stack /\ Top = stack[Len(stack)]
           /\ Pop \in Seq(Frame)
           /\ \A k \in DOMAIN Pop : k \in DOMAIN stack /\ Pop[k] = stack[k]
           /\ \A k \in DOMAIN stack : k # Len(stack) => k \in DOMAIN Pop
  BY DEF Top, Pop

\* A step that leaves the calls in progress alone, starts no process and marks none
\* RUNNING keeps the invariant.
LEMMA TableStep ==
    ASSUME IInv, UNCHANGED <<g_next_pid, stack, displaced>>,
           g_pcbs' \in [Slot -> Pcb], g_pcb_pool' \subseteq Slot, g_current_pid' \in -1 .. MaxPid,
           \A s \in Slot : g_pcbs'[s].used =>
             /\ g_pcbs[s].used /\ g_pcbs'[s].pid = g_pcbs[s].pid /\ s \in g_pcb_pool'
             /\ g_pcbs'[s].state = "RUNNING" => g_pcbs[s].state = "RUNNING"
    PROVE  IInv'
  BY TableFacts, NoNewProcess

\* SYS_PROCESS_TERMINATE
LEMMA TerminateStep ==
    ASSUME IInv, NEW pid \in Pid, Terminate(pid)
    PROVE  IInv'
<1>1. g_pcbs' = Finish(g_pcbs, pid, "ABORTED") /\ UNCHANGED <<g_pcb_pool, g_next_pid, stack, displaced>>
  BY DEF Terminate
<1>2. g_current_pid' \in -1 .. MaxPid
  BY TableFacts, PcbAssumption DEF Terminate, CurrentAfter, NoPid
<1>3. "ABORTED" \in Reapable
  BY DEF Reapable
<1>4. /\ g_pcbs' \in [Slot -> Pcb]
      /\ \A s \in Slot : /\ g_pcbs'[s].used = g_pcbs[s].used /\ g_pcbs'[s].pid = g_pcbs[s].pid
                         /\ g_pcbs'[s].state = g_pcbs[s].state \/ g_pcbs'[s].state \in Reapable
  BY <1>1, <1>3, TableFacts, FinishFacts
<1> QED
  BY <1>1, <1>2, <1>4, TableFacts, TableStep, RunningNotReapable

\* A wiped PCB.
LEMMA ZeroFacts == Zero \in Pcb /\ ~Zero.used
  BY PcbAssumption DEF Zero, Pcb

\* Freeing a slot: its PCB is wiped and the pool takes it back.
LEMMA WipeStep ==
    ASSUME IInv, NEW c \in Slot, g_pcbs' = [g_pcbs EXCEPT ![c] = Zero], g_pcb_pool' = g_pcb_pool \ {c},
           UNCHANGED <<g_next_pid, g_current_pid, stack, displaced>>
    PROVE  IInv'
<1>1. g_pcbs' \in [Slot -> Pcb]
  BY TableFacts, ZeroFacts
<1>2. \A s \in Slot : g_pcbs'[s].used => s # c /\ g_pcbs'[s] = g_pcbs[s]
  BY TableFacts, ZeroFacts
<1> QED
  BY <1>1, <1>2, TableFacts, TableStep

\* The first pass of sys_waitpid reaps a child that has ended.
LEMMA WaitReapsStep ==
    ASSUME IInv, NEW pid \in Int, WaitReaps(pid)
    PROVE  IInv'
<1>1. WaitDone(pid) # {} /\ WaitDone(pid) \subseteq Slot
  BY DEF WaitReaps, WaitDone, WaitMatches, Children
<1>2. Smallest(WaitDone(pid)) \in Slot
  BY <1>1, SmallestIn
<1> QED
  BY <1>2, WipeStep, Zenon DEF WaitReaps

\* sys_exit, when the process that ends is the current one, changes states only.
LEMMA AfterExitFacts ==
    ASSUME IInv, NEW faulted \in BOOLEAN
    PROVE  /\ AfterExit(faulted) \in [Slot -> Pcb]
           /\ \A s \in Slot :
                /\ AfterExit(faulted)[s].used = g_pcbs[s].used
                /\ AfterExit(faulted)[s].pid = g_pcbs[s].pid
                /\ AfterExit(faulted)[s].parent = g_pcbs[s].parent
                /\ AfterExit(faulted)[s].state = g_pcbs[s].state \/ AfterExit(faulted)[s].state \in Reapable
<1>1. "EXITED" \in Reapable
  BY DEF Reapable
<1>2. AfterExit(faulted) = g_pcbs \/ AfterExit(faulted) = Finish(g_pcbs, g_current_pid, "EXITED")
  BY DEF AfterExit
<1> QED
  BY <1>1, <1>2, TableFacts, FinishFacts

\* The end of a program: its PCB, if it still has one, is no longer RUNNING.
LEMMA ProgramEndsStep ==
    ASSUME IInv, NEW faulted \in BOOLEAN, ProgramEnds(faulted)
    PROVE  IInv'
<1> DEFINE a  == AfterExit(faulted)
           st == IF faulted THEN "ABORTED" ELSE "EXITED"
<1>1. /\ stack # <<>> /\ stack' = Pop /\ g_pcbs' = Finish(a, Top.pid, st)
      /\ UNCHANGED <<g_pcb_pool, g_next_pid>>
  BY DEF ProgramEnds
<1>2. st \in Reapable
  BY DEF Reapable
<1>3. /\ a \in [Slot -> Pcb]
      /\ \A s \in Slot : /\ a[s].used = g_pcbs[s].used /\ a[s].pid = g_pcbs[s].pid
                         /\ a[s].state = g_pcbs[s].state \/ a[s].state \in Reapable
  BY AfterExitFacts
<1>4. g_current_pid' \in -1 .. MaxPid
  BY TableFacts, PcbAssumption DEF ProgramEnds, CurrentAfter, NoPid
<1>5. displaced' \subseteq Pid \union {NoPid}
  <2>1. CASE Top.kind = "capture"
    <3>1. Len(stack) # 1
      BY <1>1, <2>1, TableFacts, PopFacts DEF IInv, Frames
    <3>2. Len(Pop) \in DOMAIN Pop
      <4>1. Len(stack) \in Nat /\ Len(stack) >= 2
        <5>1. stack \in Seq(Frame) /\ Len(stack) \in DOMAIN stack
          BY <1>1, TableFacts, PopFacts
        <5>2. DOMAIN stack = 1 .. Len(stack) /\ Len(stack) \in Nat
          BY <5>1
        <5> QED
          BY <3>1, <5>1, <5>2
      <4> QED
        BY <4>1, TableFacts DEF Pop
    <3>3. Pop[Len(Pop)] \in Frame
      BY <1>1, <3>2, TableFacts, PopFacts
    <3> QED
      BY <2>1, <3>3, TableFacts DEF ProgramEnds, Frame
  <2>2. CASE Top.kind # "capture"
    BY <2>2, TableFacts DEF ProgramEnds
  <2> QED
    BY <2>1, <2>2
<1> HIDE DEF a, st
<1>6. /\ g_pcbs' \in [Slot -> Pcb]
      /\ \A s \in Slot : /\ g_pcbs'[s].used = a[s].used /\ g_pcbs'[s].pid = a[s].pid
                         /\ g_pcbs'[s].state = a[s].state \/ g_pcbs'[s].state \in Reapable
  BY <1>1, <1>2, <1>3, FinishFacts
<1>7. \A s \in Slot : a[s].used /\ a[s].pid = Top.pid => g_pcbs'[s].state \in Reapable
  BY <1>1, <1>2, <1>3, TableFacts, FinishEnds, SMTT(40)
<1>8. ASSUME NEW s \in Slot, g_pcbs'[s].used, g_pcbs'[s].state = "RUNNING"
      PROVE  \E k \in DOMAIN stack' : stack'[k].pid = g_pcbs[s].pid
  <2>1. g_pcbs[s].used /\ g_pcbs[s].state = "RUNNING" /\ g_pcbs[s].pid # Top.pid
    BY <1>3, <1>6, <1>7, <1>8, RunningNotReapable
  <2>2. PICK k \in DOMAIN stack : stack[k].pid = g_pcbs[s].pid
    BY <2>1, TableFacts
  <2>3. k # Len(stack)
    BY <1>1, <2>1, <2>2, TableFacts, PopFacts
  <2> QED
    BY <1>1, <2>2, <2>3, TableFacts, PopFacts
<1> QED
  BY <1>1, <1>3, <1>4, <1>5, <1>6, <1>8, TableFacts, PopFacts, NoNewProcess

\* The end of a forked child: sys_waitpid marks the PCB it holds a pointer to and
\* reaps it.
LEMMA ChildEndsStep ==
    ASSUME IInv, NEW faulted \in BOOLEAN, ChildEnds(faulted)
    PROVE  IInv'
<1> DEFINE a == AfterExit(faulted)
           m == [a EXCEPT ![Top.child].state = "ZOMBIE"]
           z == ReapSlot(m, m[Top.caller].pid, m[Top.child].pid)
<1>1. /\ stack # <<>> /\ Top.kind = "child" /\ stack' = Pop
      /\ g_pcbs' = IF z = NoSlot THEN m ELSE [m EXCEPT ![z] = Zero]
      /\ g_pcb_pool' = g_pcb_pool \ {z}
      /\ g_current_pid' = m[Top.caller].pid
      /\ UNCHANGED <<g_next_pid, displaced>>
  BY SMTT(30) DEF ChildEnds
<1>2. /\ a \in [Slot -> Pcb]
      /\ \A s \in Slot : /\ a[s].used = g_pcbs[s].used /\ a[s].pid = g_pcbs[s].pid
                         /\ a[s].state = g_pcbs[s].state \/ a[s].state \in Reapable
  BY AfterExitFacts
<1>3. z = NoSlot \/ z \in Slot
  <2> DEFINE R == {s \in Slot : /\ m[s].used /\ m[s].parent = m[Top.caller].pid
                                /\ m[s].pid = m[Top.child].pid /\ m[s].state \in Reapable}
  <2>1. R \subseteq Slot /\ (R # {} => Smallest(R) \in R)
    BY SmallestIn, Zenon
  <2>2. z = IF R = {} THEN NoSlot ELSE Smallest(R)
    BY DEF ReapSlot
  <2> QED
    BY <2>1, <2>2, ZenonT(30)
<1>4. /\ Top.child \in Slot /\ Top.caller \in Slot
      /\ \A s \in Slot : g_pcbs[s].used /\ g_pcbs[s].pid = Top.pid => s = Top.child
  BY <1>1, TableFacts, PopFacts DEF IInv, Frames
<1>5. m = [a EXCEPT ![Top.child].state = "ZOMBIE"]
  OBVIOUS
<1> HIDE DEF a, m, z
<1>6. /\ m \in [Slot -> Pcb]
      /\ \A s \in Slot : /\ m[s].used = a[s].used /\ m[s].pid = a[s].pid
                         /\ m[s].state = IF s = Top.child THEN "ZOMBIE" ELSE a[s].state
  BY <1>2, <1>4, <1>5 DEF Pcb, Reapable
<1>7. /\ g_pcbs' \in [Slot -> Pcb]
      /\ \A s \in Slot : g_pcbs'[s].used => s # z /\ g_pcbs'[s] = m[s]
  BY <1>1, <1>3, <1>6, SlotNumbers, ZeroFacts
<1>8. ASSUME NEW s \in Slot, g_pcbs'[s].used, g_pcbs'[s].state = "RUNNING"
      PROVE  \E k \in DOMAIN stack' : stack'[k].pid = g_pcbs[s].pid
  <2>1. s # Top.child /\ g_pcbs[s].used /\ g_pcbs[s].state = "RUNNING"
    BY <1>2, <1>6, <1>7, <1>8, RunningNotReapable
  <2>2. g_pcbs[s].pid # Top.pid
    BY <1>4, <2>1
  <2>3. PICK k \in DOMAIN stack : stack[k].pid = g_pcbs[s].pid
    BY <2>1, TableFacts
  <2>4. k # Len(stack)
    BY <1>1, <2>2, <2>3, TableFacts, PopFacts
  <2> QED
    BY <1>1, <2>3, <2>4, TableFacts, PopFacts
<1>9. g_current_pid' \in -1 .. MaxPid
  BY <1>1, <1>4, <1>6, PcbAssumption DEF Pcb
<1> QED
  BY <1>1, <1>2, <1>6, <1>7, <1>8, <1>9, TableFacts, PopFacts, NoNewProcess

\* A new process in a claimed slot keeps the invariant: whatever the slot held was
\* not running, and the new id differs from every id in use.
LEMMA NewProcessStep ==
    ASSUME IInv, Claimed # NoSlot, g_next_pid <= MaxPid,
           NEW pcb \in Pcb, pcb.pid = g_next_pid, NewProcess(pcb),
           g_current_pid' \in -1 .. MaxPid, UNCHANGED displaced,
           \/ UNCHANGED stack /\ pcb.state # "RUNNING"
           \/ \E f \in Frame : /\ f.pid = g_next_pid /\ f.kind # "child"
                               /\ f.kind = "capture" => stack # <<>>
                               /\ stack' = Append(stack, f)
    PROVE  IInv'
<1> DEFINE c == Claimed
<1>1. c \in Slot /\ ~(g_pcbs[c].used /\ g_pcbs[c].state = "RUNNING")
  BY ClaimedFacts
<1>2. /\ g_pcbs' = [g_pcbs EXCEPT ![c] = pcb] /\ g_pcb_pool' = g_pcb_pool \union {c}
      /\ g_next_pid' = g_next_pid + 1
  BY DEF NewProcess
<1> HIDE DEF c
<1>3. /\ g_pcbs' \in [Slot -> Pcb]
      /\ \A s \in Slot : g_pcbs'[s] = IF s = c THEN pcb ELSE g_pcbs[s]
  BY <1>1, <1>2, TableFacts
<1>4. g_next_pid \in Nat \ {0} /\ g_next_pid' \in 1 .. MaxPid + 1 /\ MaxPid \in Nat
  BY <1>2, TableFacts, PcbAssumption
<1>5. /\ stack' \in Seq(Frame) /\ DOMAIN stack \subseteq DOMAIN stack'
      /\ \A k \in DOMAIN stack : stack'[k] = stack[k]
      /\ \A k \in DOMAIN stack' \ DOMAIN stack :
           stack'[k].pid = g_next_pid /\ stack'[k].kind # "child" /\ (stack'[k].kind = "capture" => k # 1)
      /\ pcb.state = "RUNNING" => \E k \in DOMAIN stack' : stack'[k].pid = g_next_pid
  <2>1. CASE UNCHANGED stack /\ pcb.state # "RUNNING"
    BY <2>1, TableFacts
  <2>2. ASSUME NEW f \in Frame, f.pid = g_next_pid, f.kind # "child", f.kind = "capture" => stack # <<>>,
               stack' = Append(stack, f)
        PROVE  /\ stack' \in Seq(Frame) /\ DOMAIN stack \subseteq DOMAIN stack'
               /\ \A k \in DOMAIN stack : stack'[k] = stack[k]
               /\ \A k \in DOMAIN stack' \ DOMAIN stack :
                    stack'[k].pid = g_next_pid /\ stack'[k].kind # "child" /\ (stack'[k].kind = "capture" => k # 1)
               /\ pcb.state = "RUNNING" => \E k \in DOMAIN stack' : stack'[k].pid = g_next_pid
    <3>1. /\ stack' \in Seq(Frame) /\ DOMAIN stack' = DOMAIN stack \union {Len(stack) + 1}
          /\ \A k \in DOMAIN stack : stack'[k] = stack[k]
          /\ stack'[Len(stack) + 1] = f
      BY <2>2, TableFacts
    <3>2. f.kind = "capture" => Len(stack) + 1 # 1
      BY <2>2, TableFacts
    <3> QED
      BY <2>2, <3>1, <3>2
  <2> QED
    BY <2>1, <2>2
<1>6. \A s, t \in Slot : g_pcbs'[s].used =>
        /\ g_pcbs'[s].pid \in 1 .. g_next_pid' - 1
        /\ s # t /\ g_pcbs'[t].used => g_pcbs'[s].pid # g_pcbs'[t].pid
  BY <1>2, <1>3, <1>4, TableFacts
<1>7. TypeOK'
  BY <1>1, <1>2, <1>3, <1>4, <1>5, <1>6, TableFacts DEF TypeOK
<1>8. UsedSlotsAreReserved'
  BY <1>2, <1>3, TableFacts DEF UsedSlotsAreReserved
<1>9. RunningIsOnTheStack'
  BY <1>3, <1>5, TableFacts DEF RunningIsOnTheStack
<1>10. Frames'
  <2> SUFFICES ASSUME NEW k \in DOMAIN stack'
               PROVE  /\ stack'[k].kind = "capture" => k # 1
                      /\ stack'[k].pid # NoPid => stack'[k].pid \in 1 .. g_next_pid' - 1
                      /\ stack'[k].kind = "child" =>
                           /\ stack'[k].child \in Slot /\ stack'[k].caller \in Slot
                           /\ \A s \in Slot : g_pcbs'[s].used /\ g_pcbs'[s].pid = stack'[k].pid
                                => s = stack'[k].child
    BY DEF Frames
  <2>1. CASE k \in DOMAIN stack
    <3>1. /\ stack'[k] = stack[k] /\ (stack[k].kind = "capture" => k # 1)
          /\ stack[k].pid # NoPid => stack[k].pid \in 1 .. g_next_pid - 1
          /\ stack[k].kind = "child" =>
               /\ stack[k].child \in Slot /\ stack[k].caller \in Slot
               /\ \A s \in Slot : g_pcbs[s].used /\ g_pcbs[s].pid = stack[k].pid => s = stack[k].child
      BY <1>5, <2>1 DEF IInv, Frames
    <3>2. stack[k].pid # g_next_pid
      BY <1>4, <3>1 DEF NoPid
    <3> QED
      BY <1>2, <1>3, <1>4, <3>1, <3>2
  <2>2. CASE k \notin DOMAIN stack
    BY <1>2, <1>4, <1>5, <2>2
  <2> QED
    BY <2>1, <2>2
<1> QED
  BY <1>7, <1>8, <1>9, <1>10 DEF IInv

\* exec_run_with_flags, for the shell and for SYS_EXEC_CAPTURE.
LEMMA StartProgramStep ==
    ASSUME IInv, NEW kind \in {"exec", "capture"}, kind = "capture" => stack # <<>>, StartProgram(kind)
    PROVE  IInv'
<1>1. CASE Claimed # NoSlot
  <2> DEFINE pcb == [used |-> TRUE, pid |-> g_next_pid, state |-> "RUNNING", parent |-> NoPid,
                     pgid |-> g_next_pid, leader |-> TRUE]
             f   == [kind |-> kind, pid |-> g_next_pid, child |-> NoSlot, caller |-> NoSlot]
  <2>1. /\ g_next_pid <= MaxPid /\ NewProcess(pcb) /\ g_current_pid' = g_next_pid
        /\ stack' = Append(stack, f) /\ UNCHANGED displaced
    BY <1>1 DEF StartProgram
  <2>2. g_next_pid \in 1 .. MaxPid
    BY <2>1, TableFacts, PcbAssumption
  <2>3. pcb \in Pcb /\ pcb.pid = g_next_pid
    BY <2>2, PcbAssumption DEF Pcb, NoPid
  <2>4. f \in Frame /\ f.pid = g_next_pid /\ f.kind = kind
    BY <2>2 DEF Frame, Pid
  <2>5. f.kind # "child" /\ (f.kind = "capture" => stack # <<>>) /\ g_current_pid' \in -1 .. MaxPid
    BY <2>1, <2>2, <2>4, PcbAssumption
  <2> HIDE DEF pcb, f
  <2> QED
    BY <1>1, <2>1, <2>3, <2>4, <2>5, NewProcessStep
<1>2. CASE Claimed = NoSlot
  <2> DEFINE f == [kind |-> kind, pid |-> NoPid, child |-> NoSlot, caller |-> NoSlot]
  <2>1. /\ stack' = Append(stack, f)
        /\ UNCHANGED <<g_pcbs, g_pcb_pool, g_next_pid, g_current_pid, displaced>>
    BY <1>2 DEF StartProgram
  <2>2. f \in Frame /\ f.pid = NoPid /\ f.kind = kind
    BY DEF Frame
  <2> HIDE DEF f
  <2>3. /\ stack' \in Seq(Frame) /\ DOMAIN stack' = DOMAIN stack \union {Len(stack) + 1}
        /\ \A k \in DOMAIN stack : stack'[k] = stack[k]
        /\ stack'[Len(stack) + 1] = f
    BY <2>1, <2>2, TableFacts
  <2>4. kind = "capture" => Len(stack) + 1 # 1
    BY TableFacts
  <2>5. TypeOK' /\ UsedSlotsAreReserved'
    BY <2>1, <2>3 DEF IInv, TypeOK, UsedSlotsAreReserved
  <2>6. RunningIsOnTheStack'
    BY <2>1, <2>3 DEF IInv, RunningIsOnTheStack
  <2>7. Frames'
    BY <2>1, <2>2, <2>3, <2>4 DEF IInv, Frames
  <2> QED
    BY <2>5, <2>6, <2>7 DEF IInv
<1> QED
  BY <1>1, <1>2

\* sys_fork: the parent's group is read after the claim may have wiped the parent.
LEMMA ForkStep ==
    ASSUME IInv, NEW ok \in BOOLEAN, Fork(ok)
    PROVE  IInv'
<1> DEFINE wiped  == [g_pcbs EXCEPT ![Claimed] = Zero]
           parent == g_pcbs[Current].pid
           par    == Find(wiped, parent)
           pgid   == IF par # NoSlot THEN wiped[par].pgid ELSE g_next_pid
           pcb    == [used |-> ok, pid |-> g_next_pid, state |-> "READY", parent |-> parent,
                      pgid |-> pgid, leader |-> FALSE]
<1>1. /\ Current # NoSlot /\ Claimed # NoSlot /\ g_next_pid <= MaxPid /\ NewProcess(pcb)
      /\ UNCHANGED <<g_current_pid, stack, displaced>>
  BY DEF Fork
<1>2. g_next_pid \in 1 .. MaxPid
  BY <1>1, TableFacts, PcbAssumption
<1>3. wiped \in [Slot -> Pcb]
  BY TableFacts, ZeroFacts, Zenon
<1>4. parent \in 0 .. MaxPid
  <2>1. Current \in Slot
    BY <1>1, FindFacts DEF Current
  <2> QED
    BY <2>1, TableFacts DEF Pcb
<1>5. par = NoSlot \/ par \in Slot
  BY FindFacts
<1> HIDE DEF wiped, parent, par
<1>6. pgid \in 0 .. MaxPid
  BY <1>2, <1>3, <1>5 DEF Pcb
<1> HIDE DEF pgid
<1>7. pcb \in Pcb /\ pcb.pid = g_next_pid /\ pcb.state = "READY"
  BY <1>2, <1>4, <1>6, PcbAssumption DEF Pcb
<1> HIDE DEF pcb
<1> QED
  BY <1>1, <1>7, TableFacts, NewProcessStep, RunningNotReapable

\* The second pass of sys_waitpid: a child that never ran is started inside the
\* call, or reaped unrun when there is no memory for its context.
LEMMA WaitRunsStep ==
    ASSUME IInv, NEW pid \in Int, NEW ok \in BOOLEAN, WaitRuns(pid, ok)
    PROVE  IInv'
<1> DEFINE c == Smallest(WaitReady(pid))
           f == [kind |-> "child", pid |-> g_pcbs[c].pid, child |-> c, caller |-> Current]
<1>1. WaitReady(pid) # {} /\ WaitReady(pid) \subseteq Slot
  BY DEF WaitRuns, WaitReady, WaitMatches, Children
<1>2. c \in WaitReady(pid)
  BY <1>1, SmallestIn
<1>3. c \in Slot /\ g_pcbs[c].used /\ Current # NoSlot
  BY <1>2 DEF WaitReady, WaitMatches, Children
<1>4. Current \in Slot
  BY <1>3, FindFacts DEF Current
<1>5. CASE ok
  <2>1. /\ g_pcbs' = [g_pcbs EXCEPT ![c].state = "RUNNING"] /\ g_current_pid' = g_pcbs[c].pid
        /\ stack' = Append(stack, f) /\ UNCHANGED <<g_pcb_pool, g_next_pid, displaced>>
    BY <1>5 DEF WaitRuns
  <2>2. g_pcbs[c].pid \in 1 .. g_next_pid - 1 /\ g_pcbs[c].pid \in 1 .. MaxPid
    BY <1>3, TableFacts, PcbAssumption
  <2>3. f \in Frame /\ f.pid = g_pcbs[c].pid /\ f.kind = "child" /\ f.child = c /\ f.caller = Current
    BY <1>3, <1>4, <2>2 DEF Frame, Pid
  <2> HIDE DEF c, f
  <2>4. /\ stack' \in Seq(Frame) /\ DOMAIN stack' = DOMAIN stack \union {Len(stack) + 1}
        /\ \A k \in DOMAIN stack : stack'[k] = stack[k]
        /\ stack'[Len(stack) + 1] = f
    BY <2>1, <2>3, TableFacts
  <2>5. /\ g_pcbs' \in [Slot -> Pcb]
        /\ \A s \in Slot : /\ g_pcbs'[s].used = g_pcbs[s].used /\ g_pcbs'[s].pid = g_pcbs[s].pid
                           /\ s # c => g_pcbs'[s].state = g_pcbs[s].state
    BY <1>3, <2>1, TableFacts, ZenonT(40) DEF Pcb
  <2>6. g_current_pid' \in -1 .. MaxPid
    BY <2>1, <2>2, PcbAssumption
  <2>7. TypeOK'
    BY <2>1, <2>4, <2>5, <2>6 DEF IInv, TypeOK
  <2>8. UsedSlotsAreReserved'
    BY <2>1, <2>5 DEF IInv, UsedSlotsAreReserved
  <2>9. RunningIsOnTheStack'
    BY <2>3, <2>4, <2>5, TableFacts, SMTT(40) DEF RunningIsOnTheStack
  <2>10. Frames'
    BY <1>3, <1>4, <2>1, <2>2, <2>3, <2>4, <2>5, TableFacts, SMTT(40) DEF IInv, Frames
  <2> QED
    BY <2>7, <2>8, <2>9, <2>10 DEF IInv
<1>6. CASE ~ok
  BY <1>3, <1>6, WipeStep DEF WaitRuns
<1> QED
  BY <1>5, <1>6, SMTT(40)

\* pcb_setpgid changes neither ids nor states.
LEMMA SetPgidStep ==
    ASSUME IInv, NEW pid \in Pid, NEW pgid \in Pid, pcb_setpgid(pid, pgid)
    PROVE  IInv'
<1> DEFINE f == Find(g_pcbs, pid)
<1>1. /\ f \in Slot /\ g_pcbs' = [g_pcbs EXCEPT ![f].pgid = pgid]
      /\ UNCHANGED <<g_pcb_pool, g_next_pid, g_current_pid, stack, displaced>>
  BY FindFacts DEF pcb_setpgid
<1> HIDE DEF f
<1>2. pgid \in 0 .. MaxPid
  BY PcbAssumption DEF Pid
<1>3. /\ g_pcbs' \in [Slot -> Pcb]
      /\ \A t \in Slot : /\ g_pcbs'[t].used = g_pcbs[t].used /\ g_pcbs'[t].pid = g_pcbs[t].pid
                         /\ g_pcbs'[t].state = g_pcbs[t].state
  BY <1>1, <1>2, TableFacts, SMTT(40) DEF Pcb
<1> QED
  BY <1>1, <1>3, TableFacts, TableStep

\* pcb_setsid changes neither ids nor states.
LEMMA SetSidStep ==
    ASSUME IInv, pcb_setsid
    PROVE  IInv'
<1> DEFINE f == Current
<1>1. /\ f \in Slot /\ g_pcbs' = [g_pcbs EXCEPT ![f].pgid = g_pcbs[f].pid, ![f].leader = TRUE]
      /\ UNCHANGED <<g_pcb_pool, g_next_pid, g_current_pid, stack, displaced>>
  BY FindFacts DEF pcb_setsid, Current
<1> HIDE DEF f
<1>2. g_pcbs[f].pid \in 0 .. MaxPid
  BY <1>1, TableFacts DEF Pcb
<1>3. /\ g_pcbs' \in [Slot -> Pcb]
      /\ \A t \in Slot : /\ g_pcbs'[t].used = g_pcbs[t].used /\ g_pcbs'[t].pid = g_pcbs[t].pid
                         /\ g_pcbs'[t].state = g_pcbs[t].state
  BY <1>1, <1>2, TableFacts, ZenonT(40) DEF Pcb
<1> QED
  BY <1>1, <1>3, TableFacts, TableStep

\* pcb_init establishes the invariant.
LEMMA InitInv == Init => IInv
<1> SUFFICES ASSUME Init PROVE IInv
  OBVIOUS
<1>1. \A s \in Slot : g_pcbs[s] = Zero /\ ~Zero.used /\ Zero \in Pcb
  BY ZeroFacts DEF Init
<1>2. TypeOK
  BY <1>1, PcbAssumption DEF Init, TypeOK, NoPid
<1>3. UsedSlotsAreReserved /\ RunningIsOnTheStack
  BY <1>1 DEF UsedSlotsAreReserved, RunningIsOnTheStack
<1>4. Frames
  BY DEF Init, Frames
<1> QED
  BY <1>2, <1>3, <1>4 DEF IInv

\* Every operation on processes keeps the invariant.
LEMMA NextInv == IInv /\ [Next]_vars => IInv'
<1> SUFFICES ASSUME IInv, [Next]_vars PROVE IInv'
  OBVIOUS
<1>1. CASE ExecRun
  BY <1>1, StartProgramStep DEF ExecRun
<1>2. CASE ExecCapture
  BY <1>2, StartProgramStep DEF ExecCapture
<1>3. ASSUME NEW ok \in BOOLEAN, Fork(ok) PROVE IInv'
  BY <1>3, ForkStep
<1>4. ASSUME NEW pid \in Pid, Terminate(pid) PROVE IInv'
  BY <1>4, TerminateStep
<1>5. ASSUME NEW faulted \in BOOLEAN, ProgramEnds(faulted) \/ ChildEnds(faulted) PROVE IInv'
  BY <1>5, ProgramEndsStep, ChildEndsStep
<1>6. ASSUME NEW pid \in -MaxPid .. MaxPid, WaitReaps(pid) \/ \E ok \in BOOLEAN : WaitRuns(pid, ok)
      PROVE  IInv'
  <2>1. pid \in Int
    BY PcbAssumption
  <2> QED
    BY <1>6, <2>1, WaitReapsStep, WaitRunsStep
<1>7. ASSUME NEW pid \in Pid, NEW pgid \in Pid, pcb_setpgid(pid, pgid) PROVE IInv'
  BY <1>7, SetPgidStep
<1>8. CASE pcb_setsid
  BY <1>8, SetSidStep
<1>9. CASE UNCHANGED vars
  BY <1>9 DEF vars, IInv, TypeOK, UsedSlotsAreReserved, RunningIsOnTheStack, Frames
<1>10. CASE Next
  BY <1>1, <1>2, <1>3, <1>4, <1>5, <1>6, <1>7, <1>8, <1>10 DEF Next
<1> QED
  BY <1>9, <1>10

\* Types of the process table, and different process ids for all used PCBs, for
\* every table size.
THEOREM TypeCorrect == Spec => []TypeOK
<1>1. IInv => TypeOK
  BY DEF IInv
<1> QED
  BY <1>1, InitInv, NextInv, PTL DEF Spec

\* A PCB in use has its slot reserved: pcb_claim_slot never takes the slot of an
\* existing process for a free one, however programs nest and end.
THEOREM SlotsReserved == Spec => []UsedSlotsAreReserved
<1>1. IInv => UsedSlotsAreReserved
  BY DEF IInv
<1> QED
  BY <1>1, InitInv, NextInv, PTL DEF Spec

\* Nothing but a call in progress keeps a PCB from being recycled: whatever was
\* terminated, faulted, orphaned or left unreaped, a RUNNING PCB belongs to a call
\* that has not returned.
THEOREM RunningOnStack == Spec => []RunningIsOnTheStack
<1>1. IInv => RunningIsOnTheStack
  BY DEF IInv
<1> QED
  BY <1>1, InitInv, NextInv, PTL DEF Spec

-----------------------------------------------------------------------------
(* Nesting.  Process ids grow with the depth of the calls: a child is younger *)
(* than its parent, and the process that becomes current is never older than  *)
(* a call in progress, even when the PCB that sys_waitpid returns to was       *)
(* recycled meanwhile, since whatever took the slot is younger still.          *)

\* A process that exists has a state, and a parent older than itself.
Lineage == \A s \in Slot : g_pcbs[s].used => g_pcbs[s].state # "FREE" /\ g_pcbs[s].parent < g_pcbs[s].pid

\* The current process is not older than any call in progress.
Latest == g_current_pid <= 0 \/ \A k \in DOMAIN stack : stack[k].pid <= g_current_pid

\* Only the shell's program is outermost and only a caller waits for a child.  The PCB
\* that sys_waitpid returns to is the one of the program that waits, as long as that
\* program runs as the current process; whatever it holds is not older than the calls
\* that remain.
Callers ==
    \A k \in DOMAIN stack :
      /\ stack[k].kind = "exec" => k = 1
      /\ stack[k].kind = "child" =>
           /\ k # 1
           /\ \/ g_pcbs[stack[k].caller].pid = 0
              \/ \A j \in 1 .. k - 1 : stack[j].pid <= g_pcbs[stack[k].caller].pid
           /\ stack[k - 1].pid \notin displaced \union {NoPid} =>
                \A s \in Slot : /\ g_pcbs[s].used /\ g_pcbs[s].state = "RUNNING"
                                /\ g_pcbs[s].pid = stack[k - 1].pid
                  => s = stack[k].caller

\* ExecutingIsCurrent, slot by slot.
Executes ==
    stack # <<>> /\ Top.pid \notin displaced \union {NoPid} =>
      \A s \in Slot : g_pcbs[s].used /\ g_pcbs[s].state = "RUNNING" /\ g_pcbs[s].pid = Top.pid
        => g_current_pid = Top.pid

\* The inductive invariant of the nesting.
NInv == IInv /\ Lineage /\ Latest /\ Callers /\ Executes

\* A step after which no process runs that did not run before.
NoneStarts ==
    \A s \in Slot :
      /\ g_pcbs'[s].pid = g_pcbs[s].pid \/ g_pcbs'[s].pid = 0
      /\ g_pcbs'[s].used =>
           /\ g_pcbs[s].used /\ g_pcbs'[s].pid = g_pcbs[s].pid /\ g_pcbs'[s].parent = g_pcbs[s].parent
           /\ g_pcbs'[s].state = g_pcbs[s].state \/ g_pcbs'[s].state \in Reapable

\* Lineage and the callers survive every step that starts no process, also one
\* that takes the innermost call away.
LEMMA LineageStep ==
    ASSUME NInv, NoneStarts
    PROVE  Lineage'
<1>1. "FREE" \notin Reapable
  BY DEF Reapable
<1> QED
  BY <1>1 DEF NInv, NoneStarts, Lineage

\* See LineageStep.
LEMMA CallersStep ==
    ASSUME NInv, NoneStarts, displaced \subseteq displaced', stack' \in Seq(Frame),
           \A k \in DOMAIN stack' : k \in DOMAIN stack /\ stack'[k] = stack[k]
    PROVE  Callers'
<1> SUFFICES ASSUME NEW k \in DOMAIN stack'
             PROVE  /\ stack'[k].kind = "exec" => k = 1
                    /\ stack'[k].kind = "child" =>
                         /\ k # 1
                         /\ \/ g_pcbs'[stack'[k].caller].pid = 0
                            \/ \A j \in 1 .. k - 1 : stack'[j].pid <= g_pcbs'[stack'[k].caller].pid
                         /\ stack'[k - 1].pid \notin displaced' \union {NoPid} =>
                              \A s \in Slot : /\ g_pcbs'[s].used /\ g_pcbs'[s].state = "RUNNING"
                                              /\ g_pcbs'[s].pid = stack'[k - 1].pid
                                => s = stack'[k].caller
  BY DEF Callers
<1>1. k \in DOMAIN stack /\ stack'[k] = stack[k]
  OBVIOUS
<1>2. /\ stack[k].kind = "exec" => k = 1
      /\ stack[k].kind = "child" =>
           /\ k # 1 /\ stack[k].caller \in Slot
           /\ \/ g_pcbs[stack[k].caller].pid = 0
              \/ \A j \in 1 .. k - 1 : stack[j].pid <= g_pcbs[stack[k].caller].pid
           /\ stack[k - 1].pid \notin displaced \union {NoPid} =>
                \A s \in Slot : /\ g_pcbs[s].used /\ g_pcbs[s].state = "RUNNING"
                                /\ g_pcbs[s].pid = stack[k - 1].pid
                  => s = stack[k].caller
  BY <1>1, SMTT(40) DEF NInv, Callers, IInv, Frames
<1>3. CASE stack[k].kind # "child"
  BY <1>1, <1>2, <1>3
<1>4. CASE stack[k].kind = "child"
  <2>1. k \in 1 .. Len(stack') /\ k # 1 /\ DOMAIN stack' = 1 .. Len(stack') /\ Len(stack') \in Nat
    BY <1>2, <1>4
  <2>2. k - 1 \in DOMAIN stack' /\ \A j \in 1 .. k - 1 : j \in DOMAIN stack'
    BY <2>1
  <2>3. stack'[k - 1] = stack[k - 1] /\ \A j \in 1 .. k - 1 : stack'[j] = stack[j]
    BY <2>2
  <2>4. \/ g_pcbs'[stack'[k].caller].pid = 0
        \/ \A j \in 1 .. k - 1 : stack'[j].pid <= g_pcbs'[stack'[k].caller].pid
    BY <1>1, <1>2, <1>4, <2>3 DEF NoneStarts
  <2>5. ASSUME stack'[k - 1].pid \notin displaced' \union {NoPid}, NEW s \in Slot,
               g_pcbs'[s].used, g_pcbs'[s].state = "RUNNING", g_pcbs'[s].pid = stack'[k - 1].pid
        PROVE  s = stack'[k].caller
    <3>1. g_pcbs[s].used /\ g_pcbs[s].state = "RUNNING" /\ g_pcbs[s].pid = stack[k - 1].pid
      BY <2>3, <2>5, RunningNotReapable DEF NoneStarts
    <3> QED
      BY <1>1, <1>2, <1>4, <2>3, <2>5, <3>1
  <2> QED
    BY <1>1, <1>2, <1>4, <2>1, <2>4, <2>5
<1> QED
  BY <1>3, <1>4

\* A step that leaves the calls alone and starts no process keeps the nesting; a
\* current process that loses its place is not running any more.
LEMMA QuietStep ==
    ASSUME NInv, IInv', NoneStarts, UNCHANGED <<stack, displaced>>,
           \/ g_current_pid' = g_current_pid
           \/ /\ g_current_pid' = NoPid
              /\ \A s \in Slot : g_pcbs'[s].used /\ g_pcbs'[s].state = "RUNNING"
                                   => g_pcbs'[s].pid # g_current_pid
    PROVE  NInv'
<1>1. Lineage' /\ Callers'
  BY LineageStep, CallersStep, TableFacts DEF NInv
<1>2. Latest'
  BY DEF NInv, Latest, NoPid
<1>3. Executes'
  <2> SUFFICES ASSUME stack # <<>>, Top.pid \notin displaced \union {NoPid}, NEW s \in Slot,
                      g_pcbs'[s].used, g_pcbs'[s].state = "RUNNING", g_pcbs'[s].pid = Top.pid
               PROVE  g_current_pid' = Top.pid
    BY DEF Executes, Top
  <2>1. g_pcbs[s].used /\ g_pcbs[s].state = "RUNNING" /\ g_pcbs[s].pid = Top.pid
    BY RunningNotReapable DEF NoneStarts
  <2>2. g_current_pid = Top.pid
    BY <2>1 DEF NInv, Executes
  <2> QED
    BY <2>2
<1> QED
  BY <1>1, <1>2, <1>3 DEF NInv

\* SYS_PROCESS_TERMINATE: when the current process is the one terminated there is
\* none afterwards, and its PCB is marked aborted.
LEMMA TerminateNests ==
    ASSUME NInv, IInv', NEW pid \in Pid, Terminate(pid)
    PROVE  NInv'
<1>1. /\ g_pcbs' = Finish(g_pcbs, pid, "ABORTED") /\ UNCHANGED <<stack, displaced>>
      /\ g_current_pid' = IF g_current_pid = pid THEN NoPid ELSE g_current_pid
      /\ "ABORTED" \in Reapable
  BY DEF Terminate, CurrentAfter, Reapable
<1>2. NoneStarts
  BY <1>1, TableFacts, FinishFacts DEF NInv, NoneStarts
<1>3. \A s \in Slot : g_pcbs[s].used /\ g_pcbs[s].pid = pid => g_pcbs'[s].state = "ABORTED"
  BY <1>1, TableFacts, FinishEnds DEF NInv
<1>4. \A s \in Slot : g_pcbs'[s].used /\ g_pcbs'[s].state = "RUNNING" => g_pcbs'[s].pid # pid
  BY <1>1, <1>2, <1>3, RunningNotReapable DEF NoneStarts
<1> QED
  BY <1>1, <1>2, <1>4, QuietStep

\* Freeing a slot.
LEMMA WipeNests ==
    ASSUME NInv, IInv', NEW c \in Slot, g_pcbs' = [g_pcbs EXCEPT ![c] = Zero],
           UNCHANGED <<g_current_pid, stack, displaced>>
    PROVE  NInv'
<1>1. ~Zero.used /\ Zero.pid = 0
  BY DEF Zero
<1>2. NoneStarts
  BY <1>1, TableFacts DEF NInv, NoneStarts
<1> QED
  BY <1>2, QuietStep

\* The first pass of sys_waitpid.
LEMMA WaitReapsNests ==
    ASSUME NInv, IInv', NEW pid \in Int, WaitReaps(pid)
    PROVE  NInv'
<1>1. WaitDone(pid) # {} /\ WaitDone(pid) \subseteq Slot
  BY DEF WaitReaps, WaitDone, WaitMatches, Children
<1>2. Smallest(WaitDone(pid)) \in Slot
  BY <1>1, SmallestIn
<1> QED
  BY <1>2, WipeNests, Zenon DEF WaitReaps

\* pcb_setpgid
LEMMA SetPgidNests ==
    ASSUME NInv, IInv', NEW pid \in Pid, NEW pgid \in Pid, pcb_setpgid(pid, pgid)
    PROVE  NInv'
<1> DEFINE f == Find(g_pcbs, pid)
<1>1. /\ f \in Slot /\ g_pcbs' = [g_pcbs EXCEPT ![f].pgid = pgid]
      /\ UNCHANGED <<g_current_pid, stack, displaced>>
  BY FindFacts DEF pcb_setpgid
<1> HIDE DEF f
<1>2. NoneStarts
  BY <1>1, TableFacts, SMTT(40) DEF NInv, NoneStarts, Pcb
<1> QED
  BY <1>1, <1>2, QuietStep

\* pcb_setsid
LEMMA SetSidNests ==
    ASSUME NInv, IInv', pcb_setsid
    PROVE  NInv'
<1> DEFINE f == Current
<1>1. /\ f \in Slot /\ g_pcbs' = [g_pcbs EXCEPT ![f].pgid = g_pcbs[f].pid, ![f].leader = TRUE]
      /\ UNCHANGED <<g_current_pid, stack, displaced>>
  BY FindFacts DEF pcb_setsid, Current
<1> HIDE DEF f
<1>2. NoneStarts
  BY <1>1, TableFacts, SMTT(40) DEF NInv, NoneStarts, Pcb
<1> QED
  BY <1>1, <1>2, QuietStep

\* The end of a program: the shell's leaves no call behind, and a captured one
\* leaves a caller whose displacement is recorded.
LEMMA ProgramEndsNests ==
    ASSUME NInv, IInv', NEW faulted \in BOOLEAN, ProgramEnds(faulted)
    PROVE  NInv'
<1> DEFINE a  == AfterExit(faulted)
           st == IF faulted THEN "ABORTED" ELSE "EXITED"
<1>1. /\ stack # <<>> /\ Top.kind # "child" /\ stack' = Pop /\ g_pcbs' = Finish(a, Top.pid, st)
      /\ g_current_pid' = g_current_pid \/ g_current_pid' = NoPid
      /\ Top.kind = "capture" => displaced' = displaced \union {Pop[Len(Pop)].pid}
      /\ Top.kind # "capture" => displaced' = displaced
  BY DEF ProgramEnds, CurrentAfter
<1>2. st \in Reapable
  BY DEF Reapable
<1>3. /\ a \in [Slot -> Pcb]
      /\ \A s \in Slot : /\ a[s].used = g_pcbs[s].used /\ a[s].pid = g_pcbs[s].pid
                         /\ a[s].parent = g_pcbs[s].parent
                         /\ a[s].state = g_pcbs[s].state \/ a[s].state \in Reapable
  BY AfterExitFacts DEF NInv
<1> HIDE DEF a, st
<1>4. NoneStarts
  BY <1>1, <1>2, <1>3, FinishFacts, SMTT(40) DEF NoneStarts
<1>5. /\ stack \in Seq(Frame) /\ Pop \in Seq(Frame)
      /\ \A k \in DOMAIN Pop : k \in DOMAIN stack /\ Pop[k] = stack[k]
      /\ Top \in Frame /\ Len(stack) \in DOMAIN stack /\ Top = stack[Len(stack)]
  BY <1>1, TableFacts, PopFacts DEF NInv
<1>6. Lineage' /\ Callers'
  BY <1>1, <1>4, <1>5, LineageStep, CallersStep
<1>7. Latest'
  BY <1>1, <1>5 DEF NInv, Latest, NoPid
<1>8. Executes'
  <2>1. CASE Top.kind = "capture"
    BY <1>1, <2>1 DEF Executes, Top
  <2>2. CASE Top.kind = "exec"
    <3>1. Len(stack) = 1
      BY <1>5, <2>2, ZenonT(40) DEF NInv, Callers
    <3>2. Pop = <<>>
      BY <1>5, <3>1 DEF Pop
    <3> QED
      BY <1>1, <3>2 DEF Executes
  <2> QED
    BY <1>1, <1>5, <2>1, <2>2 DEF Frame
<1> QED
  BY <1>6, <1>7, <1>8 DEF NInv

\* The end of a forked child: the PCB that sys_waitpid returns to is the one of the
\* program that goes on, if that still runs.
LEMMA ChildEndsNests ==
    ASSUME NInv, IInv', NEW faulted \in BOOLEAN, ChildEnds(faulted)
    PROVE  NInv'
<1> DEFINE a == AfterExit(faulted)
           m == [a EXCEPT ![Top.child].state = "ZOMBIE"]
           z == ReapSlot(m, m[Top.caller].pid, m[Top.child].pid)
<1>1. /\ stack # <<>> /\ Top.kind = "child" /\ stack' = Pop
      /\ g_pcbs' = IF z = NoSlot THEN m ELSE [m EXCEPT ![z] = Zero]
      /\ g_current_pid' = m[Top.caller].pid
      /\ UNCHANGED displaced
  BY SMTT(30) DEF ChildEnds
<1>2. /\ a \in [Slot -> Pcb]
      /\ \A s \in Slot : /\ a[s].used = g_pcbs[s].used /\ a[s].pid = g_pcbs[s].pid
                         /\ a[s].parent = g_pcbs[s].parent
                         /\ a[s].state = g_pcbs[s].state \/ a[s].state \in Reapable
  BY AfterExitFacts DEF NInv
<1>3. /\ stack \in Seq(Frame) /\ Pop \in Seq(Frame)
      /\ \A k \in DOMAIN Pop : k \in DOMAIN stack /\ Pop[k] = stack[k]
      /\ Len(stack) \in DOMAIN stack /\ Top = stack[Len(stack)]
  BY <1>1, TableFacts, PopFacts DEF NInv
<1>4. Top.child \in Slot /\ Top.caller \in Slot
  BY <1>1, <1>3 DEF NInv, IInv, Frames
<1>5. m = [a EXCEPT ![Top.child].state = "ZOMBIE"]
  OBVIOUS
<1> HIDE DEF a, m, z
<1>6. /\ m \in [Slot -> Pcb]
      /\ \A s \in Slot : /\ m[s].used = a[s].used /\ m[s].pid = a[s].pid /\ m[s].parent = a[s].parent
                         /\ m[s].state = a[s].state \/ m[s].state \in Reapable
  BY <1>2, <1>4, <1>5 DEF Pcb, Reapable
<1>7. \A s \in Slot : g_pcbs'[s] = m[s] \/ (~g_pcbs'[s].used /\ g_pcbs'[s].pid = 0)
  BY <1>1, <1>6 DEF Zero
<1>8. NoneStarts
  BY <1>2, <1>6, <1>7 DEF NoneStarts
<1>9. Lineage' /\ Callers'
  BY <1>1, <1>3, <1>8, LineageStep, CallersStep
<1>10. /\ Len(stack) # 1
       /\ \/ g_pcbs[Top.caller].pid = 0
          \/ \A j \in 1 .. Len(stack) - 1 : stack[j].pid <= g_pcbs[Top.caller].pid
       /\ stack[Len(stack) - 1].pid \notin displaced \union {NoPid} =>
            \A s \in Slot : /\ g_pcbs[s].used /\ g_pcbs[s].state = "RUNNING"
                            /\ g_pcbs[s].pid = stack[Len(stack) - 1].pid
              => s = Top.caller
  BY <1>1, <1>3 DEF NInv, Callers
<1>11. /\ DOMAIN Pop = 1 .. Len(stack) - 1 /\ Len(Pop) = Len(stack) - 1 /\ Len(stack) \in Nat
       /\ Len(stack) >= 2
  <2>1. DOMAIN stack = 1 .. Len(stack) /\ Len(stack) \in Nat
    BY <1>3
  <2>2. Len(stack) >= 2
    BY <1>3, <1>10, <2>1, SMTT(40)
  <2> QED
    BY <1>3, <2>1, <2>2 DEF Pop
<1>12. g_current_pid' = g_pcbs[Top.caller].pid
  BY <1>1, <1>2, <1>4, <1>6
<1>13. Latest'
  <2>1. CASE g_pcbs[Top.caller].pid = 0
    BY <1>12, <2>1 DEF Latest
  <2>2. CASE \A j \in 1 .. Len(stack) - 1 : stack[j].pid <= g_pcbs[Top.caller].pid
    BY <1>1, <1>3, <1>11, <1>12, <2>2 DEF Latest
  <2> QED
    BY <1>10, <2>1, <2>2
<1>14. Executes'
  <2> DEFINE t == stack[Len(stack) - 1]
  <2>1. Pop[Len(Pop)] = t
    BY <1>3, <1>11
  <2> HIDE DEF t
  <2>2. ASSUME t.pid \notin displaced \union {NoPid}, NEW s \in Slot,
               g_pcbs'[s].used, g_pcbs'[s].state = "RUNNING", g_pcbs'[s].pid = t.pid
        PROVE  g_current_pid' = t.pid
    <3>1. g_pcbs[s].used /\ g_pcbs[s].state = "RUNNING" /\ g_pcbs[s].pid = t.pid
      BY <1>8, <2>2, RunningNotReapable DEF NoneStarts
    <3>2. s = Top.caller
      BY <1>10, <2>2, <3>1 DEF t
    <3> QED
      BY <1>12, <3>1, <3>2
  <2> QED
    BY <1>1, <2>1, <2>2 DEF Executes, Top
<1> QED
  BY <1>9, <1>13, <1>14 DEF NInv

\* What a new process finds: every call in progress, and every process, is older.
LEMMA Younger ==
    ASSUME NInv
    PROVE  /\ g_next_pid \in Nat \ {0}
           /\ \A k \in DOMAIN stack : stack[k].pid \in Int /\ stack[k].pid < g_next_pid
           /\ \A s \in Slot : g_pcbs[s].used => g_pcbs[s].pid \in Nat /\ g_pcbs[s].pid < g_next_pid
<1>1. g_next_pid \in Nat \ {0}
  BY TableFacts, PcbAssumption DEF NInv
<1>2. \A k \in DOMAIN stack : stack[k].pid \in Int /\ stack[k].pid < g_next_pid
  BY <1>1 DEF NInv, IInv, Frames, NoPid
<1>3. \A s \in Slot : g_pcbs[s].used => g_pcbs[s].pid \in Nat /\ g_pcbs[s].pid < g_next_pid
  BY <1>1, TableFacts DEF NInv
<1> QED
  BY <1>1, <1>2, <1>3

\* A new process, in whatever slot it was put, leaves the callers in order.
LEMMA NewProcessCallers ==
    ASSUME NInv, Claimed # NoSlot, NEW pcb \in Pcb, pcb.pid = g_next_pid, NewProcess(pcb),
           UNCHANGED displaced,
           \/ UNCHANGED stack
           \/ \E f \in Frame : /\ f.kind # "child" /\ (f.kind = "exec" => stack = <<>>)
                               /\ stack' = Append(stack, f)
    PROVE  Callers'
<1> DEFINE c == Claimed
<1>1. c \in Slot
  BY ClaimedFacts DEF NInv
<1>2. g_pcbs' = [g_pcbs EXCEPT ![c] = pcb]
  BY DEF NewProcess
<1> HIDE DEF c
<1>3. \A s \in Slot : g_pcbs'[s] = IF s = c THEN pcb ELSE g_pcbs[s]
  BY <1>1, <1>2, TableFacts DEF NInv
<1>4. stack \in Seq(Frame) /\ DOMAIN stack = 1 .. Len(stack) /\ Len(stack) \in Nat
  BY TableFacts DEF NInv
<1>5. /\ \A k \in DOMAIN stack : stack'[k] = stack[k]
      /\ \A k \in DOMAIN stack' \ DOMAIN stack :
           stack'[k].kind # "child" /\ (stack'[k].kind = "exec" => k = 1)
  <2>1. CASE UNCHANGED stack
    BY <2>1
  <2>2. ASSUME NEW f \in Frame, f.kind # "child", f.kind = "exec" => stack = <<>>, stack' = Append(stack, f)
        PROVE  /\ \A k \in DOMAIN stack : stack'[k] = stack[k]
               /\ \A k \in DOMAIN stack' \ DOMAIN stack :
                    stack'[k].kind # "child" /\ (stack'[k].kind = "exec" => k = 1)
    <3>1. /\ DOMAIN stack' = DOMAIN stack \union {Len(stack) + 1}
          /\ \A k \in DOMAIN stack : stack'[k] = stack[k]
          /\ stack'[Len(stack) + 1] = f
      <4>1. stack \in Seq(Frame)
        BY <1>4
      <4> QED
        BY <2>2, <4>1
    <3>2. f.kind = "exec" => Len(stack) + 1 = 1
      BY <2>2
    <3> QED
      BY <2>2, <3>1, <3>2
  <2> QED
    BY <2>1, <2>2
<1>6. ASSUME NEW k \in DOMAIN stack', k \in DOMAIN stack, stack'[k].kind = "child"
      PROVE  /\ k # 1
             /\ \/ g_pcbs'[stack'[k].caller].pid = 0
                \/ \A j \in 1 .. k - 1 : stack'[j].pid <= g_pcbs'[stack'[k].caller].pid
             /\ stack'[k - 1].pid \notin displaced' \union {NoPid} =>
                  \A s \in Slot : /\ g_pcbs'[s].used /\ g_pcbs'[s].state = "RUNNING"
                                  /\ g_pcbs'[s].pid = stack'[k - 1].pid
                    => s = stack'[k].caller
  <2>1. /\ stack'[k] = stack[k] /\ k # 1 /\ stack[k].caller \in Slot
        /\ \/ g_pcbs[stack[k].caller].pid = 0
           \/ \A j \in 1 .. k - 1 : stack[j].pid <= g_pcbs[stack[k].caller].pid
        /\ stack[k - 1].pid \notin displaced \union {NoPid} =>
             \A s \in Slot : /\ g_pcbs[s].used /\ g_pcbs[s].state = "RUNNING"
                             /\ g_pcbs[s].pid = stack[k - 1].pid
               => s = stack[k].caller
    BY <1>5, <1>6 DEF NInv, Callers, IInv, Frames
  <2>2. k - 1 \in DOMAIN stack /\ \A j \in 1 .. k - 1 : j \in DOMAIN stack
    BY <1>4, <1>6, <2>1
  <2>3. stack'[k - 1] = stack[k - 1] /\ \A j \in 1 .. k - 1 : stack'[j] = stack[j]
    BY <1>5, <2>2
  <2>4. \A j \in 1 .. k - 1 : stack[j].pid <= g_next_pid /\ stack[k - 1].pid # g_next_pid
    BY <2>2, Younger
  <2>5. \/ g_pcbs'[stack'[k].caller].pid = 0
        \/ \A j \in 1 .. k - 1 : stack'[j].pid <= g_pcbs'[stack'[k].caller].pid
    BY <1>3, <2>1, <2>3, <2>4
  <2>6. ASSUME stack'[k - 1].pid \notin displaced' \union {NoPid}, NEW s \in Slot,
               g_pcbs'[s].used, g_pcbs'[s].state = "RUNNING", g_pcbs'[s].pid = stack'[k - 1].pid
        PROVE  s = stack'[k].caller
    <3>1. stack[k - 1].pid # g_next_pid
      BY <2>2, Younger
    <3>2. s # c
      BY <1>3, <2>3, <2>6, <3>1
    <3> QED
      BY <1>3, <2>1, <2>3, <2>6, <3>2
  <2> QED
    BY <2>1, <2>5, <2>6
<1>7. \A k \in DOMAIN stack : stack[k].kind = "exec" => k = 1
  BY DEF NInv, Callers
<1> QED
  BY <1>5, <1>6, <1>7 DEF Callers

\* exec_run_with_flags: the new program is the current process, or has none.
LEMMA StartProgramNests ==
    ASSUME NInv, IInv', NEW kind \in {"exec", "capture"}, kind = "exec" => stack = <<>>, StartProgram(kind)
    PROVE  NInv'
<1>1. CASE Claimed # NoSlot
  <2> DEFINE pcb == [used |-> TRUE, pid |-> g_next_pid, state |-> "RUNNING", parent |-> NoPid,
                     pgid |-> g_next_pid, leader |-> TRUE]
             f   == [kind |-> kind, pid |-> g_next_pid, child |-> NoSlot, caller |-> NoSlot]
  <2>1. /\ g_next_pid <= MaxPid /\ NewProcess(pcb) /\ g_current_pid' = g_next_pid
        /\ stack' = Append(stack, f) /\ UNCHANGED displaced
    BY <1>1 DEF StartProgram
  <2>2. g_next_pid \in 1 .. MaxPid
    BY <2>1, TableFacts, PcbAssumption DEF NInv
  <2>3. /\ pcb \in Pcb /\ pcb.pid = g_next_pid /\ pcb.state = "RUNNING" /\ pcb.parent = -1
    BY <2>2, PcbAssumption DEF Pcb, NoPid
  <2>4. f \in Frame /\ f.pid = g_next_pid /\ f.kind = kind
    BY <2>2 DEF Frame, Pid
  <2>5. Claimed \in Slot /\ g_pcbs' = [g_pcbs EXCEPT ![Claimed] = pcb]
    BY <1>1, <2>1, ClaimedFacts DEF NInv, NewProcess
  <2> HIDE DEF pcb, f
  <2>6. Callers'
    BY <1>1, <2>1, <2>3, <2>4, NewProcessCallers
  <2>7. Lineage'
    BY <2>2, <2>3, <2>5, TableFacts DEF NInv, Lineage
  <2>8. stack \in Seq(Frame)
    BY TableFacts DEF NInv
  <2>9. /\ Len(stack') = Len(stack) + 1 /\ DOMAIN stack' = DOMAIN stack \union {Len(stack) + 1}
        /\ \A k \in DOMAIN stack : stack'[k] = stack[k]
        /\ stack'[Len(stack) + 1] = f
    BY <2>1, <2>4, <2>8
  <2>10. Latest'
    BY <2>1, <2>4, <2>9, Younger DEF Latest
  <2>11. Executes'
    BY <2>1, <2>4, <2>9 DEF Executes, Top
  <2> QED
    BY <2>6, <2>7, <2>10, <2>11 DEF NInv
<1>2. CASE Claimed = NoSlot
  <2> DEFINE f == [kind |-> kind, pid |-> NoPid, child |-> NoSlot, caller |-> NoSlot]
  <2>1. /\ stack' = Append(stack, f)
        /\ UNCHANGED <<g_pcbs, g_pcb_pool, g_next_pid, g_current_pid, displaced>>
    BY <1>2 DEF StartProgram
  <2>2. f.pid = NoPid /\ f.kind = kind /\ f \in Frame
    BY DEF Frame
  <2> HIDE DEF f
  <2>3. stack \in Seq(Frame) /\ g_current_pid \in Int
    BY TableFacts, PcbAssumption DEF NInv
  <2>4. /\ Len(stack') = Len(stack) + 1 /\ DOMAIN stack' = DOMAIN stack \union {Len(stack) + 1}
        /\ \A k \in DOMAIN stack : stack'[k] = stack[k]
        /\ stack'[Len(stack) + 1] = f
        /\ DOMAIN stack = 1 .. Len(stack) /\ Len(stack) \in Nat
    BY <2>1, <2>2, <2>3
  <2>5. kind = "exec" => Len(stack) + 1 = 1
    BY <2>3
  <2>6. Lineage' /\ Latest'
    BY <2>1, <2>2, <2>3, <2>4 DEF NInv, Lineage, Latest, NoPid
  <2>7. Executes'
    BY <2>2, <2>4 DEF Executes, Top
  <2>8. Callers'
    <3>1. \A k \in DOMAIN stack : stack[k].kind = "child" => k # 1
      BY DEF NInv, Callers
    <3>2. \A k \in DOMAIN stack : k # 1 => k - 1 \in DOMAIN stack /\ \A j \in 1 .. k - 1 : j \in DOMAIN stack
      BY <2>4
    <3>3. \A k \in DOMAIN stack : stack[k].kind = "child" =>
            /\ stack'[k - 1] = stack[k - 1]
            /\ \A j \in 1 .. k - 1 : stack'[j] = stack[j]
      BY <2>4, <3>1, <3>2
    <3> QED
      BY <2>1, <2>2, <2>4, <2>5, <3>3 DEF NInv, Callers
  <2> QED
    BY <2>6, <2>7, <2>8 DEF NInv
<1> QED
  BY <1>1, <1>2

\* sys_fork: the child is younger than whatever process is current.
LEMMA ForkNests ==
    ASSUME NInv, IInv', NEW ok \in BOOLEAN, Fork(ok)
    PROVE  NInv'
<1> DEFINE wiped  == [g_pcbs EXCEPT ![Claimed] = Zero]
           parent == g_pcbs[Current].pid
           par    == Find(wiped, parent)
           pgid   == IF par # NoSlot THEN wiped[par].pgid ELSE g_next_pid
           pcb    == [used |-> ok, pid |-> g_next_pid, state |-> "READY", parent |-> parent,
                      pgid |-> pgid, leader |-> FALSE]
<1>1. /\ Current # NoSlot /\ Claimed # NoSlot /\ g_next_pid <= MaxPid /\ NewProcess(pcb)
      /\ UNCHANGED <<g_current_pid, stack, displaced>>
  BY DEF Fork
<1>2. /\ Claimed \in Slot /\ g_pcbs \in [Slot -> Pcb]
      /\ g_pcbs' = [g_pcbs EXCEPT ![Claimed] = pcb]
  BY <1>1, ClaimedFacts, TableFacts DEF NInv, NewProcess
<1>3. pcb.pid = g_next_pid /\ pcb.state = "READY" /\ pcb.parent = parent
  OBVIOUS
<1>4. parent < g_next_pid
  <2>1. Current \in Slot /\ g_pcbs[Current].used
    BY <1>1, FindFacts DEF Current
  <2> QED
    BY <2>1, Younger
<1>5. pcb \in Pcb
  <2>1. g_pcbs' \in [Slot -> Pcb]
    BY DEF IInv, TypeOK
  <2> HIDE DEF pcb
  <2> QED
    BY <1>2, <2>1
<1> HIDE DEF wiped, parent, par, pgid, pcb
<1>6. Callers'
  BY <1>1, <1>3, <1>5, NewProcessCallers
<1>7. Lineage'
  BY <1>2, <1>3, <1>4 DEF NInv, Lineage
<1>8. Latest'
  BY <1>1 DEF NInv, Latest
<1>9. Executes'
  <2>1. \A s \in Slot : g_pcbs'[s].used /\ g_pcbs'[s].state = "RUNNING" => g_pcbs'[s] = g_pcbs[s]
    BY <1>2, <1>3, RunningNotReapable
  <2> QED
    BY <1>1, <2>1 DEF NInv, Executes, Top
<1> QED
  BY <1>6, <1>7, <1>8, <1>9 DEF NInv

\* The second pass of sys_waitpid: the child it starts is younger than the calls in
\* progress, so it is none of them, and the PCB to return to is the waiting
\* program's own.
LEMMA WaitRunsNests ==
    ASSUME NInv, IInv', NEW pid \in Int, NEW ok \in BOOLEAN, WaitRuns(pid, ok)
    PROVE  NInv'
<1> DEFINE c == Smallest(WaitReady(pid))
           f == [kind |-> "child", pid |-> g_pcbs[c].pid, child |-> c, caller |-> Current]
<1>1. WaitReady(pid) # {} /\ WaitReady(pid) \subseteq Slot /\ stack # <<>>
  BY DEF WaitRuns, WaitReady, WaitMatches, Children
<1>2. c \in WaitReady(pid)
  BY <1>1, SmallestIn, SMTT(40)
<1>3. /\ c \in Slot /\ g_pcbs[c].used /\ g_pcbs[c].state = "READY" /\ Current # NoSlot
      /\ g_pcbs[c].parent = g_pcbs[Current].pid
  BY <1>2 DEF WaitReady, WaitMatches, Children
<1>4. CASE ~ok
  BY <1>3, <1>4, WipeNests DEF WaitRuns
<1>5. CASE ok
  <2>1. /\ g_pcbs' = [g_pcbs EXCEPT ![c].state = "RUNNING"] /\ g_current_pid' = g_pcbs[c].pid
        /\ stack' = Append(stack, f) /\ UNCHANGED displaced
    BY <1>5 DEF WaitRuns
  <2>2. f.pid = g_pcbs[c].pid /\ f.kind = "child" /\ f.caller = Current
    OBVIOUS
  <2> HIDE DEF c, f
  <2>3. /\ Current \in Slot /\ g_pcbs[Current].used /\ g_pcbs[Current].pid = g_current_pid
        /\ g_current_pid \in Nat \ {0}
    <3>1. /\ Current \in Slot /\ g_pcbs[Current].used /\ g_pcbs[Current].pid = g_current_pid
      BY <1>3, FindFacts DEF Current
    <3> QED
      BY <3>1, TableFacts DEF NInv
  <2>4. g_current_pid < g_pcbs[c].pid /\ g_pcbs[c].pid \in Nat
    BY <1>3, <2>3, Younger DEF NInv, Lineage
  <2>5. \A k \in DOMAIN stack : stack[k].pid \in Int /\ stack[k].pid <= g_current_pid
    BY <2>3, Younger DEF NInv, Latest
  <2>6. \A k \in DOMAIN stack : stack[k].pid < g_pcbs[c].pid
    BY <2>3, <2>4, <2>5, SMTT(40)
  <2>7. /\ stack \in Seq(Frame) /\ g_pcbs \in [Slot -> Pcb] /\ stack' \in Seq(Frame)
    BY TableFacts DEF NInv, IInv, TypeOK
  <2>8. DOMAIN stack = 1 .. Len(stack) /\ Len(stack) \in Nat \ {0}
    BY <1>1, <2>7
  <2>9. /\ Len(stack') = Len(stack) + 1 /\ DOMAIN stack' = DOMAIN stack \union {Len(stack) + 1}
        /\ \A k \in DOMAIN stack : stack'[k] = stack[k]
        /\ stack'[Len(stack) + 1] = f
    BY <2>1, <2>7
  <2>10. \A s \in Slot : /\ g_pcbs'[s].used = g_pcbs[s].used /\ g_pcbs'[s].pid = g_pcbs[s].pid
                         /\ g_pcbs'[s].parent = g_pcbs[s].parent
                         /\ g_pcbs'[s].state = IF s = c THEN "RUNNING" ELSE g_pcbs[s].state
    BY <1>3, <2>1, <2>7, SMTT(40) DEF Pcb
  <2>11. Lineage'
    BY <2>10, RunningNotReapable DEF NInv, Lineage
  <2>12. Latest'
    <3>1. \A k \in DOMAIN stack : stack'[k].pid <= g_pcbs[c].pid
      BY <2>4, <2>5, <2>6, <2>9
    <3>2. stack'[Len(stack) + 1].pid <= g_pcbs[c].pid
      BY <2>2, <2>4, <2>9
    <3>3. \A k \in DOMAIN stack' : stack'[k].pid <= g_current_pid'
      BY <2>1, <2>9, <3>1, <3>2
    <3> QED
      BY <3>3 DEF Latest
  <2>13. Executes'
    BY <2>1, <2>2, <2>9 DEF Executes, Top
  <2>14. ASSUME NEW k \in DOMAIN stack, NEW s \in Slot, g_pcbs'[s].used, g_pcbs'[s].state = "RUNNING",
                g_pcbs'[s].pid = stack[k].pid
         PROVE  g_pcbs[s].used /\ g_pcbs[s].state = "RUNNING" /\ g_pcbs[s].pid = stack[k].pid
    <3>1. s # c
      BY <2>4, <2>5, <2>6, <2>10, <2>14, SMTT(40)
    <3> QED
      BY <2>10, <2>14, <3>1
  <2>15. Callers'
    <3> SUFFICES ASSUME NEW k \in DOMAIN stack'
                 PROVE  /\ stack'[k].kind = "exec" => k = 1
                        /\ stack'[k].kind = "child" =>
                             /\ k # 1
                             /\ \/ g_pcbs'[stack'[k].caller].pid = 0
                                \/ \A j \in 1 .. k - 1 : stack'[j].pid <= g_pcbs'[stack'[k].caller].pid
                             /\ stack'[k - 1].pid \notin displaced' \union {NoPid} =>
                                  \A s \in Slot : /\ g_pcbs'[s].used /\ g_pcbs'[s].state = "RUNNING"
                                                  /\ g_pcbs'[s].pid = stack'[k - 1].pid
                                    => s = stack'[k].caller
      BY DEF Callers
    <3>1. CASE k \in DOMAIN stack
      <4>1. /\ stack[k].kind = "exec" => k = 1
            /\ stack[k].kind = "child" =>
                 /\ k # 1 /\ stack[k].caller \in Slot
                 /\ \/ g_pcbs[stack[k].caller].pid = 0
                    \/ \A j \in 1 .. k - 1 : stack[j].pid <= g_pcbs[stack[k].caller].pid
                 /\ stack[k - 1].pid \notin displaced \union {NoPid} =>
                      \A s \in Slot : /\ g_pcbs[s].used /\ g_pcbs[s].state = "RUNNING"
                                      /\ g_pcbs[s].pid = stack[k - 1].pid
                        => s = stack[k].caller
        BY <3>1 DEF NInv, Callers, IInv, Frames
      <4>2. k # 1 => k - 1 \in DOMAIN stack /\ \A j \in 1 .. k - 1 : j \in DOMAIN stack
        BY <2>8, <3>1
      <4>3. stack'[k] = stack[k] /\ (k # 1 => stack'[k - 1] = stack[k - 1] /\ \A j \in 1 .. k - 1 : stack'[j] = stack[j])
        BY <2>9, <3>1, <4>2
      <4> QED
        BY <2>1, <2>10, <2>14, <4>1, <4>2, <4>3, SMTT(40)
    <3>2. CASE k = Len(stack) + 1
      <4>1. stack'[k] = f /\ k # 1 /\ k - 1 = Len(stack) /\ Len(stack) \in DOMAIN stack
        BY <2>8, <2>9, <3>2
      <4>2. \A j \in 1 .. k - 1 : stack'[j].pid <= g_pcbs'[Current].pid
        BY <2>3, <2>5, <2>8, <2>9, <2>10, <4>1, SMTT(40)
      <4>3. ASSUME stack[Len(stack)].pid \notin displaced \union {NoPid}, NEW s \in Slot,
                   g_pcbs'[s].used, g_pcbs'[s].state = "RUNNING", g_pcbs'[s].pid = stack[Len(stack)].pid
            PROVE  s = Current
        <5>1. g_pcbs[s].used /\ g_pcbs[s].state = "RUNNING" /\ g_pcbs[s].pid = stack[Len(stack)].pid
          BY <2>14, <4>1, <4>3
        <5>2. g_current_pid = stack[Len(stack)].pid
          BY <1>1, <4>3, <5>1 DEF NInv, Executes, Top
        <5> QED
          BY <2>3, <5>1, <5>2, TableFacts, SMTT(40) DEF NInv
      <4> QED
        BY <2>1, <2>2, <2>9, <4>1, <4>2, <4>3
    <3> QED
      BY <2>9, <3>1, <3>2, SMTT(40)
  <2> QED
    BY <2>11, <2>12, <2>13, <2>15 DEF NInv
<1> QED
  BY <1>4, <1>5, SMTT(40)

\* Nothing runs after pcb_init.
LEMMA InitNests == Init => NInv
<1> SUFFICES ASSUME Init PROVE NInv
  OBVIOUS
<1>1. \A s \in Slot : ~g_pcbs[s].used
  BY DEF Init, Zero
<1>2. Lineage /\ Latest /\ Callers /\ Executes
  BY <1>1 DEF Init, Lineage, Latest, Callers, Executes, NoPid
<1> QED
  BY <1>2, InitInv DEF NInv

\* Every operation keeps the nesting.
LEMMA NextNests == NInv /\ [Next]_vars => NInv'
<1> SUFFICES ASSUME NInv, [Next]_vars PROVE NInv'
  OBVIOUS
<1>0. IInv'
  BY NextInv DEF NInv
<1>1. CASE ExecRun
  BY <1>0, <1>1, StartProgramNests DEF ExecRun
<1>2. CASE ExecCapture
  BY <1>0, <1>2, StartProgramNests DEF ExecCapture
<1>3. ASSUME NEW ok \in BOOLEAN, Fork(ok) PROVE NInv'
  BY <1>0, <1>3, ForkNests
<1>4. ASSUME NEW pid \in Pid, Terminate(pid) PROVE NInv'
  BY <1>0, <1>4, TerminateNests
<1>5. ASSUME NEW faulted \in BOOLEAN, ProgramEnds(faulted) \/ ChildEnds(faulted) PROVE NInv'
  BY <1>0, <1>5, ProgramEndsNests, ChildEndsNests
<1>6. ASSUME NEW pid \in -MaxPid .. MaxPid, WaitReaps(pid) \/ \E ok \in BOOLEAN : WaitRuns(pid, ok)
      PROVE  NInv'
  <2>1. pid \in Int
    BY PcbAssumption
  <2> QED
    BY <1>0, <1>6, <2>1, WaitReapsNests, WaitRunsNests
<1>7. ASSUME NEW pid \in Pid, NEW pgid \in Pid, pcb_setpgid(pid, pgid) PROVE NInv'
  BY <1>0, <1>7, SetPgidNests
<1>8. CASE pcb_setsid
  BY <1>0, <1>8, SetSidNests, SMTT(40)
<1>9. CASE UNCHANGED vars
  BY <1>0, <1>9, SMTT(40) DEF vars, NInv, Lineage, Latest, Callers, Executes, Top
<1>10. CASE Next
  BY <1>1, <1>2, <1>3, <1>4, <1>5, <1>6, <1>7, <1>8, <1>10 DEF Next
<1> QED
  BY <1>9, <1>10

\* The calls in progress are not younger than the current process, and its children
\* are: none of them is running.
LEMMA NoChildRuns == NInv => ChildrenReadyOrDone
<1> SUFFICES ASSUME NInv, NEW s \in Children(Current)
             PROVE  g_pcbs[s].state \in Reapable \union {"READY"}
  BY DEF ChildrenReadyOrDone
<1>1. s \in Slot /\ g_pcbs[s].used /\ Current # NoSlot /\ g_pcbs[s].parent = g_pcbs[Current].pid
  BY DEF Children
<1>2. /\ Current \in Slot /\ g_pcbs[Current].used /\ g_pcbs[Current].pid = g_current_pid
  BY <1>1, FindFacts, SMTT(40) DEF Current
<1>3. g_current_pid \in Nat \ {0} /\ g_pcbs[s].pid \in Nat
  BY <1>1, <1>2, TableFacts DEF NInv
<1>4. g_current_pid < g_pcbs[s].pid /\ g_pcbs[s].state # "FREE"
  BY <1>1, <1>2 DEF NInv, Lineage
<1>5. g_pcbs[s].state # "RUNNING"
  <2> SUFFICES ASSUME g_pcbs[s].state = "RUNNING" PROVE FALSE
    OBVIOUS
  <2>1. PICK k \in DOMAIN stack : stack[k].pid = g_pcbs[s].pid
    BY <1>1, TableFacts DEF NInv
  <2>2. stack[k].pid <= g_current_pid
    BY <1>3 DEF NInv, Latest
  <2> QED
    BY <1>3, <1>4, <2>1, <2>2
<1>6. g_pcbs[s].state \in {"FREE", "READY", "RUNNING"} \union Reapable
  BY <1>1, TableFacts DEF NInv, Pcb
<1> QED
  BY <1>4, <1>5, <1>6

\* Executes says it of every slot, ExecutingIsCurrent of the one pcb_find_by_pid finds.
LEMMA ExecutesIsCurrent == NInv => ExecutingIsCurrent
<1> SUFFICES ASSUME NInv, stack # <<>>, Top.pid \notin displaced \union {NoPid},
                    Find(g_pcbs, Top.pid) # NoSlot, g_pcbs[Find(g_pcbs, Top.pid)].state = "RUNNING"
             PROVE  g_current_pid = Top.pid
  BY DEF ExecutingIsCurrent
<1> DEFINE s == Find(g_pcbs, Top.pid)
<1>1. s \in Slot /\ g_pcbs[s].used /\ g_pcbs[s].pid = Top.pid /\ g_pcbs[s].state = "RUNNING"
  BY FindFacts
<1> HIDE DEF s
<1> QED
  BY <1>1 DEF NInv, Executes

\* waitpid never has to block: for every table size and every nesting, the children of
\* the process that calls it have ended or not started.
THEOREM WaitNeverBlocks == Spec => []ChildrenReadyOrDone
<1> QED
  BY InitNests, NextNests, NoChildRuns, PTL DEF Spec

\* getpid, fork, waitpid and exit act on the PCB of the program that calls them, for
\* every table size and every nesting of waitpid, with the two exceptions named at
\* ExecutingIsCurrent.
THEOREM CurrentExecutes == Spec => []ExecutingIsCurrent
<1> QED
  BY InitNests, NextNests, ExecutesIsCurrent, PTL DEF Spec
=============================================================================
