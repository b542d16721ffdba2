------------------------------ MODULE Processes ------------------------------
(***************************************************************************)
(* The process table and the nested execution of processes:                *)
(* src/kernel/sched/pcb.c, src/kernel/syscall/proc_mgmt.c and the run      *)
(* functions of src/kernel/syscall/exec.c.  A process runs to completion   *)
(* inside the call that started it: the shell's exec_run, a caller's       *)
(* exec_run_capture, or the waitpid of its parent.  The calls in progress  *)
(* form a stack; only the top one executes.                                *)
(***************************************************************************)
EXTENDS Integers, Sequences, FiniteSets

CONSTANTS PcbMax,    \* PCB_MAX
          MaxPid     \* bound on the process ids handed out

ASSUME PcbAssumption == PcbMax \in Nat \ {0} /\ MaxPid \in Nat

VARIABLES
    g_pcbs, g_pcb_pool, g_next_pid, g_current_pid,
    stack,    \* the run functions in progress, innermost last
    displaced \* history: programs that ran another one with output capture

vars == <<g_pcbs, g_pcb_pool, g_next_pid, g_current_pid, stack, displaced>>

Slot   == 1 .. PcbMax
NoSlot == 0
NoPid  == -1
Zero   == [used |-> FALSE, pid |-> 0, state |-> "FREE", parent |-> 0, pgid |-> 0, leader |-> FALSE]

Init ==
    /\ g_pcbs = [s \in Slot |-> Zero]
    /\ g_pcb_pool = {}
    /\ g_next_pid = 1
    /\ g_current_pid = NoPid
    /\ stack = <<>>
    /\ displaced = {}

Smallest(S) == CHOOSE x \in S : \A y \in S : x <= y
Top         == stack[Len(stack)]
Pop         == SubSeq(stack, 1, Len(stack) - 1)

\* pcb_find_by_pid: the slot of a process, NoSlot when there is none.
Find(pcbs, pid) ==
    LET S == {s \in Slot : pcbs[s].used /\ pcbs[s].pid = pid}
    IN  IF S = {} THEN NoSlot ELSE Smallest(S)

\* pcb_get_current
Current == IF g_current_pid < 0 THEN NoSlot ELSE Find(g_pcbs, g_current_pid)

Reapable == {"ZOMBIE", "EXITED", "ABORTED"}

-----------------------------------------------------------------------------
(* Slots: pcb_claim_slot takes a free one, or else the first one whose       *)
(* process is not running.                                                   *)

Recyclable == {s \in Slot : g_pcbs[s].used /\ g_pcbs[s].state # "RUNNING"}

Claimed ==
    IF g_pcb_pool # Slot THEN Smallest(Slot \ g_pcb_pool)
    ELSE IF Recyclable # {} THEN Smallest(Recyclable) ELSE NoSlot

NewProcess(pcb) ==
    /\ g_pcbs' = [g_pcbs EXCEPT ![Claimed] = pcb]
    /\ g_pcb_pool' = g_pcb_pool \union {Claimed}
    /\ g_next_pid' = g_next_pid + 1

\* exec_run_with_flags up to user mode.  Without a slot the program runs all
\* the same, without a process of its own.
StartProgram(kind) ==
    \/ /\ Claimed # NoSlot
       /\ g_next_pid <= MaxPid
       /\ NewProcess([used |-> TRUE, pid |-> g_next_pid, state |-> "RUNNING", parent |-> NoPid,
                      pgid |-> g_next_pid, leader |-> TRUE])
       /\ g_current_pid' = g_next_pid
       /\ stack' = Append(stack, [kind |-> kind, pid |-> g_next_pid, child |-> NoSlot, caller |-> NoSlot])
       /\ UNCHANGED displaced
    \/ /\ Claimed = NoSlot
       /\ stack' = Append(stack, [kind |-> kind, pid |-> NoPid, child |-> NoSlot, caller |-> NoSlot])
       /\ UNCHANGED <<g_pcbs, g_pcb_pool, g_next_pid, g_current_pid, displaced>>

\* The shell runs a program: no context may be active.
ExecRun == stack = <<>> /\ StartProgram("exec")

\* SYS_EXEC_CAPTURE: one at a time, the caller's context is set aside.
ExecCapture ==
    /\ stack # <<>>
    /\ \A k \in DOMAIN stack : stack[k].kind # "capture"
    /\ StartProgram("capture")

\* sys_fork.  The slot is claimed before the parent is looked up again.  When
\* the address space or the kernel stack cannot be had, only used is reset.
Fork(ok) ==
    LET wiped  == [g_pcbs EXCEPT ![Claimed] = Zero]
        parent == g_pcbs[Current].pid
        par    == Find(wiped, parent)
    IN  /\ stack # <<>> /\ Current # NoSlot /\ Claimed # NoSlot
        /\ g_next_pid <= MaxPid
        /\ NewProcess([used |-> ok, pid |-> g_next_pid, state |-> "READY", parent |-> parent,
                       pgid |-> IF par # NoSlot THEN wiped[par].pgid ELSE g_next_pid,
                       leader |-> FALSE])
        /\ UNCHANGED <<g_current_pid, stack, displaced>>

-----------------------------------------------------------------------------
(* The end of a process *)

\* pcb_finish_process(pid, state): the table and the current pid afterwards.  No
\* process is ever WAITING (ChildrenReadyOrDone), so there is none to wake.
Finish(pcbs, pid, state) ==
    IF Find(pcbs, pid) = NoSlot THEN pcbs
    ELSE [pcbs EXCEPT ![Find(pcbs, pid)].state = state]
CurrentAfter(cur, pid) == IF cur = pid THEN NoPid ELSE cur

\* pcb_reap_child: the slot it frees, NoSlot when there is nothing to reap.
ReapSlot(pcbs, parent, pid) ==
    LET S == {s \in Slot : /\ pcbs[s].used /\ pcbs[s].parent = parent /\ pcbs[s].pid = pid
                           /\ pcbs[s].state \in Reapable}
    IN  IF S = {} THEN NoSlot ELSE Smallest(S)

\* SYS_PROCESS_TERMINATE: a process is marked aborted wherever it stands.  Any
\* program may name any process: SYS_REQUEST_R2 can raise it to the level that
\* syscall_signal_target_allowed asks for.
Terminate(pid) ==
    /\ stack # <<>>
    /\ Find(g_pcbs, pid) # NoSlot
    /\ g_pcbs' = Finish(g_pcbs, pid, "ABORTED")
    /\ g_current_pid' = CurrentAfter(g_current_pid, pid)
    /\ UNCHANGED <<g_pcb_pool, g_next_pid, stack, displaced>>

\* sys_exit marks whatever process is current; a fault, or a driver that
\* returns without exiting, marks none.
AfterExit(faulted) ==
    IF faulted \/ Current = NoSlot THEN g_pcbs ELSE Finish(g_pcbs, g_current_pid, "EXITED")

\* The program of an exec or capture call ends: the rest of exec_run_with_flags
\* and of exec_run_capture.
ProgramEnds(faulted) ==
    /\ stack # <<>> /\ Top.kind # "child"
    /\ g_pcbs' = Finish(AfterExit(faulted), Top.pid, IF faulted THEN "ABORTED" ELSE "EXITED")
    /\ g_current_pid' = IF ~faulted /\ Current # NoSlot THEN NoPid
                        ELSE CurrentAfter(g_current_pid, Top.pid)
    /\ stack' = Pop
    /\ displaced' = IF Top.kind = "capture" THEN displaced \union {Pop[Len(Pop)].pid} ELSE displaced
    /\ UNCHANGED <<g_pcb_pool, g_next_pid>>

\* Mutant: the child is marked but not reaped.
ChildEndsNoReap(faulted) ==
    /\ stack # <<>> /\ Top.kind = "child"
    /\ g_pcbs' = AfterExit(faulted)
    /\ g_current_pid' = g_pcbs[Top.caller].pid
    /\ stack' = Pop
    /\ UNCHANGED <<g_pcb_pool, g_next_pid, displaced>>

\* Mutant: the parent does not become the current process again.
ChildEndsKeepsCurrent(faulted) ==
    LET marked == [AfterExit(faulted) EXCEPT ![Top.child].state = "ZOMBIE"]
        s      == ReapSlot(marked, marked[Top.caller].pid, marked[Top.child].pid)
    IN  /\ stack # <<>> /\ Top.kind = "child"
        /\ g_pcbs' = IF s = NoSlot THEN marked ELSE [marked EXCEPT ![s] = Zero]
        /\ g_pcb_pool' = g_pcb_pool \ {s}
        /\ g_current_pid' = IF faulted THEN g_current_pid ELSE NoPid
        /\ stack' = Pop
        /\ UNCHANGED <<g_next_pid, displaced>>

\* A forked child ends: the rest of exec_run_child and of sys_waitpid, which
\* hold pointers to the two PCBs since before the child ran.
ChildEnds(faulted) ==
    LET marked == [AfterExit(faulted) EXCEPT ![Top.child].state = "ZOMBIE"]
        s      == ReapSlot(marked, marked[Top.caller].pid, marked[Top.child].pid)
    IN  /\ stack # <<>> /\ Top.kind = "child"
        /\ g_pcbs' = IF s = NoSlot THEN marked ELSE [marked EXCEPT ![s] = Zero]
        /\ g_pcb_pool' = g_pcb_pool \ {s}
        /\ g_current_pid' = marked[Top.caller].pid
        /\ stack' = Pop
        /\ UNCHANGED <<g_next_pid, displaced>>

-----------------------------------------------------------------------------
(* sys_waitpid, process groups, sessions *)

\* waitpid_matches
Matches(s, pid) ==
    CASE pid > 0   -> g_pcbs[s].pid = pid
      [] pid = -1  -> TRUE
      [] pid = 0   -> g_pcbs[s].pgid = g_pcbs[Current].pgid
      [] pid < -1  -> g_pcbs[s].pgid = -pid

Children(c) == {s \in Slot : g_pcbs[s].used /\ c # NoSlot /\ g_pcbs[s].parent = g_pcbs[c].pid}

WaitMatches(pid) == {s \in Children(Current) : Matches(s, pid)}
WaitDone(pid)    == {s \in WaitMatches(pid) : g_pcbs[s].state \in Reapable}
WaitReady(pid)   == {s \in WaitMatches(pid) : g_pcbs[s].state = "READY"}

\* Mutant: the slot is returned but the PCB is not wiped.
WaitReapsNoWipe(pid) ==
    /\ stack # <<>> /\ WaitDone(pid) # {}
    /\ g_pcb_pool' = g_pcb_pool \ {Smallest(WaitDone(pid))}
    /\ UNCHANGED <<g_pcbs, g_next_pid, g_current_pid, stack, displaced>>

\* First pass: a child that has ended already is reaped.
WaitReaps(pid) ==
    /\ stack # <<>> /\ WaitDone(pid) # {}
    /\ g_pcbs' = [g_pcbs EXCEPT ![Smallest(WaitDone(pid))] = Zero]
    /\ g_pcb_pool' = g_pcb_pool \ {Smallest(WaitDone(pid))}
    /\ UNCHANGED <<g_next_pid, g_current_pid, stack, displaced>>

\* Mutant: the child runs without becoming the current process.
WaitRunsNoAdopt(pid, ok) ==
    LET c == Smallest(WaitReady(pid))
    IN  /\ stack # <<>> /\ WaitDone(pid) = {} /\ WaitReady(pid) # {}
        /\ g_pcbs' = [g_pcbs EXCEPT ![c].state = "RUNNING"]
        /\ stack' = Append(stack, [kind |-> "child", pid |-> g_pcbs[c].pid, child |-> c,
                                   caller |-> Current])
        /\ UNCHANGED <<g_pcb_pool, g_next_pid, g_current_pid, displaced>>

\* Second pass: a child that never ran is run inside the call.  Without memory
\* for its context exec_run_child returns at once and the child is reaped unrun.
WaitRuns(pid, ok) ==
    LET c == Smallest(WaitReady(pid))
    IN  /\ stack # <<>> /\ WaitDone(pid) = {} /\ WaitReady(pid) # {}
        /\ \/ /\ ok
              /\ g_pcbs' = [g_pcbs EXCEPT ![c].state = "RUNNING"]
              /\ g_current_pid' = g_pcbs[c].pid
              /\ stack' = Append(stack, [kind |-> "child", pid |-> g_pcbs[c].pid, child |-> c,
                                         caller |-> Current])
              /\ UNCHANGED g_pcb_pool
           \/ /\ ~ok
              /\ g_pcbs' = [g_pcbs EXCEPT ![c] = Zero]
              /\ g_pcb_pool' = g_pcb_pool \ {c}
              /\ UNCHANGED <<g_current_pid, stack>>
        /\ UNCHANGED <<g_next_pid, displaced>>

pcb_setpgid(pid, pgid) ==
    /\ stack # <<>> /\ pid > 0
    /\ Find(g_pcbs, pid) # NoSlot
    /\ pgid = pid \/ Find(g_pcbs, pgid) # NoSlot
    /\ g_pcbs' = [g_pcbs EXCEPT ![Find(g_pcbs, pid)].pgid = pgid]
    /\ UNCHANGED <<g_pcb_pool, g_next_pid, g_current_pid, stack, displaced>>

pcb_setsid ==
    /\ stack # <<>> /\ Current # NoSlot
    /\ ~g_pcbs[Current].leader
    /\ g_pcbs' = [g_pcbs EXCEPT ![Current].pgid = g_pcbs[Current].pid, ![Current].leader = TRUE]
    /\ UNCHANGED <<g_pcb_pool, g_next_pid, g_current_pid, stack, displaced>>

Pid == 1 .. MaxPid

Next ==
    \/ ExecRun \/ ExecCapture
    \/ \E ok \in BOOLEAN : Fork(ok)
    \/ \E pid \in Pid : Terminate(pid)
    \/ \E faulted \in BOOLEAN : ProgramEnds(faulted) \/ ChildEnds(faulted)
    \/ \E pid \in -MaxPid .. MaxPid : WaitReaps(pid) \/ \E ok \in BOOLEAN : WaitRuns(pid, ok)
    \/ \E pid, pgid \in Pid : pcb_setpgid(pid, pgid)
    \/ pcb_setsid

Spec == Init /\ [][Next]_vars
-----------------------------------------------------------------------------

Frame == [kind : {"exec", "capture", "child"}, pid : Pid \union {NoPid},
          child : Slot \union {NoSlot}, caller : Slot \union {NoSlot}]

Pcb == [used : BOOLEAN, pid : 0 .. MaxPid, state : {"FREE", "READY", "RUNNING"} \union Reapable,
        parent : -1 .. MaxPid, pgid : 0 .. MaxPid, leader : BOOLEAN]

\* Type invariant; the used PCBs have different process ids, all handed out.
TypeOK ==
    /\ g_pcbs \in [Slot -> Pcb]
    /\ g_pcb_pool \subseteq Slot
    /\ g_next_pid \in 1 .. MaxPid + 1
    /\ g_current_pid \in -1 .. MaxPid
    /\ stack \in Seq(Frame)
    /\ displaced \subseteq Pid \union {NoPid}
    /\ \A s, t \in Slot : g_pcbs[s].used =>
         /\ g_pcbs[s].pid \in 1 .. g_next_pid - 1
         /\ s # t /\ g_pcbs[t].used => g_pcbs[s].pid # g_pcbs[t].pid

\* A PCB in use always has its slot reserved in the pool, so that no claim that
\* finds a free slot can wipe a process that exists.
UsedSlotsAreReserved == {s \in Slot : g_pcbs[s].used} \subseteq g_pcb_pool

\* A PCB marked RUNNING, which pcb_claim_slot never recycles, is the one of a
\* call still in progress: every other process ends up recyclable, whatever was
\* terminated, faulted or left unreaped on the way.
RunningIsOnTheStack ==
    \A s \in Slot : g_pcbs[s].used /\ g_pcbs[s].state = "RUNNING" =>
      \E k \in DOMAIN stack : stack[k].pid = g_pcbs[s].pid

\* Whenever a process can call waitpid, each of its children has ended or has
\* not started: the branch of sys_waitpid that blocks the caller (state WAITING)
\* and the wake-up in pcb_finish_process are never taken, and waitpid never
\* returns -1 while a matching child exists.
ChildrenReadyOrDone ==
    \A s \in Children(Current) : g_pcbs[s].state \in Reapable \union {"READY"}

\* The program that executes is the current process, so that getpid, fork, waitpid
\* and exit act on its own PCB, after any nesting of waitpid and whatever ended
\* inside it.  Excepted are a program that was terminated and one that ran another
\* with output capture: exec_run_capture puts back the caller's context and not
\* g_current_pid.
ExecutingIsCurrent ==
    stack # <<>> /\ Top.pid \notin displaced \union {NoPid} /\ Find(g_pcbs, Top.pid) # NoSlot
      /\ g_pcbs[Find(g_pcbs, Top.pid)].state = "RUNNING" => g_current_pid = Top.pid
=============================================================================
