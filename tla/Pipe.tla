--------------------------------- MODULE Pipe ---------------------------------
(***************************************************************************)
(* Anonymous pipes: src/kernel/ipc/pipe.c, with the descriptor tables of   *)
(* src/kernel/sched/pcb.c that name them and what fork and the reaping of  *)
(* a process do to those tables.  Any live process may make the next call. *)
(***************************************************************************)
EXTENDS Integers, Sequences, FiniteSets

CONSTANTS Proc,      \* process table entries
          FdMax,     \* allocatable descriptors are 1 .. FdMax
          MaxPipes,  \* PIPE_MAX_PIPES
          BufSize,   \* PIPE_BUF_SIZE
          Byte,
          NoByte,    \* what kmalloc leaves in the buffer
          MaxCount   \* longest transfer tried

ASSUME PipeAssumption ==
    /\ NoByte \notin Byte /\ BufSize \in Nat \ {0}
    /\ FdMax \in Nat /\ MaxPipes \in Nat /\ MaxCount \in Nat

VARIABLES
    g_pipes,
    fd_table,   \* per process: descriptor -> handle, -1 when free
    alive,      \* PCBs in use
    sigpipe,    \* processes with PIPE_SIGPIPE pending
    stream,     \* history: the bytes accepted and not yet read, per pipe
    last,       \* history: what the last read returned and what it owed
    shared      \* history: pipes with descriptors that fork copied or reaping wiped

vars == <<g_pipes, fd_table, alive, sigpipe, stream, last, shared>>

Fd         == 1 .. FdMax
PipeId     == 0 .. MaxPipes - 1
HandleBase == 10                         \* PIPE_HANDLE_BASE, above every other handle
Handle(i, dir) == HandleBase + i * 2 + dir

Idle == [used |-> FALSE, buffer |-> <<>>, head |-> 0, tail |-> 0, count |-> 0,
         read_refs |-> 0, write_refs |-> 0]
FreshBuffer == [k \in 0 .. BufSize - 1 |-> NoByte]
NoFds       == [fd \in Fd |-> -1]

Init ==
    /\ g_pipes = [i \in PipeId |-> Idle]
    /\ fd_table = [p \in Proc |-> NoFds]
    /\ \E p \in Proc : alive = {p}
    /\ sigpipe = {}
    /\ stream = [i \in PipeId |-> <<>>]
    /\ last = [got |-> <<>>, due |-> <<>>]
    /\ shared = {}

\* pipe_decode_handle: the pipe and the direction (0 read, 1 write) of p's fd.
Slot(p, fd)      == (fd_table[p][fd] - HandleBase) \div 2
Direction(p, fd) == (fd_table[p][fd] - HandleBase) % 2
IsPipe(p, fd)    == fd_table[p][fd] >= HandleBase /\ Slot(p, fd) \in PipeId

Smallest(S) == CHOOSE x \in S : \A y \in S : x <= y
PipesOf(p)  == {Slot(p, fd) : fd \in {f \in Fd : IsPipe(p, f)}}
FreeFds(p)  == {fd \in Fd : fd_table[p][fd] = -1}

\* Without a free pipe, memory or two free descriptors the call undoes what it
\* took and returns -1.
pipe_create(p) ==
    LET free == {i \in PipeId : ~g_pipes[i].used}
        i    == Smallest(free)
        rfd  == Smallest(FreeFds(p))
        wfd  == Smallest(FreeFds(p) \ {rfd})
    IN  /\ free # {} /\ Cardinality(FreeFds(p)) >= 2
        /\ g_pipes' = [g_pipes EXCEPT ![i] = [Idle EXCEPT !.used = TRUE, !.buffer = FreshBuffer,
                                              !.read_refs = 1, !.write_refs = 1]]
        /\ fd_table' = [fd_table EXCEPT ![p][rfd] = Handle(i, 0), ![p][wfd] = Handle(i, 1)]
        /\ stream' = [stream EXCEPT ![i] = <<>>]
        /\ shared' = shared \ {j \in {i} : \A q \in alive : i \notin PipesOf(q)}
        /\ UNCHANGED <<alive, sigpipe, last>>

-----------------------------------------------------------------------------
(* The copy loops.  One iteration moves a contiguous run of the ring; the    *)
(* first ends at the end of the buffer at the latest, so there are at most   *)
(* two.                                                                      *)

Min3(a, b, c) == Smallest({a, b, c})

\* Mutant: the second run starts again at the first byte of the caller's data.
WriteRunRestarts(x, data) ==
    LET chunk == Min3(Len(data) - x.done, BufSize - x.pipe.tail, BufSize - x.pipe.count)
    IN  [done |-> x.done + chunk,
         pipe |-> [x.pipe EXCEPT
            !.buffer = [k \in DOMAIN @ |-> IF k \in x.pipe.tail .. x.pipe.tail + chunk - 1
                                           THEN data[1 + k - x.pipe.tail] ELSE @[k]],
            !.tail = (@ + chunk) % BufSize,
            !.count = @ + chunk]]

WriteRun(x, data) ==
    LET chunk == Min3(Len(data) - x.done, BufSize - x.pipe.tail, BufSize - x.pipe.count)
    IN  [done |-> x.done + chunk,
         pipe |-> [x.pipe EXCEPT
            !.buffer = [k \in DOMAIN @ |-> IF k \in x.pipe.tail .. x.pipe.tail + chunk - 1
                                           THEN data[x.done + 1 + k - x.pipe.tail] ELSE @[k]],
            !.tail = (@ + chunk) % BufSize,
            !.count = @ + chunk]]

\* Mutant: the read index is not taken back to the start of the buffer.
ReadRunNoWrap(x, n) ==
    LET chunk == Min3(n - Len(x.got), BufSize - x.pipe.head, x.pipe.count)
    IN  [got  |-> x.got \o [k \in 1 .. chunk |-> x.pipe.buffer[x.pipe.head + k - 1]],
         pipe |-> [x.pipe EXCEPT !.head = @ + chunk, !.count = @ - chunk]]

ReadRun(x, n) ==
    LET chunk == Min3(n - Len(x.got), BufSize - x.pipe.head, x.pipe.count)
    IN  [got  |-> x.got \o [k \in 1 .. chunk |-> x.pipe.buffer[x.pipe.head + k - 1]],
         pipe |-> [x.pipe EXCEPT !.head = (@ + chunk) % BufSize, !.count = @ - chunk]]

\* An empty pipe yields 0 bytes whether or not a writer is left.
pipe_read(p, fd, n) ==
    LET i == Slot(p, fd)
        x == ReadRun(ReadRun([got |-> <<>>, pipe |-> g_pipes[i]], n), n)
        k == Smallest({n, Len(stream[i])})
    IN  /\ IsPipe(p, fd) /\ Direction(p, fd) = 0
        /\ g_pipes[i].used
        /\ g_pipes' = [g_pipes EXCEPT ![i] = x.pipe]
        /\ last' = [got |-> x.got, due |-> SubSeq(stream[i], 1, k)]
        /\ stream' = [stream EXCEPT ![i] = SubSeq(@, k + 1, Len(@))]
        /\ UNCHANGED <<fd_table, alive, sigpipe, shared>>

pipe_write(p, fd, data) ==
    LET i == Slot(p, fd)
        x == WriteRun(WriteRun([done |-> 0, pipe |-> g_pipes[i]], data), data)
    IN  /\ IsPipe(p, fd) /\ Direction(p, fd) = 1
        /\ g_pipes[i].used
        /\ \/ /\ g_pipes[i].read_refs = 0
              /\ sigpipe' = sigpipe \union {p}
              /\ UNCHANGED <<g_pipes, stream>>
           \/ /\ g_pipes[i].read_refs # 0
              /\ g_pipes' = [g_pipes EXCEPT ![i] = x.pipe]
              /\ stream' = [stream EXCEPT ![i] =
                    @ \o SubSeq(data, 1, Smallest({Len(data), BufSize - Len(@)}))]
              /\ UNCHANGED sigpipe
        /\ UNCHANGED <<fd_table, alive, last, shared>>

\* Mutant: the read side is counted down whichever end is closed.
CloseReadSide(p, fd) ==
    LET i    == Slot(p, fd)
        q    == [g_pipes[i] EXCEPT !.read_refs = 0]
        gone == q.write_refs = 0
    IN  /\ IsPipe(p, fd)
        /\ g_pipes[i].used
        /\ g_pipes' = [g_pipes EXCEPT ![i] = IF gone THEN Idle ELSE q]
        /\ fd_table' = [fd_table EXCEPT ![p][fd] = -1]
        /\ stream' = [stream EXCEPT ![i] = IF gone THEN <<>> ELSE @]
        /\ UNCHANGED <<alive, sigpipe, last, shared>>

\* A handle whose pipe is gone keeps its descriptor.
pipe_close_fd(p, fd) ==
    LET i    == Slot(p, fd)
        less(n) == IF n > 0 THEN n - 1 ELSE 0
        q    == IF Direction(p, fd) = 0 THEN [g_pipes[i] EXCEPT !.read_refs = less(@)]
                                        ELSE [g_pipes[i] EXCEPT !.write_refs = less(@)]
        gone == q.read_refs = 0 /\ q.write_refs = 0
    IN  /\ IsPipe(p, fd)
        /\ g_pipes[i].used
        /\ g_pipes' = [g_pipes EXCEPT ![i] = IF gone THEN Idle ELSE q]
        /\ fd_table' = [fd_table EXCEPT ![p][fd] = -1]
        /\ stream' = [stream EXCEPT ![i] = IF gone THEN <<>> ELSE @]
        /\ UNCHANGED <<alive, sigpipe, last, shared>>

\* signal_take_pending by p.
TakeSignal(p) ==
    /\ p \in sigpipe
    /\ sigpipe' = sigpipe \ {p}
    /\ UNCHANGED <<g_pipes, fd_table, alive, stream, last, shared>>

\* pcb_create_child: the child starts with a copy of the table.
Fork(p, c) ==
    /\ c \notin alive
    /\ alive' = alive \union {c}
    /\ fd_table' = [fd_table EXCEPT ![c] = fd_table[p]]
    /\ shared' = shared \union PipesOf(p)
    /\ UNCHANGED <<g_pipes, sigpipe, stream, last>>

\* pcb_reap_child wipes the PCB; the pipes are not told.
Reap(p) ==
    /\ alive # {p}
    /\ alive' = alive \ {p}
    /\ fd_table' = [fd_table EXCEPT ![p] = NoFds]
    /\ sigpipe' = sigpipe \ {p}
    /\ shared' = shared \union PipesOf(p)
    /\ UNCHANGED <<g_pipes, stream, last>>

Next ==
    \E p \in alive :
      \/ pipe_create(p)
      \/ \E fd \in Fd :
           \/ \E n \in 1 .. MaxCount : pipe_read(p, fd, n)
           \/ \E n \in 1 .. MaxCount : \E data \in [1 .. n -> Byte] : pipe_write(p, fd, data)
           \/ pipe_close_fd(p, fd)
      \/ TakeSignal(p)
      \/ \E c \in Proc : Fork(p, c)
      \/ Reap(p)

Spec == Init /\ [][Next]_vars
-----------------------------------------------------------------------------

PipeEntry ==
    [used : {TRUE}, buffer : [0 .. BufSize - 1 -> Byte \union {NoByte}],
     head : 0 .. BufSize - 1, tail : 0 .. BufSize - 1, count : 0 .. BufSize,
     read_refs : 0 .. 1, write_refs : 0 .. 1]

\* Type invariant: ring indices stay inside the buffer, and a pipe in use has
\* an end open.
TypeOK ==
    /\ \A i \in PipeId : \/ g_pipes[i] = Idle
                         \/ /\ g_pipes[i] \in PipeEntry
                            /\ g_pipes[i].read_refs + g_pipes[i].write_refs > 0
    /\ fd_table \in [Proc -> [Fd -> {-1} \union {Handle(i, d) : i \in PipeId, d \in {0, 1}}]]
    /\ alive \subseteq Proc /\ sigpipe \subseteq alive
    /\ \A i \in PipeId : stream[i] \in Seq(Byte) /\ Len(stream[i]) <= BufSize

\* A pipe is a byte stream: a read returns exactly the oldest bytes that writes
\* accepted, as many as it asked for or as there are, and a write accepts as
\* many as fit, however the ring wraps, whichever processes share the ends and
\* however often the slot was used before.
PipeIsAStream ==
    /\ last.got = last.due
    /\ \A i \in PipeId :
         /\ g_pipes[i].count = Len(stream[i])
         /\ \A k \in 1 .. g_pipes[i].count :
              g_pipes[i].buffer[(g_pipes[i].head + k - 1) % BufSize] = stream[i][k]

OpenEnds(i, dir) == {pf \in Proc \X Fd : pf[1] \in alive /\ fd_table[pf[1]][pf[2]] = Handle(i, dir)}

\* The counters of pipe.c, "number of open read ends" and "number of open write ends", are
\* exact for a pipe whose descriptors fork has not copied and no reaped process held: end of
\* file, the broken-pipe signal and the release of the buffer go by them, and a reused slot
\* starts afresh.  pcb_fd_copy and pcb_reap_child do not tell the pipe.
RefsCountOpenEnds ==
    \A i \in PipeId \ shared : g_pipes[i].used =>
      /\ g_pipes[i].read_refs = Cardinality(OpenEnds(i, 0))
      /\ g_pipes[i].write_refs = Cardinality(OpenEnds(i, 1))
=============================================================================
