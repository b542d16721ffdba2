------------------------------ MODULE PipeProofs ------------------------------
(***************************************************************************)
(* Proofs about Pipe, for any number of processes, descriptors and pipes   *)
(* and any buffer size: a pipe delivers the bytes it accepted in order,    *)
(* and its reference counts are exact.  First the arithmetic of the ring   *)
(* and the two copy loops, then the tables, then the steps.                *)
(***************************************************************************)
EXTENDS Pipe, WellFoundedInduction, FiniteSetTheorems, TLAPS

\* The scans of the tables go upwards: the first entry that satisfies a test exists as soon as
\* any does.
LEMMA LeastNat ==
    ASSUME NEW T, T \subseteq Nat, T # {}
    PROVE  \E x \in T : \A y \in T : x <= y
<1>1. PICK x \in T : \A y \in T : ~(<<y, x>> \in OpToRel(<, Nat))
  BY NatLessThanWellFounded, WFMin, Zenon
<1>2. \A a, b \in Nat : <<a, b>> \in OpToRel(<, Nat) <=> a < b
  BY DEF OpToRel
<1>3. \A y \in T : ~(y < x)
  BY <1>1, <1>2, Zenon
<1> QED BY <1>3

Wrap(n) == n % BufSize

\* The ring of an open pipe holds the bytes of s, the oldest at its read index.
Ring(pipe, s) ==
    /\ pipe \in PipeEntry /\ s \in Seq(Byte)
    /\ pipe.count = Len(s) /\ pipe.tail = Wrap(pipe.head + pipe.count)
    /\ \A k \in 1 .. Len(s) : pipe.buffer[Wrap(pipe.head + k - 1)] = s[k]

\* Every pipe is free or holds its stream.
Rings ==
    /\ g_pipes \in [PipeId -> PipeEntry \union {Idle}] /\ stream \in [PipeId -> Seq(Byte)]
    /\ \A i \in PipeId : \/ g_pipes[i] = Idle /\ stream[i] = <<>>
                         \/ /\ Ring(g_pipes[i], stream[i])
                            /\ g_pipes[i].read_refs + g_pipes[i].write_refs > 0
    /\ last.got = last.due

\* n descriptors of live processes, none or one, name an end of a pipe.
Ends(i, dir, n) ==
    \/ n = 0 /\ OpenEnds(i, dir) = {}
    \/ n = 1 /\ \E pf \in Proc \X Fd : OpenEnds(i, dir) = {pf}

\* What a descriptor holds.
FdValue == {-1} \union {Handle(i, d) : i \in PipeId, d \in {0, 1}}

\* The descriptors of every process are free or name ends of pipes, and the counts of every
\* pipe that fork and reaping have not touched are exact, whether it is in use or not.
Tables ==
    /\ fd_table \in [Proc -> [Fd -> FdValue]]
    /\ alive \subseteq Proc /\ sigpipe \subseteq alive
    /\ \A i \in PipeId \ shared : Ends(i, 0, g_pipes[i].read_refs) /\ Ends(i, 1, g_pipes[i].write_refs)

\* The inductive invariant.
IInv == Rings /\ Tables

\* An index that passes the end of the buffer once continues at its start.
LEMMA Wraps ==
    ASSUME NEW n \in 0 .. 2 * BufSize - 1
    PROVE  Wrap(n) = IF n < BufSize THEN n ELSE n - BufSize
<1>1. BufSize \in Nat \ {0}
  BY PipeAssumption
<1>2. CASE n < BufSize
  BY <1>1, <1>2 DEF Wrap
<1>3. CASE n >= BufSize
  BY <1>1, <1>3 DEF Wrap
<1> QED
  BY <1>1, <1>2, <1>3

\* Smallest picks the least member of every non-empty set of numbers.
LEMMA SmallestIs ==
    ASSUME NEW S, S \subseteq Nat, S # {}
    PROVE  Smallest(S) \in S /\ \A y \in S : Smallest(S) <= y
<1>1. \E x \in S : \A y \in S : x <= y
  BY LeastNat, Zenon
<1> QED
  BY <1>1, Zenon DEF Smallest

\* The two comparisons that cut a chunk, after one another.
LEMMA ChunkIs ==
    ASSUME NEW a \in Nat, NEW b \in Nat, NEW c \in Nat
    PROVE  /\ Min3(a, b, c) \in Nat /\ Min3(a, b, c) <= a /\ Min3(a, b, c) <= b /\ Min3(a, b, c) <= c
           /\ Min3(a, b, c) = a \/ Min3(a, b, c) = b \/ Min3(a, b, c) = c
<1>1. {a, b, c} \subseteq Nat /\ {a, b, c} # {}
  OBVIOUS
<1>2. Smallest({a, b, c}) \in {a, b, c} /\ \A y \in {a, b, c} : Smallest({a, b, c}) <= y
  BY <1>1, SmallestIs
<1> QED
  BY <1>2 DEF Min3

\* The fields of an open pipe.
LEMMA EntryFacts ==
    ASSUME NEW pipe \in PipeEntry
    PROVE  /\ pipe.used = TRUE /\ pipe.buffer \in [0 .. BufSize - 1 -> Byte \union {NoByte}]
           /\ pipe.head \in 0 .. BufSize - 1 /\ pipe.tail \in 0 .. BufSize - 1 /\ pipe.count \in 0 .. BufSize
           /\ pipe.read_refs \in 0 .. 1 /\ pipe.write_refs \in 0 .. 1
<1>1. pipe.used = TRUE /\ pipe.buffer \in [0 .. BufSize - 1 -> Byte \union {NoByte}]
  BY Zenon DEF PipeEntry
<1>2. pipe.head \in 0 .. BufSize - 1 /\ pipe.tail \in 0 .. BufSize - 1 /\ pipe.count \in 0 .. BufSize
  BY DEF PipeEntry
<1>3. pipe.read_refs \in 0 .. 1 /\ pipe.write_refs \in 0 .. 1
  BY DEF PipeEntry
<1> QED
  BY <1>1, <1>2, <1>3

\* What a run may change in an open pipe.
LEMMA EntryUpdates ==
    ASSUME NEW pipe \in PipeEntry, NEW b \in [0 .. BufSize - 1 -> Byte \union {NoByte}],
           NEW i \in 0 .. BufSize - 1, NEW c \in 0 .. BufSize
    PROVE  /\ [pipe EXCEPT !.buffer = b, !.tail = i, !.count = c] \in PipeEntry
           /\ [pipe EXCEPT !.head = i, !.count = c] \in PipeEntry
  BY Zenon DEF PipeEntry

\* A pipe whose buffer, indices and fill are these, with as many open ends as another.
Fields(w, pipe, b, h, t, c) ==
    /\ w.buffer = b /\ w.head = h /\ w.tail = t /\ w.count = c
    /\ w.read_refs = pipe.read_refs /\ w.write_refs = pipe.write_refs

\* The fields of a pipe after a run written or read.
LEMMA UpdatedFields ==
    ASSUME NEW pipe \in PipeEntry, NEW b, NEW i, NEW c
    PROVE  /\ Fields([pipe EXCEPT !.buffer = b, !.tail = i, !.count = c], pipe, b, pipe.head, i, c)
           /\ Fields([pipe EXCEPT !.head = i, !.count = c], pipe, pipe.buffer, i, pipe.tail, c)
<1> DEFINE w == [pipe EXCEPT !.buffer = b, !.tail = i, !.count = c]
           r == [pipe EXCEPT !.head = i, !.count = c]
<1>1. w.buffer = b /\ w.head = pipe.head /\ w.tail = i /\ w.count = c
  BY Zenon DEF PipeEntry
<1>2. w.read_refs = pipe.read_refs /\ w.write_refs = pipe.write_refs
  BY Zenon DEF PipeEntry
<1>3. r.buffer = pipe.buffer /\ r.head = i /\ r.tail = pipe.tail /\ r.count = c
  BY Zenon DEF PipeEntry
<1>4. r.read_refs = pipe.read_refs /\ r.write_refs = pipe.write_refs
  BY Zenon DEF PipeEntry
<1> HIDE DEF w, r
<1>5. Fields(w, pipe, b, pipe.head, i, c) /\ Fields(r, pipe, pipe.buffer, i, pipe.tail, c)
  BY <1>1, <1>2, <1>3, <1>4, Zenon DEF Fields
<1> QED
  BY <1>5, Zenon DEF w, r

\* A run of the ring from t on goes on where c bytes from h on end, and misses them.
Follows(t, chunk, h, c) ==
    /\ Wrap(t + chunk) \in 0 .. BufSize - 1 /\ Wrap(t + chunk) = Wrap(h + (c + chunk))
    /\ \A k \in 1 .. c : Wrap(h + k - 1) \in 0 .. BufSize - 1 /\ Wrap(h + k - 1) \notin t .. t + chunk - 1
    /\ \A r \in 1 .. chunk : Wrap(h + (c + r) - 1) = t + r - 1 /\ t + r - 1 \in 0 .. BufSize - 1

\* The run that pipe_write copies at once starts at the write index, where the bytes end,
\* and neither passes the end of the buffer nor runs into them.
LEMMA WriteIndices ==
    ASSUME NEW h \in 0 .. BufSize - 1, NEW c \in 0 .. BufSize, NEW t \in 0 .. BufSize - 1, t = Wrap(h + c),
           NEW chunk \in Nat, chunk <= BufSize - c, chunk <= BufSize - t
    PROVE  Follows(t, chunk, h, c)
<1>1. BufSize \in Nat \ {0}
  BY PipeAssumption
<1>2. h + c \in 0 .. 2 * BufSize - 1 /\ t + chunk \in 0 .. 2 * BufSize - 1
      /\ h + (c + chunk) \in 0 .. 2 * BufSize - 1
  BY <1>1
<1>3. t = IF h + c < BufSize THEN h + c ELSE h + c - BufSize
  BY <1>1, <1>2, Wraps
<1>4. Wrap(t + chunk) = IF t + chunk < BufSize THEN t + chunk ELSE t + chunk - BufSize
  BY <1>1, <1>2, Wraps
<1>5. Wrap(h + (c + chunk)) = IF h + (c + chunk) < BufSize THEN h + (c + chunk) ELSE h + (c + chunk) - BufSize
  BY <1>1, <1>2, Wraps
<1>6. Wrap(t + chunk) \in 0 .. BufSize - 1 /\ Wrap(t + chunk) = Wrap(h + (c + chunk))
  BY <1>1, <1>3, <1>4, <1>5
<1>7. ASSUME NEW k \in 1 .. c
      PROVE  Wrap(h + k - 1) \in 0 .. BufSize - 1 /\ Wrap(h + k - 1) \notin t .. t + chunk - 1
  <2>1. h + k - 1 \in 0 .. 2 * BufSize - 1
    BY <1>1
  <2>2. Wrap(h + k - 1) = IF h + k - 1 < BufSize THEN h + k - 1 ELSE h + k - 1 - BufSize
    BY <1>1, <2>1, Wraps
  <2> QED
    BY <1>1, <1>3, <2>2
<1>8. ASSUME NEW r \in 1 .. chunk
      PROVE  Wrap(h + (c + r) - 1) = t + r - 1 /\ t + r - 1 \in 0 .. BufSize - 1
  <2>1. h + (c + r) - 1 \in 0 .. 2 * BufSize - 1
    BY <1>1
  <2>2. Wrap(h + (c + r) - 1) = IF h + (c + r) - 1 < BufSize THEN h + (c + r) - 1 ELSE h + (c + r) - 1 - BufSize
    BY <1>1, <2>1, Wraps
  <2> QED
    BY <1>1, <1>3, <2>2
<1> QED
  BY <1>6, <1>7, <1>8 DEF Follows

\* The run of the ring from h on is the front of the c bytes there; the rest starts behind it.
Leads(h, chunk, c) ==
    /\ Wrap(h + chunk) \in 0 .. BufSize - 1
    /\ Wrap(Wrap(h + chunk) + (c - chunk)) = Wrap(h + c)
    /\ \A r \in 1 .. chunk : Wrap(h + r - 1) = h + r - 1
    /\ \A k \in 1 .. c - chunk : Wrap(Wrap(h + chunk) + k - 1) = Wrap(h + (chunk + k) - 1)

\* The run that pipe_read copies at once starts at the read index, where the bytes start, and
\* passes neither their end nor that of the buffer.
LEMMA ReadIndices ==
    ASSUME NEW h \in 0 .. BufSize - 1, NEW c \in 0 .. BufSize,
           NEW chunk \in Nat, chunk <= c, chunk <= BufSize - h
    PROVE  Leads(h, chunk, c)
<1>1. BufSize \in Nat \ {0}
  BY PipeAssumption
<1>2. h + chunk \in 0 .. 2 * BufSize - 1 /\ h + c \in 0 .. 2 * BufSize - 1
  BY <1>1
<1>3. Wrap(h + chunk) = IF h + chunk < BufSize THEN h + chunk ELSE 0
  BY <1>1, <1>2, Wraps
<1>4. Wrap(h + chunk) \in 0 .. BufSize - 1 /\ Wrap(h + chunk) + (c - chunk) \in 0 .. 2 * BufSize - 1
  BY <1>1, <1>3
<1>5. Wrap(Wrap(h + chunk) + (c - chunk)) = Wrap(h + c)
  <2>1. CASE h + chunk < BufSize
    <3>1. Wrap(h + chunk) + (c - chunk) = h + c
      BY <1>1, <1>3, <2>1
    <3> QED
      BY <3>1
  <2>2. CASE h + chunk = BufSize
    <3>1. Wrap(h + chunk) + (c - chunk) = c - chunk /\ c - chunk \in 0 .. 2 * BufSize - 1 /\ c - chunk <= BufSize
      BY <1>1, <1>3, <2>2
    <3>2. Wrap(c - chunk) = IF c - chunk < BufSize THEN c - chunk ELSE c - chunk - BufSize
      BY <1>1, <3>1, Wraps
    <3>3. Wrap(h + c) = IF h + c < BufSize THEN h + c ELSE h + c - BufSize
      BY <1>1, <1>2, Wraps
    <3>4. Wrap(c - chunk) = Wrap(h + c)
      BY <1>1, <2>2, <3>2, <3>3
    <3> QED
      BY <3>1, <3>4
  <2> QED
    BY <1>1, <2>1, <2>2
<1>6. ASSUME NEW r \in 1 .. chunk PROVE Wrap(h + r - 1) = h + r - 1
  <2>1. h + r - 1 \in 0 .. 2 * BufSize - 1 /\ h + r - 1 < BufSize
    BY <1>1
  <2> QED
    BY <1>1, <2>1, Wraps
<1>7. ASSUME NEW k \in 1 .. c - chunk PROVE Wrap(Wrap(h + chunk) + k - 1) = Wrap(h + (chunk + k) - 1)
  <2>1. CASE h + chunk < BufSize
    <3>1. Wrap(h + chunk) + k - 1 = h + (chunk + k) - 1
      BY <1>1, <1>3, <2>1
    <3> QED
      BY <3>1
  <2>2. CASE h + chunk = BufSize
    <3>1. /\ Wrap(h + chunk) + k - 1 = k - 1 /\ k - 1 \in 0 .. 2 * BufSize - 1 /\ k - 1 < BufSize
          /\ h + (chunk + k) - 1 \in 0 .. 2 * BufSize - 1
      BY <1>1, <1>3, <2>2
    <3>2. Wrap(k - 1) = k - 1
      BY <1>1, <3>1, Wraps
    <3>3. Wrap(h + (chunk + k) - 1)
            = IF h + (chunk + k) - 1 < BufSize THEN h + (chunk + k) - 1 ELSE h + (chunk + k) - 1 - BufSize
      BY <1>1, <3>1, Wraps
    <3>4. Wrap(h + (chunk + k) - 1) = k - 1
      BY <1>1, <2>2, <3>3
    <3> QED
      BY <3>1, <3>2, <3>4
  <2> QED
    BY <1>1, <2>1, <2>2
<1> QED
  BY <1>4, <1>5, <1>6, <1>7 DEF Leads

\* Two lengths, or two chunks, after one another.
LEMMA SpliceFacts ==
    ASSUME NEW s \in Seq(Byte), NEW new \in Seq(Byte)
    PROVE  /\ s \o new \in Seq(Byte) /\ Len(s) \in Nat /\ Len(new) \in Nat
           /\ Len(s \o new) = Len(s) + Len(new)
           /\ \A k \in 1 .. Len(s) : (s \o new)[k] = s[k]
           /\ \A r \in 1 .. Len(new) : (s \o new)[Len(s) + r] = new[r]
  OBVIOUS

\* Three chunks after one another.
LEMMA Regroup ==
    ASSUME NEW s \in Seq(Byte), NEW t \in Seq(Byte), NEW u \in Seq(Byte)
    PROVE  (s \o t) \o u = s \o (t \o u)
  BY SMTT(40)

\* Streams are equal when they have the same bytes.
LEMMA SameBytes ==
    ASSUME NEW s \in Seq(Byte), NEW t \in Seq(Byte), Len(s) = Len(t), \A k \in 1 .. Len(s) : s[k] = t[k]
    PROVE  s = t
  BY SMTT(40)

\* Two chunks of the data, one where the other ends.
LEMMA AdjacentChunks ==
    ASSUME NEW s \in Seq(Byte), NEW a \in Nat, NEW b \in Nat, a <= b, b <= Len(s)
    PROVE  SubSeq(s, 1, a) \o SubSeq(s, a + 1, b) = SubSeq(s, 1, b)
  BY SMTT(40)

\* What an iteration of the loop in pipe_write does to a ring that holds s, after the first
\* `done' bytes of the data: the stream goes on with the next chunk.
Appends(pipe, s, data, done) ==
    LET chunk == Min3(Len(data) - done, BufSize - pipe.tail, BufSize - pipe.count)
        y     == WriteRun([done |-> done, pipe |-> pipe], data)
    IN  /\ chunk \in Nat /\ done + chunk <= Len(data)
        /\ y = [done |-> done + chunk, pipe |-> y.pipe]
        /\ Ring(y.pipe, s \o SubSeq(data, done + 1, done + chunk))
        /\ y.pipe.tail = Wrap(pipe.tail + chunk) /\ y.pipe.count = pipe.count + chunk
        /\ y.pipe.read_refs = pipe.read_refs /\ y.pipe.write_refs = pipe.write_refs

\* One iteration of the loop in pipe_write appends the bytes it copies to the stream.
LEMMA WriteRunAppends ==
    ASSUME NEW pipe, NEW s, Ring(pipe, s), NEW data \in Seq(Byte), NEW done \in Nat, done <= Len(data)
    PROVE  Appends(pipe, s, data, done)
<1> DEFINE chunk == Min3(Len(data) - done, BufSize - pipe.tail, BufSize - pipe.count)
           y     == WriteRun([done |-> done, pipe |-> pipe], data)
           new   == SubSeq(data, done + 1, done + chunk)
           buf   == [k \in DOMAIN pipe.buffer |-> IF k \in pipe.tail .. pipe.tail + chunk - 1
                                                  THEN data[done + 1 + k - pipe.tail] ELSE pipe.buffer[k]]
<1>1. /\ pipe \in PipeEntry /\ s \in Seq(Byte) /\ Len(s) \in Nat /\ Len(data) \in Nat
      /\ pipe.count = Len(s) /\ pipe.tail = Wrap(pipe.head + pipe.count)
      /\ \A k \in 1 .. Len(s) : pipe.buffer[Wrap(pipe.head + k - 1)] = s[k]
  BY DEF Ring
<1>2. /\ pipe.buffer \in [0 .. BufSize - 1 -> Byte \union {NoByte}] /\ BufSize \in Nat \ {0}
      /\ pipe.head \in 0 .. BufSize - 1 /\ pipe.tail \in 0 .. BufSize - 1 /\ pipe.count \in 0 .. BufSize
  BY <1>1, EntryFacts, PipeAssumption, Zenon
<1>3. PICK h \in 0 .. BufSize - 1, t \in 0 .. BufSize - 1, c \in 0 .. BufSize :
        h = pipe.head /\ t = pipe.tail /\ c = pipe.count
  BY <1>2
<1>4. chunk \in Nat /\ chunk <= Len(data) - done /\ chunk <= BufSize - t /\ chunk <= BufSize - c
  <2>1. Len(data) - done \in Nat /\ BufSize - t \in Nat /\ BufSize - c \in Nat
    BY <1>1, <1>2
  <2> QED
    BY <1>3, <2>1, ChunkIs, Zenon
<1>5. y = [done |-> done + chunk,
           pipe |-> [pipe EXCEPT !.buffer = buf, !.tail = (pipe.tail + chunk) % BufSize,
                                 !.count = pipe.count + chunk]]
  BY DEF WriteRun
<1> HIDE DEF chunk
<1>6. /\ Wrap(t + chunk) \in 0 .. BufSize - 1 /\ Wrap(t + chunk) = Wrap(h + (c + chunk))
      /\ \A k \in 1 .. c : Wrap(h + k - 1) \in 0 .. BufSize - 1 /\ Wrap(h + k - 1) \notin t .. t + chunk - 1
      /\ \A r \in 1 .. chunk : Wrap(h + (c + r) - 1) = t + r - 1 /\ t + r - 1 \in 0 .. BufSize - 1
  <2>1. t = Wrap(h + c)
    BY <1>1, <1>3
  <2>2. Follows(t, chunk, h, c)
    BY <1>4, <2>1, WriteIndices, Zenon
  <2> QED
    BY <2>2 DEF Follows
<1>7. /\ buf \in [0 .. BufSize - 1 -> Byte \union {NoByte}]
      /\ \A k \in 0 .. BufSize - 1 : k \notin t .. t + chunk - 1 => buf[k] = pipe.buffer[k]
      /\ \A r \in 1 .. chunk : buf[t + r - 1] = data[done + r]
  <2>1. DOMAIN pipe.buffer = 0 .. BufSize - 1
    BY <1>2
  <2>2. ASSUME NEW k \in t .. t + chunk - 1 PROVE data[done + 1 + k - t] \in Byte
    <3>1. done + 1 + k - t \in 1 .. Len(data)
      BY <1>1, <1>2, <1>4
    <3> QED
      BY <3>1
  <2>3. \A r \in 1 .. chunk : /\ t + r - 1 \in t .. t + chunk - 1 /\ t + r - 1 \in 0 .. BufSize - 1
                              /\ done + 1 + (t + r - 1) - t = done + r
    BY <1>2, <1>4
  <2>4. buf = [k \in 0 .. BufSize - 1 |-> IF k \in t .. t + chunk - 1 THEN data[done + 1 + k - t] ELSE pipe.buffer[k]]
    BY <1>3, <2>1
  <2>5. /\ \A k \in 0 .. BufSize - 1 : k \notin t .. t + chunk - 1 => buf[k] = pipe.buffer[k]
        /\ \A k \in 0 .. BufSize - 1 : k \in t .. t + chunk - 1 => buf[k] = data[done + 1 + k - t]
    BY <2>4, Zenon
  <2>6. buf \in [0 .. BufSize - 1 -> Byte \union {NoByte}]
    <3>1. \A k \in 0 .. BufSize - 1 :
            (IF k \in t .. t + chunk - 1 THEN data[done + 1 + k - t] ELSE pipe.buffer[k]) \in Byte \union {NoByte}
      BY <1>2, <2>2, Zenon
    <3> QED
      BY <2>4, <3>1, Zenon
  <2>7. ASSUME NEW r \in 1 .. chunk PROVE buf[t + r - 1] = data[done + r]
    <3>1. buf[t + r - 1] = data[done + 1 + (t + r - 1) - t]
      BY <2>3, <2>5, Zenon
    <3> QED
      BY <2>3, <3>1, Zenon
  <2> QED
    BY <2>5, <2>6, <2>7, Zenon
<1> HIDE DEF buf
<1>8. /\ y = [done |-> done + chunk, pipe |-> y.pipe]
      /\ y.pipe = [pipe EXCEPT !.buffer = buf, !.tail = Wrap(t + chunk), !.count = c + chunk]
  BY <1>3, <1>5 DEF Wrap
<1> HIDE DEF y
<1>9. /\ y.pipe \in PipeEntry /\ y.pipe.buffer = buf /\ y.pipe.head = h
      /\ y.pipe.tail = Wrap(t + chunk) /\ y.pipe.count = c + chunk
      /\ y.pipe.read_refs = pipe.read_refs /\ y.pipe.write_refs = pipe.write_refs
  <2>1. c + chunk \in 0 .. BufSize
    BY <1>2, <1>4
  <2>2. y.pipe \in PipeEntry
    <3>1. [pipe EXCEPT !.buffer = buf, !.tail = Wrap(t + chunk), !.count = c + chunk] \in PipeEntry
      BY <1>1, <1>6, <1>7, <2>1, EntryUpdates, Zenon
    <3> QED
      BY <1>8, <3>1
  <2>3. /\ y.pipe.buffer = buf /\ y.pipe.head = h
        /\ y.pipe.tail = Wrap(t + chunk) /\ y.pipe.count = c + chunk
        /\ y.pipe.read_refs = pipe.read_refs /\ y.pipe.write_refs = pipe.write_refs
    <3> DEFINE w == [pipe EXCEPT !.buffer = buf, !.tail = Wrap(t + chunk), !.count = c + chunk]
    <3>1. Fields(w, pipe, buf, pipe.head, Wrap(t + chunk), c + chunk)
      BY <1>1, UpdatedFields, Zenon
    <3>2. y.pipe = w
      BY <1>8, Zenon
    <3> HIDE DEF w
    <3> QED
      BY <1>3, <3>1, <3>2, Zenon DEF Fields
  <2> QED
    BY <2>2, <2>3
<1>10. /\ new \in Seq(Byte) /\ Len(new) = chunk
       /\ \A r \in 1 .. chunk : new[r] = data[done + r]
  BY <1>1, <1>4
<1> HIDE DEF new
<1>11. /\ s \o new \in Seq(Byte) /\ Len(s \o new) = c + chunk
       /\ \A k \in 1 .. c : (s \o new)[k] = s[k]
       /\ \A r \in 1 .. chunk : (s \o new)[c + r] = new[r]
  <2>1. Len(s) = c
    BY <1>1, <1>3
  <2> QED
    BY <1>1, <1>10, <2>1, SpliceFacts, ZenonT(40)
<1>12. ASSUME NEW k \in 1 .. c + chunk PROVE buf[Wrap(h + k - 1)] = (s \o new)[k]
  <2>1. CASE k \in 1 .. c
    <3>1. buf[Wrap(h + k - 1)] = pipe.buffer[Wrap(h + k - 1)]
      BY <1>6, <1>7, <2>1, Zenon
    <3>2. pipe.buffer[Wrap(h + k - 1)] = s[k]
      BY <1>1, <1>3, <2>1, Zenon
    <3> QED
      BY <1>11, <2>1, <3>1, <3>2, Zenon
  <2>2. ASSUME NEW r \in 1 .. chunk, k = c + r PROVE buf[Wrap(h + k - 1)] = (s \o new)[k]
    <3>1. buf[Wrap(h + (c + r) - 1)] = data[done + r]
      BY <1>6, <1>7, Zenon
    <3>2. (s \o new)[c + r] = data[done + r]
      BY <1>10, <1>11, Zenon
    <3> QED
      BY <2>2, <3>1, <3>2, Zenon
  <2>3. k \in 1 .. c \/ (k - c \in 1 .. chunk /\ k = c + (k - c))
    BY <1>2, <1>4
  <2> QED
    BY <2>1, <2>2, <2>3, Zenon
<1>13. Ring(y.pipe, s \o new)
  BY <1>6, <1>9, <1>11, <1>12, Zenon DEF Ring
<1>14. done + chunk <= Len(data)
  BY <1>1, <1>4
<1> QED
  BY <1>3, <1>4, <1>8, <1>9, <1>13, <1>14, Zenon DEF y, new, chunk, Appends

\* Two runs of the ring move all there is to move: only the end of the buffer stops the first
\* one short, and the second then starts at its beginning.
LEMMA TwoRuns ==
    ASSUME NEW i \in 0 .. BufSize - 1, NEW a \in Nat, NEW b \in 0 .. BufSize
    PROVE  LET first  == Min3(a, BufSize - i, b)
               second == Min3(a - first, BufSize - Wrap(i + first), b - first)
           IN  first + second = Smallest({a, b})
<1> DEFINE first  == Min3(a, BufSize - i, b)
           second == Min3(a - first, BufSize - Wrap(i + first), b - first)
<1>1. BufSize \in Nat \ {0} /\ BufSize - i \in Nat /\ b \in Nat
  BY PipeAssumption
<1>2. /\ first \in Nat /\ first <= a /\ first <= BufSize - i /\ first <= b
      /\ first = a \/ first = BufSize - i \/ first = b
  BY <1>1, ChunkIs
<1> HIDE DEF first
<1>3. i + first \in 0 .. 2 * BufSize - 1
  BY <1>1, <1>2
<1>4. Wrap(i + first) = IF i + first < BufSize THEN i + first ELSE 0
  BY <1>1, <1>2, <1>3, Wraps
<1>5. a - first \in Nat /\ BufSize - Wrap(i + first) \in Nat /\ b - first \in Nat
  BY <1>1, <1>2, <1>4
<1>6. /\ second \in Nat /\ second <= a - first /\ second <= BufSize - Wrap(i + first) /\ second <= b - first
      /\ second = a - first \/ second = BufSize - Wrap(i + first) \/ second = b - first
  BY <1>5, ChunkIs, Zenon
<1> HIDE DEF second
<1>7. first + second <= a /\ first + second <= b /\ (first + second = a \/ first + second = b)
  BY <1>1, <1>2, <1>4, <1>6
<1>8. Smallest({a, b}) \in {a, b} /\ \A y \in {a, b} : Smallest({a, b}) <= y
  <2>1. {a, b} \subseteq Nat /\ {a, b} # {}
    BY <1>1
  <2> QED
    BY <2>1, SmallestIs
<1>9. first + second = Smallest({a, b})
  BY <1>1, <1>7, <1>8
<1> QED
  BY <1>9 DEF first, second

\* The loop in pipe_write appends as many bytes as there is room for.
LEMMA WriteAppends ==
    ASSUME NEW pipe, NEW s, Ring(pipe, s), NEW data \in Seq(Byte)
    PROVE  LET x == WriteRun(WriteRun([done |-> 0, pipe |-> pipe], data), data)
               n == Smallest({Len(data), BufSize - Len(s)})
           IN  /\ Ring(x.pipe, s \o SubSeq(data, 1, n))
               /\ x.pipe.read_refs = pipe.read_refs /\ x.pipe.write_refs = pipe.write_refs
<1> DEFINE y  == WriteRun([done |-> 0, pipe |-> pipe], data)
           x  == WriteRun(y, data)
           c1 == Min3(Len(data) - 0, BufSize - pipe.tail, BufSize - pipe.count)
           c2 == Min3(Len(data) - c1, BufSize - y.pipe.tail, BufSize - y.pipe.count)
           n  == Smallest({Len(data), BufSize - Len(s)})
           s1 == SubSeq(data, 0 + 1, 0 + c1)
           s2 == SubSeq(data, c1 + 1, c1 + c2)
<1>1. /\ pipe \in PipeEntry /\ s \in Seq(Byte) /\ Len(s) \in Nat /\ Len(data) \in Nat /\ pipe.count = Len(s)
      /\ BufSize \in Nat \ {0} /\ pipe.tail \in 0 .. BufSize - 1 /\ pipe.count \in 0 .. BufSize
  <2>1. pipe \in PipeEntry /\ s \in Seq(Byte) /\ pipe.count = Len(s)
    BY DEF Ring
  <2>2. Len(s) \in Nat /\ Len(data) \in Nat
    BY <2>1
  <2>3. pipe.tail \in 0 .. BufSize - 1 /\ pipe.count \in 0 .. BufSize
    BY <2>1, EntryFacts, Zenon
  <2> QED
    BY <2>1, <2>2, <2>3, PipeAssumption
<1>2. /\ c1 \in Nat /\ 0 + c1 <= Len(data)
      /\ y = [done |-> 0 + c1, pipe |-> y.pipe]
      /\ Ring(y.pipe, s \o s1)
      /\ y.pipe.tail = Wrap(pipe.tail + c1) /\ y.pipe.count = pipe.count + c1
      /\ y.pipe.read_refs = pipe.read_refs /\ y.pipe.write_refs = pipe.write_refs
  <2>1. 0 \in Nat /\ 0 <= Len(data)
    BY <1>1
  <2>2. Appends(pipe, s, data, 0)
    BY <2>1, WriteRunAppends, Zenon
  <2> QED
    BY <2>2, Zenon DEF Appends
<1> HIDE DEF y
<1>3. /\ c2 \in Nat /\ c1 + c2 <= Len(data)
      /\ Ring(x.pipe, (s \o s1) \o s2)
      /\ x.pipe.read_refs = pipe.read_refs /\ x.pipe.write_refs = pipe.write_refs
  <2>1. c1 <= Len(data) /\ 0 + c1 = c1
    BY <1>1, <1>2
  <2>2. x = WriteRun([done |-> c1, pipe |-> y.pipe], data)
    BY <1>2, <2>1, Zenon
  <2> DEFINE z == WriteRun([done |-> c1, pipe |-> y.pipe], data)
  <2> HIDE DEF x, c1, s1
  <2>3. c1 \in Nat /\ c1 <= Len(data) /\ Ring(y.pipe, s \o s1)
    BY <1>2, <2>1
  <2>4. Appends(y.pipe, s \o s1, data, c1)
    BY <2>3, WriteRunAppends, Zenon
  <2>5. /\ c2 \in Nat /\ c1 + c2 <= Len(data)
        /\ Ring(z.pipe, (s \o s1) \o s2)
        /\ z.pipe.read_refs = y.pipe.read_refs /\ z.pipe.write_refs = y.pipe.write_refs
    BY <2>4, Zenon DEF Appends
  <2> HIDE DEF c2, s1, s2, z
  <2> QED
    BY <1>2, <2>2, <2>5, Zenon DEF z
<1>4. c1 + c2 = n
  <2>1. PICK t \in 0 .. BufSize - 1, c \in 0 .. BufSize, a \in Nat :
          t = pipe.tail /\ c = pipe.count /\ a = Len(data)
    BY <1>1
  <2>2. BufSize - c \in 0 .. BufSize /\ a - 0 = a
    BY <1>1
  <2>3. c1 = Min3(a, BufSize - t, BufSize - c) /\ n = Smallest({a, BufSize - c})
    BY <1>1, <2>1, <2>2, Zenon
  <2>4. BufSize - y.pipe.count = BufSize - c - c1
    BY <1>1, <1>2, <2>1
  <2>5. c2 = Min3(a - c1, BufSize - Wrap(t + c1), BufSize - c - c1)
    BY <1>2, <2>1, <2>4, Zenon
  <2> HIDE DEF c1, c2, n
  <2> QED
    BY <2>2, <2>3, <2>5, TwoRuns, Zenon
<1> HIDE DEF c1, c2, n, x
<1>5. (s \o s1) \o s2 = s \o SubSeq(data, 1, n)
  <2>1. s1 \in Seq(Byte) /\ s2 \in Seq(Byte)
    BY <1>1, <1>2, <1>3, SMTT(40)
  <2>2. (s \o s1) \o s2 = s \o (s1 \o s2)
    BY <1>1, <2>1, Regroup, Zenon
  <2>3. s1 = SubSeq(data, 1, c1) /\ s2 = SubSeq(data, c1 + 1, n)
    <3>1. 0 + 1 = 1 /\ 0 + c1 = c1
      BY <1>2
    <3> QED
      BY <1>4, <3>1, Zenon
  <2>4. c1 \in Nat /\ n \in Nat /\ c1 <= n /\ n <= Len(data)
    BY <1>1, <1>2, <1>3, <1>4
  <2>5. SubSeq(data, 1, c1) \o SubSeq(data, c1 + 1, n) = SubSeq(data, 1, n)
    BY <2>4, AdjacentChunks, Zenon
  <2> QED
    BY <2>2, <2>3, <2>5, Zenon
<1> QED
  BY <1>3, <1>5, Zenon DEF x, y, n

\* What an iteration of the loop in pipe_read does to a ring that holds s, after it got some
\* of the n bytes: the oldest chunk moves to the caller.
Takes(pipe, s, got, n) ==
    LET chunk == Min3(n - Len(got), BufSize - pipe.head, pipe.count)
        y     == ReadRun([got |-> got, pipe |-> pipe], n)
    IN  /\ chunk \in Nat /\ chunk <= Len(s) /\ chunk <= n - Len(got)
        /\ y = [got |-> got \o SubSeq(s, 1, chunk), pipe |-> y.pipe]
        /\ Ring(y.pipe, SubSeq(s, chunk + 1, Len(s)))
        /\ y.pipe.head = Wrap(pipe.head + chunk) /\ y.pipe.count = pipe.count - chunk
        /\ y.pipe.read_refs = pipe.read_refs /\ y.pipe.write_refs = pipe.write_refs

\* The front of a stream and the rest of it.
LEMMA CutFacts ==
    ASSUME NEW s \in Seq(Byte), NEW k \in Nat, k <= Len(s)
    PROVE  /\ SubSeq(s, 1, k) \in Seq(Byte) /\ Len(SubSeq(s, 1, k)) = k
           /\ SubSeq(s, 1, k) = [r \in 1 .. k |-> s[r]]
           /\ SubSeq(s, k + 1, Len(s)) \in Seq(Byte) /\ Len(SubSeq(s, k + 1, Len(s))) = Len(s) - k
           /\ \A r \in 1 .. Len(s) - k : SubSeq(s, k + 1, Len(s))[r] = s[k + r]
<1>1. SubSeq(s, 1, k) \in Seq(Byte) /\ Len(SubSeq(s, 1, k)) = k
  OBVIOUS
<1>2. SubSeq(s, 1, k) = [r \in 1 .. k |-> s[r]]
  OBVIOUS
<1>3. SubSeq(s, k + 1, Len(s)) \in Seq(Byte) /\ Len(SubSeq(s, k + 1, Len(s))) = Len(s) - k
  OBVIOUS
<1>4. \A r \in 1 .. Len(s) - k : SubSeq(s, k + 1, Len(s))[r] = s[k + r]
  OBVIOUS
<1> QED
  BY <1>1, <1>2, <1>3, <1>4

\* One iteration of the loop in pipe_read takes the bytes it copies from the stream.
LEMMA ReadRunTakes ==
    ASSUME NEW pipe, NEW s, Ring(pipe, s), NEW got \in Seq(Byte), NEW n \in Nat, Len(got) <= n
    PROVE  Takes(pipe, s, got, n)
<1> DEFINE chunk == Min3(n - Len(got), BufSize - pipe.head, pipe.count)
           y     == ReadRun([got |-> got, pipe |-> pipe], n)
           new   == [k \in 1 .. chunk |-> pipe.buffer[pipe.head + k - 1]]
           rest  == SubSeq(s, chunk + 1, Len(s))
<1>1. /\ pipe \in PipeEntry /\ s \in Seq(Byte) /\ Len(s) \in Nat /\ Len(got) \in Nat
      /\ pipe.count = Len(s) /\ pipe.tail = Wrap(pipe.head + pipe.count)
      /\ \A k \in 1 .. Len(s) : pipe.buffer[Wrap(pipe.head + k - 1)] = s[k]
  BY DEF Ring
<1>2. /\ pipe.buffer \in [0 .. BufSize - 1 -> Byte \union {NoByte}] /\ BufSize \in Nat \ {0}
      /\ pipe.head \in 0 .. BufSize - 1 /\ pipe.tail \in 0 .. BufSize - 1 /\ pipe.count \in 0 .. BufSize
  BY <1>1, EntryFacts, PipeAssumption, Zenon
<1>3. PICK h \in 0 .. BufSize - 1, c \in 0 .. BufSize : h = pipe.head /\ c = pipe.count
  BY <1>2
<1>4. chunk \in Nat /\ chunk <= n - Len(got) /\ chunk <= BufSize - h /\ chunk <= c
  <2>1. n - Len(got) \in Nat /\ BufSize - h \in Nat /\ c \in Nat
    BY <1>1, <1>2
  <2> QED
    BY <1>3, <2>1, ChunkIs, Zenon
<1>5. /\ y = [got |-> got \o new, pipe |-> y.pipe]
      /\ y.pipe = [pipe EXCEPT !.head = Wrap(h + chunk), !.count = c - chunk]
  BY <1>3 DEF ReadRun, Wrap
<1> HIDE DEF chunk
<1>6. Leads(h, chunk, c)
  BY <1>4, ReadIndices, Zenon
<1>7. chunk <= Len(s) /\ c = Len(s)
  BY <1>1, <1>3, <1>4
<1>8. new = SubSeq(s, 1, chunk)
  <2>1. \A r \in 1 .. chunk : r \in 1 .. Len(s)
    BY <1>1, <1>4, <1>7
  <2>2. ASSUME NEW r \in 1 .. chunk PROVE pipe.buffer[h + r - 1] = s[r]
    <3>1. Wrap(h + r - 1) = h + r - 1
      BY <1>6 DEF Leads
    <3>2. pipe.buffer[Wrap(h + r - 1)] = s[r]
      BY <1>1, <1>3, <2>1, Zenon
    <3> QED
      BY <3>1, <3>2
  <2>3. new = [r \in 1 .. chunk |-> s[r]]
    BY <1>3, <2>2, Zenon
  <2> QED
    BY <1>1, <1>4, <1>7, <2>3, CutFacts, Zenon
<1> HIDE DEF y, new
<1>9. /\ y.pipe \in PipeEntry /\ y.pipe.buffer = pipe.buffer /\ y.pipe.tail = pipe.tail
      /\ y.pipe.head = Wrap(h + chunk) /\ y.pipe.count = c - chunk
      /\ y.pipe.read_refs = pipe.read_refs /\ y.pipe.write_refs = pipe.write_refs
  <2>1. c - chunk \in 0 .. BufSize /\ Wrap(h + chunk) \in 0 .. BufSize - 1
    BY <1>2, <1>4, <1>6 DEF Leads
  <2>2. y.pipe \in PipeEntry
    <3>1. [pipe EXCEPT !.head = Wrap(h + chunk), !.count = c - chunk] \in PipeEntry
      BY <1>1, <1>2, <2>1, EntryUpdates, Zenon
    <3> QED
      BY <1>5, <3>1
  <2>3. /\ y.pipe.buffer = pipe.buffer /\ y.pipe.tail = pipe.tail
        /\ y.pipe.head = Wrap(h + chunk) /\ y.pipe.count = c - chunk
        /\ y.pipe.read_refs = pipe.read_refs /\ y.pipe.write_refs = pipe.write_refs
    <3> DEFINE w == [pipe EXCEPT !.head = Wrap(h + chunk), !.count = c - chunk]
    <3>1. Fields(w, pipe, pipe.buffer, Wrap(h + chunk), pipe.tail, c - chunk)
      BY <1>1, UpdatedFields, Zenon
    <3>2. y.pipe = w
      BY <1>5, Zenon
    <3> HIDE DEF w
    <3> QED
      BY <3>1, <3>2, Zenon DEF Fields
  <2> QED
    BY <2>2, <2>3
<1>10. /\ rest \in Seq(Byte) /\ Len(rest) = c - chunk
       /\ \A k \in 1 .. c - chunk : rest[k] = s[chunk + k]
  BY <1>1, <1>4, <1>7, CutFacts
<1> HIDE DEF rest
<1>11. ASSUME NEW k \in 1 .. c - chunk PROVE pipe.buffer[Wrap(Wrap(h + chunk) + k - 1)] = rest[k]
  <2>1. Wrap(Wrap(h + chunk) + k - 1) = Wrap(h + (chunk + k) - 1)
    BY <1>6 DEF Leads
  <2>2. chunk + k \in 1 .. Len(s)
    BY <1>1, <1>4, <1>7
  <2>3. pipe.buffer[Wrap(h + (chunk + k) - 1)] = s[chunk + k]
    BY <1>1, <1>3, <2>2, Zenon
  <2> QED
    BY <1>10, <2>1, <2>3, Zenon
<1>12. pipe.tail = Wrap(Wrap(h + chunk) + (c - chunk))
  BY <1>1, <1>3, <1>6 DEF Leads
<1>13. Ring(y.pipe, rest)
  BY <1>9, <1>10, <1>11, <1>12, Zenon DEF Ring
<1> QED
  BY <1>3, <1>4, <1>5, <1>7, <1>8, <1>9, <1>13, Zenon DEF y, rest, chunk, Takes

\* Taking a bytes and then b more is taking a + b.
LEMMA CutTwice ==
    ASSUME NEW s \in Seq(Byte), NEW a \in Nat, NEW b \in Nat, a + b <= Len(s)
    PROVE  LET t == SubSeq(s, a + 1, Len(s))
           IN  /\ SubSeq(s, 1, a) \o SubSeq(t, 1, b) = SubSeq(s, 1, a + b)
               /\ SubSeq(t, b + 1, Len(t)) = SubSeq(s, a + b + 1, Len(s))
<1> DEFINE t == SubSeq(s, a + 1, Len(s))
<1>1. Len(s) \in Nat /\ a <= Len(s) /\ a + b \in Nat
  OBVIOUS
<1>2. t \in Seq(Byte) /\ Len(t) = Len(s) - a /\ \A r \in 1 .. Len(s) - a : t[r] = s[a + r]
  BY <1>1, CutFacts
<1> HIDE DEF t
<1>3. b <= Len(t)
  BY <1>1, <1>2
<1>4. SubSeq(s, 1, a) \o SubSeq(t, 1, b) = SubSeq(s, 1, a + b)
  <2> DEFINE u == SubSeq(s, 1, a)
             v == SubSeq(t, 1, b)
             w == SubSeq(s, 1, a + b)
  <2>1. u \in Seq(Byte) /\ Len(u) = a /\ u = [r \in 1 .. a |-> s[r]]
    BY <1>1, CutFacts
  <2>2. v \in Seq(Byte) /\ Len(v) = b /\ v = [r \in 1 .. b |-> t[r]]
    BY <1>2, <1>3, CutFacts
  <2>3. w \in Seq(Byte) /\ Len(w) = a + b /\ w = [r \in 1 .. a + b |-> s[r]]
    BY <1>1, CutFacts
  <2> HIDE DEF u, v, w
  <2>4. /\ u \o v \in Seq(Byte) /\ Len(u \o v) = a + b
        /\ \A k \in 1 .. a : (u \o v)[k] = u[k]
        /\ \A r \in 1 .. b : (u \o v)[a + r] = v[r]
    BY <2>1, <2>2, SpliceFacts, Zenon
  <2>5. ASSUME NEW k \in 1 .. a + b PROVE (u \o v)[k] = w[k]
    <3>1. CASE k \in 1 .. a
      BY <2>1, <2>3, <2>4, <3>1
    <3>2. ASSUME NEW r \in 1 .. b, k = a + r PROVE (u \o v)[k] = w[k]
      <4>1. r \in 1 .. Len(s) - a
        BY <1>1
      <4>2. v[r] = s[a + r]
        BY <1>2, <2>2, <4>1
      <4> QED
        BY <2>3, <2>4, <3>2, <4>2
    <3>3. k \in 1 .. a \/ (k - a \in 1 .. b /\ k = a + (k - a))
      OBVIOUS
    <3> QED
      BY <3>1, <3>2, <3>3, Zenon
  <2>6. u \o v = w
    BY <2>3, <2>4, <2>5, SameBytes, Zenon
  <2> QED
    BY <2>6 DEF u, v, w
<1>5. SubSeq(t, b + 1, Len(t)) = SubSeq(s, a + b + 1, Len(s))
  <2> DEFINE u == SubSeq(t, b + 1, Len(t))
             w == SubSeq(s, a + b + 1, Len(s))
  <2>1. /\ u \in Seq(Byte) /\ Len(u) = Len(t) - b
        /\ \A r \in 1 .. Len(t) - b : u[r] = t[b + r]
    BY <1>2, <1>3, CutFacts, Zenon
  <2>2. /\ w \in Seq(Byte) /\ Len(w) = Len(s) - (a + b)
        /\ \A r \in 1 .. Len(s) - (a + b) : w[r] = s[a + b + r]
    BY <1>1, CutFacts
  <2> HIDE DEF u, w
  <2>3. Len(u) = Len(w) /\ Len(u) = Len(t) - b /\ Len(w) = Len(s) - (a + b)
    BY <1>1, <1>2, <2>1, <2>2
  <2>4. ASSUME NEW r \in 1 .. Len(u) PROVE u[r] = w[r]
    <3>1. b + r \in 1 .. Len(s) - a /\ a + (b + r) = a + b + r /\ r \in 1 .. Len(t) - b
          /\ r \in 1 .. Len(s) - (a + b)
      BY <1>1, <1>2, <2>3
    <3>2. u[r] = t[b + r] /\ t[b + r] = s[a + (b + r)] /\ w[r] = s[a + b + r]
      BY <1>2, <2>1, <2>2, <3>1, Zenon
    <3> QED
      BY <3>1, <3>2
  <2>5. u = w
    BY <2>1, <2>2, <2>3, <2>4, SameBytes, SMTT(40)
  <2> QED
    BY <2>5 DEF u, w
<1> QED
  BY <1>4, <1>5 DEF t

\* The loop in pipe_read takes as many bytes as there are, in order.
LEMMA ReadTakes ==
    ASSUME NEW pipe, NEW s, Ring(pipe, s), NEW n \in Nat
    PROVE  LET x == ReadRun(ReadRun([got |-> <<>>, pipe |-> pipe], n), n)
               k == Smallest({n, Len(s)})
           IN  /\ x.got = SubSeq(s, 1, k)
               /\ Ring(x.pipe, SubSeq(s, k + 1, Len(s)))
               /\ x.pipe.read_refs = pipe.read_refs /\ x.pipe.write_refs = pipe.write_refs
<1> DEFINE y  == ReadRun([got |-> <<>>, pipe |-> pipe], n)
           x  == ReadRun(y, n)
           k  == Smallest({n, Len(s)})
           c1 == Min3(n - Len(<<>>), BufSize - pipe.head, pipe.count)
           g1 == SubSeq(s, 1, c1)
           s1 == SubSeq(s, c1 + 1, Len(s))
           c2 == Min3(n - Len(g1), BufSize - y.pipe.head, y.pipe.count)
<1>1. /\ pipe \in PipeEntry /\ s \in Seq(Byte) /\ Len(s) \in Nat /\ pipe.count = Len(s)
      /\ BufSize \in Nat \ {0} /\ pipe.head \in 0 .. BufSize - 1 /\ pipe.count \in 0 .. BufSize
  <2>1. pipe \in PipeEntry /\ s \in Seq(Byte) /\ pipe.count = Len(s)
    BY DEF Ring
  <2>2. Len(s) \in Nat
    BY <2>1
  <2>3. pipe.head \in 0 .. BufSize - 1 /\ pipe.count \in 0 .. BufSize
    BY <2>1, EntryFacts, Zenon
  <2> QED
    BY <2>1, <2>2, <2>3, PipeAssumption
<1>2. /\ c1 \in Nat /\ c1 <= Len(s) /\ c1 <= n
      /\ y = [got |-> g1, pipe |-> y.pipe]
      /\ Ring(y.pipe, s1)
      /\ y.pipe.head = Wrap(pipe.head + c1) /\ y.pipe.count = pipe.count - c1
      /\ y.pipe.read_refs = pipe.read_refs /\ y.pipe.write_refs = pipe.write_refs
  <2>1. <<>> \in Seq(Byte) /\ Len(<<>>) = 0 /\ Len(<<>>) <= n /\ n - Len(<<>>) = n
    OBVIOUS
  <2>2. Takes(pipe, s, <<>>, n)
    BY <2>1, ReadRunTakes, Zenon
  <2>3. /\ c1 \in Nat /\ c1 <= Len(s) /\ c1 <= n - Len(<<>>)
        /\ y = [got |-> <<>> \o g1, pipe |-> y.pipe]
        /\ Ring(y.pipe, s1)
        /\ y.pipe.head = Wrap(pipe.head + c1) /\ y.pipe.count = pipe.count - c1
        /\ y.pipe.read_refs = pipe.read_refs /\ y.pipe.write_refs = pipe.write_refs
    BY <2>2, Zenon DEF Takes
  <2> HIDE DEF y, c1
  <2>4. g1 \in Seq(Byte)
    BY <1>1, <2>3, CutFacts
  <2>5. <<>> \o g1 = g1
    BY <2>4
  <2> HIDE DEF g1, s1
  <2> QED
    BY <2>1, <2>3, <2>5, Zenon
<1> HIDE DEF y
<1>3. Len(g1) = c1 /\ g1 \in Seq(Byte) /\ s1 \in Seq(Byte) /\ Len(s1) = Len(s) - c1
  <2> HIDE DEF c1
  <2> QED
    BY <1>1, <1>2, CutFacts, SMTT(40)
<1>4. /\ c2 \in Nat /\ c2 <= Len(s1)
      /\ x.got = g1 \o SubSeq(s1, 1, c2)
      /\ Ring(x.pipe, SubSeq(s1, c2 + 1, Len(s1)))
      /\ x.pipe.read_refs = pipe.read_refs /\ x.pipe.write_refs = pipe.write_refs
  <2> DEFINE z == ReadRun([got |-> g1, pipe |-> y.pipe], n)
  <2>1. x = z
    BY <1>2, Zenon
  <2> HIDE DEF x, c1, g1, s1
  <2>2. Len(g1) <= n /\ Ring(y.pipe, s1)
    BY <1>2, <1>3
  <2>3. Takes(y.pipe, s1, g1, n)
    BY <1>3, <2>2, ReadRunTakes, Zenon
  <2>4. /\ c2 \in Nat /\ c2 <= Len(s1)
        /\ z = [got |-> g1 \o SubSeq(s1, 1, c2), pipe |-> z.pipe]
        /\ Ring(z.pipe, SubSeq(s1, c2 + 1, Len(s1)))
        /\ z.pipe.read_refs = y.pipe.read_refs /\ z.pipe.write_refs = y.pipe.write_refs
    BY <2>3, Zenon DEF Takes
  <2> HIDE DEF c2, z
  <2>5. z.got = g1 \o SubSeq(s1, 1, c2)
    BY <2>4, SMTT(40)
  <2> QED
    BY <1>2, <2>1, <2>4, <2>5, Zenon DEF z
<1>5. c1 + c2 = k
  <2>1. PICK h \in 0 .. BufSize - 1, c \in 0 .. BufSize : h = pipe.head /\ c = pipe.count
    BY <1>1
  <2>2. n - Len(<<>>) = n
    OBVIOUS
  <2>3. c1 = Min3(n, BufSize - h, c) /\ k = Smallest({n, c})
    BY <1>1, <2>1, <2>2, Zenon
  <2>4. c2 = Min3(n - c1, BufSize - Wrap(h + c1), c - c1)
    <3> HIDE DEF c1, g1
    <3> QED
      BY <1>2, <1>3, <2>1, Zenon
  <2> HIDE DEF c1, c2, k
  <2> QED
    BY <2>3, <2>4, TwoRuns, Zenon
<1> HIDE DEF c1, c2, k, x
<1>6. c1 + c2 <= Len(s)
  BY <1>1, <1>2, <1>3, <1>4, SMTT(40)
<1>7. g1 \o SubSeq(s1, 1, c2) = SubSeq(s, 1, k) /\ SubSeq(s1, c2 + 1, Len(s1)) = SubSeq(s, k + 1, Len(s))
  BY <1>1, <1>2, <1>4, <1>5, <1>6, CutTwice, Zenon
<1> HIDE DEF g1, s1
<1> QED
  BY <1>4, <1>7, Zenon DEF x, y, k

-----------------------------------------------------------------------------
(* The table of pipes.                                                       *)

\* A free pipe.
LEMMA IdleFacts == Idle.used = FALSE /\ Idle.count = 0 /\ Idle.read_refs = 0 /\ Idle.write_refs = 0
  BY DEF Idle

\* A pipe in use has a ring, which holds its stream.
LEMMA UsedIsRing ==
    ASSUME Rings, NEW i \in PipeId, g_pipes[i].used
    PROVE  Ring(g_pipes[i], stream[i]) /\ g_pipes[i].read_refs + g_pipes[i].write_refs > 0
<1>1. g_pipes[i] # Idle
  BY IdleFacts
<1> QED
  BY <1>1, Zenon DEF Rings

\* A pipe not in use is free, and its stream empty.
LEMMA UnusedIsIdle ==
    ASSUME Rings, NEW i \in PipeId, ~g_pipes[i].used
    PROVE  g_pipes[i] = Idle /\ stream[i] = <<>>
<1>1. ~Ring(g_pipes[i], stream[i])
  <2>1. SUFFICES ASSUME g_pipes[i] \in PipeEntry PROVE FALSE
    BY DEF Ring
  <2> QED
    BY <2>1, EntryFacts, Zenon
<1> QED
  BY <1>1, Zenon DEF Rings

\* An operation on one pipe that leaves it free or its ring in step with its stream leaves
\* all the others as they are.
LEMMA RingsStep ==
    ASSUME Rings, NEW i \in PipeId, NEW q, NEW s,
           (q = Idle /\ s = <<>>) \/ (Ring(q, s) /\ q.read_refs + q.write_refs > 0),
           g_pipes' = [g_pipes EXCEPT ![i] = q], stream' = [stream EXCEPT ![i] = s], last'.got = last'.due
    PROVE  Rings'
<1>1. q \in PipeEntry \union {Idle} /\ s \in Seq(Byte)
  <2>1. CASE q = Idle /\ s = <<>>
    BY <2>1
  <2>2. CASE Ring(q, s)
    BY <2>2 DEF Ring
  <2> QED
    BY <2>1, <2>2
<1>2. g_pipes \in [PipeId -> PipeEntry \union {Idle}] /\ stream \in [PipeId -> Seq(Byte)]
  BY DEF Rings
<1>3. g_pipes' \in [PipeId -> PipeEntry \union {Idle}] /\ stream' \in [PipeId -> Seq(Byte)]
  BY <1>1, <1>2, Zenon
<1>4. g_pipes'[i] = q /\ stream'[i] = s
  BY <1>2, Zenon
<1>5. \A j \in PipeId : j # i => g_pipes'[j] = g_pipes[j] /\ stream'[j] = stream[j]
  BY <1>2, Zenon
<1>6. ASSUME NEW j \in PipeId
      PROVE  \/ g_pipes'[j] = Idle /\ stream'[j] = <<>>
             \/ /\ Ring(g_pipes'[j], stream'[j])
                /\ g_pipes'[j].read_refs + g_pipes'[j].write_refs > 0
  <2>1. CASE j = i
    BY <1>4, <2>1, Zenon
  <2>2. CASE j # i
    BY <1>5, <2>2, Zenon DEF Rings
  <2> QED
    BY <2>1, <2>2
<1> QED
  BY <1>3, <1>6, Zenon DEF Rings, Ring, Idle, PipeEntry, Wrap

\* A new pipe holds nothing yet.
LEMMA NewRing ==
    LET q == [Idle EXCEPT !.used = TRUE, !.buffer = FreshBuffer, !.read_refs = 1, !.write_refs = 1]
    IN  Ring(q, <<>>) /\ q.read_refs = 1 /\ q.write_refs = 1
<1> DEFINE q == [Idle EXCEPT !.used = TRUE, !.buffer = FreshBuffer, !.read_refs = 1, !.write_refs = 1]
<1>1. BufSize \in Nat \ {0}
  BY PipeAssumption
<1>2. FreshBuffer \in [0 .. BufSize - 1 -> Byte \union {NoByte}]
  BY DEF FreshBuffer
<1>3. q.head = 0 /\ q.tail = 0 /\ q.count = 0 /\ q.read_refs = 1 /\ q.write_refs = 1
  BY DEF Idle
<1>4. 0 \in 0 .. BufSize - 1 /\ 0 \in 0 .. BufSize
  BY <1>1
<1>5. q \in PipeEntry
  <2> DEFINE Entry(u, b, r, w) == [used : {u}, buffer : {b}, head : {0}, tail : {0}, count : {0},
                                  read_refs : {r}, write_refs : {w}]
             q1 == [Idle EXCEPT !.used = TRUE]
             q2 == [q1 EXCEPT !.buffer = FreshBuffer]
             q3 == [q2 EXCEPT !.read_refs = 1]
             q4 == [q3 EXCEPT !.write_refs = 1]
  <2>1. Idle \in Entry(FALSE, <<>>, 0, 0)
    BY DEF Idle
  <2>2. q1 \in Entry(TRUE, <<>>, 0, 0)
    BY <2>1, Zenon
  <2> HIDE DEF q1
  <2>3. q2 \in Entry(TRUE, FreshBuffer, 0, 0)
    BY <2>2, Zenon
  <2> HIDE DEF q2
  <2>4. q3 \in Entry(TRUE, FreshBuffer, 1, 0)
    BY <2>3, Zenon
  <2> HIDE DEF q3
  <2>5. q4 \in Entry(TRUE, FreshBuffer, 1, 1)
    BY <2>4, Zenon
  <2> HIDE DEF q4
  <2>6. q = q4
    BY Zenon DEF q1, q2, q3, q4
  <2>7. Entry(TRUE, FreshBuffer, 1, 1) \subseteq PipeEntry
    <3>1. 1 \in 0 .. 1
      OBVIOUS
    <3> QED
      BY <1>2, <1>4, <3>1, Zenon DEF PipeEntry
  <2> QED
    BY <2>5, <2>6, <2>7, Zenon
<1> HIDE DEF q
<1>6. 0 \in 0 .. 2 * BufSize - 1
  BY <1>1
<1>7. Wrap(0 + 0) = 0
  BY <1>1, <1>6, Wraps
<1>8. Ring(q, <<>>)
  BY <1>3, <1>5, <1>7 DEF Ring
<1> QED
  BY <1>3, <1>8 DEF q

-----------------------------------------------------------------------------
(* The descriptor tables.                                                    *)

\* A handle names one end of one pipe, and never reads as a free descriptor.
LEMMA Handles ==
    ASSUME NEW i \in PipeId, NEW d \in {0, 1}
    PROVE  /\ Handle(i, d) >= HandleBase /\ Handle(i, d) # -1
           /\ (Handle(i, d) - HandleBase) \div 2 = i /\ (Handle(i, d) - HandleBase) % 2 = d
           /\ \A j \in PipeId, e \in {0, 1} : Handle(i, d) = Handle(j, e) => i = j /\ d = e
<1>1. i \in Nat /\ \A j \in PipeId : j \in Nat
  BY PipeAssumption DEF PipeId
<1>2. Handle(i, d) = 10 + i * 2 + d /\ HandleBase = 10
  BY DEF Handle, HandleBase
<1>3. Handle(i, d) - HandleBase = 2 * i + d
  BY <1>1, <1>2
<1>4. (2 * i + d) \div 2 = i /\ (2 * i + d) % 2 = d
  BY <1>1
<1>5. \A j \in PipeId, e \in {0, 1} : Handle(i, d) = Handle(j, e) => i = j /\ d = e
  BY <1>1 DEF Handle, HandleBase
<1> QED
  BY <1>1, <1>2, <1>3, <1>4, <1>5

\* What pipe_decode_handle makes of a descriptor.
LEMMA Decodes ==
    ASSUME Tables, NEW p \in Proc, NEW fd \in Fd, IsPipe(p, fd)
    PROVE  /\ Slot(p, fd) \in PipeId /\ Direction(p, fd) \in {0, 1}
           /\ fd_table[p][fd] = Handle(Slot(p, fd), Direction(p, fd))
<1>1. fd_table[p][fd] >= HandleBase
  BY DEF IsPipe
<1>2. fd_table[p][fd] # -1
  BY <1>1 DEF HandleBase
<1>3. fd_table[p][fd] \in FdValue
  BY DEF Tables
<1>4. PICK i \in PipeId, d \in {0, 1} : fd_table[p][fd] = Handle(i, d)
  BY <1>2, <1>3 DEF FdValue
<1>5. Slot(p, fd) = i /\ Direction(p, fd) = d
  <2>1. (Handle(i, d) - HandleBase) \div 2 = i /\ (Handle(i, d) - HandleBase) % 2 = d
    BY Handles, Zenon
  <2> QED
    BY <1>4, <2>1, Zenon DEF Slot, Direction
<1> QED
  BY <1>4, <1>5

\* The pipes a process has descriptors for.
LEMMA Holds ==
    ASSUME NEW p \in Proc, NEW fd \in Fd, NEW i \in PipeId, NEW d \in {0, 1}, fd_table[p][fd] = Handle(i, d)
    PROVE  i \in PipesOf(p)
<1>1. Slot(p, fd) = i /\ IsPipe(p, fd)
  <2>1. (Handle(i, d) - HandleBase) \div 2 = i /\ Handle(i, d) >= HandleBase
    BY Handles, Zenon
  <2> QED
    BY <2>1, Zenon DEF Slot, IsPipe
<1> QED
  BY <1>1, Zenon DEF PipesOf

\* The open ends of a pipe are what they were when every live process has descriptors for them
\* where it had them.
LEMMA OpenEndsStay ==
    ASSUME NEW i \in PipeId, NEW d \in {0, 1},
           \A q \in Proc, f \in Fd : (q \in alive' /\ fd_table'[q][f] = Handle(i, d))
                                       <=> (q \in alive /\ fd_table[q][f] = Handle(i, d))
    PROVE  OpenEnds(i, d)' = OpenEnds(i, d)
<1>1. ASSUME NEW pf \in Proc \X Fd
      PROVE  (pf[1] \in alive' /\ fd_table'[pf[1]][pf[2]] = Handle(i, d))
               <=> (pf[1] \in alive /\ fd_table[pf[1]][pf[2]] = Handle(i, d))
  <2>1. pf[1] \in Proc /\ pf[2] \in Fd
    OBVIOUS
  <2> QED
    BY <2>1, Zenon
<1>2. OpenEnds(i, d)' = {pf \in Proc \X Fd : pf[1] \in alive' /\ fd_table'[pf[1]][pf[2]] = Handle(i, d)}
  BY DEF OpenEnds, Handle, Fd
<1> QED
  BY <1>1, <1>2, Zenon DEF OpenEnds

\* The counts of the pipes that keep their ends and their counts.
LEMMA CountsStay ==
    ASSUME Tables, NEW i \in PipeId, i \notin shared,
           g_pipes'[i].read_refs = g_pipes[i].read_refs, g_pipes'[i].write_refs = g_pipes[i].write_refs,
           OpenEnds(i, 0)' = OpenEnds(i, 0), OpenEnds(i, 1)' = OpenEnds(i, 1)
    PROVE  (Ends(i, 0, g_pipes[i].read_refs) /\ Ends(i, 1, g_pipes[i].write_refs))'
<1>1. Ends(i, 0, g_pipes[i].read_refs) /\ Ends(i, 1, g_pipes[i].write_refs)
  BY Zenon DEF Tables
<1> QED
  BY <1>1, Zenon DEF Ends, OpenEnds

\* A step that leaves descriptors, processes and counts alone.
LEMMA TablesStay ==
    ASSUME Tables, UNCHANGED <<fd_table, alive, shared>>, sigpipe' \subseteq alive,
           \A i \in PipeId : /\ g_pipes'[i].read_refs = g_pipes[i].read_refs
                             /\ g_pipes'[i].write_refs = g_pipes[i].write_refs
    PROVE  Tables'
<1>1. \A i \in PipeId, d \in {0, 1} : OpenEnds(i, d)' = OpenEnds(i, d)
  BY DEF OpenEnds
<1>2. ASSUME NEW i \in PipeId \ shared
      PROVE  (Ends(i, 0, g_pipes[i].read_refs) /\ Ends(i, 1, g_pipes[i].write_refs))'
  BY <1>1, CountsStay
<1>3. /\ fd_table' \in [Proc -> [Fd -> FdValue]]
      /\ alive' \subseteq Proc /\ sigpipe' \subseteq alive' /\ shared' = shared
  BY DEF Tables
<1> QED
  BY <1>2, <1>3, Zenon DEF Tables

-----------------------------------------------------------------------------
(* The steps.                                                                *)

\* The tables the kernel starts with, and its first process.
LEMMA InitInv == Init => IInv
<1> SUFFICES ASSUME Init PROVE IInv
  OBVIOUS
<1>1. Rings
  BY DEF Init, Rings
<1>2. fd_table \in [Proc -> [Fd -> FdValue]]
  BY DEF Init, NoFds, FdValue
<1>3. alive \subseteq Proc /\ sigpipe \subseteq alive
  BY DEF Init
<1>4. ASSUME NEW i \in PipeId, NEW d \in {0, 1} PROVE OpenEnds(i, d) = {}
  <2>1. ASSUME NEW pf \in Proc \X Fd PROVE fd_table[pf[1]][pf[2]] # Handle(i, d)
    <3>1. fd_table[pf[1]][pf[2]] = -1
      BY DEF Init, NoFds
    <3> QED
      BY <3>1, Handles
  <2> QED
    BY <2>1, Zenon DEF OpenEnds
<1>5. \A i \in PipeId : g_pipes[i].read_refs = 0 /\ g_pipes[i].write_refs = 0
  BY IdleFacts DEF Init
<1>6. \A i \in PipeId : Ends(i, 0, g_pipes[i].read_refs) /\ Ends(i, 1, g_pipes[i].write_refs)
  BY <1>4, <1>5 DEF Ends
<1> QED
  BY <1>1, <1>2, <1>3, <1>6, Zenon DEF IInv, Tables

\* pipe_read.
LEMMA ReadStep ==
    ASSUME IInv, NEW p \in alive, NEW fd \in Fd, NEW n \in 1 .. MaxCount, pipe_read(p, fd, n)
    PROVE  IInv'
<1> DEFINE i == Slot(p, fd)
           x == ReadRun(ReadRun([got |-> <<>>, pipe |-> g_pipes[i]], n), n)
           k == Smallest({n, Len(stream[i])})
           r == SubSeq(stream[i], k + 1, Len(stream[i]))
<1>1. Rings /\ Tables /\ p \in Proc /\ n \in Nat
  BY PipeAssumption DEF IInv, Tables
<1>2. /\ IsPipe(p, fd) /\ g_pipes[i].used
      /\ g_pipes' = [g_pipes EXCEPT ![i] = x.pipe]
      /\ last' = [got |-> x.got, due |-> SubSeq(stream[i], 1, k)]
      /\ stream' = [stream EXCEPT ![i] = r]
      /\ UNCHANGED <<fd_table, alive, sigpipe, shared>>
  BY Zenon DEF pipe_read
<1>3. i \in PipeId
  BY <1>1, <1>2, Decodes, SMTT(40)
<1>4. Ring(g_pipes[i], stream[i]) /\ g_pipes[i].read_refs + g_pipes[i].write_refs > 0
  BY <1>1, <1>2, <1>3, UsedIsRing
<1> HIDE DEF i
<1>5. /\ x.got = SubSeq(stream[i], 1, k) /\ Ring(x.pipe, r)
      /\ x.pipe.read_refs = g_pipes[i].read_refs /\ x.pipe.write_refs = g_pipes[i].write_refs
  BY <1>1, <1>4, ReadTakes, ZenonT(40)
<1> HIDE DEF x, k, r
<1>6. last'.got = last'.due
  BY <1>2, <1>5, Zenon
<1>7. Rings'
  <2>1. x.pipe.read_refs + x.pipe.write_refs > 0
    BY <1>4, <1>5
  <2> QED
    BY <1>1, <1>2, <1>3, <1>5, <1>6, <2>1, RingsStep, Zenon
<1>8. Tables'
  <2>1. g_pipes \in [PipeId -> PipeEntry \union {Idle}]
    BY <1>1 DEF Rings
  <2>2. \A j \in PipeId : /\ g_pipes'[j].read_refs = g_pipes[j].read_refs
                          /\ g_pipes'[j].write_refs = g_pipes[j].write_refs
    BY <1>2, <1>3, <1>5, <2>1, Zenon
  <2>3. sigpipe' \subseteq alive
    BY <1>1, <1>2 DEF Tables
  <2> QED
    BY <1>1, <1>2, <2>2, <2>3, TablesStay
<1> QED
  BY <1>7, <1>8 DEF IInv

\* pipe_write, to a pipe with a read end and to one without.
LEMMA WriteStep ==
    ASSUME IInv, NEW p \in alive, NEW fd \in Fd, NEW n \in 1 .. MaxCount, NEW data \in [1 .. n -> Byte],
           pipe_write(p, fd, data)
    PROVE  IInv'
<1> DEFINE i == Slot(p, fd)
           x == WriteRun(WriteRun([done |-> 0, pipe |-> g_pipes[i]], data), data)
           s == stream[i] \o SubSeq(data, 1, Smallest({Len(data), BufSize - Len(stream[i])}))
<1>1. Rings /\ Tables /\ p \in Proc
  BY DEF IInv, Tables
<1>2. data \in Seq(Byte)
  BY PipeAssumption
<1>3. /\ IsPipe(p, fd) /\ g_pipes[i].used /\ UNCHANGED <<fd_table, alive, last, shared>>
      /\ \/ sigpipe' = sigpipe \union {p} /\ UNCHANGED <<g_pipes, stream>>
         \/ /\ g_pipes' = [g_pipes EXCEPT ![i] = x.pipe]
            /\ stream' = [stream EXCEPT ![i] = s]
            /\ UNCHANGED sigpipe
  BY Zenon DEF pipe_write
<1>4. i \in PipeId
  BY <1>1, <1>3, Decodes, SMTT(40)
<1>5. Ring(g_pipes[i], stream[i]) /\ g_pipes[i].read_refs + g_pipes[i].write_refs > 0
  BY <1>1, <1>3, <1>4, UsedIsRing
<1> HIDE DEF i
<1>6. /\ Ring(x.pipe, s)
      /\ x.pipe.read_refs = g_pipes[i].read_refs /\ x.pipe.write_refs = g_pipes[i].write_refs
  BY <1>2, <1>5, WriteAppends, Zenon
<1> HIDE DEF x, s
<1>7. last'.got = last'.due
  BY <1>1, <1>3 DEF Rings
<1>8. CASE sigpipe' = sigpipe \union {p} /\ UNCHANGED <<g_pipes, stream>>
  <2>1. Rings'
    BY <1>1, <1>3, <1>8 DEF Rings
  <2>2. sigpipe' \subseteq alive
    BY <1>1, <1>8 DEF Tables
  <2>3. Tables'
    BY <1>1, <1>3, <1>8, <2>2, TablesStay, SMTT(40)
  <2> QED
    BY <2>1, <2>3 DEF IInv
<1>9. CASE /\ g_pipes' = [g_pipes EXCEPT ![i] = x.pipe]
           /\ stream' = [stream EXCEPT ![i] = s]
           /\ UNCHANGED sigpipe
  <2>1. x.pipe.read_refs + x.pipe.write_refs > 0
    BY <1>5, <1>6
  <2>2. Rings'
    BY <1>1, <1>4, <1>6, <1>7, <1>9, <2>1, RingsStep, ZenonT(40)
  <2>3. g_pipes \in [PipeId -> PipeEntry \union {Idle}]
    BY <1>1 DEF Rings
  <2>4. \A j \in PipeId : /\ g_pipes'[j].read_refs = g_pipes[j].read_refs
                          /\ g_pipes'[j].write_refs = g_pipes[j].write_refs
    BY <1>4, <1>6, <1>9, <2>3, Zenon
  <2>5. sigpipe' \subseteq alive
    BY <1>1, <1>9 DEF Tables
  <2>6. Tables'
    BY <1>1, <1>3, <2>4, <2>5, TablesStay, SMTT(40)
  <2> QED
    BY <2>2, <2>6 DEF IInv
<1> QED
  BY <1>3, <1>8, <1>9

\* signal_take_pending.
LEMMA SignalStep ==
    ASSUME IInv, NEW p \in alive, TakeSignal(p)
    PROVE  IInv'
<1>1. Rings /\ Tables
  BY DEF IInv
<1>2. Rings'
  BY <1>1 DEF Rings, TakeSignal
<1>3. UNCHANGED <<fd_table, alive, shared, g_pipes>> /\ sigpipe' \subseteq alive
  BY <1>1 DEF Tables, TakeSignal
<1>4. Tables'
  BY <1>1, <1>3, TablesStay
<1> QED
  BY <1>2, <1>4 DEF IInv

\* The descriptors of one process change and the set of live processes with them, the pipes
\* do not; a pipe of which the process has no end before or after keeps its ends.
LEMMA TableSwap ==
    ASSUME IInv, NEW c \in Proc, NEW t \in [Fd -> FdValue], fd_table' = [fd_table EXCEPT ![c] = t],
           alive' \subseteq Proc, sigpipe' \subseteq alive', \A q \in Proc : q # c => (q \in alive' <=> q \in alive),
           shared \subseteq shared', UNCHANGED <<g_pipes, stream, last>>,
           \A j \in PipeId \ shared', d \in {0, 1}, f \in Fd :
             /\ c \in alive => fd_table[c][f] # Handle(j, d)
             /\ c \in alive' => t[f] # Handle(j, d)
    PROVE  IInv'
<1>1. Rings /\ Tables
  BY DEF IInv
<1>2. Rings'
  BY <1>1 DEF Rings
<1>3. fd_table \in [Proc -> [Fd -> FdValue]]
  BY <1>1 DEF Tables
<1>4. fd_table' \in [Proc -> [Fd -> FdValue]] /\ fd_table'[c] = t
      /\ \A q \in Proc : q # c => fd_table'[q] = fd_table[q]
  BY <1>3, Zenon
<1>5. ASSUME NEW j \in PipeId \ shared', NEW d \in {0, 1} PROVE OpenEnds(j, d)' = OpenEnds(j, d)
  <2>1. ASSUME NEW q \in Proc, NEW f \in Fd
        PROVE  (q \in alive' /\ fd_table'[q][f] = Handle(j, d)) <=> (q \in alive /\ fd_table[q][f] = Handle(j, d))
    <3>1. CASE q = c
      BY <1>4, <3>1, ZenonT(40)
    <3>2. CASE q # c
      BY <1>4, <3>2, Zenon
    <3> QED
      BY <3>1, <3>2
  <2>2. j \in PipeId
    OBVIOUS
  <2> QED
    BY <2>1, <2>2, OpenEndsStay, Zenon
<1>6. ASSUME NEW j \in PipeId \ shared'
      PROVE  (Ends(j, 0, g_pipes[j].read_refs) /\ Ends(j, 1, g_pipes[j].write_refs))'
  <2>1. OpenEnds(j, 0)' = OpenEnds(j, 0) /\ OpenEnds(j, 1)' = OpenEnds(j, 1)
    BY <1>5
  <2>2. j \in PipeId /\ j \notin shared
    OBVIOUS
  <2> QED
    BY <1>1, <2>1, <2>2, CountsStay
<1>7. Tables'
  BY <1>4, <1>6, Zenon DEF Tables
<1> QED
  BY <1>2, <1>7 DEF IInv

\* The pipes not in PipesOf(p) have no end in p's table.
LEMMA NotHeld ==
    ASSUME NEW p \in Proc, NEW j \in PipeId, j \notin PipesOf(p), NEW d \in {0, 1}, NEW f \in Fd
    PROVE  fd_table[p][f] # Handle(j, d)
  BY Holds, Zenon

\* pcb_create_child.
LEMMA ForkStep ==
    ASSUME IInv, NEW p \in alive, NEW c \in Proc, Fork(p, c)
    PROVE  IInv'
<1>1. /\ Tables /\ p \in Proc /\ fd_table[p] \in [Fd -> FdValue] /\ c \notin alive
      /\ fd_table' = [fd_table EXCEPT ![c] = fd_table[p]] /\ alive' = alive \union {c}
      /\ shared' = shared \union PipesOf(p) /\ UNCHANGED <<g_pipes, sigpipe, stream, last>>
  BY DEF IInv, Tables, Fork
<1>2. alive' \subseteq Proc /\ sigpipe' \subseteq alive' /\ \A q \in Proc : q # c => (q \in alive' <=> q \in alive)
  BY <1>1 DEF Tables
<1>3. ASSUME NEW j \in PipeId \ shared', NEW d \in {0, 1}, NEW f \in Fd PROVE fd_table[p][f] # Handle(j, d)
  <2>1. j \in PipeId /\ j \notin PipesOf(p)
    BY <1>1
  <2> QED
    BY <1>1, <2>1, NotHeld, Zenon
<1>4. shared \subseteq shared' /\ UNCHANGED <<g_pipes, stream, last>>
  BY <1>1
<1>5. \A j \in PipeId \ shared', d \in {0, 1}, f \in Fd :
        /\ c \in alive => fd_table[c][f] # Handle(j, d)
        /\ c \in alive' => fd_table[p][f] # Handle(j, d)
  BY <1>1, <1>3, Zenon
<1> DEFINE t == fd_table[p]
<1>6. t \in [Fd -> FdValue] /\ fd_table' = [fd_table EXCEPT ![c] = t]
  BY <1>1
<1> QED
  BY <1>2, <1>4, <1>5, <1>6, TableSwap, Zenon

\* pcb_reap_child.
LEMMA ReapStep ==
    ASSUME IInv, NEW p \in alive, Reap(p)
    PROVE  IInv'
<1>1. /\ Tables /\ p \in Proc
      /\ fd_table' = [fd_table EXCEPT ![p] = NoFds] /\ alive' = alive \ {p} /\ sigpipe' = sigpipe \ {p}
      /\ shared' = shared \union PipesOf(p) /\ UNCHANGED <<g_pipes, stream, last>>
  BY DEF IInv, Tables, Reap
<1>2. alive' \subseteq Proc /\ sigpipe' \subseteq alive' /\ \A q \in Proc : q # p => (q \in alive' <=> q \in alive)
  BY <1>1 DEF Tables
<1>3. NoFds \in [Fd -> FdValue] /\ p \notin alive'
  BY <1>1 DEF NoFds, FdValue
<1>4. ASSUME NEW j \in PipeId \ shared', NEW d \in {0, 1}, NEW f \in Fd PROVE fd_table[p][f] # Handle(j, d)
  <2>1. j \in PipeId /\ j \notin PipesOf(p)
    BY <1>1
  <2> QED
    BY <1>1, <2>1, NotHeld, Zenon
<1> QED
  BY <1>1, <1>2, <1>3, <1>4, TableSwap, Zenon

\* An end that only one descriptor of one live process names.
LEMMA OneEnd ==
    ASSUME NEW i \in PipeId, NEW d \in {0, 1}, NEW p \in Proc, NEW fd \in Fd,
           p \in alive', fd_table'[p][fd] = Handle(i, d),
           \A q \in alive', f \in Fd : fd_table'[q][f] = Handle(i, d) => q = p /\ f = fd
    PROVE  Ends(i, d, 1)'
<1>1. OpenEnds(i, d)' = {pf \in Proc \X Fd : pf[1] \in alive' /\ fd_table'[pf[1]][pf[2]] = Handle(i, d)}
  BY DEF OpenEnds, Handle, Fd
<1>2. <<p, fd>> \in OpenEnds(i, d)'
  BY <1>1
<1>3. ASSUME NEW pf \in OpenEnds(i, d)' PROVE pf = <<p, fd>>
  <2>1. pf \in Proc \X Fd /\ pf[1] \in alive' /\ pf[2] \in Fd /\ fd_table'[pf[1]][pf[2]] = Handle(i, d)
    BY <1>1
  <2>2. pf[1] = p /\ pf[2] = fd
    BY <2>1, Zenon
  <2> QED
    BY <2>1, <2>2
<1>4. OpenEnds(i, d)' = {<<p, fd>>} /\ <<p, fd>> \in Proc \X Fd
  BY <1>2, <1>3
<1> QED
  BY <1>4, Zenon DEF Ends

\* An end that no descriptor of a live process names.
LEMMA NoEnd ==
    ASSUME NEW i \in PipeId, NEW d \in {0, 1},
           \A q \in alive', f \in Fd : fd_table'[q][f] # Handle(i, d)
    PROVE  Ends(i, d, 0)'
<1>1. OpenEnds(i, d)' = {pf \in Proc \X Fd : pf[1] \in alive' /\ fd_table'[pf[1]][pf[2]] = Handle(i, d)}
  BY DEF OpenEnds, Handle, Fd
<1>2. \A pf \in Proc \X Fd : pf[2] \in Fd
  OBVIOUS
<1>3. OpenEnds(i, d)' = {}
  BY <1>1, <1>2, Zenon
<1> QED
  BY <1>3, Zenon DEF Ends

\* An exact count of 0: nobody alive has a descriptor for the end.
LEMMA NoneOpen ==
    ASSUME NEW i \in PipeId, NEW d \in {0, 1}, Ends(i, d, 0), alive \subseteq Proc, NEW q \in alive, NEW f \in Fd
    PROVE  fd_table[q][f] # Handle(i, d)
<1>1. OpenEnds(i, d) = {}
  BY DEF Ends
<1>2. <<q, f>> \in Proc \X Fd /\ <<q, f>>[1] = q /\ <<q, f>>[2] = f
  OBVIOUS
<1> QED
  BY <1>1, <1>2, Zenon DEF OpenEnds

\* The descriptors and the pipe that pipe_create takes.
LEMMA CreatePicks ==
    ASSUME IInv, NEW p \in alive, pipe_create(p)
    PROVE  \E i \in PipeId, rfd \in Fd, wfd \in Fd :
             /\ ~g_pipes[i].used /\ fd_table[p][rfd] = -1 /\ fd_table[p][wfd] = -1 /\ rfd # wfd
             /\ g_pipes' = [g_pipes EXCEPT ![i] = [Idle EXCEPT !.used = TRUE, !.buffer = FreshBuffer,
                                                   !.read_refs = 1, !.write_refs = 1]]
             /\ fd_table' = [fd_table EXCEPT ![p][rfd] = Handle(i, 0), ![p][wfd] = Handle(i, 1)]
             /\ stream' = [stream EXCEPT ![i] = <<>>]
             /\ shared' = shared \ {j \in {i} : \A q \in alive : i \notin PipesOf(q)}
             /\ UNCHANGED <<alive, sigpipe, last>>
<1> DEFINE free == {j \in PipeId : ~g_pipes[j].used}
           rfd  == Smallest(FreeFds(p))
           rest == FreeFds(p) \ {rfd}
<1>1. free # {} /\ Cardinality(FreeFds(p)) >= 2
  BY DEF pipe_create
<1>2. free \subseteq Nat
  BY PipeAssumption DEF PipeId
<1>3. FreeFds(p) \subseteq Nat
  BY PipeAssumption DEF FreeFds, Fd
<1>4. Smallest(free) \in free
  <2> HIDE DEF free
  <2> QED
    BY <1>1, <1>2, SmallestIs, Zenon
<1>5. FreeFds(p) # {}
  BY <1>1, FS_EmptySet
<1>6. rfd \in FreeFds(p)
  BY <1>3, <1>5, SmallestIs
<1> HIDE DEF rfd
<1>7. rest # {}
  <2>1. SUFFICES ASSUME rest = {} PROVE FALSE
    OBVIOUS
  <2>2. FreeFds(p) = {rfd}
    BY <1>6, <2>1
  <2>3. Cardinality(FreeFds(p)) = 1
    BY <2>2, FS_Singleton, Zenon
  <2> QED
    BY <1>1, <2>3
<1>8. rest \subseteq Nat
  BY <1>3
<1>9. Smallest(rest) \in rest
  <2> HIDE DEF rest
  <2> QED
    BY <1>7, <1>8, SmallestIs, Zenon
<1>10. /\ Smallest(free) \in PipeId /\ ~g_pipes[Smallest(free)].used
       /\ rfd \in Fd /\ fd_table[p][rfd] = -1
       /\ Smallest(rest) \in Fd /\ fd_table[p][Smallest(rest)] = -1 /\ rfd # Smallest(rest)
  BY <1>4, <1>6, <1>9 DEF FreeFds
<1> QED
  BY <1>10, Zenon DEF pipe_create, rfd

\* pipe_create.
LEMMA CreateStep ==
    ASSUME IInv, NEW p \in alive, pipe_create(p)
    PROVE  IInv'
<1> DEFINE new == [Idle EXCEPT !.used = TRUE, !.buffer = FreshBuffer, !.read_refs = 1, !.write_refs = 1]
<1>1. Rings /\ Tables /\ p \in Proc /\ alive \subseteq Proc
  BY DEF IInv, Tables
<1>2. PICK i \in PipeId, rfd \in Fd, wfd \in Fd :
        /\ ~g_pipes[i].used /\ fd_table[p][rfd] = -1 /\ fd_table[p][wfd] = -1 /\ rfd # wfd
        /\ g_pipes' = [g_pipes EXCEPT ![i] = new]
        /\ fd_table' = [fd_table EXCEPT ![p][rfd] = Handle(i, 0), ![p][wfd] = Handle(i, 1)]
        /\ stream' = [stream EXCEPT ![i] = <<>>]
        /\ shared' = shared \ {j \in {i} : \A q \in alive : i \notin PipesOf(q)}
        /\ UNCHANGED <<alive, sigpipe, last>>
  BY CreatePicks, Zenon
<1>3. Ring(new, <<>>) /\ new.read_refs = 1 /\ new.write_refs = 1
  BY NewRing, Zenon
<1> HIDE DEF new
<1>4. Rings'
  <2>1. new.read_refs + new.write_refs > 0
    BY <1>3
  <2>2. last'.got = last'.due
    BY <1>1, <1>2 DEF Rings
  <2> QED
    BY <1>1, <1>2, <1>3, <2>1, <2>2, RingsStep, ZenonT(40)
<1>5. g_pipes'[i] = new /\ \A j \in PipeId : j # i => g_pipes'[j] = g_pipes[j]
  <2>1. g_pipes \in [PipeId -> PipeEntry \union {Idle}]
    BY <1>1 DEF Rings
  <2> QED
    BY <1>2, <2>1, Zenon
<1>6. /\ fd_table' \in [Proc -> [Fd -> FdValue]]
      /\ fd_table'[p][rfd] = Handle(i, 0) /\ fd_table'[p][wfd] = Handle(i, 1)
      /\ \A f \in Fd : f # rfd /\ f # wfd => fd_table'[p][f] = fd_table[p][f]
      /\ \A q \in Proc : q # p => fd_table'[q] = fd_table[q]
  <2>1. Handle(i, 0) \in FdValue /\ Handle(i, 1) \in FdValue
    BY <1>2 DEF FdValue
  <2>2. fd_table \in [Proc -> [Fd -> FdValue]]
    BY <1>1 DEF Tables
  <2> DEFINE row == [[fd_table[p] EXCEPT ![rfd] = Handle(i, 0)] EXCEPT ![wfd] = Handle(i, 1)]
  <2>3. fd_table' = [fd_table EXCEPT ![p] = row]
    BY <1>1, <1>2, <2>2, ZenonT(40)
  <2>4. /\ row \in [Fd -> FdValue] /\ row[rfd] = Handle(i, 0) /\ row[wfd] = Handle(i, 1)
        /\ \A f \in Fd : f # rfd /\ f # wfd => row[f] = fd_table[p][f]
    <3>1. fd_table[p] \in [Fd -> FdValue]
      BY <1>1, <2>2
    <3> QED
      BY <1>2, <2>1, <3>1
  <2> HIDE DEF row
  <2> QED
    BY <1>1, <2>2, <2>3, <2>4, Zenon
<1>7. ASSUME NEW j \in PipeId, j # i, NEW d \in {0, 1} PROVE OpenEnds(j, d)' = OpenEnds(j, d)
  <2>1. Handle(j, d) # -1 /\ Handle(j, d) # Handle(i, 0) /\ Handle(j, d) # Handle(i, 1)
    <3>1. 0 \in {0, 1} /\ 1 \in {0, 1}
      OBVIOUS
    <3> QED
      BY <1>2, <1>7, <3>1, Handles, Zenon
  <2>2. ASSUME NEW q \in Proc, NEW f \in Fd
        PROVE  fd_table'[q][f] = Handle(j, d) <=> fd_table[q][f] = Handle(j, d)
    <3>1. CASE q # p
      BY <1>6, <3>1, Zenon
    <3>2. CASE q = p /\ (f = rfd \/ f = wfd)
      BY <1>2, <1>6, <2>1, <3>2, Zenon
    <3>3. CASE q = p /\ f # rfd /\ f # wfd
      BY <1>6, <3>3, Zenon
    <3> QED
      BY <3>1, <3>2, <3>3
  <2> QED
    BY <1>2, <2>2, OpenEndsStay, Zenon
<1>8. ASSUME i \notin shared', NEW q \in alive, NEW f \in Fd, NEW d \in {0, 1} PROVE fd_table[q][f] # Handle(i, d)
  <2>1. CASE i \notin shared
    <3>1. g_pipes[i].read_refs = 0 /\ g_pipes[i].write_refs = 0
      BY <1>1, <1>2, UnusedIsIdle, IdleFacts, SMTT(40)
    <3>2. Ends(i, 0, 0) /\ Ends(i, 1, 0)
      BY <1>1, <1>2, <2>1, <3>1 DEF Tables
    <3>3. Ends(i, d, 0)
      BY <3>2
    <3> QED
      BY <1>1, <1>2, <3>3, NoneOpen, ZenonT(40)
  <2>2. CASE i \in shared
    <3>1. i \notin PipesOf(q)
      BY <1>2, <1>8, <2>2, SMTT(40)
    <3> QED
      BY <1>1, <1>2, <3>1, NotHeld, SMTT(40)
  <2> QED
    BY <2>1, <2>2
<1>9. ASSUME NEW j \in PipeId \ shared'
       PROVE  (Ends(j, 0, g_pipes[j].read_refs) /\ Ends(j, 1, g_pipes[j].write_refs))'
  <2>1. CASE j # i
    <3>1. OpenEnds(j, 0)' = OpenEnds(j, 0) /\ OpenEnds(j, 1)' = OpenEnds(j, 1)
      BY <1>7, <2>1
    <3>2. j \in PipeId /\ j \notin shared /\ g_pipes'[j] = g_pipes[j]
      BY <1>2, <1>5, <2>1
    <3> QED
      BY <1>1, <3>1, <3>2, CountsStay
  <2>2. CASE j = i
    <3>1. Handle(i, 0) # Handle(i, 1)
      BY <1>2, Handles
    <3>2. ASSUME NEW q \in alive', NEW f \in Fd, NEW d \in {0, 1}, fd_table'[q][f] = Handle(i, d)
          PROVE  q = p /\ (f = rfd \/ f = wfd)
      <4>1. q \in alive /\ q \in Proc
        BY <1>1, <1>2
      <4>2. fd_table[q][f] # Handle(i, d)
        BY <1>8, <2>2, <4>1, ZenonT(40)
      <4> QED
        BY <1>6, <3>2, <4>1, <4>2, ZenonT(40)
    <3>3. p \in alive' /\ 0 \in {0, 1} /\ 1 \in {0, 1}
      BY <1>2, SMTT(40)
    <3>4. Ends(i, 0, 1)'
      <4>1. ASSUME NEW q \in alive', NEW f \in Fd, fd_table'[q][f] = Handle(i, 0) PROVE q = p /\ f = rfd
        BY <1>6, <3>1, <3>2, <3>3, <4>1, ZenonT(40)
      <4> QED
        BY <1>1, <1>2, <1>6, <3>3, <4>1, OneEnd, SMTT(40)
    <3>5. Ends(i, 1, 1)'
      <4>1. ASSUME NEW q \in alive', NEW f \in Fd, fd_table'[q][f] = Handle(i, 1) PROVE q = p /\ f = wfd
        BY <1>6, <3>1, <3>2, <3>3, <4>1, ZenonT(40)
      <4> QED
        BY <1>1, <1>2, <1>6, <3>3, <4>1, OneEnd, SMTT(40)
    <3>6. g_pipes'[j].read_refs = 1 /\ g_pipes'[j].write_refs = 1
      BY <1>3, <1>5, <2>2
    <3> QED
      BY <2>2, <3>4, <3>5, <3>6, SMTT(40)
  <2> QED
    BY <2>1, <2>2, SMTT(40)
<1>10. Tables'
  <2>1. alive' \subseteq Proc /\ sigpipe' \subseteq alive'
    BY <1>1, <1>2 DEF Tables
  <2> QED
    BY <1>6, <1>9, <2>1, ZenonT(40) DEF Tables
<1> QED
  BY <1>4, <1>10 DEF IInv

\* An end of an open pipe is closed: the ring is left alone.
LEMMA ClosedRing ==
    ASSUME NEW pipe, NEW s, Ring(pipe, s)
    PROVE  LET r == [pipe EXCEPT !.read_refs = 0]
               w == [pipe EXCEPT !.write_refs = 0]
           IN  /\ Ring(r, s) /\ r.read_refs = 0 /\ r.write_refs = pipe.write_refs
               /\ Ring(w, s) /\ w.write_refs = 0 /\ w.read_refs = pipe.read_refs
<1> DEFINE r == [pipe EXCEPT !.read_refs = 0]
           w == [pipe EXCEPT !.write_refs = 0]
<1>1. pipe \in PipeEntry
  BY DEF Ring
<1>2. 0 \in 0 .. 1
  OBVIOUS
<1>3. r \in PipeEntry /\ w \in PipeEntry
  BY <1>1, <1>2, Zenon DEF PipeEntry
<1>4. /\ r.buffer = pipe.buffer /\ r.head = pipe.head /\ r.tail = pipe.tail /\ r.count = pipe.count
      /\ r.read_refs = 0 /\ r.write_refs = pipe.write_refs
  BY <1>1, Zenon DEF PipeEntry
<1>5. /\ w.buffer = pipe.buffer /\ w.head = pipe.head /\ w.tail = pipe.tail /\ w.count = pipe.count
      /\ w.write_refs = 0 /\ w.read_refs = pipe.read_refs
  BY <1>1, Zenon DEF PipeEntry
<1> HIDE DEF r, w
<1>6. Ring(r, s) /\ Ring(w, s)
  BY <1>3, <1>4, <1>5, Zenon DEF Ring
<1> QED
  BY <1>4, <1>5, <1>6 DEF r, w

\* What pipe_close_fd does to the pipe: one count falls to 0, and the pipe is released when
\* both are 0.
LEMMA CloseIs ==
    ASSUME IInv, NEW p \in alive, NEW fd \in Fd, pipe_close_fd(p, fd)
    PROVE  \E i \in PipeId, d \in {0, 1} :
             /\ fd_table[p][fd] = Handle(i, d)
             /\ \E q, s : /\ (q = Idle /\ s = <<>>) \/ (Ring(q, s) /\ q.read_refs + q.write_refs > 0)
                          /\ d = 0 => q.read_refs = 0 /\ q.write_refs = g_pipes[i].write_refs
                          /\ d = 1 => q.write_refs = 0 /\ q.read_refs = g_pipes[i].read_refs
                          /\ g_pipes' = [g_pipes EXCEPT ![i] = q]
                          /\ stream' = [stream EXCEPT ![i] = s]
             /\ fd_table' = [fd_table EXCEPT ![p][fd] = -1]
             /\ UNCHANGED <<alive, sigpipe, last, shared>>
<1> DEFINE i == Slot(p, fd)
           less(n) == IF n > 0 THEN n - 1 ELSE 0
           r == g_pipes[i].read_refs
           w == g_pipes[i].write_refs
           q == IF Direction(p, fd) = 0 THEN [g_pipes[i] EXCEPT !.read_refs = less(r)]
                                        ELSE [g_pipes[i] EXCEPT !.write_refs = less(w)]
           gone == q.read_refs = 0 /\ q.write_refs = 0
<1>1. Rings /\ Tables /\ p \in Proc
  BY DEF IInv, Tables
<1>2. /\ IsPipe(p, fd) /\ g_pipes[i].used
      /\ g_pipes' = [g_pipes EXCEPT ![i] = IF gone THEN Idle ELSE q]
      /\ fd_table' = [fd_table EXCEPT ![p][fd] = -1]
      /\ stream' = [stream EXCEPT ![i] = IF gone THEN <<>> ELSE stream[i]]
      /\ UNCHANGED <<alive, sigpipe, last, shared>>
  BY Zenon DEF pipe_close_fd
<1>3. i \in PipeId /\ Direction(p, fd) \in {0, 1} /\ fd_table[p][fd] = Handle(i, Direction(p, fd))
  BY <1>1, <1>2, Decodes, Zenon
<1>4. PICK d \in {0, 1} : d = Direction(p, fd)
  BY <1>3
<1>5. Ring(g_pipes[i], stream[i])
  BY <1>1, <1>2, <1>3, UsedIsRing, Zenon
<1>6. r \in 0 .. 1 /\ w \in 0 .. 1
  <2>1. g_pipes[i] \in PipeEntry
    BY <1>5, Zenon DEF Ring
  <2> QED
    BY <2>1, EntryFacts, Zenon
<1>7. less(r) = 0 /\ less(w) = 0
  <2> HIDE DEF r, w
  <2> QED
    BY <1>6
<1>8. q = IF d = 0 THEN [g_pipes[i] EXCEPT !.read_refs = 0] ELSE [g_pipes[i] EXCEPT !.write_refs = 0]
  BY <1>4, <1>7, ZenonT(40)
<1> HIDE DEF i, less, q
<1>9. /\ Ring(q, stream[i])
      /\ d = 0 => q.read_refs = 0 /\ q.write_refs = w
      /\ d = 1 => q.write_refs = 0 /\ q.read_refs = r
  <2>1. CASE d = 0
    <3>1. q = [g_pipes[i] EXCEPT !.read_refs = 0] /\ d # 1
      BY <1>8, <2>1
    <3> QED
      BY <1>5, <2>1, <3>1, ClosedRing, Zenon
  <2>2. CASE d = 1
    <3>1. q = [g_pipes[i] EXCEPT !.write_refs = 0] /\ d # 0
      BY <1>8, <2>2, SMTT(40)
    <3> QED
      BY <1>5, <2>2, <3>1, ClosedRing, Zenon
  <2> QED
    BY <2>1, <2>2
<1> DEFINE e == IF gone THEN Idle ELSE q
           s == IF gone THEN <<>> ELSE stream[i]
<1>10. /\ (e = Idle /\ s = <<>>) \/ (Ring(e, s) /\ e.read_refs + e.write_refs > 0)
       /\ e.read_refs = q.read_refs /\ e.write_refs = q.write_refs
  <2>1. CASE gone
    BY <2>1, IdleFacts, SMTT(40)
  <2>2. CASE ~gone
    <3>1. q.read_refs \in 0 .. 1 /\ q.write_refs \in 0 .. 1
      BY <1>9, EntryFacts, Zenon DEF Ring
    <3>2. q.read_refs + q.write_refs > 0
      BY <2>2, <3>1
    <3> QED
      BY <1>9, <2>2, <3>2, SMTT(40)
  <2> QED
    BY <2>1, <2>2, SMTT(40)
<1>11. g_pipes' = [g_pipes EXCEPT ![i] = e] /\ stream' = [stream EXCEPT ![i] = s]
  BY <1>2
<1> HIDE DEF gone, e, s
<1>12. /\ d = 0 => e.read_refs = 0 /\ e.write_refs = g_pipes[i].write_refs
       /\ d = 1 => e.write_refs = 0 /\ e.read_refs = g_pipes[i].read_refs
  BY <1>9, <1>10
<1>13. fd_table[p][fd] = Handle(i, d)
  BY <1>3, <1>4, SMTT(40)
<1>14. i \in PipeId /\ fd_table' = [fd_table EXCEPT ![p][fd] = -1] /\ UNCHANGED <<alive, sigpipe, last, shared>>
  BY <1>2, <1>3
<1> QED
  BY <1>10, <1>11, <1>12, <1>13, <1>14, ZenonT(40)

\* pipe_close_fd.
LEMMA CloseStep ==
    ASSUME IInv, NEW p \in alive, NEW fd \in Fd, pipe_close_fd(p, fd)
    PROVE  IInv'
<1>1. Rings /\ Tables /\ p \in Proc /\ alive \subseteq Proc
  BY DEF IInv, Tables
<1>2. PICK i \in PipeId, d \in {0, 1} :
        /\ fd_table[p][fd] = Handle(i, d)
        /\ \E q, s : /\ (q = Idle /\ s = <<>>) \/ (Ring(q, s) /\ q.read_refs + q.write_refs > 0)
                     /\ d = 0 => q.read_refs = 0 /\ q.write_refs = g_pipes[i].write_refs
                     /\ d = 1 => q.write_refs = 0 /\ q.read_refs = g_pipes[i].read_refs
                     /\ g_pipes' = [g_pipes EXCEPT ![i] = q]
                     /\ stream' = [stream EXCEPT ![i] = s]
        /\ fd_table' = [fd_table EXCEPT ![p][fd] = -1]
        /\ UNCHANGED <<alive, sigpipe, last, shared>>
  BY CloseIs, Zenon
<1>3. PICK q, s : /\ (q = Idle /\ s = <<>>) \/ (Ring(q, s) /\ q.read_refs + q.write_refs > 0)
                  /\ d = 0 => q.read_refs = 0 /\ q.write_refs = g_pipes[i].write_refs
                  /\ d = 1 => q.write_refs = 0 /\ q.read_refs = g_pipes[i].read_refs
                  /\ g_pipes' = [g_pipes EXCEPT ![i] = q]
                  /\ stream' = [stream EXCEPT ![i] = s]
  BY <1>2, Zenon
<1>4. Rings'
  <2>1. last'.got = last'.due
    BY <1>1, <1>2 DEF Rings
  <2> QED
    BY <1>1, <1>3, <2>1, RingsStep, ZenonT(40)
<1>5. g_pipes'[i] = q /\ \A j \in PipeId : j # i => g_pipes'[j] = g_pipes[j]
  <2>1. g_pipes \in [PipeId -> PipeEntry \union {Idle}]
    BY <1>1, SMTT(40) DEF Rings
  <2> QED
    BY <1>3, <2>1, Zenon
<1>6. /\ fd_table' \in [Proc -> [Fd -> FdValue]]
      /\ fd_table'[p][fd] = -1
      /\ \A r \in Proc, f \in Fd : r # p \/ f # fd => fd_table'[r][f] = fd_table[r][f]
  <2>1. -1 \in FdValue
    BY SMTT(40) DEF FdValue
  <2>2. fd_table \in [Proc -> [Fd -> FdValue]]
    BY <1>1, SMTT(40) DEF Tables
  <2> QED
    BY <1>1, <1>2, <2>1, <2>2, SMTT(40)
<1>7. ASSUME NEW j \in PipeId, NEW e \in {0, 1}, j # i \/ e # d PROVE OpenEnds(j, e)' = OpenEnds(j, e)
  <2>1. Handle(j, e) # -1 /\ Handle(j, e) # Handle(i, d)
    BY <1>7, Handles, ZenonT(40)
  <2>2. ASSUME NEW r \in Proc, NEW f \in Fd
        PROVE  fd_table'[r][f] = Handle(j, e) <=> fd_table[r][f] = Handle(j, e)
    <3>1. CASE r # p \/ f # fd
      BY <1>6, <3>1, Zenon
    <3>2. CASE r = p /\ f = fd
      BY <1>2, <1>6, <2>1, <3>2, Zenon
    <3> QED
      BY <3>1, <3>2
  <2> QED
    BY <1>2, <2>2, OpenEndsStay
<1>8. ASSUME i \notin shared PROVE Ends(i, d, 0)'
  <2>1. PICK n : Ends(i, d, n)
    <3>1. Ends(i, 0, g_pipes[i].read_refs) /\ Ends(i, 1, g_pipes[i].write_refs)
      BY <1>1, <1>8, Zenon DEF Tables
    <3> QED
      BY <3>1
  <2>2. ASSUME NEW r \in alive', NEW f \in Fd PROVE fd_table'[r][f] # Handle(i, d)
    <3>1. r \in alive /\ r \in Proc
      BY <1>1, <1>2
    <3>2. CASE r = p /\ f = fd
      BY <1>6, <3>2, Handles, Zenon
    <3>3. CASE r # p \/ f # fd
      <4>1. SUFFICES ASSUME fd_table[r][f] = Handle(i, d) PROVE FALSE
        BY <1>6, <3>1, <3>3, ZenonT(40)
      <4>2. <<r, f>> \in OpenEnds(i, d) /\ <<p, fd>> \in OpenEnds(i, d)
        BY <1>1, <1>2, <3>1, <4>1, SMTT(40) DEF OpenEnds
      <4>3. <<r, f>> = <<p, fd>>
        BY <2>1, <4>2 DEF Ends
      <4> QED
        BY <3>3, <4>3
    <3> QED
      BY <3>2, <3>3
  <2> QED
    BY <2>2, NoEnd, ZenonT(40)
<1>9. ASSUME NEW j \in PipeId \ shared'
      PROVE  (Ends(j, 0, g_pipes[j].read_refs) /\ Ends(j, 1, g_pipes[j].write_refs))'
  <2>1. j \in PipeId /\ j \notin shared /\ 0 \in {0, 1} /\ 1 \in {0, 1}
    BY <1>2
  <2>2. CASE j # i
    <3>1. OpenEnds(j, 0)' = OpenEnds(j, 0) /\ OpenEnds(j, 1)' = OpenEnds(j, 1)
      BY <1>7, <2>2, SMTT(40)
    <3>2. g_pipes'[j] = g_pipes[j]
      BY <1>5, <2>2, SMTT(40)
    <3> QED
      BY <1>1, <2>1, <3>1, <3>2, CountsStay, SMTT(40)
  <2>3. CASE j = i
    <3>1. Ends(i, 0, g_pipes[i].read_refs) /\ Ends(i, 1, g_pipes[i].write_refs)
      BY <1>1, <2>1, <2>3, Zenon DEF Tables
    <3>2. CASE d = 0
      <4>1. OpenEnds(i, 1)' = OpenEnds(i, 1)
        BY <1>7, <3>2
      <4>2. g_pipes'[i].read_refs = 0 /\ g_pipes'[i].write_refs = g_pipes[i].write_refs
        BY <1>3, <1>5, <3>2
      <4>3. Ends(i, 0, 0)'
        BY <1>8, <2>1, <2>3, <3>2, SMTT(40)
      <4>4. Ends(i, 0, g_pipes[i].read_refs)'
        BY <4>2, <4>3 DEF Ends
      <4>5. Ends(i, 1, g_pipes[i].write_refs)'
        BY <3>1, <4>1, <4>2, Zenon DEF Ends
      <4> QED
        BY <2>3, <4>4, <4>5, SMTT(40)
    <3>3. CASE d = 1
      <4>1. OpenEnds(i, 0)' = OpenEnds(i, 0)
        BY <1>7, <3>3
      <4>2. g_pipes'[i].write_refs = 0 /\ g_pipes'[i].read_refs = g_pipes[i].read_refs
        BY <1>3, <1>5, <3>3
      <4>3. Ends(i, 1, 0)'
        BY <1>8, <2>1, <2>3, <3>3, SMTT(40)
      <4>4. Ends(i, 1, g_pipes[i].write_refs)'
        BY <4>2, <4>3 DEF Ends
      <4>5. Ends(i, 0, g_pipes[i].read_refs)'
        BY <3>1, <4>1, <4>2, Zenon DEF Ends
      <4> QED
        BY <2>3, <4>4, <4>5
    <3> QED
      BY <3>2, <3>3
  <2> QED
    BY <2>2, <2>3
<1>10. Tables'
  <2>1. alive' \subseteq Proc /\ sigpipe' \subseteq alive'
    BY <1>1, <1>2 DEF Tables
  <2> QED
    BY <1>6, <1>9, <2>1, Zenon DEF Tables
<1> QED
  BY <1>4, <1>10, SMTT(40) DEF IInv

\* No step of any process breaks the invariant.
LEMMA NextInv == IInv /\ [Next]_vars => IInv'
<1> SUFFICES ASSUME IInv, [Next]_vars PROVE IInv'
  OBVIOUS
<1>1. ASSUME NEW p \in alive, pipe_create(p) PROVE IInv'
  BY <1>1, CreateStep
<1>2. ASSUME NEW p \in alive, NEW fd \in Fd, NEW n \in 1 .. MaxCount, pipe_read(p, fd, n) PROVE IInv'
  BY <1>2, ReadStep
<1>3. ASSUME NEW p \in alive, NEW fd \in Fd, NEW n \in 1 .. MaxCount, NEW data \in [1 .. n -> Byte],
             pipe_write(p, fd, data)
      PROVE  IInv'
  BY <1>3, WriteStep
<1>4. ASSUME NEW p \in alive, NEW fd \in Fd, pipe_close_fd(p, fd) PROVE IInv'
  BY <1>4, CloseStep, SMTT(40)
<1>5. ASSUME NEW p \in alive, TakeSignal(p) PROVE IInv'
  BY <1>5, SignalStep
<1>6. ASSUME NEW p \in alive, NEW c \in Proc, Fork(p, c) PROVE IInv'
  BY <1>6, ForkStep, SMTT(40)
<1>7. ASSUME NEW p \in alive, Reap(p) PROVE IInv'
  BY <1>7, ReapStep
<1>8. CASE UNCHANGED vars
  <2>1. Rings /\ Tables
    BY DEF IInv
  <2>2. Rings'
    BY <1>8, <2>1, SMTT(40) DEF Rings, vars
  <2>3. UNCHANGED <<fd_table, alive, shared, g_pipes>> /\ sigpipe' \subseteq alive
    BY <1>8, <2>1 DEF Tables, vars
  <2>4. Tables'
    BY <2>1, <2>3, TablesStay
  <2> QED
    BY <2>2, <2>4 DEF IInv
<1> QED
  BY <1>1, <1>2, <1>3, <1>4, <1>5, <1>6, <1>7, <1>8, ZenonT(40) DEF Next

\* The invariant holds throughout.
LEMMA Invariance == Spec => []IInv
  BY InitInv, NextInv, PTL DEF Spec

\* Type correctness of the pipe and descriptor tables: the ring indices of pipe.c never leave the
\* buffer, no pipe holds more than PIPE_BUF_SIZE bytes, and one without open ends is released.
THEOREM PipeTypes == Spec => []TypeOK
<1>1. IInv => TypeOK
  <2> SUFFICES ASSUME IInv PROVE TypeOK
    OBVIOUS
  <2>1. Rings /\ Tables
    BY DEF IInv
  <2>2. ASSUME NEW i \in PipeId
        PROVE  \/ g_pipes[i] = Idle
               \/ g_pipes[i] \in PipeEntry /\ g_pipes[i].read_refs + g_pipes[i].write_refs > 0
    BY <2>1, Zenon DEF Rings, Ring
  <2>3. ASSUME NEW i \in PipeId PROVE stream[i] \in Seq(Byte) /\ Len(stream[i]) <= BufSize
    <3>1. CASE stream[i] = <<>>
      BY <3>1, PipeAssumption
    <3>2. CASE Ring(g_pipes[i], stream[i])
      <4>1. g_pipes[i] \in PipeEntry /\ stream[i] \in Seq(Byte) /\ g_pipes[i].count = Len(stream[i])
        BY <3>2, Zenon DEF Ring
      <4>2. g_pipes[i].count \in 0 .. BufSize
        BY <4>1, EntryFacts, Zenon
      <4> QED
        BY <4>1, <4>2, PipeAssumption
    <3> QED
      BY <2>1, <3>1, <3>2, Zenon DEF Rings
  <2>4. fd_table \in [Proc -> [Fd -> {-1} \union {Handle(i, d) : i \in PipeId, d \in {0, 1}}]]
    BY <2>1 DEF Tables, FdValue
  <2>5. alive \subseteq Proc /\ sigpipe \subseteq alive
    BY <2>1, SMTT(40) DEF Tables
  <2> QED
    BY <2>2, <2>3, <2>4, <2>5 DEF TypeOK
<1> QED
  BY <1>1, Invariance, PTL

\* A pipe is a byte stream, for every buffer size and every sequence of reads and writes by any
\* number of processes: pipe_read returns the oldest bytes pipe_write accepted, in order.
THEOREM PipesAreStreams == Spec => []PipeIsAStream
<1>1. IInv => PipeIsAStream
  <2> SUFFICES ASSUME IInv PROVE PipeIsAStream
    OBVIOUS
  <2>1. Rings
    BY DEF IInv
  <2>2. last.got = last.due
    BY <2>1 DEF Rings
  <2>3. ASSUME NEW i \in PipeId
        PROVE  /\ g_pipes[i].count = Len(stream[i])
               /\ \A k \in 1 .. g_pipes[i].count :
                    g_pipes[i].buffer[(g_pipes[i].head + k - 1) % BufSize] = stream[i][k]
    <3>1. CASE g_pipes[i] = Idle /\ stream[i] = <<>>
      BY <3>1, IdleFacts
    <3>2. CASE Ring(g_pipes[i], stream[i])
      BY <3>2, Zenon DEF Ring, Wrap
    <3> QED
      BY <2>1, <3>1, <3>2, Zenon DEF Rings
  <2> QED
    BY <2>2, <2>3, Zenon DEF PipeIsAStream
<1> QED
  BY <1>1, Invariance, PTL

\* The counts pipe_close_fd and pipe_write go by are exact as long as neither fork nor reaping
\* touched the pipe's descriptors, also for a slot that was used before.
THEOREM RefsAreExact == Spec => []RefsCountOpenEnds
<1>1. IInv => RefsCountOpenEnds
  <2> SUFFICES ASSUME IInv, NEW i \in PipeId \ shared
               PROVE  /\ g_pipes[i].read_refs = Cardinality(OpenEnds(i, 0))
                      /\ g_pipes[i].write_refs = Cardinality(OpenEnds(i, 1))
    BY DEF RefsCountOpenEnds
  <2>1. ASSUME NEW d, NEW n, Ends(i, d, n) PROVE n = Cardinality(OpenEnds(i, d))
    BY <2>1, FS_EmptySet, FS_Singleton, Zenon DEF Ends
  <2>2. Ends(i, 0, g_pipes[i].read_refs) /\ Ends(i, 1, g_pipes[i].write_refs)
    BY Zenon DEF IInv, Tables
  <2> QED
    BY <2>1, <2>2, Zenon
<1> QED
  BY <1>1, Invariance, PTL
=============================================================================
