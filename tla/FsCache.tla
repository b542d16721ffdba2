------------------------------- MODULE FsCache -------------------------------
(***************************************************************************)
(* The VFS block cache of src/lib/fs_cache.c: LRU slots, write-back of     *)
(* whole blocks, write-through of partial blocks, flush, invalidation and  *)
(* the control calls.  A block is two halves, so that a partial write and  *)
(* a short write (the first half only) can be told from a full one.  The   *)
(* loader and flusher callbacks may fail on every call.  A call that spans *)
(* several blocks is a sequence of these one-block steps and stops at the  *)
(* first that fails.                                                       *)
(***************************************************************************)
EXTENDS Integers, FiniteSets

CONSTANTS Path, Blk,     \* a cached block is a (path, block_start) pair
          Value,         \* contents of half a block
          Flusher,       \* writer callbacks
          NoFlusher,     \* the NULL callback
          PoolSlots,     \* FS_CACHE_DEFAULT_SLOTS
          MinSlots       \* smallest number of active slots (16 in the code)

ASSUME CacheAssumption ==
    /\ NoFlusher \notin Flusher
    /\ PoolSlots \in Nat \ {0} /\ MinSlots \in 1 .. PoolSlots

VARIABLES
    slots,        \* g_slots
    older,        \* the age fields: for each slot the valid ones used before it
    dirty_count,  \* g_info.dirty_count
    enabled,      \* g_info.enabled
    configured,   \* g_info.configured_slots
    g_flusher,    \* the registered default flusher
    dev,          \* the backend: what each half holds and who wrote it
    expected      \* history: what the calls that returned say it should hold

vars == <<slots, older, dirty_count, enabled, configured, g_flusher, dev, expected>>

Key     == Path \X Blk
NoKey   == <<>>
Slot    == 1 .. PoolSlots
Active  == 1 .. configured
Outcome == {"ok", "short", "fail"}   \* of one call of a flusher

Empty == [valid |-> FALSE, dirty |-> FALSE, flusher |-> NoFlusher, key |-> NoKey, data |-> <<>>]

\* What a device block holds, without who wrote it.
Contents(d) == <<d[1][1], d[2][1]>>

\* The device block after flusher f was handed data, with outcome oc.
Written(old, f, data, oc) ==
    CASE oc = "ok"    -> <<<<data[1], f>>, <<data[2], f>>>>
      [] oc = "short" -> <<<<data[1], f>>, old[2]>>
      [] oc = "fail"  -> old

Init ==
    /\ slots = [i \in Slot |-> Empty]
    /\ older = [i \in Slot |-> {}]
    /\ dirty_count = 0
    /\ enabled = TRUE
    /\ configured = PoolSlots
    /\ g_flusher = NoFlusher
    /\ \E v \in Value : dev = [k \in Key |-> <<<<v, NoFlusher>>, <<v, NoFlusher>>>>]
    /\ expected = dev

-----------------------------------------------------------------------------
(* Lookup, write-back of one slot, choice of a slot *)

Holds(k) == {i \in Active : slots[i].valid /\ slots[i].key = k}
Find(k)  == CHOOSE i \in Holds(k) : \A j \in Holds(k) : i <= j

Valid == {i \in Slot : slots[i].valid}

\* Slot i becomes the most recently used one.
Touch(i) == [j \in Slot |-> IF j = i THEN Valid \ {i} ELSE older[j] \ {i}]

\* The slots of S become invalid.
Forget(S) == [j \in Slot |-> IF j \in S THEN {} ELSE older[j] \ S]

\* Mutant: the registered default is preferred to the writer the slot retains.
SlotFlusherDefaultFirst(s) == IF g_flusher # NoFlusher THEN g_flusher ELSE s.flusher

\* The callback that fs_cache_flush_slot(slot, NULL) uses.
SlotFlusher(s) == IF s.flusher # NoFlusher THEN s.flusher ELSE g_flusher

\* fs_cache_flush_slot returns true.
FlushDone(s, oc) == SlotFlusher(s) # NoFlusher /\ oc = "ok"

DevAfterFlush(d, s, oc) ==
    IF SlotFlusher(s) = NoFlusher THEN d
    ELSE [d EXCEPT ![s.key] = Written(@, SlotFlusher(s), s.data, oc)]

LessDirty(n, flushed) == IF n >= flushed THEN n - flushed ELSE 0

\* The slot fs_cache_choose_slot() settles on: the first invalid one, else the
\* least recently used.
Candidate ==
    IF \E i \in Active : ~slots[i].valid
    THEN CHOOSE i \in Active : /\ ~slots[i].valid
                               /\ \A j \in Active : ~slots[j].valid => i <= j
    ELSE CHOOSE i \in Active : older[i] = {}

\* The slot is usable: it is not a dirty victim whose write-back fails.
ChooseOk(oc) == ~slots[Candidate].dirty \/ FlushDone(slots[Candidate], oc)

\* State of the device and of the dirty count after the choice.
DevAfterChoose(oc) ==
    IF slots[Candidate].dirty THEN DevAfterFlush(dev, slots[Candidate], oc) ELSE dev
CountAfterChoose(oc) ==
    IF slots[Candidate].dirty /\ ChooseOk(oc) THEN LessDirty(dirty_count, 1) ELSE dirty_count

ChooseFails(oc) ==
    /\ ~ChooseOk(oc)
    /\ dev' = DevAfterChoose(oc)
    /\ UNCHANGED <<slots, older, dirty_count, enabled, configured, g_flusher, expected>>
-----------------------------------------------------------------------------
(* fs_cache_read_at, fs_cache_write_at: one block *)

ReadHit(k) ==
    /\ enabled
    /\ Holds(k) # {}
    /\ older' = Touch(Find(k))
    /\ UNCHANGED <<slots, dirty_count, enabled, configured, g_flusher, dev, expected>>

\* The chosen slot is cleared before the loader runs; a failed load leaves it
\* invalid.
ReadMiss(k, oc, loaded) ==
    /\ enabled
    /\ Holds(k) = {}
    /\ \/ ChooseFails(oc)
       \/ /\ ChooseOk(oc)
          /\ slots' = [slots EXCEPT ![Candidate] =
                IF loaded
                THEN [valid |-> TRUE, dirty |-> FALSE, flusher |-> NoFlusher, key |-> k,
                      data |-> Contents(DevAfterChoose(oc)[k])]
                ELSE Empty]
          /\ older' = IF loaded THEN Touch(Candidate) ELSE Forget({Candidate})
          /\ dev' = DevAfterChoose(oc)
          /\ dirty_count' = CountAfterChoose(oc)
          /\ UNCHANGED <<enabled, configured, g_flusher, expected>>

\* Mutant: a block that was dirty already is counted again.
WriteHitCountsTwice(k, data, f, oc) ==
    LET i == Find(k)
    IN  /\ Holds(k) # {}
        /\ slots' = [slots EXCEPT ![i] = [valid |-> TRUE, dirty |-> TRUE, flusher |-> f,
                                          key |-> k, data |-> data]]
        /\ dirty_count' = dirty_count + 1
        /\ older' = Touch(i)
        /\ expected' = [expected EXCEPT ![k] = <<<<data[1], f>>, <<data[2], f>>>>]
        /\ UNCHANGED <<enabled, configured, g_flusher, dev>>

\* A dirty slot that another writer filled is written back before its data is
\* replaced.
WriteHit(k, data, f, oc) ==
    LET i      == Find(k)
        drain  == slots[i].dirty /\ slots[i].flusher # f
        done   == FlushDone(slots[i], oc)
        before == IF drain THEN LessDirty(dirty_count, 1) ELSE dirty_count
    IN  /\ Holds(k) # {}
        /\ dev' = IF drain THEN DevAfterFlush(dev, slots[i], oc) ELSE dev
        /\ IF drain /\ ~done
           THEN UNCHANGED <<slots, older, dirty_count, expected>>
           ELSE /\ slots' = [slots EXCEPT ![i] = [valid |-> TRUE, dirty |-> TRUE, flusher |-> f,
                                                  key |-> k, data |-> data]]
                /\ dirty_count' = IF slots[i].dirty /\ ~drain THEN before ELSE before + 1
                /\ older' = Touch(i)
                /\ expected' = [expected EXCEPT ![k] = <<<<data[1], f>>, <<data[2], f>>>>]
        /\ UNCHANGED <<enabled, configured, g_flusher>>

WriteMiss(k, data, f, oc) ==
    /\ Holds(k) = {}
    /\ \/ ChooseFails(oc)
       \/ /\ ChooseOk(oc)
          /\ slots' = [slots EXCEPT ![Candidate] = [valid |-> TRUE, dirty |-> TRUE, flusher |-> f,
                                                    key |-> k, data |-> data]]
          /\ dirty_count' = CountAfterChoose(oc) + 1
          /\ older' = Touch(Candidate)
          /\ dev' = DevAfterChoose(oc)
          /\ expected' = [expected EXCEPT ![k] = <<<<data[1], f>>, <<data[2], f>>>>]
          /\ UNCHANGED <<enabled, configured, g_flusher>>

\* With the cache disabled the flusher is called directly, and the caller is
\* told how much it wrote.
WriteDirect(k, data, f, oc) ==
    /\ dev' = [dev EXCEPT ![k] = Written(@, f, data, oc)]
    /\ expected' = [expected EXCEPT ![k] = Written(@, f, data, oc)]
    /\ UNCHANGED <<slots, older, dirty_count, enabled, configured, g_flusher>>

\* The writer of a call: NULL stands for the registered default; with neither
\* the call returns -1.
Chosen(fl) == IF fl = NoFlusher THEN g_flusher ELSE fl

WriteBlock(k, data, f, oc) ==
    \/ enabled /\ WriteHit(k, data, f, oc)
    \/ enabled /\ WriteMiss(k, data, f, oc)
    \/ ~enabled /\ WriteDirect(k, data, f, oc)

\* Mutant: the cached block is written back and not dropped.
WritePartialKeepsBlock(k, part, f, oc) ==
    LET drain  == enabled /\ Holds(k) # {} /\ slots[Find(k)].dirty
        done   == FlushDone(slots[Find(k)], oc)
        put(d) == IF part = <<>> THEN d ELSE [d EXCEPT ![k][part[1]] = <<part[2], f>>]
    IN  /\ drain => done
        /\ slots' = IF drain THEN [slots EXCEPT ![Find(k)].dirty = FALSE] ELSE slots
        /\ dirty_count' = IF drain THEN LessDirty(dirty_count, 1) ELSE dirty_count
        /\ dev' = put(IF drain THEN DevAfterFlush(dev, slots[Find(k)], oc) ELSE dev)
        /\ expected' = put(expected)
        /\ UNCHANGED <<older, enabled, configured, g_flusher>>

\* A partial block: an older cached version is written back and dropped, then
\* the backend is written at the offset: part is the half and its value, or <<>>
\* if that fails.  The drop stands all the same.
WritePartial(k, part, f, oc) ==
    LET hit    == enabled /\ Holds(k) # {}
        drain  == hit /\ slots[Find(k)].dirty
        done   == FlushDone(slots[Find(k)], oc)
        put(d) == IF part = <<>> THEN d ELSE [d EXCEPT ![k][part[1]] = <<part[2], f>>]
        dev1   == IF drain THEN DevAfterFlush(dev, slots[Find(k)], oc) ELSE dev
    IN  /\ IF drain /\ ~done
           THEN dev' = dev1 /\ UNCHANGED <<slots, older, dirty_count, expected>>
           ELSE /\ slots' = IF hit THEN [slots EXCEPT ![Find(k)] = Empty] ELSE slots
                /\ older' = IF hit THEN Forget({Find(k)}) ELSE older
                /\ dirty_count' = IF drain THEN LessDirty(dirty_count, 1) ELSE dirty_count
                /\ dev' = put(dev1)
                /\ expected' = put(expected)
        /\ UNCHANGED <<enabled, configured, g_flusher>>

-----------------------------------------------------------------------------
(* fs_cache_flush, invalidation, the control calls and file_sync_all *)

DirtyIn(sl, S) == {i \in S : sl[i].valid /\ sl[i].dirty}

\* Write back the dirty slots of S, each with its own outcome; the three results
\* are the slots, the device and the dirty count afterwards.
FlushSlots(sl, S, oc) ==
    [i \in Slot |-> IF i \in DirtyIn(sl, S) /\ FlushDone(sl[i], oc[i])
                    THEN [sl[i] EXCEPT !.dirty = FALSE] ELSE sl[i]]
FlushDev(d, sl, S, oc) ==
    [k \in Key |-> IF \E i \in DirtyIn(sl, S) : sl[i].key = k
                   THEN LET i == CHOOSE j \in DirtyIn(sl, S) : sl[j].key = k
                        IN  DevAfterFlush(d, sl[i], oc[i])[k]
                   ELSE d[k]]
FlushCount(n, sl, S, oc) ==
    LessDirty(n, Cardinality({i \in DirtyIn(sl, S) : FlushDone(sl[i], oc[i])}))

\* Slots of S still dirty after a flush stay; the clean ones are invalidated.
Dropped(sl, S)   == {i \in S : ~sl[i].dirty}
DropClean(sl, S) == [i \in Slot |-> IF i \in Dropped(sl, S) THEN Empty ELSE sl[i]]

\* fs_cache_flush() and FS_CACHE_CTL_FLUSH.
Flush(oc) ==
    /\ slots' = FlushSlots(slots, Active, oc)
    /\ dev' = FlushDev(dev, slots, Active, oc)
    /\ dirty_count' = FlushCount(dirty_count, slots, Active, oc)
    /\ UNCHANGED <<older, enabled, configured, g_flusher, expected>>

\* fs_cache_invalidate_path(path), invalidate_all() when P is every path.
InvalidatePath(P, oc) ==
    LET S  == {i \in Active : slots[i].valid /\ slots[i].key[1] \in P}
        s1 == FlushSlots(slots, S, oc)
    IN  /\ slots' = DropClean(s1, S)
        /\ older' = Forget(Dropped(s1, S))
        /\ dev' = FlushDev(dev, slots, S, oc)
        /\ dirty_count' = FlushCount(dirty_count, slots, S, oc)
        /\ UNCHANGED <<enabled, configured, g_flusher, expected>>

\* Flush, then give up with -1 if anything is dirty, else drop the whole cache
\* and set the new configuration.
FlushThenDrop(oc, en, conf) ==
    LET n == FlushCount(dirty_count, slots, Active, oc)
    IN  /\ dev' = FlushDev(dev, slots, Active, oc)
        /\ dirty_count' = n
        /\ IF n # 0
           THEN /\ slots' = FlushSlots(slots, Active, oc)
                /\ UNCHANGED <<older, enabled, configured>>
           ELSE /\ slots' = DropClean(FlushSlots(slots, Active, oc), Active)
                /\ older' = Forget(Dropped(FlushSlots(slots, Active, oc), Active))
                /\ enabled' = en
                /\ configured' = conf
        /\ UNCHANGED <<g_flusher, expected>>

\* Mutant: the cache is switched off although a block could not be written.
CtlDisableAnyway(oc) ==
    /\ slots' = FlushSlots(slots, Active, oc)
    /\ dev' = FlushDev(dev, slots, Active, oc)
    /\ dirty_count' = FlushCount(dirty_count, slots, Active, oc)
    /\ enabled' = FALSE
    /\ UNCHANGED <<older, configured, g_flusher, expected>>

CtlDisable(oc) == FlushThenDrop(oc, FALSE, configured)
CtlDrop(oc)    == FlushThenDrop(oc, enabled, configured)

CtlEnable ==
    /\ enabled' = TRUE
    /\ UNCHANGED <<slots, older, dirty_count, configured, g_flusher, dev, expected>>

CtlSetSlots(want, oc) ==
    \/ want < configured /\ FlushThenDrop(oc, enabled, want)
    \/ /\ want >= configured
       /\ configured' = want
       /\ UNCHANGED <<slots, older, dirty_count, enabled, g_flusher, dev, expected>>

SetFlusher(f) ==
    /\ g_flusher' = f
    /\ UNCHANGED <<slots, older, dirty_count, enabled, configured, dev, expected>>
-----------------------------------------------------------------------------

FlusherOrNull == Flusher \union {NoFlusher}

\* A flush has an outcome for each dirty slot.  A call on block k has one to
\* choose only if it writes back a slot or writes past the disabled cache.
Outcomes   == [DirtyIn(slots, Slot) -> Outcome]
OneOutcome(k) ==
    IF enabled /\ ~slots[IF Holds(k) # {} THEN Find(k) ELSE Candidate].dirty THEN {"ok"} ELSE Outcome

\* Whole blocks are written with one value in both halves: the halves of a block
\* then differ exactly when a partial or a short write came in between.
BlockData == {<<v, v>> : v \in Value}

ReadAt ==
    \E k \in Key :
      ReadHit(k) \/ \E oc \in OneOutcome(k), loaded \in BOOLEAN : ReadMiss(k, oc, loaded)

WriteAt ==
    \E k \in Key, f \in {Chosen(fl) : fl \in FlusherOrNull} \ {NoFlusher} :
    \E oc \in OneOutcome(k) :
      \/ \E data \in BlockData : WriteBlock(k, data, f, oc)
      \/ \E part \in ({1, 2} \X Value) \union {<<>>} : WritePartial(k, part, f, oc)

Ctl ==
    \/ \E oc \in Outcomes : CtlDisable(oc) \/ CtlDrop(oc)
    \/ CtlEnable
    \/ \E oc \in Outcomes, want \in MinSlots .. PoolSlots : CtlSetSlots(want, oc)

Next ==
    \/ ReadAt
    \/ WriteAt
    \/ \E oc \in Outcomes : Flush(oc)
    \/ \E oc \in Outcomes, P \in {{p} : p \in Path} \union {Path} : InvalidatePath(P, oc)
    \/ Ctl
    \/ \E f \in Flusher : SetFlusher(f)

Spec == Init /\ [][Next]_vars

-----------------------------------------------------------------------------

DevBlock == (Value \X FlusherOrNull) \X (Value \X FlusherOrNull)

\* Type invariant; the ages put the valid slots in one order of use, and no slot
\* outside the active range is valid.
TypeOK ==
    /\ slots \in [Slot -> {Empty} \union [valid : {TRUE}, dirty : BOOLEAN, flusher : FlusherOrNull,
                                          key : Key, data : Value \X Value]]
    /\ older \in [Slot -> SUBSET Valid]
    /\ \A i, j \in Valid : i \in older[j] <=> i # j /\ j \notin older[i]
    /\ \A i, j \in Valid : i \in older[j] => older[i] \subseteq older[j]
    /\ \A i \in Slot \ Valid : older[i] = {}
    /\ Valid \subseteq Active
    /\ dirty_count \in 0 .. PoolSlots
    /\ enabled \in BOOLEAN
    /\ configured \in MinSlots .. PoolSlots
    /\ g_flusher \in FlusherOrNull
    /\ dev \in [Key -> DevBlock]
    /\ expected \in [Key -> DevBlock]

\* A read always returns the bytes that the writes reported as done put there:
\* from the slot if the block is cached, from the backend otherwise, whatever
\* write-backs failed or were cut short and whatever was evicted, invalidated,
\* disabled or resized in between.  No block is cached twice.
Coherent ==
    \A k \in Key :
      /\ \A i, j \in Holds(k) : i = j
      /\ (IF Holds(k) # {} THEN slots[Find(k)].data ELSE Contents(dev[k])) = Contents(expected[k])

\* "Callers must inspect dirty_count before treating a flush as durable": when
\* it is 0 every byte is on the backend, and was put there by the callback of
\* the call that wrote it ("each buffered block retains its writer callback").
DurableWhenCountIsZero == dirty_count = 0 => dev = expected

\* dirty_count is the number of dirty blocks in the cache, so that the callers
\* that test it against 0 neither miss unwritten data nor refuse for ever.
DirtyCountExact == dirty_count = Cardinality(DirtyIn(slots, Slot))

\* "Cache drop, disable and shrink return -1 if dirty data cannot be flushed;
\* configuration stays unchanged": the cache is never switched off or made
\* smaller by a step that leaves a block unwritten.
ConfigChangesOnlyWhenClean ==
    [][(enabled /\ ~enabled') \/ configured' < configured
         => dirty_count' = 0 /\ dev' = expected']_vars
=============================================================================
