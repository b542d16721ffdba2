----------------------------- MODULE Fat32Files -----------------------------
(***************************************************************************)
(* Files and directories of src/fs/fat32.c: the FAT, the directory         *)
(* entries, and every operation that changes them as the sequence of       *)
(* writes it issues, with power failures between two of them.              *)
(*                                                                         *)
(* A write is atomic here, which is what the log promises for a metadata   *)
(* sector (Fat32Wal).  File data and zeroed clusters are alike: read as a  *)
(* directory they hold no entry.  The entries . and .., which every scan   *)
(* skips, the second FAT, and attributes, sizes and times are left out.    *)
(***************************************************************************)
EXTENDS Integers, Sequences, FiniteSets, SequencesExt

CONSTANTS
    ClusterCount,  \* g_cluster_count
    ClusterSlots,  \* directory entries in a cluster
    Layouts,       \* sectors per cluster the volume may have: 1 as made by mkfat32.py, or more
    MaxDirClusters,\* clusters of a directory that fat32_find_free_slot looks through
    ShortNames,    \* names that are their own 8.3 name
    LongNames,     \* names that need a long-name entry
    MaxClusters,   \* bound on the clusters of one write
    MaxDepth,      \* bound on the directories in a path
    MaxOps         \* bound on the operations started

ASSUME FilesAssumption ==
    /\ ClusterCount \in Nat \ {0} /\ MaxClusters \in Nat /\ MaxDepth \in Nat /\ MaxOps \in Nat
    /\ ClusterSlots \in Nat /\ ClusterSlots > 1 /\ MaxDirClusters \in Nat
    /\ \A spc \in Layouts : spc \in 1 .. ClusterSlots /\ ClusterSlots % spc = 0

VARIABLES
    vol,      \* fat: the FAT; cached: the FAT as fat32_get_fat_entry sees it; blk: clusters;
              \* spc: sectors per cluster
    todo,     \* the writes the operation in progress has yet to issue
    operand,  \* the directory entries it is about
    append,   \* the append stream: g_append_*
    causes,   \* history: what may have damaged the volume
    ops       \* operations started so far

vars == <<vol, todo, operand, append, causes, ops>>

Cluster == 2 .. ClusterCount + 1
Root    == 2
FREE    == 0
END     == 1
None    == 0
Name    == ShortNames \union LongNames
Dirs    == UNION {[1 .. n -> Name] : n \in 0 .. MaxDepth}

End     == [kind |-> "end"]
Deleted == [kind |-> "deleted"]
Lfn(name) == [kind |-> "lfn", name |-> name]
Entry(kind, name, first) == [kind |-> kind, name |-> name, first |-> first]
Empty   == [i \in 1 .. ClusterSlots |-> End]
Closed  == [open |-> FALSE]

Init ==
    /\ LET fat == [c \in Cluster |-> IF c = Root THEN END ELSE FREE]
       IN  \E spc \in Layouts :
             vol = [fat |-> fat, cached |-> fat, blk |-> [c \in Cluster |-> Empty], spc |-> spc]
    /\ todo = <<>>
    /\ operand = {}
    /\ append = Closed
    /\ causes = {}
    /\ ops = 0

-----------------------------------------------------------------------------
(* Writes *)

SetFat(c, value)   == [to |-> "fat", c |-> c, value |-> value]
SetBlk(c, value)   == [to |-> "blk", c |-> c, value |-> value]
SetSlot(pos, slot) == [to |-> "slot", c |-> pos[1], i |-> pos[2], value |-> slot]

\* fat32_set_fat_entry brings the cached sector up to date with the disk;
\* fat32_chk_set_fat ("raw") writes past the cache.
Do(v, w) ==
    CASE w.to = "fat"  -> [v EXCEPT !.fat[w.c] = w.value, !.cached = [v.fat EXCEPT ![w.c] = w.value]]
      [] w.to = "blk"  -> [v EXCEPT !.blk[w.c] = w.value]
      [] w.to = "slot" -> [v EXCEPT !.blk[w.c][w.i] = w.value]
      [] w.to = "raw"  -> [v EXCEPT !.fat[w.c] = w.value]

DoAll(v, ws) == FoldLeft(Do, v, ws)

-----------------------------------------------------------------------------
(* Chains *)

Onward(fat, p) ==
    IF p # <<>> /\ fat[Last(p)] \in Cluster \ Range(p) THEN Append(p, fat[Last(p)]) ELSE p

\* The clusters from c on, each once.
PathIn(fat, c) ==
    LET path[n \in 0 .. ClusterCount] ==
          IF n > 0 THEN Onward(fat, path[n - 1]) ELSE IF c \in Cluster THEN <<c>> ELSE <<>>
    IN  path[ClusterCount]

Path(v, c) == PathIn(v.cached, c)

Free(cs) == [k \in DOMAIN cs |-> SetFat(cs[k], FREE)]

\* fat32_free_chain
FreeChain(v, c) == Free(Path(v, c))

\* The free clusters in the order fat32_allocate_cluster finds them.
FreeClusters(v) == SelectSeq([k \in 1 .. ClusterCount |-> k + 1], LAMBDA c : v.cached[c] = FREE)

-----------------------------------------------------------------------------
(* Directories: a directory is the cluster it starts with *)

SlotsOf(p) ==
    [k \in 1 .. Len(p) * ClusterSlots |->
       <<p[((k - 1) \div ClusterSlots) + 1], ((k - 1) % ClusterSlots) + 1>>]

Slots(v, dir) == SlotsOf(Path(v, dir))

At(v, pos)  == v.blk[pos[1]][pos[2]]
IsItem(s)   == s.kind \in {"file", "dir"}

FirstWith(v, ps, kinds) == SelectInSeq(ps, LAMBDA p : At(v, p).kind \in kinds)

\* fat32_cursor_next goes up to the first entry that was never used.
UpToEnd(v, ps) ==
    LET e == FirstWith(v, ps, {"end"})
    IN  IF e = None THEN ps ELSE SubSeq(ps, 1, e - 1)

Visible(v, dir) == UpToEnd(v, Slots(v, dir))

\* Whatever long-name entry precedes an entry gives it its long name.
HasLfn(v, ps, k)   == k > 1 /\ At(v, ps[k - 1]).kind = "lfn"
LongName(v, ps, k) == IF HasLfn(v, ps, k) THEN At(v, ps[k - 1]).name ELSE At(v, ps[k]).name

\* An item: the place of its entry, the entry, the places of its long-name entries.
NoItem == [pos |-> <<0, 0>>, entry |-> End, lfn |-> <<>>]
Item(v, ps, k) ==
    IF k = None THEN NoItem
    ELSE [pos |-> ps[k], entry |-> At(v, ps[k]), lfn |-> IF HasLfn(v, ps, k) THEN <<ps[k - 1]>> ELSE <<>>]

\* fat32_find_item_in_dir: the first item with that long name or that 8.3 name.
Named(v, ps, name) ==
    SelectInSeq([k \in DOMAIN ps |-> k],
                LAMBDA k : IsItem(At(v, ps[k])) /\ name \in {LongName(v, ps, k), At(v, ps[k]).name})

FindAmong(v, ps, name) == Item(v, ps, Named(v, ps, name))

Find(v, dir, name) == FindAmong(v, Visible(v, dir), name)

IsDir(item) == item.entry.kind = "dir"

\* fat32_resolve_parent: the directory at the end of a path, or None.
Enter(item) == IF IsDir(item) THEN item.entry.first ELSE None

Resolve(v, d) ==
    LET dir[n \in 0 .. Len(d)] == IF n = 0 THEN Root ELSE Enter(Find(v, dir[n - 1], d[n]))
    IN  dir[Len(d)]

-----------------------------------------------------------------------------
(* New entries: ok, the writes issued, the place and the 8.3 name            *)

Fails(ws) == [ok |-> FALSE, ws |-> ws, pos |-> <<0, 0>>, name |-> None]
Place(ws, pos, name) == [ok |-> TRUE, ws |-> ws, pos |-> pos, name |-> name]

\* fat32_extend_dir
Extend(last, c) == <<SetFat(c, END), SetBlk(c, Empty), SetFat(last, c)>>

Unused(v, ps)  == FirstWith(v, ps, {"end", "deleted"})
IsFull(v, dir) == Unused(v, Slots(v, dir)) = None

\* Mutant: the sector is counted from the start of the directory, not of its cluster.
NoModulo(v, dir, name) ==
    LET ps == Slots(v, dir)
        k  == Unused(v, ps)
    IN  IF k = None THEN Fails(<<>>) ELSE Place(<<>>, <<ps[k][1], k>>, name)

\* A full directory of the clusters p takes a cluster and the search goes on with the sector
\* after the one just added: a later sector of the new cluster or, with one sector per
\* cluster, another cluster.
Grow(p, free, spc, name) ==
    LET left == Max({MaxDirClusters - Len(p), 0})
        new  == SubSeq(free, 1, Min({IF spc > 1 THEN 1 ELSE left, left, Len(free)}))
        last(k) == IF k = 1 THEN Last(p) ELSE new[k - 1]
        grow == FlattenSeq([k \in DOMAIN new |-> Extend(last(k), new[k])])
    IN  IF spc = 1 \/ new = <<>> THEN Fails(grow)
        ELSE Place(grow, <<new[1], (ClusterSlots \div spc) + 1>>, name)

find_free_slot(v, dir, name) ==
    LET ps == Slots(v, dir)
    IN  IF IsFull(v, dir) THEN Grow(Path(v, dir), FreeClusters(v), v.spc, name)
        ELSE Place(<<>>, ps[Unused(v, ps)], name)

\* The smallest number that makes an unused 8.3 name of a long one.
ShortFor(v, dir, name) ==
    <<name, Min({k \in 1 .. ClusterCount * ClusterSlots + 1 : Find(v, dir, <<name, k>>) = NoItem})>>

\* fat32_alloc_append_slots for a long-name entry and a short one: from the first entry
\* that was never used, whatever follows it.
Fits(v, ps) == FirstWith(v, ps, {"end"}) \in 1 .. Len(ps) - 1

AppendAfter(v, ws, dir, name, short) ==
    LET ps == Slots(v, dir)
        e  == FirstWith(v, ps, {"end"})
    IN  Place(Append(ws, SetSlot(ps[e], Lfn(name))), ps[e + 1], short)

alloc_append_slots(v, dir, name) ==
    LET ws == IF Fits(v, Slots(v, dir)) THEN <<>> ELSE Extend(Last(Path(v, dir)), Head(FreeClusters(v)))
    IN  IF ~Fits(v, Slots(v, dir)) /\ FreeClusters(v) = <<>> THEN Fails(<<>>)
        ELSE AppendAfter(DoAll(v, ws), ws, dir, name, ShortFor(v, dir, name))

create_named_entry(v, dir, name) ==
    IF name \in LongNames THEN alloc_append_slots(v, dir, name) ELSE find_free_slot(v, dir, name)

-----------------------------------------------------------------------------
(* Operations on a name in a directory: the writes they issue on volume v,   *)
(* none if they fail at once                                                 *)

\* A file's clusters are allocated, linked and filled one after the other.
Fill(cs) ==
    FlattenSeq([k \in DOMAIN cs |->
        <<SetFat(cs[k], END)>>
        \o (IF k = 1 THEN <<>> ELSE <<SetFat(cs[k - 1], cs[k])>>)
        \o <<SetBlk(cs[k], Empty)>>])

\* The entry of a file to be written anew: the old one, its clusters freed, or a new one.
Rewrite(v, dir, name, item) ==
    IF item = NoItem THEN create_named_entry(v, dir, name)
    ELSE Place(FreeChain(v, item.entry.first), item.pos, item.entry.name)

\* n clusters, from those that are free once the place e is there.
WriteData(e, free, n) ==
    IF ~e.ok THEN e.ws
    ELSE IF Len(free) < n THEN e.ws \o Fill(free) \o Free(free)
    ELSE e.ws \o Fill(SubSeq(free, 1, n))
         \o <<SetSlot(e.pos, Entry("file", e.name, IF n = 0 THEN None ELSE free[1]))>>

\* fat32_write_file of n clusters.
write_file(v, dir, name, n) ==
    LET item    == Find(v, dir, name)
        into(e) == WriteData(e, FreeClusters(DoAll(v, e.ws)), n)
    IN  IF IsDir(item) THEN <<>> ELSE into(Rewrite(v, dir, name, item))

\* Mutant: the clusters are not freed.
EntryOnly(v, item) == <<SetSlot(item.pos, Deleted)>>

\* The chain and the short entry go; the long-name entry before it stays.
RemoveEntry(v, item) == Append(FreeChain(v, item.entry.first), SetSlot(item.pos, Deleted))

delete(v, item) == IF item = NoItem \/ IsDir(item) THEN <<>> ELSE RemoveEntry(v, item)

MakeDir(c, alloc, e) ==
    alloc \o e.ws
          \o <<IF e.ok THEN SetSlot(e.pos, Entry("dir", e.name, c)) ELSE SetFat(c, FREE)>>

mkdir(v, dir, name) ==
    LET c     == Head(FreeClusters(v))
        alloc == <<SetFat(c, END), SetBlk(c, Empty)>>
    IN  IF Find(v, dir, name) # NoItem \/ FreeClusters(v) = <<>> THEN <<>>
        ELSE MakeDir(c, alloc, create_named_entry(DoAll(v, alloc), dir, name))

rmdir(v, item) ==
    IF ~IsDir(item) \/ \E p \in Range(Visible(v, item.entry.first)) : IsItem(At(v, p)) THEN <<>>
    ELSE RemoveEntry(v, item)

\* Mutant: the short entry stays.
LongOnly(item) == [k \in DOMAIN item.lfn |-> SetSlot(item.lfn[k], Deleted)]

\* Mutant: as in delete, the long-name entry stays.
ShortOnly(item) == <<SetSlot(item.pos, Deleted)>>

\* fat32_delete_item_slots
DeleteSlots(item) ==
    Append([k \in DOMAIN item.lfn |-> SetSlot(item.lfn[k], Deleted)], SetSlot(item.pos, Deleted))

\* The new entry is written before the old one is deleted.
MoveTo(e, item) ==
    IF ~e.ok THEN e.ws
    ELSE e.ws \o <<SetSlot(e.pos, Entry(item.entry.kind, e.name, item.entry.first))>> \o DeleteSlots(item)

rename(v, item, dir2, name2) ==
    IF \/ item = NoItem \/ Find(v, dir2, name2) # NoItem
       \/ IsDir(item) /\ dir2 = item.entry.first
    THEN <<>>
    ELSE MoveTo(create_named_entry(v, dir2, name2), item)

-----------------------------------------------------------------------------
(* What an operation may leave behind, recorded in causes                    *)

SubDirs(v, ps) == {At(v, p).first : p \in {q \in Range(ps) : At(v, q).kind = "dir"}}

\* Every directory reached from dir.
Below(v, dir) ==
    LET reach[n \in 0 .. ClusterCount] ==
          IF n = 0 THEN {dir}
          ELSE reach[n - 1] \union UNION {SubDirs(v, Slots(v, r)) : r \in reach[n - 1]}
    IN  reach[ClusterCount]

\* A short entry in a directory that had to grow lies beyond an entry never used.
Hides(v, dir, name) ==
    IF /\ Find(v, dir, name) = NoItem /\ name \in ShortNames
       /\ IsFull(v, dir) /\ v.spc > 1
    THEN {"hidden"} ELSE {}

\* A long-name entry outlives its short one.
Orphans(item) == IF item.lfn = <<>> THEN {} ELSE {"lfn"}

\* A write ws that fails for want of space has freed the old clusters already, or has
\* written a new long-name entry.
Spoils(ws, item, name) ==
    IF Last(ws).to = "slot" /\ Last(ws).value.kind = "file" THEN {}
    ELSE IF item # NoItem THEN {"full"}
    ELSE IF name \in LongNames THEN {"lfn"}
    ELSE {}

\* A directory moved below itself is cut off.
Loops(v, item, dir2) ==
    IF IsDir(item) /\ dir2 \in Below(v, item.entry.first) THEN {"loop"} ELSE {}

-----------------------------------------------------------------------------
(* Actions *)

\* The volume is followed up to the first damage; nothing starts after that.
Idle == todo = <<>> /\ causes \intersect {"crash", "full", "overlap", "chkdsk"} = {}

Overlap == IF append.open THEN {"overlap"} ELSE {}

Start(ws, own, cs) ==
    /\ Idle
    /\ ws # <<>>
    /\ todo' = ws
    /\ operand' = own \union {<<ws[k].c, ws[k].i>> : k \in {j \in DOMAIN ws : ws[j].to = "slot"}}
    /\ causes' = causes \union cs \union Overlap
    /\ ops' = ops + 1
    /\ UNCHANGED <<vol, append>>

WriteFile(dir, name, item, n) ==
    \E ws \in {write_file(vol, dir, name, n)} \ {<<>>} :
        Start(ws, {item.pos} \ {NoItem.pos}, Hides(vol, dir, name) \union Spoils(ws, item, name))

Delete(item) == Start(delete(vol, item), {}, Orphans(item))

Mkdir(dir, name)  == Start(mkdir(vol, dir, name), {}, Hides(vol, dir, name))

Rmdir(item)  == Start(rmdir(vol, item), {}, Orphans(item))

Rename(item, dir2, name2) ==
    Start(rename(vol, item, dir2, name2), {}, Hides(vol, dir2, name2) \union Loops(vol, item, dir2))

\* fat32_append_open frees the old clusters; the entry is written by the close.
AppendOpen(dir, name, item) ==
    \E e \in {Rewrite(vol, dir, name, item)} :
        /\ Idle
        /\ ~IsDir(item) /\ e.ok
        /\ todo' = e.ws
        /\ append' = [open |-> TRUE, pos |-> e.pos, name |-> e.name,
                      first |-> None, prev |-> None]
        /\ causes' = causes \union Hides(vol, dir, name) \union Overlap
        /\ ops' = ops + 1
        /\ UNCHANGED <<vol, operand>>

\* fat32_append_flush_cluster; when the volume is full the data is dropped.
AppendFlush ==
    LET c == Head(FreeClusters(vol))
    IN  /\ append.open /\ todo = <<>>
        /\ FreeClusters(vol) # <<>>
        /\ todo' = <<SetFat(c, END)>>
                   \o (IF append.prev = None THEN <<>>
                       ELSE <<SetFat(append.prev, c), SetFat(c, END)>>)
                   \o <<SetBlk(c, Empty)>>
        /\ append' = [append EXCEPT !.first = IF @ = None THEN c ELSE @, !.prev = c]
        /\ UNCHANGED <<vol, operand, causes, ops>>

AppendClose ==
    /\ append.open /\ todo = <<>>
    /\ todo' = <<SetSlot(append.pos, Entry("file", append.name, append.first))>>
    /\ operand' = {append.pos}
    /\ append' = Closed
    /\ UNCHANGED <<vol, causes, ops>>

\* The operation in progress issues its next write.
Issue ==
    /\ todo # <<>>
    /\ vol' = Do(vol, Head(todo))
    /\ todo' = Tail(todo)
    /\ operand' = IF Len(todo) = 1 /\ "full" \notin causes THEN {} ELSE operand
    /\ UNCHANGED <<append, causes, ops>>

Touched == operand \union (IF append.open THEN {append.pos} ELSE {})

\* Power fails; the cache starts out from the disk.
Crash ==
    /\ todo # <<>> \/ append.open
    /\ vol' = [vol EXCEPT !.cached = vol.fat]
    /\ todo' = <<>>
    /\ operand' = Touched
    /\ append' = Closed
    /\ causes' = causes \union {"crash"}
    /\ UNCHANGED ops

\* Operations start one at a time; on a path that leads nowhere they fail at once.
Reached == {Resolve(vol, d) : d \in Dirs} \ {None}

Operate ==
    /\ Idle /\ ops < MaxOps
    /\ \E dir \in Reached, name \in Name : \E item \in {Find(vol, dir, name)} :
         \/ \E n \in 0 .. MaxClusters : WriteFile(dir, name, item, n)
         \/ Delete(item)
         \/ Mkdir(dir, name)
         \/ Rmdir(item)
         \/ \E dir2 \in Reached, name2 \in Name : Rename(item, dir2, name2)
         \/ AppendOpen(dir, name, item)

Next == Operate \/ AppendFlush \/ AppendClose \/ Issue \/ Crash

Spec == Init /\ [][Next]_vars

-----------------------------------------------------------------------------
(* Properties *)

\* Type invariant: FAT values name clusters, and every entry an operation of fat32.c
\* remembers to write lies inside a cluster.
TypeOK ==
    /\ vol.fat \in [Cluster -> Cluster \union {FREE, END}]
    /\ vol.cached \in [Cluster -> Cluster \union {FREE, END}]
    /\ causes \subseteq {"hidden", "lfn", "full", "loop", "overlap", "crash",
                         "chkdsk", "grown"}
    /\ operand \subseteq Cluster \X (1 .. ClusterSlots)

\* Every entry of every directory, beyond an entry never used too.
Files == UNION {{p \in Range(Slots(vol, dir)) : IsItem(At(vol, p))} : dir \in Below(vol, Root)}

ChainOf(p) == Range(PathIn(vol.fat, At(vol, p).first))

\* The four exceptions: an operation during an open append stream, a short entry in a
\* directory that had to grow, a directory moved below itself, and chkdsk.
AtRest == todo = <<>> /\ causes \intersect {"overlap", "hidden", "loop", "chkdsk"} = {}

\* After any operation of fat32.c, and after a power failure between any two of its writes
\* or a write that ran out of space, the files and directories the operation was not about
\* keep chains of allocated clusters that nothing else uses.
DamageIsConfined ==
    AtRest =>
        LET root == Range(PathIn(vol.fat, Root))
        IN  /\ \A p \in Files \ Touched :
                 /\ \A c \in ChainOf(p) : vol.fat[c] # FREE
                 /\ ChainOf(p) \intersect root = {}
            /\ \A p, q \in Files :
                 p # q /\ ~({p, q} \subseteq Touched) => ChainOf(p) \intersect ChainOf(q) = {}

\* Between operations every cluster the FAT marks as used belongs to the root or to an entry,
\* also after operations that failed for want of space and undid their allocations.
NothingIsLost ==
    (AtRest /\ Touched = {} /\ "crash" \notin causes) =>
        \A c \in Cluster : vol.fat[c] # FREE =>
            c \in Range(PathIn(vol.fat, Root)) \union UNION {ChainOf(p) : p \in Files}

\* Between operations every entry is found under its long and its 8.3 name, no other entry is,
\* and the long name is the one its 8.3 name was made for: creation, rename and the reuse of
\* deleted entries never mix names up, as long as no long name was deleted by fat32_delete or
\* fat32_rmdir, which leave its entry behind.
NamesAreUnique ==
    (AtRest /\ Touched = {} /\ causes = {}) =>
        \A dir \in Below(vol, Root) :
            LET ps == Visible(vol, dir)
            IN  \A k \in DOMAIN ps : IsItem(At(vol, ps[k])) =>
                    LET short == At(vol, ps[k]).name
                        long  == LongName(vol, ps, k)
                    IN  /\ {Find(vol, dir, short).pos, Find(vol, dir, long).pos} = {ps[k]}
                        /\ \/ long = short
                           \/ long \in LongNames /\ \E n \in 1 .. ClusterCount * ClusterSlots : short = <<long, n>>

\* Short names are interchangeable.
Symmetry == Permutations(ShortNames)
=============================================================================
