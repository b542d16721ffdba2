---------------------------- MODULE Fat32Chkdsk ----------------------------
(***************************************************************************)
(* fat32_chkdsk of src/fs/fat32.c, run on the volumes that the operations  *)
(* of Fat32Files and a power failure leave behind.                         *)
(*                                                                         *)
(* It runs at most once: the marks of a second run start out from what     *)
(* memset leaves of the first.  The comparison of the two FATs and the     *)
(* counters of the report are left out.                                    *)
(***************************************************************************)
EXTENDS Fat32Files

\* Names of this operation only; both are their own 8.3 names.
FoundDir == <<"FOUND", 0>>
File(k)  == <<"FILE", k>>

Raw(c, value) == [to |-> "raw", c |-> c, value |-> value]

Items(v, dir) == {p \in Range(Visible(v, dir)) : IsItem(At(v, p))}

\* Mutant: only the first cluster of a file is marked.
FirstOnly(v) == {Root} \union {At(v, p).first : p \in UNION {Items(v, dir) : dir \in Below(v, Root)}}

\* fat32_chk_walk_dir goes up to the first entry never used; of the root's own chain it
\* marks the first cluster.
Marked(v) ==
    LET walk[n \in 0 .. ClusterCount] ==
          IF n = 0 THEN {Root}
          ELSE walk[n - 1] \union UNION {SubDirs(v, Visible(v, dir)) : dir \in walk[n - 1]}
        found == UNION {Items(v, dir) : dir \in walk[ClusterCount]}
    IN  {Root} \union UNION {Range(Path(v, At(v, p).first)) : p \in found}

\* fat32_chk_recover_lost: s.v the volume so far, s.ws the writes, s.k g_chk_found_index.
Issued(s, ws) == [s EXCEPT !.v = DoAll(s.v, ws), !.ws = @ \o ws]

make_found_dir(s) ==
    Issued(s, IF Find(s.v, Root, FoundDir) = NoItem THEN mkdir(s.v, Root, FoundDir) ELSE <<>>)

Saved(s, ws) ==
    [Issued(s, ws) EXCEPT !.k = IF ws # <<>> /\ Last(ws).to = "slot" THEN @ + 1 ELSE @]

save_chain(s, dir, n) == Saved(s, IF dir = None THEN <<>> ELSE write_file(s.v, dir, File(s.k), n))

recover_lost(s, c) ==
    LET chain == PathIn(s.v.fat, c)
        made  == make_found_dir(s)
        saved == save_chain(made, Resolve(made.v, <<FoundDir>>), Len(chain))
    IN  Issued(saved, [k \in DOMAIN chain |-> Raw(chain[k], FREE)])

\* Every cluster in use that was not marked, in order.
Visit(s, c, marked) == IF s.v.fat[c] # FREE /\ c \notin marked THEN recover_lost(s, c) ELSE s

chkdsk(v) ==
    LET marked == Marked(v)
    IN  FoldLeft(LAMBDA s, c : Visit(s, c, marked), [v |-> v, ws |-> <<>>, k |-> 0],
                 [k \in 1 .. ClusterCount |-> k + 1]).ws

Chkdsk ==
    /\ todo = <<>> /\ ~append.open /\ "chkdsk" \notin causes
    /\ todo' = chkdsk(vol)
    /\ causes' = causes \union {"chkdsk"} \union (IF Len(Path(vol, Root)) > 1 THEN {"grown"} ELSE {})
    /\ UNCHANGED <<vol, operand, append, ops>>

NextChk == Next \/ Chkdsk

SpecChk == Init /\ [][NextChk]_vars

\* No write of fat32_chkdsk changes an entry, or the FAT entry of a cluster of its chain,
\* except those of the operation that was cut short and of FOUND.000 itself; not so when the
\* root has more than one cluster.
ChkdskKeepsFiles ==
    [][("chkdsk" \in causes /\ causes \intersect {"grown", "overlap", "hidden"} = {}) =>
         \A p \in Files \ operand :
            At(vol, p).name \notin {FoundDir} \union {File(k) : k \in 0 .. ClusterCount} =>
              /\ At(vol', p) = At(vol, p)
              /\ \A c \in ChainOf(p) : vol'.fat[c] = vol.fat[c]]_vars

\* A lost cluster is, in the words of the comment in fat32_chkdsk, marked as used in the FAT
\* with no directory entry pointing to it: a volume no operation has damaged has none, so the
\* repair has nothing to write.
SoundVolumeIsLeftAlone ==
    causes \subseteq {"chkdsk", "grown", "lfn"} /\ "chkdsk" \in causes => todo = <<>>
=============================================================================
