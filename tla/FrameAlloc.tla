----------------------------- MODULE FrameAlloc -----------------------------
(***************************************************************************)
(* The physical frame allocator: src/kernel/mm/frame.c over the bitmap of  *)
(* src/kernel/mm/bitmap.c.  The bitmap is the set of the frames in use; a  *)
(* base address is the index of its frame.                                 *)
(***************************************************************************)
EXTENDS Integers, FiniteSets

CONSTANTS Total,    \* FRAME_TOTAL_COUNT
          Aligns    \* the alignments asked for

ASSUME FrameAssumption == Total \in Nat \ {0} /\ Aligns \subseteq Nat \ {0}

VARIABLES g_frame_bitmap, g_frame_next_cursor, used_frames

vars == <<g_frame_bitmap, g_frame_next_cursor, used_frames>>

Frame == 0 .. Total - 1
None  == -1
Run(index, count) == index .. index + count - 1
Least(S) == CHOOSE x \in S : \A y \in S : x <= y

Init ==
    /\ g_frame_bitmap = {}
    /\ g_frame_next_cursor = 0
    /\ used_frames = 0

-----------------------------------------------------------------------------
(* The search *)

\* Mutant: one frame too many is skipped after a run that turned out taken.
find_run_zeroSkips(start, count, align) ==
    LET find[index \in 0 .. Total + 1] ==
          LET taken == Run(index, count) \intersect g_frame_bitmap
          IN  IF index + count > Total THEN None
              ELSE IF index % align # 0 THEN find[index + 1]
              ELSE IF taken = {} THEN index
              ELSE find[Least(taken) + 2]
    IN  find[start]

\* bitmap_find_run_zero: it goes on after the first frame that is taken.
find_run_zero(start, count, align) ==
    LET find[index \in 0 .. Total] ==
          LET taken == Run(index, count) \intersect g_frame_bitmap
          IN  IF index + count > Total THEN None
              ELSE IF index % align # 0 THEN find[index + 1]
              ELSE IF taken = {} THEN index
              ELSE find[Least(taken) + 1]
    IN  find[start]

\* Next fit: from the cursor first, then from the beginning.
NextFit(count, align) ==
    LET index == find_run_zero(g_frame_next_cursor, count, align)
    IN  IF index = None THEN find_run_zero(0, count, align) ELSE index

-----------------------------------------------------------------------------
(* frame_mark_range sets or clears the frames one by one.  At the first one  *)
(* that is in the wanted state already it undoes those before it.            *)

range_valid(index, count) == count > 0 /\ index < Total /\ index + count <= Total

Wrong(index, count, allocate) ==
    {f \in Run(index, count) : (f \in g_frame_bitmap) = allocate}

\* Mutant: the rollback includes the frame that failed.
MarkedTooFar(index, count, allocate) ==
    LET wrong  == Wrong(index, count, allocate)
        undone == Run(index, count) \intersect {f \in Frame : \A w \in wrong : f <= w}
    IN  IF (wrong = {}) = allocate THEN g_frame_bitmap \union undone ELSE g_frame_bitmap \ undone

Marked(index, count, allocate) ==
    LET wrong  == Wrong(index, count, allocate)
        done   == Run(index, count) \intersect {f \in Frame : \A w \in wrong : f < w}
        marked == IF allocate THEN g_frame_bitmap \union done ELSE g_frame_bitmap \ done
    IN  IF wrong = {} THEN marked
        ELSE IF allocate THEN marked \ done ELSE marked \union done

MarkOk(index, count, allocate) ==
    range_valid(index, count) /\ Wrong(index, count, allocate) = {}

-----------------------------------------------------------------------------

\* Mutant: the cursor is not wrapped at the end of the pool.
frame_alloc_alignedNoWrap(count, align) ==
    \E index \in Frame :
      /\ index = NextFit(count, align)
      /\ MarkOk(index, count, TRUE)
      /\ g_frame_bitmap' = Marked(index, count, TRUE)
      /\ g_frame_next_cursor' = index + count
      /\ used_frames' = used_frames + count

\* Nothing changes when there is no run (NextFit is None).
frame_alloc_aligned(count, align) ==
    \E index \in Frame :
      /\ index = NextFit(count, align)
      /\ MarkOk(index, count, TRUE)
      /\ g_frame_bitmap' = Marked(index, count, TRUE)
      /\ g_frame_next_cursor' = IF index + count >= Total THEN 0 ELSE index + count
      /\ used_frames' = used_frames + count

frame_free(index, count) ==
    /\ range_valid(index, count)
    /\ g_frame_bitmap' = Marked(index, count, FALSE)
    /\ used_frames' = IF ~MarkOk(index, count, FALSE) THEN used_frames
                      ELSE IF used_frames >= count THEN used_frames - count ELSE 0
    /\ UNCHANGED g_frame_next_cursor

frame_reserve(index, count) ==
    /\ range_valid(index, count)
    /\ g_frame_bitmap' = Marked(index, count, TRUE)
    /\ used_frames' = IF MarkOk(index, count, TRUE) THEN used_frames + count ELSE used_frames
    /\ UNCHANGED g_frame_next_cursor

Next ==
    \E count \in 1 .. Total :
      \/ \E align \in Aligns : frame_alloc_aligned(count, align)
      \/ \E index \in Frame : frame_free(index, count) \/ frame_reserve(index, count)

Spec == Init /\ [][Next]_vars
-----------------------------------------------------------------------------

\* Type invariant; the cursor is always a frame a search can start from.
TypeOK ==
    /\ g_frame_bitmap \subseteq Frame
    /\ g_frame_next_cursor \in Frame
    /\ used_frames \in 0 .. Total

\* The count that memory statistics report is the number of frames marked in the
\* bitmap, whatever was allocated, reserved, freed in part or freed twice: a
\* frame_mark_range that fails half way leaves no frame changed.
CountExact == used_frames = Cardinality(g_frame_bitmap)

\* "frame: no free run" is only said when there is none: wherever the cursor
\* stands, frame_alloc_aligned finds an aligned free run if one exists, and what
\* it finds is one.
SearchIsComplete ==
    \A count \in 1 .. Total, align \in Aligns :
      LET runs == {i \in Frame : /\ i % align = 0 /\ range_valid(i, count)
                                 /\ Run(i, count) \intersect g_frame_bitmap = {}}
      IN  IF runs = {} THEN NextFit(count, align) = None ELSE NextFit(count, align) \in runs
=============================================================================
