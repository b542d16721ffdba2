-------------------------- MODULE FrameAllocProofs --------------------------
(***************************************************************************)
(* The frame count is exact for a pool of any size and for every sequence  *)
(* of calls, and the search misses no free run.  TypeOK /\ CountExact is    *)
(* inductive: TypeOK makes the bitmap finite, and frame_mark_range either   *)
(* changes the whole range, each frame of it from the other state, or       *)
(* nothing.  The search is recursive; it is shown equal to the least        *)
(* aligned free run, which satisfies the same equation.                     *)
(***************************************************************************)
EXTENDS FrameAlloc, FiniteSetTheorems, WellFoundedInduction, TLAPS

\* bitmap_find_run_zero scans upwards: the first frame that satisfies a test exists as soon as
\* any does.
LEMMA LeastNat ==
    ASSUME NEW T, T \subseteq Nat, T # {}
    PROVE  \E x \in T : \A y \in T : x <= y
<1>1. PICK x \in T : \A y \in T : ~(<<y, x>> \in OpToRel(<, Nat))
  BY NatLessThanWellFounded, WFMin, Zenon
<1>2. \A a, b \in Nat : <<a, b>> \in OpToRel(<, Nat) <=> a < b
  BY DEF OpToRel
<1>3. \A y \in T : ~(y < x)
  BY <1>1, <1>2, Zenon
<1> QED BY <1>3

Inv == TypeOK /\ CountExact

\* The frames are finitely many, and a valid range has as many as it says.
LEMMA Ranges ==
    /\ IsFiniteSet(Frame) /\ Cardinality(Frame) = Total
    /\ \A index \in Frame, count \in 1 .. Total : range_valid(index, count) =>
         /\ Run(index, count) \subseteq Frame
         /\ IsFiniteSet(Run(index, count))
         /\ Cardinality(Run(index, count)) = count
<1>1. 0 \in Int /\ Total - 1 \in Int /\ Total \in Nat \ {0}
  BY FrameAssumption
<1>2. IsFiniteSet(Frame) /\ Cardinality(Frame) = Total
  BY <1>1, FS_Interval DEF Frame
<1>3. ASSUME NEW index \in Frame, NEW count \in 1 .. Total, range_valid(index, count)
      PROVE  /\ Run(index, count) \subseteq Frame
             /\ IsFiniteSet(Run(index, count))
             /\ Cardinality(Run(index, count)) = count
  <2>1. index \in Int /\ count \in Int /\ index + count - 1 \in Int
    BY <1>1 DEF Frame
  <2>2. Run(index, count) \subseteq Frame
    BY <1>1, <1>3, <2>1 DEF Frame, Run, range_valid
  <2>3. IsFiniteSet(Run(index, count))
    BY <2>1, FS_Interval DEF Run
  <2>4. Cardinality(Run(index, count)) = count
    BY <1>1, <2>1, FS_Interval DEF Run
  <2> QED BY <2>2, <2>3, <2>4
<1> QED BY <1>2, <1>3

\* frame_mark_range that succeeds changes the whole range; one that fails has
\* undone what it did.
LEMMA MarkIsAllOrNothing ==
    ASSUME TypeOK, NEW index \in Frame, NEW count \in 1 .. Total, NEW allocate \in BOOLEAN,
           range_valid(index, count)
    PROVE  /\ MarkOk(index, count, allocate) =>
                Marked(index, count, allocate) =
                  IF allocate THEN g_frame_bitmap \union Run(index, count)
                              ELSE g_frame_bitmap \ Run(index, count)
           /\ ~MarkOk(index, count, allocate) => Marked(index, count, allocate) = g_frame_bitmap
<1>1. Run(index, count) \subseteq Frame
  BY Ranges
<1>2. ASSUME MarkOk(index, count, allocate)
      PROVE  Marked(index, count, allocate) =
               IF allocate THEN g_frame_bitmap \union Run(index, count)
                           ELSE g_frame_bitmap \ Run(index, count)
  BY <1>1, <1>2 DEF Marked, MarkOk
<1>3. ASSUME ~MarkOk(index, count, allocate)
      PROVE  Marked(index, count, allocate) = g_frame_bitmap
  <2> DEFINE wrong == Wrong(index, count, allocate)
             done  == Run(index, count) \intersect {f \in Frame : \A w \in wrong : f < w}
  <2>1. wrong # {}
    BY <1>3 DEF MarkOk
  <2>2. \A f \in Frame : ~(f < f)
    BY FrameAssumption DEF Frame
  <2>3. done \intersect wrong = {}
    BY <2>2
  <2>4. CASE allocate
    <3>1. done \intersect g_frame_bitmap = {}
      BY <2>3, <2>4, ZenonT(40) DEF Wrong
    <3>2. Marked(index, count, allocate) = (g_frame_bitmap \union done) \ done
      BY <2>1, <2>4, ZenonT(40) DEF Marked
    <3> QED BY <3>1, <3>2
  <2>5. CASE ~allocate
    <3>1. done \subseteq g_frame_bitmap
      BY <2>3, <2>5 DEF Wrong
    <3>2. Marked(index, count, allocate) = (g_frame_bitmap \ done) \union done
      BY <2>1, <2>5 DEF Marked
    <3> QED BY <3>1, <3>2
  <2> QED BY <2>4, <2>5
<1> QED BY <1>2, <1>3

\* A range that was free enters the bitmap as a whole: the count grows by it.
LEMMA Grows ==
    ASSUME Inv, NEW index \in Frame, NEW count \in 1 .. Total, MarkOk(index, count, TRUE)
    PROVE  /\ Marked(index, count, TRUE) \subseteq Frame
           /\ Cardinality(Marked(index, count, TRUE)) = used_frames + count
           /\ used_frames + count \in 0 .. Total
<1>1. range_valid(index, count) /\ Wrong(index, count, TRUE) = {}
  BY ZenonT(40) DEF MarkOk
<1>2. /\ Run(index, count) \subseteq Frame
      /\ IsFiniteSet(Run(index, count)) /\ Cardinality(Run(index, count)) = count
      /\ IsFiniteSet(Frame) /\ Cardinality(Frame) = Total
  BY <1>1, Ranges
<1>3. Marked(index, count, TRUE) = g_frame_bitmap \union Run(index, count)
  BY <1>1, MarkIsAllOrNothing, ZenonT(40) DEF Inv
<1>4. g_frame_bitmap \intersect Run(index, count) = {}
  BY <1>1 DEF Wrong
<1>5. IsFiniteSet(g_frame_bitmap)
  BY <1>2, FS_Subset DEF Inv, TypeOK
<1>6. Cardinality(g_frame_bitmap \union Run(index, count)) = used_frames + count
  <2>1. Cardinality(g_frame_bitmap \union Run(index, count))
          = Cardinality(g_frame_bitmap) + Cardinality(Run(index, count))
              - Cardinality(g_frame_bitmap \intersect Run(index, count))
    BY <1>2, <1>5, FS_Union
  <2>2. Cardinality(g_frame_bitmap \intersect Run(index, count)) = 0
    BY <1>4, FS_EmptySet
  <2> QED BY <1>2, <2>1, <2>2, FrameAssumption DEF Inv, TypeOK, CountExact
<1>7. g_frame_bitmap \union Run(index, count) \subseteq Frame
  BY <1>2 DEF Inv, TypeOK
<1>8. used_frames + count <= Total
  BY <1>2, <1>6, <1>7, FS_Subset
<1>9. used_frames + count \in 0 .. Total
  <2>1. used_frames \in Int /\ used_frames >= 0
    BY FrameAssumption DEF Inv, TypeOK
  <2>2. count \in Int /\ count >= 1 /\ Total \in Int
    BY FrameAssumption
  <2> QED BY <1>8, <2>1, <2>2
<1> QED BY <1>3, <1>6, <1>7, <1>9, ZenonT(40)

\* A range that was taken leaves the bitmap as a whole: the count shrinks by it,
\* and the branch of frame_free that clamps the count at zero is never taken.
LEMMA Shrinks ==
    ASSUME Inv, NEW index \in Frame, NEW count \in 1 .. Total, MarkOk(index, count, FALSE)
    PROVE  /\ Marked(index, count, FALSE) \subseteq Frame
           /\ Cardinality(Marked(index, count, FALSE)) = used_frames - count
           /\ used_frames >= count /\ used_frames - count \in 0 .. Total
<1>1. range_valid(index, count) /\ Wrong(index, count, FALSE) = {}
  BY ZenonT(40) DEF MarkOk
<1>2. /\ IsFiniteSet(Run(index, count)) /\ Cardinality(Run(index, count)) = count
      /\ IsFiniteSet(Frame)
  BY <1>1, Ranges
<1>3. Marked(index, count, FALSE) = g_frame_bitmap \ Run(index, count)
  BY <1>1, MarkIsAllOrNothing, ZenonT(40) DEF Inv
<1>4. Run(index, count) \subseteq g_frame_bitmap
  BY <1>1 DEF Wrong
<1>5. IsFiniteSet(g_frame_bitmap)
  BY <1>2, FS_Subset DEF Inv, TypeOK
<1>6. g_frame_bitmap \intersect Run(index, count) = Run(index, count)
  BY <1>4
<1>7. Cardinality(g_frame_bitmap \ Run(index, count))
        = Cardinality(g_frame_bitmap) - Cardinality(g_frame_bitmap \intersect Run(index, count))
  BY <1>5, FS_Difference, ZenonT(40)
<1>8. Cardinality(Run(index, count)) <= Cardinality(g_frame_bitmap)
  BY <1>4, <1>5, FS_Subset
<1>9. used_frames >= count /\ used_frames - count \in 0 .. Total
  <2>1. used_frames \in Int /\ used_frames <= Total /\ count \in Int /\ count >= 1 /\ Total \in Int
    BY FrameAssumption DEF Inv, TypeOK
  <2>2. used_frames >= count
    BY <1>2, <1>8, <2>1 DEF Inv, CountExact
  <2> QED BY <2>1, <2>2
<1>10. Marked(index, count, FALSE) \subseteq Frame
  BY <1>3, ZenonT(40) DEF Inv, TypeOK
<1>11. Cardinality(Marked(index, count, FALSE)) = used_frames - count
  BY <1>2, <1>3, <1>6, <1>7, ZenonT(40) DEF Inv, CountExact
<1> QED BY <1>9, <1>10, <1>11, ZenonT(40)

\* frame_init establishes the invariant and every call keeps it.
THEOREM Inductive == (Init => Inv) /\ (Inv /\ [Next]_vars => Inv')
<1>1. Init => Inv
  <2>1. Cardinality({}) = 0
    BY FS_EmptySet
  <2> QED BY <2>1, FrameAssumption DEF Init, Inv, TypeOK, CountExact, Frame
<1>2. ASSUME Inv, [Next]_vars PROVE Inv'
  <2>1. CASE UNCHANGED vars
    BY <1>2, <2>1 DEF vars, Inv, TypeOK, CountExact
  <2>2. ASSUME NEW count \in 1 .. Total, NEW align \in Aligns, frame_alloc_aligned(count, align)
        PROVE  Inv'
    <3>1. PICK index \in Frame :
            /\ MarkOk(index, count, TRUE)
            /\ g_frame_bitmap' = Marked(index, count, TRUE)
            /\ g_frame_next_cursor' = IF index + count >= Total THEN 0 ELSE index + count
            /\ used_frames' = used_frames + count
      BY <2>2, ZenonT(40) DEF frame_alloc_aligned
    <3>2. g_frame_next_cursor' \in Frame
      BY <3>1, FrameAssumption DEF Frame
    <3> QED BY <1>2, <3>1, <3>2, Grows, ZenonT(40) DEF Inv, TypeOK, CountExact
  <2>3. ASSUME NEW count \in 1 .. Total, NEW index \in Frame, frame_free(index, count)
        PROVE  Inv'
    <3>1. CASE MarkOk(index, count, FALSE)
      <4>1. used_frames' = used_frames - count /\ used_frames' \in 0 .. Total
        BY <1>2, <2>3, <3>1, Shrinks, ZenonT(40) DEF frame_free
      <4> QED BY <1>2, <2>3, <3>1, <4>1, Shrinks, ZenonT(40) DEF frame_free, Inv, TypeOK, CountExact
    <3>2. CASE ~MarkOk(index, count, FALSE)
      BY <1>2, <2>3, <3>2, MarkIsAllOrNothing, ZenonT(40) DEF frame_free, Inv, TypeOK, CountExact
    <3> QED BY <3>1, <3>2, ZenonT(40)
  <2>4. ASSUME NEW count \in 1 .. Total, NEW index \in Frame, frame_reserve(index, count)
        PROVE  Inv'
    <3>1. CASE MarkOk(index, count, TRUE)
      BY <1>2, <2>4, <3>1, Grows, ZenonT(40) DEF frame_reserve, Inv, TypeOK, CountExact
    <3>2. CASE ~MarkOk(index, count, TRUE)
      BY <1>2, <2>4, <3>2, MarkIsAllOrNothing, ZenonT(40) DEF frame_reserve, Inv, TypeOK, CountExact
    <3> QED BY <3>1, <3>2, ZenonT(40)
  <2> QED BY <1>2, <2>1, <2>2, <2>3, <2>4 DEF Next
<1> QED BY <1>1, <1>2

\* The reported number of used frames is always the number of frames marked,
\* for every pool size and every sequence of alloc, free and reserve.
THEOREM FrameCountExact == Spec => [](TypeOK /\ CountExact)
<1>1. Inv => TypeOK /\ CountExact
  BY DEF Inv
<1> QED BY <1>1, Inductive, PTL DEF Spec

\* The types of the allocator's state, for every pool size.
THEOREM FrameTypes == Spec => []TypeOK
<1>1. Inv => TypeOK
  BY DEF Inv
<1> QED BY <1>1, Inductive, PTL DEF Spec

-----------------------------------------------------------------------------
(* The search.  find_run_zero jumps over the first taken frame of a run; its *)
(* result is the least free aligned run at or after the start.  The set of   *)
(* those runs gives the recursive definition a solution, and a difference    *)
(* between the two would have a last index, where the definition excludes    *)
(* it.                                                                       *)

FreeRuns(from, count, align) ==
    {i \in Frame : /\ from <= i /\ i % align = 0 /\ range_valid(i, count)
                   /\ Run(i, count) \intersect g_frame_bitmap = {}}

FirstRun(from, count, align) ==
    IF FreeRuns(from, count, align) = {} THEN None ELSE Least(FreeRuns(from, count, align))

\* Least picks the least member of every non-empty set of frames.
LEMMA LeastIs ==
    ASSUME NEW S, S \subseteq Frame, S # {}
    PROVE  Least(S) \in S /\ \A y \in S : Least(S) <= y
<1>1. S \subseteq Nat
  BY FrameAssumption DEF Frame
<1>2. \E x \in S : \A y \in S : x <= y
  BY <1>1, LeastNat, Zenon
<1> QED BY <1>2, Zenon DEF Least

\* No run starts between an index and the first taken frame of the run at that
\* index, so that bitmap_find_run_zero may go on after that frame.
LEMMA JumpMissesNothing ==
    ASSUME TypeOK, NEW index \in 0 .. Total, NEW count \in 1 .. Total, NEW align,
           index + count <= Total,
           Run(index, count) \intersect g_frame_bitmap # {}
    PROVE  LET l == Least(Run(index, count) \intersect g_frame_bitmap)
           IN  /\ l + 1 \in 0 .. Total /\ l + 1 > index
               /\ FreeRuns(l + 1, count, align) = FreeRuns(index, count, align)
<1> DEFINE taken == Run(index, count) \intersect g_frame_bitmap
           l     == Least(taken)
<1>0. Total \in Nat \ {0} /\ index \in Nat /\ count \in Nat \ {0}
  BY FrameAssumption
<1>1. taken \subseteq Frame
  BY DEF TypeOK
<1>2. l \in taken
  BY <1>1, LeastIs
<1>3. l \in Int /\ index <= l /\ l < index + count /\ l \in g_frame_bitmap
  BY <1>0, <1>2 DEF Run
<1> HIDE DEF l
<1>4. l + 1 \in 0 .. Total /\ l + 1 > index
  BY <1>0, <1>3
<1>5. ASSUME NEW i \in Frame, index <= i, Run(i, count) \intersect g_frame_bitmap = {}
      PROVE  l + 1 <= i
  <2>1. i \in Int
    BY <1>0 DEF Frame
  <2>2. l \notin i .. i + count - 1
    BY <1>3, <1>5 DEF Run
  <2> QED BY <1>0, <1>3, <1>5, <2>1, <2>2
<1>6. FreeRuns(l + 1, count, align) = FreeRuns(index, count, align)
  <2>1. \A i \in Frame : l + 1 <= i => index <= i
    BY <1>0, <1>3 DEF Frame
  <2> QED BY <1>5, <2>1, Zenon DEF FreeRuns
<1> QED BY <1>4, <1>6 DEF l

\* One step of the search, given the results of the later ones.
Look(later, index, count, align) ==
    LET taken == Run(index, count) \intersect g_frame_bitmap
    IN  IF index + count > Total THEN None
        ELSE IF index % align # 0 THEN later[index + 1]
        ELSE IF taken = {} THEN index
        ELSE later[Least(taken) + 1]

\* The first free run satisfies the equation that defines the search.
LEMMA FirstRunLooks ==
    ASSUME TypeOK, NEW index \in 0 .. Total, NEW count \in 1 .. Total, NEW align \in Aligns,
           NEW g, \A i \in 0 .. Total : g[i] = FirstRun(i, count, align)
    PROVE  FirstRun(index, count, align) = Look(g, index, count, align)
<1> DEFINE taken == Run(index, count) \intersect g_frame_bitmap
<1>0. Total \in Nat \ {0} /\ index \in Nat /\ count \in Nat \ {0} /\ align \in Nat \ {0}
  BY FrameAssumption
<1>1. CASE index + count > Total
  <2>1. \A i \in Frame : ~(index <= i /\ range_valid(i, count))
    BY <1>0, <1>1 DEF Frame, range_valid
  <2>2. FreeRuns(index, count, align) = {}
    BY <2>1, Zenon DEF FreeRuns
  <2> QED BY <1>1, <2>2 DEF FirstRun, Look
<1>2. CASE index + count <= Total /\ index % align # 0
  <2>1. index + 1 \in 0 .. Total /\ ~(index + count > Total)
    BY <1>0, <1>2
  <2>2. \A i \in Frame : i % align = 0 => (index <= i <=> index + 1 <= i)
    <3> SUFFICES ASSUME NEW i \in Frame, i % align = 0
                 PROVE  index <= i <=> index + 1 <= i
      OBVIOUS
    <3>1. i # index /\ i \in Int
      BY <1>0, <1>2 DEF Frame
    <3> QED BY <1>0, <3>1
  <2>3. FreeRuns(index + 1, count, align) = FreeRuns(index, count, align)
    BY <2>2, Zenon DEF FreeRuns
  <2>4. Look(g, index, count, align) = g[index + 1]
    BY <1>2, <2>1 DEF Look
  <2> QED BY <2>1, <2>3, <2>4 DEF FirstRun
<1>3. CASE index + count <= Total /\ index % align = 0 /\ taken = {}
  <2>1. ~(index + count > Total) /\ index \in Frame /\ range_valid(index, count) /\ index <= index
    BY <1>0, <1>3 DEF Frame, range_valid
  <2>2. index \in FreeRuns(index, count, align)
    BY <1>3, <2>1 DEF FreeRuns
  <2>3. FreeRuns(index, count, align) \subseteq Frame
    BY DEF FreeRuns
  <2>4. /\ Least(FreeRuns(index, count, align)) \in FreeRuns(index, count, align)
        /\ Least(FreeRuns(index, count, align)) <= index
    BY <2>2, <2>3, LeastIs
  <2>5. index <= Least(FreeRuns(index, count, align)) /\ Least(FreeRuns(index, count, align)) \in Int
    BY <2>4, FrameAssumption DEF FreeRuns, Frame
  <2>6. Least(FreeRuns(index, count, align)) = index
    BY <1>0, <2>4, <2>5
  <2>7. Look(g, index, count, align) = index
    BY <1>3, <2>1 DEF Look
  <2> QED BY <2>2, <2>6, <2>7 DEF FirstRun
<1>4. CASE index + count <= Total /\ index % align = 0 /\ taken # {}
  <2> DEFINE l == Least(taken)
  <2>1. l + 1 \in 0 .. Total /\ FreeRuns(l + 1, count, align) = FreeRuns(index, count, align)
    BY <1>4, JumpMissesNothing
  <2>2. ~(index + count > Total)
    BY <1>0, <1>4
  <2>3. Look(g, index, count, align) = g[l + 1]
    BY <1>4, <2>2 DEF Look
  <2> HIDE DEF l
  <2> QED BY <2>1, <2>3 DEF FirstRun
<1>5. index + count > Total \/ index + count <= Total
  BY <1>0
<1> QED BY <1>1, <1>2, <1>3, <1>4, <1>5

\* bitmap_find_run_zero returns the first aligned free run at or after its start,
\* and None exactly when there is none.
LEMMA SearchFindsFirst ==
    ASSUME TypeOK, NEW start \in 0 .. Total, NEW count \in 1 .. Total, NEW align \in Aligns
    PROVE  find_run_zero(start, count, align) = FirstRun(start, count, align)
<1> DEFINE g == [i \in 0 .. Total |-> FirstRun(i, count, align)]
           f == CHOOSE find : find = [index \in 0 .. Total |-> Look(find, index, count, align)]
<1>0. Total \in Nat \ {0} /\ count \in Nat \ {0} /\ align \in Nat \ {0}
  BY FrameAssumption
<1>1. g = [index \in 0 .. Total |-> Look(g, index, count, align)]
  <2>1. \A i \in 0 .. Total : g[i] = FirstRun(i, count, align)
    OBVIOUS
  <2> HIDE DEF g
  <2>2. \A i \in 0 .. Total : FirstRun(i, count, align) = Look(g, i, count, align)
    BY <2>1, FirstRunLooks
  <2>3. [i \in 0 .. Total |-> FirstRun(i, count, align)] = [index \in 0 .. Total |-> Look(g, index, count, align)]
    BY <2>2, Zenon
  <2> QED BY <2>3, Zenon DEF g
<1>2. f = [index \in 0 .. Total |-> Look(f, index, count, align)]
  <2>1. \E find : find = [index \in 0 .. Total |-> Look(find, index, count, align)]
    BY <1>1, Zenon
  <2> QED BY <2>1, Zenon
<1>3. find_run_zero(start, count, align) = f[start]
  BY DEF find_run_zero, Look
<1> HIDE DEF f
<1>4. \A i \in 0 .. Total : f[i] = Look(f, i, count, align)
  BY <1>2, Zenon
<1>5. ASSUME NEW n \in 0 .. Total, f[Total - n] # FirstRun(Total - n, count, align) PROVE FALSE
  <2> DEFINE B == {k \in 0 .. Total : f[Total - k] # FirstRun(Total - k, count, align)}
  <2>1. B \subseteq Nat /\ B # {}
    <3>1. n \in B
      BY <1>5, Zenon
    <3>2. 0 .. Total \subseteq Nat
      BY <1>0
    <3> QED BY <3>1, <3>2, Zenon
  <2>2. PICK m \in B : \A k \in B : m <= k
    BY <2>1, LeastNat, Zenon
  <2> DEFINE index == Total - m
  <2>3. index \in 0 .. Total /\ f[index] # FirstRun(index, count, align)
    BY <1>0, <2>2
  <2>4. ASSUME NEW j \in 0 .. Total, j > index PROVE f[j] = FirstRun(j, count, align)
    <3>1. Total - j \in 0 .. Total /\ Total - (Total - j) = j /\ ~(m <= Total - j)
      BY <1>0, <2>2, <2>3, <2>4
    <3>2. Total - j \notin B
      BY <2>2, <3>1
    <3> QED BY <3>1, <3>2
  <2> HIDE DEF B, index
  <2>5. f[index] = Look(f, index, count, align)
    BY <1>4, <2>3
  <2>6. \A i \in 0 .. Total : g[i] = FirstRun(i, count, align)
    OBVIOUS
  <2> HIDE DEF g
  <2>7. FirstRun(index, count, align) = Look(g, index, count, align)
    BY <2>3, <2>6, FirstRunLooks
  <2>8. Look(f, index, count, align) = Look(g, index, count, align)
    <3>1. CASE index + count > Total
      BY <3>1 DEF Look
    <3>2. CASE ~(index + count > Total)
      <4>1. index + 1 \in 0 .. Total /\ index + 1 > index /\ index + count <= Total
        BY <1>0, <2>3, <3>2
      <4>2. f[index + 1] = g[index + 1]
        BY <2>4, <2>6, <4>1
      <4>3. ASSUME Run(index, count) \intersect g_frame_bitmap # {}
            PROVE  f[Least(Run(index, count) \intersect g_frame_bitmap) + 1]
                     = g[Least(Run(index, count) \intersect g_frame_bitmap) + 1]
        <5> DEFINE l == Least(Run(index, count) \intersect g_frame_bitmap)
        <5>1. l + 1 \in 0 .. Total /\ l + 1 > index
          BY <2>3, <4>1, <4>3, JumpMissesNothing
        <5> HIDE DEF l
        <5>2. f[l + 1] = g[l + 1]
          BY <2>4, <2>6, <5>1
        <5> QED BY <5>2 DEF l
      <4> QED BY <4>2, <4>3, Zenon DEF Look
    <3> QED BY <3>1, <3>2
  <2> QED BY <2>3, <2>5, <2>7, <2>8
<1>6. Total - start \in 0 .. Total /\ Total - (Total - start) = start
  BY <1>0
<1>7. f[start] = FirstRun(start, count, align)
  BY <1>5, <1>6
<1> QED BY <1>3, <1>7

\* Next fit loses nothing by starting at the cursor.
LEMMA NextFitComplete == TypeOK => SearchIsComplete
<1> SUFFICES ASSUME TypeOK, NEW count \in 1 .. Total, NEW align \in Aligns
             PROVE  LET runs == {i \in Frame : /\ i % align = 0 /\ range_valid(i, count)
                                               /\ Run(i, count) \intersect g_frame_bitmap = {}}
                    IN  IF runs = {} THEN NextFit(count, align) = None
                                     ELSE NextFit(count, align) \in runs
  BY DEF SearchIsComplete
<1> DEFINE runs == {i \in Frame : /\ i % align = 0 /\ range_valid(i, count)
                                  /\ Run(i, count) \intersect g_frame_bitmap = {}}
           c    == g_frame_next_cursor
<1>1. c \in 0 .. Total /\ 0 \in 0 .. Total
  BY FrameAssumption DEF TypeOK, Frame
<1>2. /\ find_run_zero(c, count, align) = FirstRun(c, count, align)
      /\ find_run_zero(0, count, align) = FirstRun(0, count, align)
  BY <1>1, SearchFindsFirst
<1>3. FreeRuns(c, count, align) \subseteq runs
  BY DEF FreeRuns
<1>4. FreeRuns(0, count, align) = runs
  <2>1. \A i \in Frame : 0 <= i
    BY FrameAssumption DEF Frame
  <2> QED BY <2>1, Zenon DEF FreeRuns
<1>5. \A i \in Frame : i # None
  BY FrameAssumption DEF Frame, None
<1>6. \A from \in {c, 0} :
        \/ FreeRuns(from, count, align) = {} /\ FirstRun(from, count, align) = None
        \/ /\ FreeRuns(from, count, align) # {} /\ FirstRun(from, count, align) \in FreeRuns(from, count, align)
           /\ FirstRun(from, count, align) # None
  <2> SUFFICES ASSUME NEW from, FreeRuns(from, count, align) # {}
               PROVE  /\ FirstRun(from, count, align) \in FreeRuns(from, count, align)
                      /\ FirstRun(from, count, align) # None
    BY Zenon DEF FirstRun
  <2>1. FreeRuns(from, count, align) \subseteq Frame
    BY DEF FreeRuns
  <2>2. FirstRun(from, count, align) \in FreeRuns(from, count, align)
    BY <2>1, LeastIs, Zenon DEF FirstRun
  <2> QED BY <1>5, <2>1, <2>2, Zenon
<1>7. NextFit(count, align) = IF FirstRun(c, count, align) = None THEN FirstRun(0, count, align)
                                                               ELSE FirstRun(c, count, align)
  BY <1>2 DEF NextFit
<1> HIDE DEF runs, c
<1> QED BY <1>3, <1>4, <1>6, <1>7 DEF runs

\* "no free run" is only said when there is none, and what next fit finds is a free
\* aligned run, for every pool size, request and history.
THEOREM SearchComplete == Spec => []SearchIsComplete
<1> QED BY FrameTypes, NextFitComplete, PTL
=============================================================================
