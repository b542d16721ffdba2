---------------------------- MODULE FsCacheProofs ----------------------------
(***************************************************************************)
(* The block cache keeps its promises for every number of slots, paths,    *)
(* blocks, values and writers.                                             *)
(***************************************************************************)
EXTENDS FsCache, FiniteSetTheorems, WellFoundedInduction, TLAPS

\* The scans of the cache go upwards: the first slot that satisfies a test exists as soon as
\* any does.
LEMMA LeastNat ==
    ASSUME NEW T, T \subseteq Nat, T # {}
    PROVE  \E x \in T : \A y \in T : x <= y
<1>1. PICK x \in T : \A y \in T : ~(<<y, x>> \in OpToRel(<, Nat))
  BY NatLessThanWellFounded, WFMin, Zenon
<1>2. \A a, b \in Nat : <<a, b>> \in OpToRel(<, Nat) <=> a < b
  BY DEF OpToRel
<1>3. \A y \in T : ~(y < x)
  BY <1>1, <1>2, Zenon
<1> QED BY <1>3

Cached == [valid : {TRUE}, dirty : BOOLEAN, flusher : FlusherOrNull, key : Key, data : Value \X Value]
Dirty  == DirtyIn(slots, Slot)

\* The conjuncts of TypeOK on the order of use, and the ones on the rest.
Order ==
    /\ older \in [Slot -> SUBSET Valid]
    /\ \A i, j \in Valid : i \in older[j] <=> i # j /\ j \notin older[i]
    /\ \A i, j \in Valid : i \in older[j] => older[i] \subseteq older[j]
    /\ \A i \in Slot \ Valid : older[i] = {}
Types ==
    /\ slots \in [Slot -> {Empty} \union Cached]
    /\ Valid \subseteq Active
    /\ enabled \in BOOLEAN
    /\ configured \in MinSlots .. PoolSlots
    /\ g_flusher \in FlusherOrNull
    /\ dev \in [Key -> DevBlock]
    /\ expected \in [Key -> DevBlock]

\* The backend and the cache together hold what the callers wrote: no block is
\* cached twice, a dirty slot holds the latest data and retains its writer, a
\* clean one the contents of the backend, and a block that is not dirty in the
\* cache is up to date on the backend.  Nothing is cached while the cache is off.
Whole(f, data) == <<<<data[1], f>>, <<data[2], f>>>>
Data ==
    /\ \A i, j \in Valid : slots[i].key = slots[j].key => i = j
    /\ \A i \in Dirty : /\ slots[i].flusher # NoFlusher
                        /\ expected[slots[i].key] = Whole(slots[i].flusher, slots[i].data)
    /\ \A i \in Valid : slots[i].data = Contents(expected[slots[i].key])
    /\ \A k \in Key : dev[k] = expected[k] \/ \E i \in Dirty : slots[i].key = k
    /\ enabled \/ Valid = {}

IInv == Types /\ Order /\ Data /\ DirtyCountExact

-----------------------------------------------------------------------------
(* The order of use *)

\* Making a slot the most recently used one leaves the ages in order.
LEMMA TouchOrder ==
    ASSUME Order, NEW i \in Slot, Valid' = Valid \union {i}, older' = Touch(i)
    PROVE  Order'
<1> USE DEF Order
<1>1. Valid \subseteq Slot
  BY DEF Valid
<1>2. older' = [j \in Slot |-> IF j = i THEN Valid \ {i} ELSE older[j] \ {i}]
  BY DEF Touch
<1>3. older' \in [Slot -> SUBSET Valid']
  BY <1>1, <1>2
<1>4. \A a, b \in Valid' : a \in older'[b] <=> a # b /\ b \notin older'[a]
  BY <1>1, <1>2
<1>5. \A a, b \in Valid' : a \in older'[b] => older'[a] \subseteq older'[b]
  BY <1>1, <1>2
<1>6. \A a \in Slot \ Valid' : older'[a] = {}
  BY <1>1, <1>2
<1>7. Slot' = Slot
  BY DEF Slot
<1> QED
  BY <1>3, <1>4, <1>5, <1>6, <1>7

\* So does dropping any of the slots.
LEMMA ForgetOrder ==
    ASSUME Order, NEW S \in SUBSET Slot, Valid' = Valid \ S, older' = Forget(S)
    PROVE  Order'
<1> USE DEF Order
<1>1. Valid \subseteq Slot
  BY DEF Valid
<1>2. older' = [j \in Slot |-> IF j \in S THEN {} ELSE older[j] \ S]
  BY DEF Forget
<1>3. older' \in [Slot -> SUBSET Valid']
  BY <1>1, <1>2
<1>4. \A a, b \in Valid' : a \in older'[b] <=> a # b /\ b \notin older'[a]
  BY <1>1, <1>2
<1>5. \A a, b \in Valid' : a \in older'[b] => older'[a] \subseteq older'[b]
  BY <1>1, <1>2
<1>6. \A a \in Slot \ Valid' : older'[a] = {}
  BY <1>1, <1>2
<1>7. Slot' = Slot
  BY DEF Slot
<1> QED
  BY <1>3, <1>4, <1>5, <1>6, <1>7

-----------------------------------------------------------------------------
(* Slots *)

\* The slots are finitely many; a dirty slot is valid, an invalid one is empty.
LEMMA SlotFacts ==
    ASSUME Types
    PROVE  /\ Slot \subseteq Nat /\ IsFiniteSet(Slot) /\ Active \subseteq Slot /\ Active # {}
           /\ Valid \subseteq Slot
           /\ IsFiniteSet(Dirty) /\ Dirty \subseteq Valid /\ Dirty = {i \in Slot : slots[i].dirty}
           /\ \A i \in Slot : slots[i] = Empty \/ slots[i] \in Cached
           /\ \A i \in Valid : slots[i] \in Cached
           /\ \A i \in Slot \ Valid : slots[i] = Empty
<1>1. Slot \subseteq Nat /\ Active \subseteq Slot /\ 1 \in Active
  BY CacheAssumption DEF Slot, Active, Types
<1>2. IsFiniteSet(Slot)
  BY CacheAssumption, FS_Interval DEF Slot
<1>3. \A i \in Slot : slots[i] = Empty \/ slots[i] \in Cached
  BY DEF Types
<1>4. Valid \subseteq Slot /\ Dirty \subseteq Valid
  BY DEF Valid, Dirty, DirtyIn
<1>a. ~Empty.valid /\ ~Empty.dirty
  BY DEF Empty
<1>b. \A c \in Cached : c.valid
  BY Zenon DEF Cached
<1>5. \A i \in Slot : slots[i].valid <=> slots[i] \in Cached
  BY <1>3, <1>a, <1>b, Zenon
<1>6. \A i \in Slot : slots[i].dirty => slots[i].valid
  BY <1>3, <1>a, <1>b, Zenon
<1>7. IsFiniteSet(Dirty)
  BY <1>2, <1>4, FS_Subset
<1>8. Dirty = {i \in Slot : slots[i].dirty}
  BY <1>6 DEF Dirty, DirtyIn
<1> QED
  BY <1>1, <1>2, <1>3, <1>4, <1>5, <1>7, <1>8 DEF Valid

\* fs_cache_find returns the one slot that holds the block.
LEMMA FindFacts ==
    ASSUME Types, Data, NEW k \in Key
    PROVE  /\ Holds(k) = {i \in Valid : slots[i].key = k}
           /\ Holds(k) # {} => Find(k) \in Holds(k) /\ Holds(k) = {Find(k)}
<1>1. Holds(k) = {i \in Valid : slots[i].key = k}
  BY SlotFacts DEF Holds, Valid, Types
<1>2. \A i, j \in Holds(k) : i = j /\ i <= j
  BY <1>1, SlotFacts DEF Data
<1>3. ASSUME Holds(k) # {}
      PROVE  \E i \in Holds(k) : \A j \in Holds(k) : i <= j
  BY <1>2, <1>3
<1>4. Holds(k) # {} => Find(k) \in Holds(k)
  BY <1>3 DEF Find
<1> QED
  BY <1>1, <1>2, <1>4

\* fs_cache_choose_slot always finds a slot: the first invalid one, or else the one
\* with the lowest age.
LEMMA CandidateFacts ==
    ASSUME Types, Order
    PROVE  Candidate \in Active /\ Candidate \in Slot
<1> USE SlotFacts
<1>1. CASE \E i \in Active : ~slots[i].valid
  <2> DEFINE T == {i \in Active : ~slots[i].valid}
  <2>1. T \subseteq Nat /\ T # {}
    BY <1>1
  <2>2. \E i \in T : \A j \in T : i <= j
    BY <2>1, LeastNat, Zenon
  <2>3. \E i \in Active : ~slots[i].valid /\ \A j \in Active : ~slots[j].valid => i <= j
    BY <2>2
  <2> QED
    <3> DEFINE first(i) == ~slots[i].valid /\ \A j \in Active : ~slots[j].valid => i <= j
    <3>1. Candidate = CHOOSE i \in Active : first(i)
      BY <1>1 DEF Candidate
    <3>2. \E i \in Active : first(i)
      BY <2>3
    <3> HIDE DEF first
    <3> QED
      BY <3>1, <3>2
<1>2. CASE \A i \in Active : slots[i].valid
  <2> DEFINE size(i) == Cardinality(older[i])
             T       == {size(i) : i \in Active}
  <2>1. Active \subseteq Valid
    BY <1>2 DEF Valid
  <2>2. \A i \in Active : older[i] \subseteq Active /\ IsFiniteSet(older[i]) /\ size(i) \in Nat
    <3> TAKE i \in Active
    <3>1. older[i] \subseteq Valid
      BY DEF Order
    <3>2. IsFiniteSet(older[i])
      BY <3>1, FS_Subset
    <3> QED
      BY <3>1, <3>2, FS_CardinalityType DEF Types
  <2>3. T \subseteq Nat /\ T # {}
    BY <2>2
  <2> HIDE DEF T
  <2>x. \E x \in T : \A y \in T : x <= y
    BY <2>3, LeastNat, Zenon
  <2>4. PICK i \in Active : \A j \in Active : size(i) <= size(j)
    BY <2>x DEF T
  <2>5. older[i] = {}
    <3> SUFFICES ASSUME NEW j \in older[i]
                 PROVE  FALSE
      OBVIOUS
    <3>1. i \in Valid /\ j \in Valid /\ j \in Active
      BY <2>1, <2>2
    <3>2. older[j] \subseteq older[i] /\ j \notin older[j]
      BY <3>1 DEF Order
    <3>3. size(j) < size(i)
      BY <2>2, <3>2, FS_Subset, SMTT(40)
    <3> QED
      BY <2>2, <2>4, <3>1, <3>3
  <2>6. Candidate = CHOOSE x \in Active : older[x] = {}
    BY <1>2 DEF Candidate
  <2> QED
    BY <2>5, <2>6
<1> QED
  BY <1>1, <1>2

-----------------------------------------------------------------------------
(* Write-back *)

\* A block as a writer leaves it, read back.
LEMMA WholeFacts ==
    ASSUME NEW f \in FlusherOrNull, NEW data \in Value \X Value
    PROVE  Whole(f, data) \in DevBlock /\ Contents(Whole(f, data)) = data
BY DEF DevBlock, Whole, Contents

\* The backend after one call of a writer, with any of its outcomes.
LEMMA WrittenFacts ==
    ASSUME NEW old \in DevBlock, NEW f \in FlusherOrNull, NEW data \in Value \X Value,
           NEW oc \in Outcome
    PROVE  /\ Written(old, f, data, oc) \in DevBlock
           /\ oc = "ok" => Written(old, f, data, oc) = Whole(f, data)
BY DEF Written, DevBlock, Whole, Outcome

\* fs_cache_flush_slot on a dirty slot calls the writer that filled it.  It changes the
\* slot's block alone, and when it returns true the backend holds what was written.
LEMMA WriteBack ==
    ASSUME Types, Data, NEW i \in Dirty, NEW oc \in Outcome
    PROVE  /\ FlushDone(slots[i], oc) <=> oc = "ok"
           /\ DevAfterFlush(dev, slots[i], oc) \in [Key -> DevBlock]
           /\ \A k \in Key : k # slots[i].key => DevAfterFlush(dev, slots[i], oc)[k] = dev[k]
           /\ oc = "ok" => DevAfterFlush(dev, slots[i], oc)[slots[i].key] = expected[slots[i].key]
<1> DEFINE key == slots[i].key
           f   == slots[i].flusher
           new == Written(dev[key], f, slots[i].data, oc)
<1>1. slots[i] \in Cached
  BY SlotFacts
<1>2. key \in Key /\ f \in FlusherOrNull /\ slots[i].data \in Value \X Value
  BY <1>1, Zenon DEF Cached
<1>3. f # NoFlusher /\ expected[key] = Whole(f, slots[i].data)
  BY DEF Data
<1>4. SlotFlusher(slots[i]) = f
  BY <1>3 DEF SlotFlusher
<1>5. dev \in [Key -> DevBlock]
  BY DEF Types
<1>6. new \in DevBlock /\ (oc = "ok" => new = expected[key])
  BY <1>2, <1>3, <1>5, WrittenFacts
<1>7. DevAfterFlush(dev, slots[i], oc) = [dev EXCEPT ![key] = new]
  BY <1>2, <1>3, <1>4, <1>5 DEF DevAfterFlush
<1>8. FlushDone(slots[i], oc) <=> oc = "ok"
  BY <1>3, <1>4 DEF FlushDone
<1> HIDE DEF key, new
<1>9. /\ [dev EXCEPT ![key] = new] \in [Key -> DevBlock]
      /\ \A k \in Key : k # key => [dev EXCEPT ![key] = new][k] = dev[k]
      /\ oc = "ok" => [dev EXCEPT ![key] = new][key] = expected[key]
  BY <1>2, <1>5, <1>6 DEF key
<1> QED
  BY <1>7, <1>8, <1>9 DEF key

\* fs_cache_choose_slot: when it succeeds no unwritten data is left in the slot it
\* returns, and the blocks that are not dirty elsewhere are up to date.
LEMMA ChooseFacts ==
    ASSUME IInv, NEW oc \in Outcome
    PROVE  /\ DevAfterChoose(oc) \in [Key -> DevBlock]
           /\ \A k \in Key : \/ DevAfterChoose(oc)[k] = expected[k]
                             \/ \E i \in Dirty : slots[i].key = k /\ (ChooseOk(oc) => i # Candidate)
           /\ ChooseOk(oc) => CountAfterChoose(oc) = Cardinality(Dirty \ {Candidate})
<1> DEFINE c == Candidate
           d == DevAfterChoose(oc)
<1>1. Types /\ Order /\ Data /\ dirty_count = Cardinality(Dirty)
  BY DEF IInv, DirtyCountExact, Dirty
<1>2. c \in Slot
  BY <1>1, CandidateFacts
<1>3. c \in Dirty <=> slots[c].dirty
  BY <1>1, <1>2, SlotFacts
<1>4. IsFiniteSet(Dirty) /\ Cardinality(Dirty) \in Nat
  BY <1>1, SlotFacts, FS_CardinalityType
<1>5. CASE c \in Dirty
  <2>1. /\ FlushDone(slots[c], oc) <=> oc = "ok"
        /\ DevAfterFlush(dev, slots[c], oc) \in [Key -> DevBlock]
        /\ \A k \in Key : k # slots[c].key => DevAfterFlush(dev, slots[c], oc)[k] = dev[k]
        /\ oc = "ok" => DevAfterFlush(dev, slots[c], oc)[slots[c].key] = expected[slots[c].key]
    BY <1>1, <1>5, WriteBack
  <2>2. d = DevAfterFlush(dev, slots[c], oc) /\ (ChooseOk(oc) <=> oc = "ok")
    BY <1>3, <1>5, <2>1 DEF DevAfterChoose, ChooseOk
  <2> HIDE DEF c, d
  <2>3. ASSUME NEW k \in Key, d[k] # expected[k]
        PROVE  \E i \in Dirty : slots[i].key = k /\ (ChooseOk(oc) => i # c)
    <3>1. CASE k = slots[c].key
      BY <1>5, <2>1, <2>2, <2>3, <3>1
    <3>2. CASE k # slots[c].key
      <4>1. dev[k] # expected[k]
        BY <2>1, <2>2, <2>3, <3>2
      <4>2. PICK i \in Dirty : slots[i].key = k
        BY <1>1, <4>1 DEF Data
      <4> QED
        BY <3>2, <4>2
    <3> QED
      BY <3>1, <3>2
  <2>4. ChooseOk(oc) => CountAfterChoose(oc) = LessDirty(dirty_count, 1)
    BY <1>3, <1>5 DEF CountAfterChoose, c
  <2>5. Cardinality(Dirty \ {c}) = Cardinality(Dirty) - 1 /\ Cardinality(Dirty \ {c}) \in Nat
    BY <1>4, <1>5, FS_RemoveElement, FS_CardinalityType
  <2>6. LessDirty(dirty_count, 1) = Cardinality(Dirty \ {c})
    BY <1>1, <1>4, <2>5 DEF LessDirty
  <2> QED
    BY <2>1, <2>2, <2>3, <2>4, <2>6 DEF c, d
<1>6. CASE c \notin Dirty
  <2>1. d = dev /\ CountAfterChoose(oc) = dirty_count
    BY <1>3, <1>6 DEF DevAfterChoose, CountAfterChoose
  <2>2. Dirty \ {c} = Dirty
    BY <1>6
  <2>3. \A k \in Key : dev[k] = expected[k] \/ \E i \in Dirty : slots[i].key = k /\ i # c
    BY <1>1, <1>6 DEF Data
  <2> QED
    BY <1>1, <2>1, <2>2, <2>3, Zenon DEF Types
<1> QED
  BY <1>5, <1>6

Flushed(S, oc) == {i \in DirtyIn(slots, S) : FlushDone(slots[i], oc[i])}

\* fs_cache_flush over any of the slots, each write-back with its own outcome: what is
\* not up to date afterwards is still dirty in the cache, and counted.
LEMMA FlushFacts ==
    ASSUME IInv, NEW S \in SUBSET Slot, NEW oc \in Outcomes
    PROVE  /\ Flushed(S, oc) \subseteq Dirty
           /\ FlushSlots(slots, S, oc) =
                [i \in Slot |-> IF i \in Flushed(S, oc) THEN [slots[i] EXCEPT !.dirty = FALSE] ELSE slots[i]]
           /\ FlushDev(dev, slots, S, oc) \in [Key -> DevBlock]
           /\ \A k \in Key : \/ FlushDev(dev, slots, S, oc)[k] = expected[k]
                             \/ \E i \in Dirty \ Flushed(S, oc) : slots[i].key = k
           /\ FlushCount(dirty_count, slots, S, oc) = Cardinality(Dirty \ Flushed(S, oc))
<1> DEFINE D == DirtyIn(slots, S)
           F == Flushed(S, oc)
<1>1. Types /\ Order /\ Data /\ dirty_count = Cardinality(Dirty)
  BY DEF IInv, DirtyCountExact, Dirty
<1>2. D \subseteq Dirty /\ D \subseteq Slot /\ F \subseteq D
  BY DEF DirtyIn, Dirty, Flushed
<1>3. \A i \in Dirty : oc[i] \in Outcome
  BY DEF Outcomes, Dirty
<1>4. FlushSlots(slots, S, oc) =
        [i \in Slot |-> IF i \in F THEN [slots[i] EXCEPT !.dirty = FALSE] ELSE slots[i]]
  BY DEF FlushSlots, Flushed
<1>5. \A i, j \in Dirty : slots[i].key = slots[j].key => i = j
  BY <1>1, SlotFacts DEF Data
<1>6. ASSUME NEW i \in D
      PROVE  FlushDev(dev, slots, S, oc)[slots[i].key] = DevAfterFlush(dev, slots[i], oc[i])[slots[i].key]
  <2> DEFINE k == slots[i].key
             j == CHOOSE x \in D : slots[x].key = k
  <2>1. k \in Key
    BY <1>1, <1>2, SlotFacts, Zenon DEF Cached
  <2>2. FlushDev(dev, slots, S, oc)[k] = DevAfterFlush(dev, slots[j], oc[j])[k]
    BY <2>1, Zenon DEF FlushDev
  <2>3. j \in D /\ slots[j].key = k
    OBVIOUS
  <2>4. j = i
    BY <1>2, <1>5, <2>3
  <2> HIDE DEF j
  <2> QED
    BY <2>2, <2>4
<1>7. ASSUME NEW k \in Key, \A i \in D : slots[i].key # k
      PROVE  FlushDev(dev, slots, S, oc)[k] = dev[k]
  BY <1>7 DEF FlushDev
<1>8. ASSUME NEW k \in Key
      PROVE  /\ FlushDev(dev, slots, S, oc)[k] \in DevBlock
             /\ FlushDev(dev, slots, S, oc)[k] = expected[k] \/ \E i \in Dirty \ F : slots[i].key = k
  <2>1. CASE \A i \in D : slots[i].key # k
    <3>1. FlushDev(dev, slots, S, oc)[k] = dev[k] /\ dev[k] \in DevBlock
      BY <1>1, <1>7, <2>1 DEF Types
    <3>2. dev[k] = expected[k] \/ \E i \in Dirty : slots[i].key = k
      BY <1>1 DEF Data
    <3> QED
      BY <1>2, <2>1, <3>1, <3>2
  <2>2. ASSUME NEW i \in D, slots[i].key = k
        PROVE  <1>8!2
    <3>1. i \in Dirty /\ oc[i] \in Outcome
      BY <1>2, <1>3
    <3>2. /\ FlushDone(slots[i], oc[i]) <=> oc[i] = "ok"
          /\ DevAfterFlush(dev, slots[i], oc[i]) \in [Key -> DevBlock]
          /\ oc[i] = "ok" => DevAfterFlush(dev, slots[i], oc[i])[k] = expected[k]
      BY <1>1, <2>2, <3>1, WriteBack
    <3>3. FlushDev(dev, slots, S, oc)[k] = DevAfterFlush(dev, slots[i], oc[i])[k]
      BY <1>6, <2>2
    <3>4. i \notin F => oc[i] # "ok"
      BY <3>2 DEF Flushed
    <3>5. i \in F => oc[i] = "ok"
      BY <3>2 DEF Flushed
    <3> QED
      BY <2>2, <3>1, <3>2, <3>3, <3>5
  <2> QED
    BY <2>1, <2>2
<1>9. FlushDev(dev, slots, S, oc) \in [Key -> DevBlock]
  <2>1. FlushDev(dev, slots, S, oc) = [k \in Key |-> FlushDev(dev, slots, S, oc)[k]]
    BY DEF FlushDev
  <2> QED
    BY <1>8, <2>1
<1>10. FlushCount(dirty_count, slots, S, oc) = Cardinality(Dirty \ F)
  <2>1. IsFiniteSet(Dirty) /\ Dirty \intersect F = F
    BY <1>1, <1>2, SlotFacts
  <2>2. Cardinality(Dirty \ F) = Cardinality(Dirty) - Cardinality(F)
    BY <2>1, FS_Difference, SMTT(40)
  <2>3. Cardinality(Dirty) \in Nat /\ Cardinality(F) \in Nat /\ Cardinality(F) <= Cardinality(Dirty)
    BY <1>2, <2>1, FS_Subset, FS_CardinalityType
  <2>4. FlushCount(dirty_count, slots, S, oc) = LessDirty(dirty_count, Cardinality(F))
    BY DEF FlushCount, Flushed
  <2> QED
    BY <1>1, <2>2, <2>3, <2>4 DEF LessDirty
<1> QED
  BY <1>2, <1>4, <1>8, <1>9, <1>10

-----------------------------------------------------------------------------
(* The steps *)

\* Any change of the slots that leaves what a slot may hold.
LEMMA NewSlots ==
    ASSUME Types, slots' \in [Slot -> {Empty} \union Cached]
    PROVE  /\ Valid' = {i \in Slot : slots'[i] \in Cached}
           /\ Dirty' = {i \in Slot : slots'[i].dirty}
           /\ \A i \in Slot : slots'[i] = Empty => ~slots'[i].dirty /\ slots'[i] \notin Cached
<1>1. ~Empty.valid /\ ~Empty.dirty
  BY DEF Empty
<1>2. \A x \in Cached : x.valid
  BY Zenon DEF Cached
<1>3. \A i \in Slot : slots'[i] = Empty \/ slots'[i] \in Cached
  OBVIOUS
<1>4. Valid' = {i \in Slot : slots'[i].valid} /\ Dirty' = {i \in Slot : slots'[i].valid /\ slots'[i].dirty}
  BY DEF Valid, Dirty, DirtyIn, Slot
<1>5. \A i \in Slot : slots'[i].valid <=> slots'[i] \in Cached
  BY <1>1, <1>2, <1>3, Zenon
<1>6. \A i \in Slot : slots'[i].valid /\ slots'[i].dirty <=> slots'[i].dirty
  BY <1>1, <1>2, <1>3, Zenon
<1>7. \A i \in Slot : slots'[i] = Empty => ~slots'[i].dirty /\ slots'[i] \notin Cached
  BY <1>1, <1>2, Zenon
<1> QED
  BY <1>4, <1>5, <1>6, <1>7

\* The contents of slot c change, or are dropped, in a way that suits the backend and
\* what the callers wrote.
Replaced(c) ==
    /\ slots' \in [Slot -> {Empty} \union Cached]
    /\ \A i \in Slot \ {c} : slots'[i] = slots[i]
    /\ older' = IF c \in Valid' THEN Touch(c) ELSE Forget({c})
    /\ UNCHANGED <<enabled, configured, g_flusher>>
    /\ enabled \/ c \notin Valid'
    /\ dev' \in [Key -> DevBlock] /\ expected' \in [Key -> DevBlock]
    /\ dirty_count' = Cardinality(Dirty')
    /\ c \in Valid' => /\ \A i \in Valid \ {c} : slots[i].key # slots'[c].key
                       /\ slots'[c].data = Contents(expected'[slots'[c].key])
    /\ c \in Dirty' => /\ slots'[c].flusher # NoFlusher
                       /\ expected'[slots'[c].key] = Whole(slots'[c].flusher, slots'[c].data)
    /\ \A i \in Valid \ {c} : expected'[slots[i].key] = expected[slots[i].key]
    /\ \A k \in Key : \/ dev'[k] = expected'[k]
                      \/ \E i \in Dirty \ {c} : slots[i].key = k
                      \/ c \in Dirty' /\ slots'[c].key = k

\* Such a change keeps the invariant.
LEMMA Replace ==
    ASSUME IInv, NEW c \in Active, Replaced(c)
    PROVE  IInv'
<1> USE DEF Replaced
<1>1. Types /\ Order /\ Data
  BY DEF IInv
<1>2. Active' = Active /\ Slot' = Slot /\ Cached' = Cached /\ Empty' = Empty /\ c \in Slot
  BY <1>1, SlotFacts DEF Active, Slot, Cached, Empty, Key, FlusherOrNull
<1>3. Valid' = {i \in Slot : slots'[i].valid} /\ Dirty' \subseteq Valid'
  BY DEF Valid, Slot, Dirty, DirtyIn
<1>4. /\ Valid = {i \in Slot : slots[i].valid} /\ Dirty \subseteq Valid
      /\ Dirty = {i \in Slot : slots[i].valid /\ slots[i].dirty}
      /\ Dirty' = {i \in Slot : slots'[i].valid /\ slots'[i].dirty}
  BY DEF Valid, Dirty, DirtyIn, Slot
<1>5. Valid' \ {c} = Valid \ {c} /\ Dirty' \ {c} = Dirty \ {c}
  BY <1>3, <1>4
<1>6. Order'
  <2>1. CASE c \notin Valid'
    <3>1. Valid' = Valid \ {c}
      BY <1>5, <2>1
    <3> QED
      BY <1>1, <1>2, <2>1, <3>1, ForgetOrder
  <2>2. CASE c \in Valid'
    <3>1. Valid' = Valid \union {c}
      BY <1>5, <2>2
    <3> QED
      BY <1>1, <1>2, <2>2, <3>1, TouchOrder
  <2> QED
    BY <2>1, <2>2
<1>7. Types'
  <2>1. Valid' \subseteq Active'
    BY <1>1, <1>2, <1>5 DEF Types
  <2>2. enabled' \in BOOLEAN /\ configured' \in MinSlots .. PoolSlots /\ g_flusher' \in FlusherOrNull
    BY <1>1 DEF Types
  <2>3. Key' = Key /\ DevBlock' = DevBlock /\ FlusherOrNull' = FlusherOrNull
    BY DEF Key, DevBlock, FlusherOrNull
  <2> QED
    BY <1>2, <2>1, <2>2, <2>3 DEF Types
<1>8. Data'
  <2>1. \A i \in Valid' \ {c} : i \in Valid /\ slots'[i] = slots[i]
    BY <1>3, <1>5
  <2>2. \A i, j \in Valid' : slots'[i].key = slots'[j].key => i = j
    BY <1>1, <1>5, <2>1 DEF Data
  <2>3. \A i \in Dirty' : /\ slots'[i].flusher # NoFlusher
                          /\ expected'[slots'[i].key] = Whole(slots'[i].flusher, slots'[i].data)
    <3> TAKE i \in Dirty'
    <3>1. ASSUME i # c
          PROVE  i \in Dirty /\ i \in Valid \ {c} /\ slots'[i] = slots[i]
      BY <1>3, <1>5, <2>1, <3>1
    <3> QED
      BY <1>1, <3>1 DEF Data
  <2>4. \A i \in Valid' : slots'[i].data = Contents(expected'[slots'[i].key])
    BY <1>1, <2>1 DEF Data
  <2>5. \A k \in Key : dev'[k] = expected'[k] \/ \E i \in Dirty' : slots'[i].key = k
    <3> TAKE k \in Key
    <3>1. ASSUME NEW i \in Dirty \ {c}, slots[i].key = k
          PROVE  i \in Dirty' /\ slots'[i].key = k
      BY <1>4, <1>5, <3>1
    <3> QED
      BY <3>1
  <2>6. enabled' \/ Valid' = {}
    BY <1>1, <1>5, SMTT(40) DEF Data
  <2>7. Key' = Key
    BY DEF Key
  <2> QED
    BY <2>2, <2>3, <2>4, <2>5, <2>6, <2>7, Zenon DEF Data, Whole, Contents
<1>9. DirtyCountExact'
  BY DEF DirtyCountExact, Dirty
<1> QED
  BY <1>6, <1>7, <1>8, <1>9 DEF IInv

\* The three things that are put into a slot: written data, loaded data, nothing.
LEMMA PutDirty ==
    ASSUME Types, NEW c \in Slot, NEW k \in Key, NEW f \in FlusherOrNull, NEW data \in Value \X Value,
           slots' = [slots EXCEPT ![c] = [valid |-> TRUE, dirty |-> TRUE, flusher |-> f,
                                          key |-> k, data |-> data]]
    PROVE  /\ slots' \in [Slot -> {Empty} \union Cached]
           /\ \A i \in Slot \ {c} : slots'[i] = slots[i]
           /\ c \in Valid' /\ Dirty' = Dirty \union {c}
           /\ slots'[c].key = k /\ slots'[c].flusher = f /\ slots'[c].data = data
<1> DEFINE new == [valid |-> TRUE, dirty |-> TRUE, flusher |-> f, key |-> k, data |-> data]
<1>0. TRUE \in {TRUE} /\ TRUE \in BOOLEAN
  BY Zenon
<1>1. new \in Cached
  BY <1>0 DEF Cached
<1>2. new.valid /\ new.dirty
  OBVIOUS
<1>3. new.key = k /\ new.flusher = f /\ new.data = data
  OBVIOUS
<1> HIDE DEF new
<1>4. slots'[c] = new /\ \A i \in Slot \ {c} : slots'[i] = slots[i]
  BY DEF Types, new
<1>5. slots' \in [Slot -> {Empty} \union Cached]
  BY <1>1 DEF Types, new
<1>6. c \in Valid'
  BY <1>2, <1>4 DEF Valid, Slot
<1>7. \A i \in Slot : i \in Dirty' <=> i = c \/ i \in Dirty
  BY <1>2, <1>4 DEF Dirty, DirtyIn, Slot
<1>8. Dirty' \subseteq Slot /\ Dirty \subseteq Slot
  BY DEF Dirty, DirtyIn, Slot
<1> QED
  BY <1>3, <1>4, <1>5, <1>6, <1>7, <1>8

\* Loaded data, as fs_cache_read_at puts it there after a miss: c is not dirty.
LEMMA PutClean ==
    ASSUME Types, NEW c \in Slot, NEW k \in Key, NEW data \in Value \X Value,
           slots' = [slots EXCEPT ![c] = [valid |-> TRUE, dirty |-> FALSE, flusher |-> NoFlusher,
                                          key |-> k, data |-> data]]
    PROVE  /\ slots' \in [Slot -> {Empty} \union Cached]
           /\ \A i \in Slot \ {c} : slots'[i] = slots[i]
           /\ c \in Valid' /\ Dirty' = Dirty \ {c}
           /\ slots'[c].key = k /\ slots'[c].data = data
<1> DEFINE new == [valid |-> TRUE, dirty |-> FALSE, flusher |-> NoFlusher, key |-> k, data |-> data]
<1>0. TRUE \in {TRUE} /\ FALSE \in BOOLEAN
  BY Zenon
<1>1. new \in Cached
  BY <1>0 DEF Cached, FlusherOrNull
<1>2. new.valid /\ ~new.dirty
  OBVIOUS
<1>3. new.key = k /\ new.data = data
  OBVIOUS
<1> HIDE DEF new
<1>4. slots'[c] = new /\ \A i \in Slot \ {c} : slots'[i] = slots[i]
  BY DEF Types, new
<1>5. slots' \in [Slot -> {Empty} \union Cached]
  BY <1>1 DEF Types, new
<1>6. c \in Valid'
  BY <1>2, <1>4 DEF Valid, Slot
<1>7. \A i \in Slot : i \in Dirty' <=> i # c /\ i \in Dirty
  BY <1>2, <1>4 DEF Dirty, DirtyIn, Slot
<1>8. Dirty' \subseteq Slot /\ Dirty \subseteq Slot
  BY DEF Dirty, DirtyIn, Slot
<1> QED
  BY <1>3, <1>4, <1>5, <1>6, <1>7, <1>8

\* Nothing, after a failed load or for a block written past the cache: c is not valid.
LEMMA PutEmpty ==
    ASSUME Types, NEW c \in Slot, slots' = [slots EXCEPT ![c] = Empty]
    PROVE  /\ slots' \in [Slot -> {Empty} \union Cached]
           /\ \A i \in Slot \ {c} : slots'[i] = slots[i]
           /\ c \notin Valid' /\ Dirty' = Dirty \ {c}
<1>1. ~Empty.valid /\ ~Empty.dirty
  BY DEF Empty
<1>2. slots'[c] = Empty /\ \A i \in Slot \ {c} : slots'[i] = slots[i]
  BY DEF Types
<1>3. slots' \in [Slot -> {Empty} \union Cached]
  BY DEF Types
<1>4. c \notin Valid'
  BY <1>1, <1>2 DEF Valid, Slot
<1>5. \A i \in Slot : i \in Dirty' <=> i # c /\ i \in Dirty
  BY <1>1, <1>2 DEF Dirty, DirtyIn, Slot
<1>6. Dirty' \subseteq Slot /\ Dirty \subseteq Slot
  BY DEF Dirty, DirtyIn, Slot
<1> QED
  BY <1>2, <1>3, <1>4, <1>5, <1>6

\* A flush of the slots of S, followed by dropping the slots of G, none of them dirty.
FlushedAndDropped(S, oc, G) ==
    /\ G \intersect (Dirty \ Flushed(S, oc)) = {}
    /\ slots' = [i \in Slot |-> IF i \in G THEN Empty ELSE FlushSlots(slots, S, oc)[i]]
    /\ older' = Forget(G)
    /\ dev' = FlushDev(dev, slots, S, oc)
    /\ dirty_count' = FlushCount(dirty_count, slots, S, oc)
    /\ UNCHANGED <<g_flusher, expected>>
    /\ enabled' \in BOOLEAN /\ (enabled' \/ Valid \subseteq G)
    /\ configured' \in MinSlots .. PoolSlots /\ Valid \ G \subseteq 1 .. configured'

\* Such a step keeps the invariant.
LEMMA FlushAndDrop ==
    ASSUME IInv, NEW S \in SUBSET Slot, NEW oc \in Outcomes, NEW G \in SUBSET Slot,
           FlushedAndDropped(S, oc, G)
    PROVE  IInv'
<1> USE DEF FlushedAndDropped
<1> DEFINE F == Flushed(S, oc)
<1>1. Types /\ Order /\ Data
  BY DEF IInv
<1>2. /\ F \subseteq Dirty
      /\ dev' \in [Key -> DevBlock]
      /\ \A k \in Key : dev'[k] = expected[k] \/ \E i \in Dirty \ F : slots[i].key = k
      /\ dirty_count' = Cardinality(Dirty \ F)
  BY FlushFacts, Zenon
<1>3. slots' = [i \in Slot |-> IF i \in G THEN Empty
                               ELSE IF i \in F THEN [slots[i] EXCEPT !.dirty = FALSE] ELSE slots[i]]
  BY FlushFacts, ZenonT(40)
<1> HIDE DEF F
<1>4. /\ Dirty \subseteq Valid /\ Valid \subseteq Slot /\ Dirty = {i \in Slot : slots[i].dirty}
      /\ \A i \in Slot : slots[i] = Empty \/ slots[i] \in Cached
      /\ \A i \in Valid : slots[i] \in Cached
      /\ \A i \in Slot \ Valid : slots[i] = Empty
  BY <1>1, SlotFacts
<1>5. \A x \in Cached : /\ [x EXCEPT !.dirty = FALSE] \in Cached
                        /\ ~[x EXCEPT !.dirty = FALSE].dirty
                        /\ [x EXCEPT !.dirty = FALSE].key = x.key
                        /\ [x EXCEPT !.dirty = FALSE].data = x.data
  <2>1. FALSE \in BOOLEAN
    BY Zenon
  <2> QED
    BY <2>1, Zenon DEF Cached
<1>6. slots' \in [Slot -> {Empty} \union Cached]
  <2>1. \A i \in Slot : slots'[i] \in {Empty} \union Cached
    BY <1>2, <1>3, <1>4, <1>5
  <2> QED
    BY <1>3, <2>1
<1>7. /\ Valid' = {i \in Slot : slots'[i] \in Cached}
      /\ Dirty' = {i \in Slot : slots'[i].dirty}
      /\ \A i \in Slot : slots'[i] = Empty => ~slots'[i].dirty /\ slots'[i] \notin Cached
  BY <1>1, <1>6, NewSlots
<1>8. Valid' = Valid \ G
  BY <1>2, <1>3, <1>4, <1>5, <1>7
<1>9. Dirty' = Dirty \ F
  <2>1. \A i \in Slot : i \in Dirty' <=> i \in Dirty \ F
    <3> TAKE i \in Slot
    <3>1. CASE i \in G
      BY <1>3, <1>7, <3>1 DEF F
    <3>2. CASE i \notin G /\ i \in F
      BY <1>2, <1>3, <1>4, <1>5, <1>7, <3>2
    <3>3. CASE i \notin G /\ i \notin F
      BY <1>3, <1>4, <1>7, <3>3
    <3> QED
      BY <3>1, <3>2, <3>3
  <2> QED
    BY <1>4, <1>7, <2>1
<1>10. \A i \in Valid' : slots'[i].key = slots[i].key /\ slots'[i].data = slots[i].data
  BY <1>3, <1>4, <1>5, <1>8, Zenon
<1>11. \A i \in Dirty' : slots'[i] = slots[i]
  BY <1>3, <1>4, <1>9, SMTT(40) DEF F
<1>12. Slot' = Slot /\ Cached' = Cached /\ Empty' = Empty /\ Key' = Key /\ DevBlock' = DevBlock /\ FlusherOrNull' = FlusherOrNull
  BY DEF Slot, Cached, Empty, Key, DevBlock, FlusherOrNull
<1>13. Order'
  BY <1>1, <1>8, ForgetOrder
<1>14. Types'
  <2>1. Valid' \subseteq Active'
    BY <1>8 DEF Active
  <2> QED
    BY <1>1, <1>2, <1>6, <1>12, <2>1 DEF Types
<1>15. Data'
  <2>1. \A i, j \in Valid' : slots'[i].key = slots'[j].key => i = j
    BY <1>1, <1>8, <1>10, SMTT(40) DEF Data
  <2>2. \A i \in Dirty' : /\ slots'[i].flusher # NoFlusher
                          /\ expected'[slots'[i].key] = Whole(slots'[i].flusher, slots'[i].data)
    BY <1>1, <1>9, <1>11, SMTT(40) DEF Data
  <2>3. \A i \in Valid' : slots'[i].data = Contents(expected'[slots'[i].key])
    BY <1>1, <1>8, <1>10 DEF Data
  <2>4. \A k \in Key : dev'[k] = expected'[k] \/ \E i \in Dirty' : slots'[i].key = k
    BY <1>2, <1>9, <1>11, ZenonT(40)
  <2>5. enabled' \/ Valid' = {}
    BY <1>8
  <2> QED
    BY <1>12, <2>1, <2>2, <2>3, <2>4, <2>5, ZenonT(40) DEF Data, Whole, Contents
<1>16. DirtyCountExact'
  BY <1>2, <1>9, Zenon DEF DirtyCountExact, Dirty
<1> QED
  BY <1>13, <1>14, <1>15, <1>16 DEF IInv

\* Steps that leave the slots alone: the ages, the settings and the backend may change.
LEMMA SameSlots ==
    ASSUME IInv, UNCHANGED <<slots, dirty_count>>, Order',
           enabled' \in BOOLEAN, enabled' \/ Valid = {},
           configured' \in MinSlots .. PoolSlots, Valid \subseteq 1 .. configured',
           g_flusher' \in FlusherOrNull,
           dev' \in [Key -> DevBlock], expected' \in [Key -> DevBlock],
           \A i \in Valid : expected'[slots[i].key] = expected[slots[i].key],
           \A k \in Key : dev'[k] = expected'[k] \/ \E i \in Dirty : slots[i].key = k
    PROVE  IInv'
<1>1. Types /\ Data /\ DirtyCountExact
  BY DEF IInv
<1>2. Valid' = Valid /\ Dirty' = Dirty
  BY DEF Valid, Dirty, DirtyIn, Slot
<1>3. Slot' = Slot /\ Cached' = Cached /\ Empty' = Empty /\ Key' = Key /\ DevBlock' = DevBlock /\ FlusherOrNull' = FlusherOrNull
  BY DEF Slot, Cached, Empty, Key, DevBlock, FlusherOrNull
<1>4. Types'
  BY <1>1, <1>2, <1>3 DEF Types, Active
<1>5. Data'
  <2>1. \A i, j \in Valid' : slots'[i].key = slots'[j].key => i = j
    BY <1>1, <1>2, SMTT(40) DEF Data
  <2>2. \A i \in Dirty' : /\ slots'[i].flusher # NoFlusher
                          /\ expected'[slots'[i].key] = Whole(slots'[i].flusher, slots'[i].data)
    BY <1>1, <1>2, SlotFacts DEF Data
  <2>3. \A i \in Valid' : slots'[i].data = Contents(expected'[slots'[i].key])
    BY <1>1, <1>2, ZenonT(40) DEF Data
  <2>4. \A k \in Key : dev'[k] = expected'[k] \/ \E i \in Dirty' : slots'[i].key = k
    BY <1>2, SMTT(40)
  <2> QED
    BY <1>2, <1>3, <2>1, <2>2, <2>3, <2>4, SMTT(40) DEF Data, Whole, Contents
<1>6. DirtyCountExact'
  BY <1>1, <1>2 DEF DirtyCountExact, Dirty
<1> QED
  BY <1>4, <1>5, <1>6 DEF IInv

\* The settings and the order of use stay what they are.
LEMMA Settings ==
    ASSUME IInv
    PROVE  /\ enabled \in BOOLEAN /\ (enabled \/ Valid = {})
           /\ configured \in MinSlots .. PoolSlots /\ Valid \subseteq 1 .. configured
           /\ g_flusher \in FlusherOrNull
           /\ dev \in [Key -> DevBlock] /\ expected \in [Key -> DevBlock]
           /\ \A k \in Key : dev[k] = expected[k] \/ \E i \in Dirty : slots[i].key = k
           /\ UNCHANGED <<slots, older>> => Order'
<1>1. UNCHANGED <<slots, older>> => Order'
  BY DEF IInv, Order, Valid, Slot
<1>2. Types /\ Data
  BY DEF IInv
<1> QED
  BY <1>1, <1>2 DEF Types, Data, Active

\* A read of a cached block changes the ages only.
LEMMA ReadHitStep ==
    ASSUME IInv, NEW k \in Key, ReadHit(k)
    PROVE  IInv'
<1>1. Types /\ Order /\ Data
  BY DEF IInv
<1>2. Find(k) \in Valid /\ Valid \subseteq Slot
  BY <1>1, FindFacts, SlotFacts DEF ReadHit
<1>3. Valid' = Valid
  BY DEF ReadHit, Valid, Slot
<1>4. Order'
  BY <1>1, <1>2, <1>3, TouchOrder, SMTT(40) DEF ReadHit
<1> QED
  BY <1>4, SameSlots, Settings DEF ReadHit

\* A slot that cannot be written back keeps its data, whatever reached the backend.
LEMMA ChooseFailsStep ==
    ASSUME IInv, NEW oc \in Outcome, ChooseFails(oc)
    PROVE  IInv'
<1>1. dev' \in [Key -> DevBlock] /\ \A k \in Key : dev'[k] = expected[k] \/ \E i \in Dirty : slots[i].key = k
  BY ChooseFacts DEF ChooseFails
<1> QED
  BY <1>1, SameSlots, Settings, SMTT(40) DEF ChooseFails

\* A read that misses loads the block into the chosen slot, or leaves that slot empty.
LEMMA ReadMissStep ==
    ASSUME IInv, NEW k \in Key, NEW oc \in Outcome, NEW loaded \in BOOLEAN, ReadMiss(k, oc, loaded)
    PROVE  IInv'
<1> DEFINE c == Candidate
           d == DevAfterChoose(oc)
           e == Contents(d[k])
<1>1. Types /\ Order /\ Data
  BY DEF IInv
<1>2. CASE ChooseFails(oc)
  BY <1>2, ChooseFailsStep
<1>3. CASE ~ChooseFails(oc)
  <2>1. /\ ChooseOk(oc) /\ enabled
        /\ loaded => /\ slots' = [slots EXCEPT ![c] = [valid |-> TRUE, dirty |-> FALSE, flusher |-> NoFlusher,
                                                        key |-> k, data |-> e]]
                     /\ older' = Touch(c)
        /\ ~loaded => slots' = [slots EXCEPT ![c] = Empty] /\ older' = Forget({c})
        /\ dev' = d /\ dirty_count' = CountAfterChoose(oc)
        /\ UNCHANGED <<enabled, configured, g_flusher, expected>>
    BY <1>3, Zenon DEF ReadMiss
  <2>2. c \in Active /\ c \in Slot
    BY <1>1, CandidateFacts
  <2>3. /\ d \in [Key -> DevBlock]
        /\ \A x \in Key : d[x] = expected[x] \/ \E i \in Dirty \ {c} : slots[i].key = x
        /\ dirty_count' = Cardinality(Dirty \ {c})
    BY <2>1, ChooseFacts, ZenonT(40)
  <2>4. \A i \in Valid : slots[i].key # k
    BY <1>1, FindFacts, SMTT(40) DEF ReadMiss
  <2>5. d[k] = expected[k]
    BY <1>1, <2>3, <2>4, SlotFacts, SMTT(40)
  <2> HIDE DEF c, d
  <2>6. e \in Value \X Value
    BY <2>3, SMTT(40) DEF DevBlock, Contents
  <2>7. /\ slots' \in [Slot -> {Empty} \union Cached]
        /\ \A i \in Slot \ {c} : slots'[i] = slots[i]
        /\ loaded => c \in Valid' /\ slots'[c].key = k /\ slots'[c].data = e
        /\ ~loaded => c \notin Valid'
        /\ Dirty' = Dirty \ {c}
    <3> HIDE DEF e
    <3>1. CASE loaded
      BY <1>1, <2>1, <2>2, <2>6, <3>1, PutClean, SMTT(40)
    <3>2. CASE ~loaded
      BY <1>1, <2>1, <2>2, <3>2, PutEmpty, SMTT(40)
    <3> QED
      BY <3>1, <3>2, SMTT(40)
  <2>8. older' = IF c \in Valid' THEN Touch(c) ELSE Forget({c})
    BY <2>1, <2>7, SMTT(40)
  <2>9. dirty_count' = Cardinality(Dirty') /\ c \notin Dirty'
    BY <2>3, <2>7, SMTT(40)
  <2>10. dev' \in [Key -> DevBlock] /\ expected' \in [Key -> DevBlock]
    BY <2>1, <2>3, Settings, SMTT(40)
  <2>11. c \in Valid' => /\ \A i \in Valid \ {c} : slots[i].key # slots'[c].key
                        /\ slots'[c].data = Contents(expected'[slots'[c].key])
    BY <2>1, <2>4, <2>5, <2>7, SMTT(40)
  <2>12. \A x \in Key : \/ dev'[x] = expected'[x]
                        \/ \E i \in Dirty \ {c} : slots[i].key = x
                        \/ c \in Dirty' /\ slots'[c].key = x
    BY <2>1, <2>3, SMTT(40)
  <2>13. /\ UNCHANGED <<enabled, configured, g_flusher>> /\ (enabled \/ c \notin Valid')
         /\ \A i \in Valid \ {c} : expected'[slots[i].key] = expected[slots[i].key]
    BY <2>1
  <2>14. c \in Dirty' => /\ slots'[c].flusher # NoFlusher
                        /\ expected'[slots'[c].key] = Whole(slots'[c].flusher, slots'[c].data)
    BY <2>9, SMTT(40)
  <2>15. Replaced(c)
    BY <2>7, <2>8, <2>9, <2>10, <2>11, <2>12, <2>13, <2>14, SMTT(40) DEF Replaced
  <2> QED
    BY <2>2, <2>15, Replace
<1> QED
  BY <1>2, <1>3

\* A whole block goes into slot c, which holds this block or nothing that is needed.
Stored(c, k, f, data) ==
    /\ enabled /\ f # NoFlusher
    /\ slots' = [slots EXCEPT ![c] = [valid |-> TRUE, dirty |-> TRUE, flusher |-> f, key |-> k, data |-> data]]
    /\ older' = Touch(c)
    /\ dev' \in [Key -> DevBlock]
    /\ expected' = [expected EXCEPT ![k] = Whole(f, data)]
    /\ dirty_count' = Cardinality(Dirty \union {c})
    /\ UNCHANGED <<enabled, configured, g_flusher>>
    /\ \A i \in Valid \ {c} : slots[i].key # k
    /\ \A x \in Key \ {k} : dev'[x] = expected[x] \/ \E i \in Dirty \ {c} : slots[i].key = x

\* Such a step of fs_cache_write_at keeps the invariant, whether the block was cached or not.
LEMMA StoredStep ==
    ASSUME IInv, NEW c \in Active, NEW k \in Key, NEW f \in FlusherOrNull, NEW data \in Value \X Value,
           Stored(c, k, f, data)
    PROVE  IInv'
<1> USE DEF Stored
<1>1. Types /\ c \in Slot
  BY SlotFacts DEF IInv
<1>2. /\ slots' \in [Slot -> {Empty} \union Cached]
      /\ \A i \in Slot \ {c} : slots'[i] = slots[i]
      /\ c \in Valid' /\ Dirty' = Dirty \union {c}
      /\ slots'[c].key = k /\ slots'[c].flusher = f /\ slots'[c].data = data
  BY <1>1, PutDirty, ZenonT(40)
<1>3. Whole(f, data) \in DevBlock /\ Contents(Whole(f, data)) = data
  BY WholeFacts
<1>4. /\ expected' \in [Key -> DevBlock] /\ expected'[k] = Whole(f, data)
      /\ \A x \in Key \ {k} : expected'[x] = expected[x]
  BY <1>3, Settings, Zenon
<1>5. \A i \in Valid : slots[i].key \in Key
  BY <1>1, SlotFacts, ZenonT(40) DEF Cached
<1>6. \A x \in Key : \/ dev'[x] = expected'[x]
                     \/ \E i \in Dirty \ {c} : slots[i].key = x
                     \/ c \in Dirty' /\ slots'[c].key = x
  BY <1>2, <1>4, SMTT(40)
<1>7. Replaced(c)
  BY <1>2, <1>3, <1>4, <1>5, <1>6 DEF Replaced
<1> QED
  BY <1>7, Replace, SMTT(40)

\* A whole block that is not cached is stored in the chosen slot.
LEMMA WriteMissStep ==
    ASSUME IInv, enabled, NEW k \in Key, NEW f \in Flusher, NEW data \in Value \X Value, NEW oc \in Outcome,
           WriteMiss(k, data, f, oc)
    PROVE  IInv'
<1> DEFINE c == Candidate
<1>1. Types /\ Order /\ Data
  BY DEF IInv
<1>2. CASE ChooseFails(oc)
  BY <1>2, ChooseFailsStep
<1>3. CASE ~ChooseFails(oc)
  <2>1. /\ ChooseOk(oc)
        /\ slots' = [slots EXCEPT ![c] = [valid |-> TRUE, dirty |-> TRUE, flusher |-> f, key |-> k, data |-> data]]
        /\ older' = Touch(c)
        /\ dev' = DevAfterChoose(oc) /\ dirty_count' = CountAfterChoose(oc) + 1
        /\ expected' = [expected EXCEPT ![k] = Whole(f, data)]
        /\ UNCHANGED <<enabled, configured, g_flusher>>
    BY <1>3, Zenon DEF WriteMiss, Whole
  <2>2. c \in Active /\ c \in Slot
    BY <1>1, CandidateFacts
  <2>3. /\ dev' \in [Key -> DevBlock]
        /\ \A x \in Key : dev'[x] = expected[x] \/ \E i \in Dirty \ {c} : slots[i].key = x
        /\ dirty_count' = Cardinality(Dirty \ {c}) + 1
    BY <2>1, ChooseFacts, ZenonT(40)
  <2>4. \A i \in Valid : slots[i].key # k
    BY <1>1, FindFacts DEF WriteMiss
  <2> HIDE DEF c
  <2>5. dirty_count' = Cardinality(Dirty \union {c})
    <3>1. IsFiniteSet(Dirty \ {c})
      BY <1>1, SlotFacts, FS_RemoveElement
    <3>2. Cardinality((Dirty \ {c}) \union {c}) = Cardinality(Dirty \ {c}) + 1
      BY <3>1, FS_AddElement, SMTT(40)
    <3>3. (Dirty \ {c}) \union {c} = Dirty \union {c}
      OBVIOUS
    <3> QED
      BY <2>3, <3>2, <3>3, ZenonT(40)
  <2>6. f # NoFlusher /\ f \in FlusherOrNull
    BY CacheAssumption DEF FlusherOrNull
  <2>7. Stored(c, k, f, data)
    BY <2>1, <2>3, <2>4, <2>5, <2>6 DEF Stored
  <2> QED
    BY <2>2, <2>6, <2>7, StoredStep
<1> QED
  BY <1>2, <1>3

\* A whole block that is cached is replaced, after the write-back of another writer's data.
LEMMA WriteHitStep ==
    ASSUME IInv, enabled, NEW k \in Key, NEW f \in Flusher, NEW data \in Value \X Value, NEW oc \in Outcome,
           WriteHit(k, data, f, oc)
    PROVE  IInv'
<1> DEFINE c      == Find(k)
           drain  == slots[c].dirty /\ slots[c].flusher # f
           done   == FlushDone(slots[c], oc)
           before == IF drain THEN LessDirty(dirty_count, 1) ELSE dirty_count
<1>1. Types /\ Order /\ Data /\ dirty_count = Cardinality(Dirty)
  BY DEF IInv, DirtyCountExact, Dirty
<1>2. /\ c \in Valid /\ slots[c].key = k /\ c \in Active /\ c \in Slot
      /\ \A i \in Valid \ {c} : slots[i].key # k
  <2>1. Holds(k) # {}
    BY DEF WriteHit
  <2>2. Holds(k) = {i \in Valid : slots[i].key = k} /\ Holds(k) = {c}
    BY <1>1, <2>1, FindFacts
  <2>3. c \in Valid /\ slots[c].key = k /\ \A i \in Valid \ {c} : slots[i].key # k
    <3> HIDE DEF c
    <3> QED
      BY <2>2
  <2>4. c \in Active
    BY <2>1, <2>2, SMTT(40) DEF Holds
  <2>5. c \in Slot
    BY <1>1, <2>3, SlotFacts
  <2> QED
    BY <2>3, <2>4, <2>5, SMTT(40)
<1> HIDE DEF c
<1>3. c \in Dirty <=> slots[c].dirty
  BY <1>1, <1>2, SlotFacts, SMTT(40)
<1>4. dev' = IF drain THEN DevAfterFlush(dev, slots[c], oc) ELSE dev
  BY SMTT(40) DEF WriteHit, c
<1>5. drain => UNCHANGED <<slots, older, dirty_count, expected>> \/ done
  BY DEF WriteHit, c
<1>6. /\ dev' \in [Key -> DevBlock]
      /\ \A x \in Key \ {k} : dev'[x] = dev[x]
  <2>1. CASE drain
    BY <1>1, <1>2, <1>3, <1>4, <2>1, WriteBack, SMTT(40)
  <2>2. CASE ~drain
    BY <1>4, <2>2, Settings, SMTT(40)
  <2> QED
    BY <2>1, <2>2, SMTT(40)
<1>7. \A x \in Key \ {k} : dev'[x] = expected[x] \/ \E i \in Dirty \ {c} : slots[i].key = x
  BY <1>2, <1>6, Settings, SMTT(40)
<1>8. CASE drain /\ ~done
  <2>1. UNCHANGED <<slots, older, dirty_count, enabled, configured, g_flusher, expected>>
    BY <1>8 DEF WriteHit, c
  <2>2. c \in Dirty /\ slots[c].key = k
    BY <1>2, <1>3, <1>8, SMTT(40)
  <2> HIDE DEF drain, done, before
  <2>3. ASSUME NEW x \in Key
        PROVE  dev'[x] = expected[x] \/ \E i \in Dirty : slots[i].key = x
    <3>1. CASE x = k
      BY <2>2, <3>1
    <3>2. CASE x # k
      BY <1>7, <3>2
    <3> QED
      BY <3>1, <3>2, SMTT(40)
  <2> QED
    BY <1>6, <2>1, <2>3, SameSlots, Settings, SMTT(40)
<1>9. CASE ~(drain /\ ~done)
  <2>1. /\ slots' = [slots EXCEPT ![c] = [valid |-> TRUE, dirty |-> TRUE, flusher |-> f, key |-> k, data |-> data]]
        /\ older' = Touch(c)
        /\ dirty_count' = IF slots[c].dirty /\ ~drain THEN before ELSE before + 1
        /\ expected' = [expected EXCEPT ![k] = Whole(f, data)]
        /\ UNCHANGED <<enabled, configured, g_flusher>>
    BY <1>9 DEF WriteHit, Whole, c
  <2>3. dirty_count' = Cardinality(Dirty \union {c})
    <3>1. IsFiniteSet(Dirty) /\ Cardinality(Dirty) \in Nat
      BY <1>1, SlotFacts, FS_CardinalityType
    <3>2. Cardinality(Dirty \union {c}) = IF c \in Dirty THEN Cardinality(Dirty) ELSE Cardinality(Dirty) + 1
      BY <3>1, FS_AddElement, Zenon
    <3>3. c \in Dirty => Cardinality(Dirty) >= 1
      <4>1. Cardinality(Dirty \ {c}) \in Nat
        BY <3>1, FS_RemoveElement, FS_CardinalityType
      <4>2. c \in Dirty => Cardinality(Dirty \ {c}) = Cardinality(Dirty) - 1
        BY <3>1, FS_RemoveElement, ZenonT(40)
      <4> QED
        BY <3>1, <4>1, <4>2
    <3>4. CASE drain
      BY <1>1, <1>3, <2>1, <3>1, <3>2, <3>3, <3>4, SMTT(40) DEF LessDirty
    <3>5. CASE ~drain
      BY <1>1, <1>3, <2>1, <3>1, <3>2, <3>5, SMTT(40)
    <3> QED
      BY <3>4, <3>5
  <2>4. f # NoFlusher /\ f \in FlusherOrNull
    BY CacheAssumption DEF FlusherOrNull
  <2>5. Stored(c, k, f, data)
    BY <1>2, <1>6, <1>7, <2>1, <2>3, <2>4, SMTT(40) DEF Stored
  <2> QED
    BY <1>2, <2>4, <2>5, StoredStep, SMTT(40)
<1> QED
  BY <1>8, <1>9

Part == ({1, 2} \X Value) \union {<<>>}

\* The backend, or the history, after a partial write of block k.
PutPart(d, k, part, f) == IF part = <<>> THEN d ELSE [d EXCEPT ![k][part[1]] = <<part[2], f>>]
PartOf(b, part, f)     == IF part = <<>> THEN b ELSE [b EXCEPT ![part[1]] = <<part[2], f>>]

\* A partial write changes block k only, and there only the half it names.
LEMMA PutPartFacts ==
    ASSUME NEW d \in [Key -> DevBlock], NEW k \in Key, NEW part \in Part, NEW f \in FlusherOrNull
    PROVE  /\ PutPart(d, k, part, f) \in [Key -> DevBlock]
           /\ \A x \in Key \ {k} : PutPart(d, k, part, f)[x] = d[x]
           /\ PutPart(d, k, part, f)[k] = PartOf(d[k], part, f)
<1>1. CASE part = <<>>
  BY <1>1 DEF PutPart, PartOf
<1>2. CASE part # <<>>
  <2>1. part[1] \in {1, 2} /\ part[2] \in Value
    BY <1>2 DEF Part
  <2> DEFINE p   == part[1]
             v   == <<part[2], f>>
             new == [d[k] EXCEPT ![p] = v]
  <2>2. v \in Value \X FlusherOrNull
    BY <2>1
  <2>3. d[k] \in DevBlock
    OBVIOUS
  <2>4. new \in DevBlock
    <3> HIDE DEF v, p
    <3>1. p = 1 \/ p = 2
      BY <2>1 DEF p
    <3> QED
      BY <2>2, <2>3, <3>1 DEF DevBlock
  <2>5. PutPart(d, k, part, f) = [d EXCEPT ![k] = new]
    BY <1>2 DEF PutPart
  <2> HIDE DEF new
  <2>6. /\ [d EXCEPT ![k] = new] \in [Key -> DevBlock]
        /\ \A x \in Key \ {k} : [d EXCEPT ![k] = new][x] = d[x]
        /\ [d EXCEPT ![k] = new][k] = new
    BY <2>4
  <2> QED
    BY <1>2, <2>5, <2>6 DEF new, PartOf
<1> QED
  BY <1>1, <1>2

\* With the cache off the backend is written directly.
LEMMA WriteDirectStep ==
    ASSUME IInv, ~enabled, NEW k \in Key, NEW f \in Flusher, NEW data \in Value \X Value, NEW oc \in Outcome,
           WriteDirect(k, data, f, oc)
    PROVE  IInv'
<1>1. Valid = {} /\ Dirty = {}
  BY Settings, SlotFacts DEF IInv
<1>2. dev = expected
  BY <1>1, Settings
<1>3. f \in FlusherOrNull /\ Written(dev[k], f, data, oc) \in DevBlock
  BY Settings, WrittenFacts DEF FlusherOrNull
<1>4. dev' = [dev EXCEPT ![k] = Written(dev[k], f, data, oc)] /\ expected' = dev'
  BY <1>2 DEF WriteDirect
<1>5. dev' \in [Key -> DevBlock]
  BY <1>3, <1>4, Settings
<1> QED
  BY <1>1, <1>4, <1>5, SameSlots, Settings DEF WriteDirect

\* A partial write goes to the backend; a cached version of the block is written back
\* and dropped first.
LEMMA WritePartialStep ==
    ASSUME IInv, NEW k \in Key, NEW f \in Flusher, NEW part \in Part, NEW oc \in Outcome,
           WritePartial(k, part, f, oc)
    PROVE  IInv'
<1> DEFINE hit   == enabled /\ Holds(k) # {}
           c     == Find(k)
           drain == hit /\ slots[c].dirty
           done  == FlushDone(slots[c], oc)
           dev1  == IF drain THEN DevAfterFlush(dev, slots[c], oc) ELSE dev
<1>1. Types /\ Order /\ Data /\ dirty_count = Cardinality(Dirty)
  BY SMTT(40) DEF IInv, DirtyCountExact, Dirty
<1>2. UNCHANGED <<enabled, configured, g_flusher>>
  BY SMTT(40) DEF WritePartial
<1>3. drain /\ ~done => dev' = dev1 /\ UNCHANGED <<slots, older, dirty_count, expected>>
  BY SMTT(40) DEF WritePartial
<1>4. ~(drain /\ ~done) =>
        /\ slots' = IF hit THEN [slots EXCEPT ![c] = Empty] ELSE slots
        /\ older' = IF hit THEN Forget({c}) ELSE older
        /\ dirty_count' = IF drain THEN LessDirty(dirty_count, 1) ELSE dirty_count
        /\ dev' = PutPart(dev1, k, part, f)
        /\ expected' = PutPart(expected, k, part, f)
  BY SMTT(40) DEF WritePartial, PutPart
<1>5. hit => c \in Valid /\ slots[c].key = k /\ c \in Active /\ c \in Slot /\ (c \in Dirty <=> slots[c].dirty)
  BY <1>1, FindFacts, SlotFacts DEF Types
<1>6. \A i \in Valid : slots[i].key = k => hit /\ i = c
  BY <1>1, FindFacts, Settings
<1>7. f \in FlusherOrNull
  BY SMTT(40) DEF FlusherOrNull
<1>8. /\ dev1 \in [Key -> DevBlock]
      /\ \A x \in Key \ {k} : dev1[x] = dev[x]
      /\ ~(drain /\ ~done) => dev1[k] = expected[k]
  <2>1. CASE drain
    BY <1>1, <1>5, <2>1, WriteBack, ZenonT(40)
  <2>2. CASE ~drain
    <3>1. \A i \in Dirty : slots[i].key # k
      BY <1>1, <1>5, <1>6, <2>2, SlotFacts
    <3> QED
      BY <2>2, <3>1, Settings, SMTT(40)
  <2> QED
    BY <2>1, <2>2
<1>9. \A i \in Valid : slots[i].key \in Key
  BY <1>1, SlotFacts, Zenon DEF Cached
<1> HIDE DEF c, hit, drain, done, dev1
<1>10. CASE drain /\ ~done
  <2>1. \A x \in Key : dev'[x] = expected[x] \/ \E i \in Dirty : slots[i].key = x
    BY <1>3, <1>5, <1>8, <1>10, Settings DEF drain
  <2> QED
    BY <1>2, <1>3, <1>8, <1>10, <2>1, SameSlots, Settings, SMTT(40)
<1>11. CASE ~(drain /\ ~done)
  <2>1. expected \in [Key -> DevBlock]
    BY Settings
  <2>2. /\ dev' \in [Key -> DevBlock] /\ expected' \in [Key -> DevBlock]
        /\ \A x \in Key \ {k} : dev'[x] = dev[x] /\ expected'[x] = expected[x]
        /\ dev'[k] = expected'[k]
    <3>1. dev' = PutPart(dev1, k, part, f) /\ expected' = PutPart(expected, k, part, f)
      BY <1>4, <1>11
    <3>2. /\ PutPart(dev1, k, part, f) \in [Key -> DevBlock]
          /\ \A x \in Key \ {k} : PutPart(dev1, k, part, f)[x] = dev1[x]
          /\ PutPart(dev1, k, part, f)[k] = PartOf(dev1[k], part, f)
      BY <1>7, <1>8, PutPartFacts, Zenon
    <3>3. /\ PutPart(expected, k, part, f) \in [Key -> DevBlock]
          /\ \A x \in Key \ {k} : PutPart(expected, k, part, f)[x] = expected[x]
          /\ PutPart(expected, k, part, f)[k] = PartOf(expected[k], part, f)
      BY <1>7, <2>1, PutPartFacts
    <3>4. dev1[k] = expected[k] /\ \A x \in Key \ {k} : dev1[x] = dev[x]
      BY <1>8, <1>11, ZenonT(40)
    <3> QED
      BY <3>1, <3>2, <3>3, <3>4, Zenon
  <2>3. CASE ~hit
    <3>1. ~drain
      BY <2>3 DEF drain
    <3>2. UNCHANGED <<slots, older, dirty_count>>
      BY <1>4, <1>11, <2>3, <3>1, SMTT(40)
    <3>3. \A i \in Valid : expected'[slots[i].key] = expected[slots[i].key]
      BY <1>6, <1>9, <2>2, <2>3, SMTT(40)
    <3>4. \A x \in Key : dev'[x] = expected'[x] \/ \E i \in Dirty : slots[i].key = x
      BY <2>2, Settings
    <3> QED
      BY <1>2, <2>2, <3>2, <3>3, <3>4, SameSlots, Settings
  <2>4. CASE hit
    <3>1. /\ slots' = [slots EXCEPT ![c] = Empty]
          /\ older' = Forget({c})
      BY <1>4, <1>11, <2>4
    <3>2. /\ slots' \in [Slot -> {Empty} \union Cached]
          /\ \A i \in Slot \ {c} : slots'[i] = slots[i]
          /\ c \notin Valid' /\ Dirty' = Dirty \ {c}
      BY <1>1, <1>5, <2>4, <3>1, PutEmpty, ZenonT(40)
    <3>3. dirty_count' = Cardinality(Dirty')
      <4>1. IsFiniteSet(Dirty) /\ Cardinality(Dirty) \in Nat
        BY <1>1, SlotFacts, FS_CardinalityType, SMTT(40)
      <4>2. Cardinality(Dirty \ {c}) \in Nat
        BY <4>1, FS_RemoveElement, FS_CardinalityType, SMTT(40)
      <4>3. Cardinality(Dirty \ {c}) = IF c \in Dirty THEN Cardinality(Dirty) - 1 ELSE Cardinality(Dirty)
        BY <4>1, FS_RemoveElement, Zenon
      <4>4. drain <=> c \in Dirty
        BY <1>5, <2>4 DEF drain
      <4> QED
        BY <1>1, <1>4, <1>11, <3>2, <4>1, <4>2, <4>3, <4>4, SMTT(40) DEF LessDirty
    <3>4. \A i \in Valid \ {c} : expected'[slots[i].key] = expected[slots[i].key]
      BY <1>6, <1>9, <2>2, SMTT(40)
    <3>5. \A x \in Key : dev'[x] = expected'[x] \/ \E i \in Dirty \ {c} : slots[i].key = x
      BY <1>5, <2>2, <2>4, Settings
    <3>6. c \notin Dirty'
      BY <3>2
    <3>7. Replaced(c)
      BY <1>2, <2>2, <3>1, <3>2, <3>3, <3>4, <3>5, <3>6, ZenonT(40) DEF Replaced
    <3> QED
      BY <1>5, <2>4, <3>7, Replace
  <2> QED
    BY <2>3, <2>4
<1> QED
  BY <1>10, <1>11

\* Dropping nothing, and dropping the clean ones of some slots after they were flushed.
LEMMA DropFacts ==
    ASSUME IInv, NEW S \in SUBSET Slot, NEW oc \in Outcomes
    PROVE  /\ Forget({}) = older
           /\ FlushSlots(slots, S, oc) = [i \in Slot |-> IF i \in {} THEN Empty ELSE FlushSlots(slots, S, oc)[i]]
           /\ LET G == Dropped(FlushSlots(slots, S, oc), S)
              IN  /\ G \in SUBSET Slot
                  /\ G \intersect (Dirty \ Flushed(S, oc)) = {}
                  /\ DropClean(FlushSlots(slots, S, oc), S)
                       = [i \in Slot |-> IF i \in G THEN Empty ELSE FlushSlots(slots, S, oc)[i]]
                  /\ Dirty \ Flushed(S, oc) = {} => (Valid \intersect S) \subseteq G
<1> DEFINE fl == FlushSlots(slots, S, oc)
           G  == Dropped(fl, S)
           F  == Flushed(S, oc)
<1>1. Types /\ Order
  BY DEF IInv
<1>2. Forget({}) = older
  BY <1>1 DEF Forget, Order
<1>3. /\ F \subseteq Dirty
      /\ fl = [i \in Slot |-> IF i \in F THEN [slots[i] EXCEPT !.dirty = FALSE] ELSE slots[i]]
  BY FlushFacts, Zenon
<1>4. fl = [i \in Slot |-> IF i \in {} THEN Empty ELSE fl[i]]
  BY DEF FlushSlots
<1>5. G = {i \in S : ~fl[i].dirty}
  BY DEF Dropped
<1>6. DropClean(fl, S) = [i \in Slot |-> IF i \in G THEN Empty ELSE fl[i]]
  BY DEF DropClean
<1>7. Dirty = {i \in Slot : slots[i].dirty} /\ Valid \subseteq Slot /\ \A i \in Valid : slots[i] \in Cached
  BY <1>1, SlotFacts
<1>8. \A x \in Cached : ~[x EXCEPT !.dirty = FALSE].dirty
  BY DEF Cached
<1> HIDE DEF fl, F
<1>9. G \intersect (Dirty \ F) = {}
  BY <1>3, <1>5, <1>7
<1>10. Dirty \ F = {} => (Valid \intersect S) \subseteq G
  <2> SUFFICES ASSUME Dirty \ F = {}, NEW i \in Valid \intersect S
               PROVE  ~fl[i].dirty
    BY <1>5
  <2>1. CASE i \in F
    BY <1>3, <1>7, <1>8, <2>1, Zenon
  <2>2. CASE i \notin F
    BY <1>3, <1>7, <2>2
  <2> QED
    BY <2>1, <2>2
<1> QED
  BY <1>2, <1>4, <1>5, <1>6, <1>9, <1>10 DEF fl, F

\* fs_cache_flush, fs_cache_invalidate_path and the control calls that flush.
LEMMA FlushStep ==
    ASSUME IInv, NEW oc \in Outcomes, Flush(oc)
    PROVE  IInv'
<1>1. Active \in SUBSET Slot
  BY SlotFacts, SMTT(40) DEF IInv
<1>2. /\ older' = Forget({})
      /\ slots' = [i \in Slot |-> IF i \in {} THEN Empty ELSE FlushSlots(slots, Active, oc)[i]]
  BY <1>1, DropFacts, SMTT(40) DEF Flush
<1>3. FlushedAndDropped(Active, oc, {})
  BY <1>2, Settings, SMTT(40) DEF Flush, FlushedAndDropped
<1> QED
  BY <1>1, <1>3, FlushAndDrop

\* fs_cache_invalidate_path writes back the dirty slots of the paths and drops the clean
\* ones; that preserves the invariant.
LEMMA InvalidateStep ==
    ASSUME IInv, NEW oc \in Outcomes, NEW Q \in SUBSET Path, InvalidatePath(Q, oc)
    PROVE  IInv'
<1> DEFINE S == {i \in Active : slots[i].valid /\ slots[i].key[1] \in Q}
           G == Dropped(FlushSlots(slots, S, oc), S)
<1>1. S \in SUBSET Slot
  BY SlotFacts DEF IInv
<1>2. /\ older' = Forget(G)
      /\ slots' = DropClean(FlushSlots(slots, S, oc), S)
      /\ dev' = FlushDev(dev, slots, S, oc)
      /\ dirty_count' = FlushCount(dirty_count, slots, S, oc)
      /\ UNCHANGED <<enabled, configured, g_flusher, expected>>
  BY Zenon DEF InvalidatePath
<1> HIDE DEF S
<1>3. /\ G \in SUBSET Slot /\ G \intersect (Dirty \ Flushed(S, oc)) = {}
      /\ slots' = [i \in Slot |-> IF i \in G THEN Empty ELSE FlushSlots(slots, S, oc)[i]]
  BY <1>1, <1>2, DropFacts, ZenonT(40)
<1>4. /\ enabled' \in BOOLEAN /\ configured' \in MinSlots .. PoolSlots
      /\ Valid \ G \subseteq 1 .. configured' /\ (enabled' \/ Valid \subseteq G)
  BY <1>2, Settings
<1>5. FlushedAndDropped(S, oc, G)
  BY <1>2, <1>3, <1>4, Zenon DEF FlushedAndDropped
<1> QED
  BY <1>1, <1>3, <1>5, FlushAndDrop, SMTT(40)

\* Flushing all slots and dropping the clean ones, as fs_cache_ctl
\* does to turn the cache off, drop its contents or shrink it, preserves the invariant.
LEMMA FlushThenDropStep ==
    ASSUME IInv, NEW oc \in Outcomes, NEW en \in BOOLEAN, NEW conf \in MinSlots .. PoolSlots,
           FlushThenDrop(oc, en, conf)
    PROVE  IInv'
<1> DEFINE fl == FlushSlots(slots, Active, oc)
           G  == Dropped(fl, Active)
           n  == FlushCount(dirty_count, slots, Active, oc)
<1>1. Active \in SUBSET Slot /\ Valid \subseteq Active /\ Types
  BY SlotFacts, SMTT(40) DEF IInv, Types
<1>2. /\ dev' = FlushDev(dev, slots, Active, oc) /\ dirty_count' = n
      /\ UNCHANGED <<g_flusher, expected>>
      /\ n # 0 => slots' = fl /\ UNCHANGED <<older, enabled, configured>>
      /\ n = 0 => slots' = DropClean(fl, Active) /\ older' = Forget(G) /\ enabled' = en /\ configured' = conf
  BY DEF FlushThenDrop
<1>3. CASE n # 0
  <2>1. /\ older' = Forget({})
        /\ slots' = [i \in Slot |-> IF i \in {} THEN Empty ELSE FlushSlots(slots, Active, oc)[i]]
    BY <1>1, <1>2, <1>3, DropFacts, SMTT(40)
  <2>2. FlushedAndDropped(Active, oc, {})
    BY <1>2, <1>3, <2>1, Settings, SMTT(40) DEF FlushedAndDropped
  <2> QED
    BY <1>1, <2>2, FlushAndDrop, SMTT(40)
<1>4. CASE n = 0
  <2>1. n = Cardinality(Dirty \ Flushed(Active, oc))
    BY <1>1, FlushFacts, Zenon
  <2>2. IsFiniteSet(Dirty \ Flushed(Active, oc))
    BY <1>1, SlotFacts, FS_Difference, ZenonT(40)
  <2>3. Dirty \ Flushed(Active, oc) = {}
    BY <1>4, <2>1, <2>2, FS_EmptySet
  <2>4. /\ G \in SUBSET Slot /\ G \intersect (Dirty \ Flushed(Active, oc)) = {}
        /\ slots' = [i \in Slot |-> IF i \in G THEN Empty ELSE fl[i]]
        /\ Valid \subseteq G
    BY <1>1, <1>2, <1>4, <2>3, DropFacts, Zenon
  <2>5. /\ older' = Forget(G)
        /\ enabled' \in BOOLEAN /\ configured' \in MinSlots .. PoolSlots
        /\ Valid \ G \subseteq 1 .. configured'
    BY <1>2, <1>4, <2>4, Zenon
  <2>6. FlushedAndDropped(Active, oc, G)
    BY <1>2, <2>4, <2>5, Zenon DEF FlushedAndDropped
  <2> QED
    BY <1>1, <2>4, <2>6, FlushAndDrop
<1> QED
  BY <1>3, <1>4, SMTT(40)

\* Switching the cache on, adding slots and registering a default writer touch no data.
LEMMA SettingStep ==
    ASSUME IInv, UNCHANGED <<slots, older, dirty_count, dev, expected>>,
           \/ enabled' = TRUE /\ UNCHANGED <<configured, g_flusher>>
           \/ configured' \in configured .. PoolSlots /\ UNCHANGED <<enabled, g_flusher>>
           \/ g_flusher' \in Flusher /\ UNCHANGED <<enabled, configured>>
    PROVE  IInv'
<1>1. enabled \in BOOLEAN /\ (enabled \/ Valid = {})
  BY Settings
<1>2. enabled' \in BOOLEAN /\ (enabled' \/ Valid = {})
  <2>1. CASE enabled' = TRUE
    BY <2>1, Zenon
  <2>2. CASE enabled' = enabled
    BY <1>1, <2>2, ZenonT(40)
  <2> QED
    BY <2>1, <2>2, Zenon
<1>3. configured' \in MinSlots .. PoolSlots /\ Valid \subseteq 1 .. configured' /\ g_flusher' \in FlusherOrNull
  BY CacheAssumption, Settings DEF FlusherOrNull
<1> QED
  BY <1>2, <1>3, SameSlots, Settings, ZenonT(40)

\* The empty cache fs_cache_init leaves satisfies the invariant.
LEMMA InitInv == Init => IInv
<1> SUFFICES ASSUME Init
             PROVE  IInv
  BY SMTT(40)
<1> USE DEF Init
<1>1. ~Empty.valid
  BY DEF Empty
<1>2. Valid = {} /\ Dirty = {}
  BY <1>1 DEF Valid, Dirty, DirtyIn
<1>3. dev \in [Key -> DevBlock] /\ expected = dev
  BY DEF DevBlock, FlusherOrNull
<1>4. enabled \in BOOLEAN
  BY Zenon
<1>5. Types
  <2>1. slots \in [Slot -> {Empty} \union Cached]
    OBVIOUS
  <2>2. configured \in MinSlots .. PoolSlots /\ g_flusher \in FlusherOrNull
    BY CacheAssumption DEF FlusherOrNull
  <2> QED
    BY <1>2, <1>3, <1>4, <2>1, <2>2, ZenonT(40) DEF Types
<1>6. Order
  BY <1>2, SMTT(40) DEF Order
<1>7. Data
  BY <1>2, <1>3 DEF Data
<1>8. DirtyCountExact
  BY <1>2, FS_EmptySet, ZenonT(40) DEF DirtyCountExact, Dirty
<1> QED
  BY <1>5, <1>6, <1>7, <1>8 DEF IInv

\* Every operation of fs_cache.c preserves the invariant, one step per operation.
LEMMA NextInv == IInv /\ [Next]_vars => IInv'
<1> SUFFICES ASSUME IInv, [Next]_vars
             PROVE  IInv'
  OBVIOUS
<1>1. \A k \in Key : OneOutcome(k) \subseteq Outcome
  BY DEF OneOutcome, Outcome
<1>2. CASE ReadAt
  BY <1>1, <1>2, ReadHitStep, ReadMissStep, SMTT(40) DEF ReadAt
<1>3. CASE WriteAt
  <2>1. PICK k \in Key, f \in {Chosen(fl) : fl \in FlusherOrNull} \ {NoFlusher} :
          \E oc \in OneOutcome(k) :
            \/ \E data \in BlockData : WriteBlock(k, data, f, oc)
            \/ \E part \in Part : WritePartial(k, part, f, oc)
    BY <1>3, Zenon DEF WriteAt, Part
  <2>2. PICK oc \in OneOutcome(k) :
          \/ \E data \in BlockData : WriteBlock(k, data, f, oc)
          \/ \E part \in Part : WritePartial(k, part, f, oc)
    BY <2>1
  <2>3. oc \in Outcome
    BY <1>1
  <2>4. f \in Flusher
    BY Settings, SMTT(40) DEF Chosen, FlusherOrNull
  <2>5. BlockData \subseteq Value \X Value
    BY SMTT(40) DEF BlockData
  <2>6. ASSUME NEW data \in BlockData, WriteBlock(k, data, f, oc)
        PROVE  IInv'
    BY <2>3, <2>4, <2>5, <2>6, WriteHitStep, WriteMissStep, WriteDirectStep, SMTT(40) DEF WriteBlock
  <2>7. ASSUME NEW part \in Part, WritePartial(k, part, f, oc)
        PROVE  IInv'
    BY <2>3, <2>4, <2>7, WritePartialStep
  <2> QED
    BY <2>2, <2>6, <2>7
<1>4. ASSUME NEW oc \in Outcomes, Flush(oc)
      PROVE  IInv'
  BY <1>4, FlushStep
<1>5. ASSUME NEW oc \in Outcomes, NEW Q \in {{p} : p \in Path} \union {Path}, InvalidatePath(Q, oc)
      PROVE  IInv'
  <2>1. Q \in SUBSET Path
    OBVIOUS
  <2> QED
    BY <1>5, <2>1, InvalidateStep
<1>6. CASE Ctl
  <2>1. ASSUME NEW oc \in Outcomes, CtlDisable(oc)
        PROVE  IInv'
    <3>1. FALSE \in BOOLEAN
      BY Zenon
    <3> QED
      BY <2>1, <3>1, FlushThenDropStep, Settings, Zenon DEF CtlDisable
  <2>2. ASSUME NEW oc \in Outcomes, CtlDrop(oc)
        PROVE  IInv'
    BY <2>2, FlushThenDropStep, Settings DEF CtlDrop
  <2>3. CASE CtlEnable
    BY <2>3, SettingStep DEF CtlEnable
  <2>4. ASSUME NEW oc \in Outcomes, NEW want \in MinSlots .. PoolSlots, CtlSetSlots(want, oc)
        PROVE  IInv'
    <3>1. CASE want < configured /\ FlushThenDrop(oc, enabled, want)
      BY <3>1, FlushThenDropStep, Settings
    <3>2. CASE ~(want < configured /\ FlushThenDrop(oc, enabled, want))
      <4>1. want >= configured /\ configured' = want
            /\ UNCHANGED <<slots, older, dirty_count, enabled, g_flusher, dev, expected>>
        BY <2>4, <3>2, SMTT(40) DEF CtlSetSlots
      <4>2. configured' \in configured .. PoolSlots
        BY <4>1, Settings, CacheAssumption, SMTT(40)
      <4> QED
        BY <4>1, <4>2, SettingStep, ZenonT(40)
    <3> QED
      BY <3>1, <3>2, SMTT(40)
  <2> QED
    BY <1>6, <2>1, <2>2, <2>3, <2>4 DEF Ctl
<1>7. ASSUME NEW f \in Flusher, SetFlusher(f)
      PROVE  IInv'
  BY <1>7, SettingStep, SMTT(40) DEF SetFlusher
<1>8. CASE UNCHANGED vars
  BY <1>8, SameSlots, Settings DEF vars
<1> QED
  BY <1>2, <1>3, <1>4, <1>5, <1>6, <1>7, <1>8, SMTT(40) DEF Next

-----------------------------------------------------------------------------
(* The properties *)

\* The invariant implies the three state properties the run checks.
LEMMA Consequences == IInv => TypeOK /\ Coherent /\ DurableWhenCountIsZero
<1> SUFFICES ASSUME IInv
             PROVE  TypeOK /\ Coherent /\ DurableWhenCountIsZero
  OBVIOUS
<1>1. Types /\ Order /\ Data /\ dirty_count = Cardinality(Dirty)
  BY DEF IInv, DirtyCountExact, Dirty
<1>2. IsFiniteSet(Dirty)
  BY <1>1, SlotFacts
<1>3. TypeOK
  <2>1. IsFiniteSet(Slot) /\ Cardinality(Slot) = PoolSlots
    BY FS_Interval, CacheAssumption DEF Slot
  <2>2. Dirty \in SUBSET Slot
    BY <1>1, SlotFacts
  <2>3. dirty_count \in 0 .. PoolSlots
    BY <1>1, <1>2, <2>1, <2>2, FS_Subset, FS_CardinalityType, CacheAssumption, SMTT(40)
  <2> QED
    BY <1>1, <2>3, Zenon DEF TypeOK, Types, Order, Cached
<1>4. Coherent
  <2> SUFFICES ASSUME NEW k \in Key
               PROVE  /\ \A i, j \in Holds(k) : i = j
                      /\ (IF Holds(k) # {} THEN slots[Find(k)].data ELSE Contents(dev[k])) = Contents(expected[k])
    BY SMTT(40) DEF Coherent
  <2>1. CASE Holds(k) # {}
    <3>1. Find(k) \in Valid /\ slots[Find(k)].key = k /\ Holds(k) = {Find(k)}
      BY <1>1, <2>1, FindFacts, ZenonT(40)
    <3>2. slots[Find(k)].data = Contents(expected[k])
      BY <1>1, <3>1, ZenonT(40) DEF Data
    <3> QED
      BY <2>1, <3>1, <3>2, ZenonT(40)
  <2>2. CASE Holds(k) = {}
    <3>1. \A i \in Valid : slots[i].key # k
      BY <1>1, <2>2, FindFacts, SMTT(40)
    <3>2. dev[k] = expected[k]
      BY <1>1, <3>1, SlotFacts, SMTT(40) DEF Data
    <3> QED
      BY <2>2, <3>2
  <2> QED
    BY <2>1, <2>2, SMTT(40)
<1>5. DurableWhenCountIsZero
  <2> SUFFICES ASSUME dirty_count = 0
               PROVE  dev = expected
    BY DEF DurableWhenCountIsZero
  <2>1. Dirty = {}
    BY <1>1, <1>2, FS_EmptySet
  <2> QED
    BY <1>1, <2>1 DEF Data, Types
<1> QED
  BY <1>3, <1>4, <1>5

\* The order of use and the contents of the slots stay well formed.
THEOREM TypeCorrect == Spec => []TypeOK
<1>1. IInv => TypeOK
  BY Consequences
<1> QED
  BY <1>1, InitInv, NextInv, PTL DEF Spec

\* fs_cache_read_at returns what the completed fs_cache_write_at calls wrote.
THEOREM CacheCoherent == Spec => []Coherent
<1>1. IInv => Coherent
  BY Consequences
<1> QED
  BY <1>1, InitInv, NextInv, PTL DEF Spec

\* g_info.dirty_count counts the dirty slots.
THEOREM DirtyCountCorrect == Spec => []DirtyCountExact
<1>1. IInv => DirtyCountExact
  BY DEF IInv
<1> QED
  BY <1>1, InitInv, NextInv, PTL DEF Spec

\* A caller that finds dirty_count 0 can rely on the backend.
THEOREM ZeroMeansDurable == Spec => []DurableWhenCountIsZero
<1>1. IInv => DurableWhenCountIsZero
  BY Consequences
<1> QED
  BY <1>1, InitInv, NextInv, PTL DEF Spec

\* fs_cache_ctl never switches the cache off or shrinks it over unwritten data.
THEOREM ConfigSafe == Spec => ConfigChangesOnlyWhenClean
<1>1. IInv' => DurableWhenCountIsZero'
  <2>1. IInv => DurableWhenCountIsZero
    BY Consequences
  <2> QED
    BY <2>1, PTL
<1>2. IInv /\ IInv' /\ [Next]_vars =>
        [(enabled /\ ~enabled') \/ configured' < configured => dirty_count' = 0 /\ dev' = expected']_vars
  <2> SUFFICES ASSUME IInv, IInv', Next, (enabled /\ ~enabled') \/ configured' < configured
               PROVE  dirty_count' = 0 /\ dev' = expected'
    BY DEF vars
  <2>1. ~(UNCHANGED <<enabled, configured>>)
    BY Settings, CacheAssumption
  <2>2. dirty_count' = 0
    <3>1. ASSUME NEW oc, NEW en, NEW conf, FlushThenDrop(oc, en, conf)
          PROVE  dirty_count' = 0
      BY <2>1, <3>1, SMTT(40) DEF FlushThenDrop
    <3>2. ~CtlEnable
      BY Settings, CacheAssumption DEF CtlEnable
    <3>3. CASE Ctl
      <4>1. ASSUME NEW oc \in Outcomes, NEW want \in MinSlots .. PoolSlots, CtlSetSlots(want, oc)
            PROVE  dirty_count' = 0
        <5>1. ~(want >= configured /\ configured' = want /\ UNCHANGED enabled)
          BY Settings, CacheAssumption, SMTT(40)
        <5> QED
          BY <3>1, <4>1, <5>1, SMTT(40) DEF CtlSetSlots
      <4> QED
        BY <3>1, <3>2, <3>3, <4>1, Zenon DEF Ctl, CtlDisable, CtlDrop
    <3>4. ~ReadAt
      BY <2>1 DEF ReadAt, ReadHit, ReadMiss, ChooseFails
    <3>5. ~WriteAt
      <4>1. \A k, data, f, oc : ~WriteHit(k, data, f, oc)
        BY <2>1 DEF WriteHit
      <4>2. \A k, data, f, oc : ~WriteMiss(k, data, f, oc) /\ ~WriteDirect(k, data, f, oc)
        BY <2>1, ZenonT(40) DEF WriteMiss, WriteDirect, ChooseFails
      <4>3. \A k, part, f, oc : ~WritePartial(k, part, f, oc)
        BY <2>1 DEF WritePartial
      <4> QED
        BY <4>1, <4>2, <4>3, SMTT(40) DEF WriteAt, WriteBlock
    <3>6. \A oc : ~Flush(oc) /\ \A Q : ~InvalidatePath(Q, oc)
      BY <2>1, Zenon DEF Flush, InvalidatePath
    <3>7. \A f : ~SetFlusher(f)
      BY <2>1 DEF SetFlusher
    <3> QED
      BY <3>3, <3>4, <3>5, <3>6, <3>7, SMTT(40) DEF Next
  <2>3. DurableWhenCountIsZero'
    BY <1>1
  <2> QED
    BY <2>2, <2>3 DEF DurableWhenCountIsZero
<1> QED
  BY <1>2, InitInv, NextInv, PTL DEF Spec, ConfigChangesOnlyWhenClean
=============================================================================
