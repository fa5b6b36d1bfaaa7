-------------------- MODULE DeviceCachingAllocatorProofs --------------------
(***************************************************************************)
(* Theorems about DeviceCachingAllocator for every set of streams, segments *)
(* and pools, every request and every choice of the size thresholds: its   *)
(* types; SafetyInv, an inductive invariant by which memory in the cache is *)
(* never touched by another stream's work and the end-of-life events       *)
(* account for every freed block; and what the allocator promises beyond   *)
(* it: it implements StreamOrderedMemory, touches no event during a        *)
(* capture, leaves no two cached neighbours unmerged, gives up only when   *)
(* nothing is left, accounts for its private pools, leaves a graph its     *)
(* memory and keeps its statistics exact.                                  *)
(***************************************************************************)
EXTENDS DeviceCachingAllocator, FiniteSetTheorems, TLAPS

-----------------------------------------------------------------------------
(* The size arithmetic.                                                    *)

\* RoundUp rounds up.
LEMMA RoundUpBound ==
    ASSUME NEW n \in Nat, NEW m \in Nat \ {0}
    PROVE  RoundUp(n, m) \in Nat /\ RoundUp(n, m) >= n
<1> DEFINE q == (n + m - 1) \div m
<1>1. q \in Nat /\ m * q <= n + m - 1 /\ n + m - 1 < m * q + m
    OBVIOUS
<1>2. m * q \in Nat
    BY <1>1
<1> HIDE DEF q
<1>3. m * q >= n
    BY <1>1, <1>2
<1> QED
    BY <1>2, <1>3 DEF RoundUp, q

\* The block size malloc works with is positive and covers the request, and
\* the segment it would ask the driver for covers the block.
LEMMA SizesFit ==
    ASSUME NEW n \in Nat \ {0}
    PROVE  /\ round_size(n) \in Nat /\ round_size(n) > 0 /\ round_size(n) >= n
           /\ get_allocation_size(round_size(n)) \in Nat
           /\ round_size(n) <= get_allocation_size(round_size(n))
<1>1. round_size(n) \in Nat /\ round_size(n) > 0 /\ round_size(n) >= n
    BY RoundUpBound, SizeAssumption DEF round_size
<1> DEFINE s == round_size(n)
<1> HIDE DEF s
<1>2. s \in Nat
    BY <1>1 DEF s
<1>3. RoundUp(s, kRoundLarge) \in Nat /\ s <= RoundUp(s, kRoundLarge)
    BY <1>2, RoundUpBound, SizeAssumption
<1>4. get_allocation_size(s) \in Nat /\ s <= get_allocation_size(s)
    BY <1>2, <1>3, SizeAssumption DEF get_allocation_size
<1> QED
    BY <1>1, <1>4 DEF s

-----------------------------------------------------------------------------
(* Types.                                                                  *)

\* The freshly constructed allocator has its types.
LEMMA TypeInit == Init => TypeOK
<1> SUFFICES ASSUME Init PROVE TypeOK
    OBVIOUS
<1>1. stats \in [StatName -> Int]
    BY DEF Init
<1>2. graph_pools \in [MempoolIds -> PrivatePool]
    BY DEF Init, NoPrivatePool, PrivatePool
<1>3. deferred \in Seq(Ref) /\ supa_events \in [Streams -> Seq(Ref)]
    BY DEF Init
<1>4. captures_underway \in Seq(Capture)
    BY DEF Init
<1>5. set_fraction \in BOOLEAN /\ (set_fraction => allowed_memory_maximum \in Fractions)
    BY DEF Init
<1> QED
    BY <1>1, <1>2, <1>3, <1>4, <1>5 DEF Init, TypeOK, LocalsOK

\* A stream set is finite, so the number of its streams is a number.
LEMMA UsesCount ==
    ASSUME NEW U \in SUBSET Streams
    PROVE  IsFiniteSet(U) /\ Cardinality(U) \in Nat
    BY FS_Subset, FS_CardinalityType, AllocatorAssumption

\* Adding changes to the statistics leaves numbers.
LEMMA ChangedType ==
    ASSUME NEW st \in [StatName -> Int], NEW change,
           \A n \in DOMAIN change : change[n] \in Int
    PROVE  Changed(st, change) \in [StatName -> Int]
    BY DEF Changed

\* An indicator is an integer.
LEMMA IndicatorType ==
    ASSUME NEW P PROVE Indicator(P) \in Int
    BY DEF Indicator

\* A block with another state of use is a block.
LEMMA WithUseType ==
    ASSUME NEW b \in Block, NEW a \in BOOLEAN, NEW U \in SUBSET Streams, NEW n \in Int
    PROVE  /\ WithUse(b, a, U, n) \in Block
           /\ WithUse(b, a, U, n).seg = b.seg
           /\ WithUse(b, a, U, n).off = b.off
           /\ WithUse(b, a, U, n).size = b.size
           /\ WithUse(b, a, U, n).stream = b.stream
           /\ WithUse(b, a, U, n).pool = b.pool
           /\ WithUse(b, a, U, n).allocated = a
           /\ WithUse(b, a, U, n).stream_uses = U
           /\ WithUse(b, a, U, n).event_count = n
    BY DEF WithUse, Block

\* What free_block makes of the neighbours it merges: the merged block spans
\* b and them.
MergedLow(b) == IF MergeBefore(b) = {} THEN b.off
                ELSE (CHOOSE x \in MergeBefore(b) : TRUE).off

MergedHigh(b) == b.off + b.size + (IF MergeAfter(b) = {} THEN 0
                                   ELSE (CHOOSE x \in MergeAfter(b) : TRUE).size)

Merged(b) == NewBlock(b.seg, MergedLow(b), MergedHigh(b) - MergedLow(b),
                      b.stream, b.pool)

\* free_block leaves sets of blocks and numbers: the block it merges starts at
\* a natural offset and has a natural size.
LEMMA FreeBlockEffect ==
    ASSUME TypeOK, NEW b \in active_blocks, NEW st \in [StatName -> Int],
           free_block(b, st)
    PROVE  /\ MergedLow(b) \in Nat /\ MergedLow(b) <= b.off
           /\ MergedHigh(b) \in Nat /\ MergedHigh(b) >= b.off + b.size
           /\ Merged(b) \in Block
           /\ active_blocks' = active_blocks \ {b}
           /\ cached_blocks' = (cached_blocks \ (MergeBefore(b) \cup MergeAfter(b)))
                               \cup {Merged(b)}
           /\ active_blocks' \subseteq Block /\ cached_blocks' \subseteq Block
           /\ stats' \in [StatName -> Int]
<1>1. b \in Block /\ active_blocks \subseteq Block /\ cached_blocks \subseteq Block
    BY DEF TypeOK
<1>2. \A x \in MergeBefore(b) : x \in Block /\ x.off + x.size = b.off
    BY <1>1 DEF MergeBefore, PrevOf, AllBlocks
<1>3. \A x \in MergeAfter(b) : x \in Block
    BY <1>1 DEF MergeAfter, NextOf, AllBlocks
<1>4. MergedLow(b) \in Nat /\ MergedLow(b) <= b.off
    BY <1>1, <1>2 DEF Block, MergedLow
<1>5. MergedHigh(b) \in Nat /\ MergedHigh(b) >= b.off + b.size
    BY <1>1, <1>3 DEF Block, MergedHigh
<1>6. Merged(b) \in Block /\ Merged(b).size = MergedHigh(b) - MergedLow(b)
    <2>1. MergedHigh(b) - MergedLow(b) \in Nat
        BY <1>1, <1>4, <1>5 DEF Block
    <2>2. b.seg \in Segments /\ b.stream \in Streams /\ b.pool \in Pools
        BY <1>1 DEF Block
    <2> QED
        BY <1>4, <2>1, <2>2 DEF Merged, NewBlock, Block
<1>7. Merged(b).size \in Int /\ b.size \in Int
    BY <1>1, <1>6 DEF Block
<1> DEFINE stillSplit == \E x \in AllBlocks : x.seg = b.seg /\
                (x.off + x.size = MergedLow(b) \/ x.off = MergedHigh(b))
           change ==
              [active |-> -1,
               active_bytes |-> -b.size,
               inactive_split |-> Indicator(stillSplit)
                     - Indicator(MergeBefore(b) # {}) - Indicator(MergeAfter(b) # {}),
               inactive_split_bytes |-> (IF stillSplit THEN Merged(b).size ELSE 0)
                     - (Merged(b).size - b.size)]
<1>8. /\ active_blocks' = active_blocks \ {b}
      /\ cached_blocks' = (cached_blocks \ (MergeBefore(b) \cup MergeAfter(b)))
                          \cup {Merged(b)}
      /\ stats' = Changed(st, change)
    BY DEF free_block, Merged, MergedLow, MergedHigh
<1>9. stats' \in [StatName -> Int]
    <2>1. /\ Indicator(stillSplit) \in Int
          /\ Indicator(MergeBefore(b) # {}) \in Int
          /\ Indicator(MergeAfter(b) # {}) \in Int
        BY IndicatorType
    <2>2. (IF stillSplit THEN Merged(b).size ELSE 0) \in Int
        BY <1>7
    <2>3. \A n \in DOMAIN change : change[n] \in Int
        <3> HIDE DEF stillSplit
        <3> QED BY <1>7, <2>1, <2>2
    <2> HIDE DEF change
    <2> QED
        BY <1>8, <2>3, ChangedType
<1> QED
    BY <1>1, <1>4, <1>5, <1>6, <1>8, <1>9

\* So does the completion of an end-of-life event.
LEMMA CompleteEventEffect ==
    ASSUME TypeOK, NEW b \in active_blocks, complete_event(b)
    PROVE  /\ active_blocks' \subseteq Block /\ cached_blocks' \subseteq Block
           /\ stats' \in [StatName -> Int]
<1>1. CASE b.event_count = 1
    <2>1. free_block(b, stats)
        BY <1>1 DEF complete_event
    <2>2. stats \in [StatName -> Int]
        BY DEF TypeOK
    <2> QED
        BY <2>1, <2>2, FreeBlockEffect
<1>2. CASE b.event_count # 1
    <2>1. b \in Block /\ active_blocks \subseteq Block /\ cached_blocks \subseteq Block
          /\ stats \in [StatName -> Int]
        BY DEF TypeOK
    <2>2. b.allocated \in BOOLEAN /\ b.stream_uses \in SUBSET Streams
          /\ b.event_count - 1 \in Int
        BY <2>1 DEF Block
    <2>3. WithUse(b, b.allocated, b.stream_uses, b.event_count - 1) \in Block
        BY <2>1, <2>2, WithUseType
    <2> QED
        BY <1>2, <2>1, <2>3 DEF complete_event
<1> QED
    BY <1>1, <1>2

\* An event entry names a segment and an offset.
LEMMA RefType == ASSUME NEW b \in Block PROVE RefOf(b) \in Ref
    BY DEF RefOf, Ref, Block

\* insert_events leaves a set of blocks and queues of event entries.
LEMMA InsertEventsEffect ==
    ASSUME TypeOK, NEW b \in active_blocks, insert_events(b)
    PROVE  /\ active_blocks' \subseteq Block
           /\ supa_events' \in [Streams -> Seq(Ref)]
<1>1. b \in Block /\ active_blocks \subseteq Block
    BY DEF TypeOK
<1>2. b.stream_uses \in SUBSET Streams /\ b.event_count \in Int
    BY <1>1 DEF Block
<1> DEFINE n == b.event_count + Cardinality(b.stream_uses)
<1>3. n \in Int
    BY <1>2, UsesCount
<1>4. RefOf(b) \in Ref
    BY <1>1, RefType
<1>5. supa_events' \in [Streams -> Seq(Ref)]
    BY <1>4 DEF insert_events, TypeOK
<1>6. active_blocks' = (active_blocks \ {b}) \cup {WithUse(b, FALSE, {}, n)}
    BY DEF insert_events
<1> HIDE DEF n
<1>7. WithUse(b, FALSE, {}, n) \in Block
    BY <1>1, <1>3, WithUseType
<1> QED
    BY <1>1, <1>5, <1>6, <1>7

\* free, in each of its three outcomes, leaves blocks, queues and numbers.
LEMMA DoFreeEffect ==
    ASSUME TypeOK, NEW b \in active_blocks, do_free(b)
    PROVE  /\ active_blocks' \subseteq Block /\ cached_blocks' \subseteq Block
           /\ stats' \in [StatName -> Int]
           /\ supa_events' \in [Streams -> Seq(Ref)] /\ deferred' \in Seq(Ref)
<1> DEFINE change == [allocation |-> -1, allocated_bytes |-> -b.size,
                      oversize_allocations |-> -Indicator(b.size >= MaxSplitSize)]
           st == Changed(stats, change)
<1>1. b \in Block /\ active_blocks \subseteq Block /\ cached_blocks \subseteq Block
      /\ stats \in [StatName -> Int] /\ deferred \in Seq(Ref)
      /\ supa_events \in [Streams -> Seq(Ref)]
    BY DEF TypeOK
<1>2. \A n \in DOMAIN change : change[n] \in Int
    <2>1. Indicator(b.size >= MaxSplitSize) \in Int /\ b.size \in Int
        BY <1>1, IndicatorType DEF Block
    <2> QED BY <2>1
<1>3. st \in [StatName -> Int]
    <2> HIDE DEF change
    <2> QED BY <1>1, <1>2, ChangedType
<1>4. \/ /\ active_blocks' = (active_blocks \ {b})
                             \cup {WithUse(b, FALSE, b.stream_uses, b.event_count)}
         /\ deferred' = Append(deferred, RefOf(b))
         /\ stats' = st
         /\ UNCHANGED <<cached_blocks, supa_events>>
      \/ /\ insert_events(b)
         /\ stats' = st
         /\ UNCHANGED <<cached_blocks, deferred>>
      \/ /\ free_block(b, st)
         /\ UNCHANGED eventVars
    BY DEF do_free
<1> HIDE DEF st
<1>5. WithUse(b, FALSE, b.stream_uses, b.event_count) \in Block /\ RefOf(b) \in Ref
    <2>1. b.stream_uses \in SUBSET Streams /\ b.event_count \in Int
        BY <1>1 DEF Block
    <2> QED BY <1>1, <2>1, WithUseType, RefType
<1>6. CASE /\ active_blocks' = (active_blocks \ {b})
                               \cup {WithUse(b, FALSE, b.stream_uses, b.event_count)}
           /\ deferred' = Append(deferred, RefOf(b))
           /\ stats' = st
           /\ UNCHANGED <<cached_blocks, supa_events>>
    <2>1. active_blocks' \subseteq Block
        BY <1>1, <1>5, <1>6
    <2>2. deferred' \in Seq(Ref)
        BY <1>1, <1>5, <1>6
    <2> QED BY <1>1, <1>3, <1>6, <2>1, <2>2
<1>7. CASE /\ insert_events(b)
           /\ stats' = st
           /\ UNCHANGED <<cached_blocks, deferred>>
    BY <1>1, <1>3, <1>7, InsertEventsEffect
<1>8. CASE free_block(b, st) /\ UNCHANGED eventVars
    BY <1>1, <1>3, <1>8, FreeBlockEffect DEF eventVars
<1> QED
    BY <1>4, <1>6, <1>7, <1>8

\* release_block keeps every type, whatever happens to pc and the locals.
LEMMA ReleaseBlockEffect ==
    ASSUME TypeOK, NEW b \in cached_blocks, release_block(b)
    PROVE  /\ segments' \in [Segments -> Nat]
           /\ cached_blocks' \subseteq Block /\ kernels' \subseteq Kernel
           /\ total_allocated_memory' \in Int
           /\ graph_pools' \in [MempoolIds -> PrivatePool]
           /\ stats' \in [StatName -> Int]
<1> DEFINE change == [segment |-> -1, reserved_bytes |-> -b.size,
                      oversize_segments |-> -Indicator(b.size >= MaxSplitSize)]
<1>1. b \in Block /\ cached_blocks \subseteq Block /\ kernels \subseteq Kernel
      /\ stats \in [StatName -> Int] /\ segments \in [Segments -> Nat]
      /\ total_allocated_memory \in Int /\ graph_pools \in [MempoolIds -> PrivatePool]
    BY DEF TypeOK
<1>2. \A n \in DOMAIN change : change[n] \in Int
    <2>1. Indicator(b.size >= MaxSplitSize) \in Int /\ b.size \in Int
        BY <1>1, IndicatorType DEF Block
    <2> QED BY <2>1
<1>3. stats' \in [StatName -> Int]
    <2>1. stats' = Changed(stats, change)
        BY DEF release_block
    <2> HIDE DEF change
    <2> QED BY <1>1, <1>2, <2>1, ChangedType
<1>4. graph_pools' \in [MempoolIds -> PrivatePool]
    <2>1. CASE b.pool.id = NoPool
        BY <1>1, <2>1 DEF release_block, uncount_segment
    <2>2. CASE b.pool.id # NoPool
        <3>1. b.pool.id \in MempoolIds
            BY <1>1, <2>2 DEF Block, Pools
        <3>2. graph_pools[b.pool.id] \in PrivatePool
            BY <1>1, <3>1
        <3>3. [graph_pools[b.pool.id] EXCEPT !.supaMalloc_count = @ - 1] \in PrivatePool
            BY <3>2 DEF PrivatePool
        <3> QED
            BY <1>1, <2>2, <3>1, <3>3 DEF release_block, uncount_segment
    <2> QED
        BY <2>1, <2>2
<1>5. total_allocated_memory' \in Int
    BY <1>1 DEF release_block, Block
<1> QED
    BY <1>1, <1>3, <1>4, <1>5 DEF release_block

\* The updates of malloc's locals keep their types.
LEMMA OpTodo ==
    ASSUME NEW o \in MallocOp, NEW t \in SUBSET Streams
    PROVE  [o EXCEPT !.todo = t] \in MallocOp
    BY DEF MallocOp

\* ... the number of units released or still to be reclaimed,
LEMMA OpAmount ==
    ASSUME NEW o \in MallocOp, NEW n \in Int
    PROVE  [o EXCEPT !.amount = n] \in MallocOp
    BY DEF MallocOp

\* ... and the attempt malloc is in.
LEMMA OpAttempt ==
    ASSUME NEW o \in MallocOp, NEW n \in Int
    PROVE  /\ [o EXCEPT !.attempt = 1, !.amount = n] \in MallocOp
           /\ [o EXCEPT !.attempt = 2, !.amount = 0] \in MallocOp
           /\ [o EXCEPT !.attempt = 3] \in MallocOp
<1>1. ASSUME NEW a \in 0 .. 3, NEW m \in Int
      PROVE  [o EXCEPT !.attempt = a, !.amount = m] \in MallocOp
    BY DEF MallocOp
<1>2. 1 \in 0 .. 3 /\ 2 \in 0 .. 3 /\ 0 \in Int
    OBVIOUS
<1>3. [o EXCEPT !.attempt = 3] \in MallocOp
    BY DEF MallocOp
<1> QED BY <1>1, <1>2, <1>3, Zenon

\* Outside the phases emptyCache goes through, a method is a malloc.
LEMMA MallocLocals ==
    ASSUME TypeOK, pc \in MallocPhases
    PROVE  op \in MallocOp
    BY DEF TypeOK, LocalsOK, MallocPhases, SharedPhases

\* A step that only moves pc and the locals keeps TypeOK if the locals fit.
LEMMA TypeStays ==
    ASSUME TypeOK, LocalsOK',
           UNCHANGED <<memVars, eventVars, poolVars, limitVars, stats, kernels>>
    PROVE  TypeOK'
    BY DEF TypeOK, memVars, eventVars, poolVars, limitVars

\* alloc_found_block leaves sets of blocks: the part it cuts off has a natural
\* size, because the block was large enough for the request.
LEMMA AllocFoundEffect ==
    ASSUME TypeOK, op \in MallocOp, NEW b \in Block, NEW st \in [StatName -> Int],
           b.size >= op.size, alloc_found_block(b, st)
    PROVE  /\ active_blocks' \subseteq Block /\ cached_blocks' \subseteq Block
           /\ stats' \in [StatName -> Int]
           /\ LocalsOK'
<1> DEFINE split == should_split(b.size, op.size, op.pool.small)
           size == IF split THEN op.size ELSE b.size
           new == NewBlock(b.seg, b.off, size, b.stream, b.pool)
           taken == WithUse(new, TRUE, {}, 0)
           rest == NewBlock(b.seg, b.off + op.size, b.size - op.size, b.stream, b.pool)
           change ==
              [allocation |-> 1, allocated_bytes |-> taken.size,
               active |-> 1, active_bytes |-> taken.size,
               oversize_allocations |-> Indicator(taken.size >= MaxSplitSize),
               inactive_split |-> split_change(b, split),
               inactive_split_bytes |-> (IF split THEN b.size - op.size ELSE 0)
                     - (IF is_split(b) THEN b.size ELSE 0)]
<1>1. /\ active_blocks' = active_blocks \cup {taken}
      /\ cached_blocks' = (cached_blocks \ {b}) \cup (IF split THEN {rest} ELSE {})
      /\ stats' = Changed(st, change)
      /\ pc' = "idle" /\ op' = NoOp
    BY DEF alloc_found_block
<1>2. active_blocks \subseteq Block /\ cached_blocks \subseteq Block
    BY DEF TypeOK
<1>3. /\ op.size \in Nat /\ b.size \in Nat /\ b.off \in Nat
      /\ b.seg \in Segments /\ b.stream \in Streams /\ b.pool \in Pools
    BY DEF MallocOp, Block
<1>4. size \in Nat /\ b.off + op.size \in Nat /\ b.size - op.size \in Nat
    BY <1>3
<1> HIDE DEF split, size
<1>5. new \in Block /\ rest \in Block
    BY <1>3, <1>4 DEF NewBlock, Block
<1>6. taken \in Block
    <2> HIDE DEF new
    <2> QED BY <1>5 DEF WithUse, Block
<1>7. taken.size \in Int
    <2> HIDE DEF taken
    <2> QED BY <1>6 DEF Block
<1>8. \A n \in DOMAIN change : change[n] \in Int
    <2> HIDE DEF taken
    <2>1. Indicator(taken.size >= MaxSplitSize) \in Int
        BY IndicatorType
    <2>2. split_change(b, split) \in Int
        BY IndicatorType DEF split_change
    <2>3. (IF split THEN b.size - op.size ELSE 0)
                     - (IF is_split(b) THEN b.size ELSE 0) \in Int
        BY <1>3
    <2> QED BY <1>7, <2>1, <2>2, <2>3
<1>9. stats' \in [StatName -> Int]
    <2> HIDE DEF change
    <2> QED BY <1>1, <1>8, ChangedType
<1> HIDE DEF taken, rest
<1> QED
    BY <1>1, <1>2, <1>5, <1>6, <1>9 DEF LocalsOK

\* A nonempty set of natural numbers has a least element.
LEMMA LeastNat ==
    ASSUME NEW S \in SUBSET Nat, S # {}
    PROVE  \E i \in S : \A j \in S : i <= j
<1> DEFINE R == OpToRel(<, Nat)
<1>1. IsWellFoundedOn(R, Nat)
    BY NatLessThanWellFounded
<1>2. \A x, y \in Nat : <<x, y>> \in R <=> x < y
    BY DEF OpToRel
<1> HIDE DEF R
<1>3. PICK x \in S : \A y \in S : ~(<<y, x>> \in R)
    BY <1>1, WFMin
<1>4. \A y \in S : y \in Nat /\ x \in Nat /\ ~(y < x)
    BY <1>2, <1>3
<1>5. \A y \in S : x <= y
    BY <1>4
<1> QED
    BY <1>5

\* A sequence without one of its entries is a sequence of the same elements.
LEMMA EraseType ==
    ASSUME NEW S, NEW q \in Seq(S), NEW i \in 1 .. Len(q)
    PROVE  /\ Erase(q, i) \in Seq(S) /\ Len(Erase(q, i)) = Len(q) - 1
           /\ \A j \in 1 .. (Len(q) - 1) :
                 Erase(q, i)[j] = IF j < i THEN q[j] ELSE q[j + 1]
<1>1. Len(q) - 1 \in Nat
    OBVIOUS
<1>2. \A j \in 1 .. (Len(q) - 1) : (IF j < i THEN q[j] ELSE q[j + 1]) \in S
    OBVIOUS
<1> QED
    BY <1>1, <1>2 DEF Erase

\* malloc starts with locals of the right type.
LEMMA MallocType ==
    ASSUME TypeOK, NEW s \in Streams, NEW n \in Requests,
           NEW p \in MempoolIds \cup {NoPool}, malloc(s, n, p)
    PROVE  TypeOK'
<1>1. n \in Nat \ {0}
    BY AllocatorAssumption
<1>2. /\ round_size(n) \in Nat /\ get_allocation_size(round_size(n)) \in Nat
      /\ 0 < round_size(n) /\ round_size(n) <= get_allocation_size(round_size(n))
    BY <1>1, SizesFit
<1> DEFINE size == round_size(n)
           hits == {i \in DOMAIN captures_underway : s \in captures_underway[i].filter}
           first == CHOOSE i \in hits : \A j \in hits : i <= j
<1>3. get_pool(size, s) \in Pools
    <2>1. captures_underway \in Seq(Capture)
        BY DEF TypeOK
    <2>2. hits # {} => first \in hits
        <3>1. hits \in SUBSET Nat
            BY <2>1
        <3>2. hits # {} => \E i \in hits : \A j \in hits : i <= j
            BY <3>1, LeastNat
        <3> HIDE DEF hits
        <3> QED BY <3>2
    <2>3. hits # {} => captures_underway[first].id \in MempoolIds
        <3>1. \A i \in DOMAIN captures_underway : captures_underway[i].id \in MempoolIds
            <4>1. \A i \in DOMAIN captures_underway : captures_underway[i] \in Capture
                BY <2>1
            <4> QED BY <4>1 DEF Capture
        <3> HIDE DEF first
        <3> QED BY <2>2, <3>1
    <2>4. (size <= kSmallSize) \in BOOLEAN
        OBVIOUS
    <2> HIDE DEF size
    <2> QED BY <2>3, <2>4 DEF get_pool, Pools
<1>4. op' \in MallocOp
    <2> DEFINE pool == get_pool(size, s)
               alloc_size == get_allocation_size(size)
    <2>1. op' = [kind |-> "malloc", stream |-> s, size |-> size,
                 alloc_size |-> alloc_size, pool |-> pool, id |-> p, attempt |-> 0,
                 amount |-> 0, todo |-> Streams]
        BY DEF malloc
    <2>2. /\ size \in Nat /\ alloc_size \in Nat /\ pool \in Pools
          /\ 0 < size /\ size <= alloc_size
        BY <1>2, <1>3
    <2> HIDE DEF pool, alloc_size, size
    <2> QED BY <2>1, <2>2 DEF MallocOp
<1>5. pc' \in MallocPhases \cup SharedPhases
    BY DEF malloc, first_phase, MallocPhases, SharedPhases
<1>6. LocalsOK'
    BY <1>4, <1>5 DEF LocalsOK
<1> QED
    BY <1>6, TypeStays DEF malloc

\* Every step of a method that has the mutex keeps the types.
LEMMA TypeStep == TypeOK /\ Step => TypeOK'
<1> SUFFICES ASSUME TypeOK, Step PROVE TypeOK'
    OBVIOUS
<1> USE DEF MallocPhases, SharedPhases
<1>1. CASE insert_events_deferred
    <2>1. CASE deferred # <<>>
        <3>1. PICK b \in active_blocks : insert_events(b)
            BY <1>1, <2>1 DEF insert_events_deferred
        <3>2. active_blocks' \subseteq Block /\ supa_events' \in [Streams -> Seq(Ref)]
            BY <3>1, InsertEventsEffect
        <3>3. deferred' \in Seq(Ref)
            <4>1. deferred \in Seq(Ref) /\ deferred' = Tail(deferred)
                BY <1>1, <2>1 DEF insert_events_deferred, TypeOK
            <4> QED BY <2>1, <4>1
        <3>4. UNCHANGED <<segments, cached_blocks, total_allocated_memory, poolVars,
                          limitVars, stats, kernels, op, pc>>
            BY <1>1, <2>1 DEF insert_events_deferred
        <3> QED BY <3>2, <3>3, <3>4 DEF TypeOK, LocalsOK, poolVars, limitVars
    <2>2. CASE deferred = <<>>
        <3>1. /\ pc' = IF ProcessingEvents THEN "query" ELSE "sync"
              /\ pc = "deferred" /\ op' = op
            BY <1>1, <2>2 DEF insert_events_deferred
        <3>2. ProcessingEvents => op \in MallocOp
            BY <3>1 DEF TypeOK, LocalsOK, NoOp, EmptyOp, ProcessingEvents
        <3>3. LocalsOK'
            BY <3>1, <3>2 DEF TypeOK, LocalsOK
        <3>4. UNCHANGED <<memVars, eventVars, poolVars, limitVars, stats, kernels>>
            BY <1>1, <2>2 DEF insert_events_deferred, memVars, eventVars
        <3> QED BY <3>3, <3>4, TypeStays
    <2> QED BY <2>1, <2>2
<1>2. ASSUME NEW s \in Streams, query_event(s) PROVE TypeOK'
    <2>1. PICK b \in active_blocks : complete_event(b)
        BY <1>2 DEF query_event
    <2>2. /\ active_blocks' \subseteq Block /\ cached_blocks' \subseteq Block
          /\ stats' \in [StatName -> Int]
        BY <2>1, CompleteEventEffect
    <2>3. supa_events' \in [Streams -> Seq(Ref)]
        <3>1. supa_events[s] \in Seq(Ref) /\ supa_events[s] # <<>>
            BY <1>2 DEF query_event, TypeOK
        <3>2. Tail(supa_events[s]) \in Seq(Ref)
            BY <3>1
        <3> QED BY <1>2, <3>2 DEF query_event, TypeOK
    <2>4. UNCHANGED <<segments, total_allocated_memory, deferred, poolVars,
                      limitVars, kernels, pc, op>>
        BY <1>2 DEF query_event
    <2> QED BY <2>2, <2>3, <2>4 DEF TypeOK, LocalsOK, poolVars, limitVars
<1>3. ASSUME NEW s \in Streams, leave_stream(s) PROVE TypeOK'
    <2>1. op \in MallocOp
        BY <1>3, MallocLocals DEF leave_stream
    <2>2. op.todo \ {s} \in SUBSET Streams
        BY <2>1 DEF MallocOp
    <2>3. op' \in MallocOp
        BY <1>3, <2>1, <2>2, OpTodo DEF leave_stream
    <2>4. LocalsOK'
        BY <1>3, <2>3 DEF LocalsOK, leave_stream
    <2> QED BY <1>3, <2>4, TypeStays DEF leave_stream
<1>4. ASSUME NEW s \in Streams, synchronize_event(s) PROVE TypeOK'
    <2>1. PICK i \in EventsInScope(s) :
             /\ \E b \in active_blocks : complete_event(b)
             /\ supa_events' = [supa_events EXCEPT ![s] = Erase(@, i)]
        BY <1>4 DEF synchronize_event
    <2>2. /\ active_blocks' \subseteq Block /\ cached_blocks' \subseteq Block
          /\ stats' \in [StatName -> Int]
        BY <2>1, CompleteEventEffect
    <2>3. supa_events' \in [Streams -> Seq(Ref)]
        <3>1. supa_events[s] \in Seq(Ref) /\ i \in 1 .. Len(supa_events[s])
            BY DEF EventsInScope, TypeOK
        <3>2. Erase(supa_events[s], i) \in Seq(Ref)
            BY <3>1, EraseType
        <3> QED BY <2>1, <3>2 DEF TypeOK
    <2>4. UNCHANGED <<segments, total_allocated_memory, deferred, poolVars,
                      limitVars, kernels, pc, op>>
        BY <1>4 DEF synchronize_event
    <2> QED BY <2>2, <2>3, <2>4 DEF TypeOK, LocalsOK, poolVars, limitVars
<1>5. CASE get_free_block
    <2>1. op \in MallocOp
        BY <1>5, MallocLocals DEF get_free_block
    <2>2. PICK b \in cached_blocks : b.size >= op.size /\ alloc_found_block(b, stats)
        BY <1>5 DEF get_free_block, BestFit
    <2>3. b \in Block /\ stats \in [StatName -> Int]
        BY DEF TypeOK
    <2>4. /\ active_blocks' \subseteq Block /\ cached_blocks' \subseteq Block
          /\ stats' \in [StatName -> Int] /\ LocalsOK'
        BY <2>1, <2>2, <2>3, AllocFoundEffect
    <2>5. UNCHANGED <<segments, total_allocated_memory, eventVars, poolVars,
                      limitVars, kernels>>
        BY <1>5 DEF get_free_block
    <2> QED BY <2>4, <2>5 DEF TypeOK, eventVars, poolVars, limitVars
<1>6. CASE no_free_block
    <2>1. LocalsOK'
        BY <1>6, MallocLocals DEF no_free_block, LocalsOK
    <2> QED BY <1>6, <2>1, TypeStays DEF no_free_block
<1>7. CASE callback_return
    <2>1. op' \in MallocOp
        BY <1>7, MallocLocals, OpAmount DEF callback_return
    <2>2. LocalsOK'
        BY <1>7, <2>1 DEF callback_return, LocalsOK
    <2> QED BY <1>7, <2>2, TypeStays DEF callback_return
<1>8. CASE garbage_collect
    <2> DEFINE needed == /\ set_fraction /\ GcEnabled
                         /\ total_allocated_memory > GcThreshold[allowed_memory_maximum]
               amount == IF needed THEN total_allocated_memory
                                        - GcThreshold[allowed_memory_maximum]
                                   ELSE 0
    <2>1. amount \in Int
        <3>1. set_fraction => GcThreshold[allowed_memory_maximum] \in Nat
            BY AllocatorAssumption DEF TypeOK
        <3>2. total_allocated_memory \in Int
            BY DEF TypeOK
        <3> QED BY <3>1, <3>2
    <2>2. /\ op' = [op EXCEPT !.attempt = 1, !.amount = amount]
          /\ pc' = IF needed THEN "gc_loop" ELSE "alloc"
        BY <1>8 DEF garbage_collect
    <2> HIDE DEF amount, needed
    <2>3. op \in MallocOp
        BY <1>8, MallocLocals DEF garbage_collect
    <2>4. op' \in MallocOp
        BY <2>1, <2>2, <2>3, OpAttempt
    <2>5. LocalsOK'
        BY <2>2, <2>4 DEF LocalsOK
    <2> QED BY <1>8, <2>5, TypeStays DEF garbage_collect
<1>9. CASE gc_return
    <2>1. op' \in MallocOp
        BY <1>9, MallocLocals, OpAmount DEF gc_return
    <2>2. LocalsOK'
        BY <1>9, <2>1 DEF gc_return, LocalsOK
    <2> QED BY <1>9, <2>2, TypeStays DEF gc_return
<1>10. ASSUME NEW b \in cached_blocks,
              gc_release(b) \/ release_available(b) \/ release_cached(b)
       PROVE  TypeOK'
    <2>1. release_block(b)
        BY <1>10 DEF gc_release, release_available, release_cached
    <2>2. /\ segments' \in [Segments -> Nat]
          /\ cached_blocks' \subseteq Block /\ kernels' \subseteq Kernel
          /\ total_allocated_memory' \in Int
          /\ graph_pools' \in [MempoolIds -> PrivatePool]
          /\ stats' \in [StatName -> Int]
        BY <2>1, ReleaseBlockEffect
    <2>3. UNCHANGED <<active_blocks, eventVars, captures_underway,
                      graph_pools_freeable, holders, limitVars>>
        BY <2>1 DEF release_block
    <2>4. b.size \in Int
        BY DEF TypeOK, Block
    <2>5. LocalsOK'
        <3>1. CASE gc_release(b)
            <4>1. op \in MallocOp
                BY <3>1, MallocLocals DEF gc_release
            <4>2. op.amount - b.size \in Int
                BY <2>4, <4>1 DEF MallocOp
            <4>3. op' \in MallocOp
                BY <3>1, <4>1, <4>2, OpAmount DEF gc_release
            <4> QED BY <3>1, <4>3 DEF gc_release, LocalsOK
        <3>2. CASE release_available(b)
            <4>1. op \in MallocOp
                BY <3>2, MallocLocals DEF release_available
            <4>2. op.amount + b.size \in Int
                BY <2>4, <4>1 DEF MallocOp
            <4>3. op' \in MallocOp
                BY <3>2, <4>1, <4>2, OpAmount DEF release_available
            <4> QED BY <3>2, <4>3 DEF release_available, LocalsOK
        <3>3. CASE release_cached(b)
            BY <3>3 DEF release_cached, LocalsOK, TypeOK
        <3> QED BY <1>10, <3>1, <3>2, <3>3
    <2> QED BY <2>2, <2>3, <2>5 DEF TypeOK, eventVars, limitVars
<1>11. ASSUME NEW g \in Segments, alloc_block(g) PROVE TypeOK'
    <2> DEFINE change == [segment |-> 1, reserved_bytes |-> op.alloc_size,
                     oversize_segments |-> Indicator(op.alloc_size >= MaxSplitSize)]
               st == Changed(stats, change)
               b == NewBlock(g, 0, op.alloc_size, op.stream, op.pool)
    <2>1. op \in MallocOp
        BY <1>11, MallocLocals DEF alloc_block
    <2>2. /\ op.alloc_size \in Nat /\ op.size \in Nat /\ op.alloc_size >= op.size
          /\ op.stream \in Streams /\ op.pool \in Pools
        BY <2>1 DEF MallocOp
    <2>3. st \in [StatName -> Int]
        <3>1. \A n \in DOMAIN change : change[n] \in Int
            <4>1. Indicator(op.alloc_size >= MaxSplitSize) \in Int
                BY IndicatorType
            <4> QED BY <2>2, <4>1
        <3>2. stats \in [StatName -> Int]
            BY DEF TypeOK
        <3> HIDE DEF change
        <3> QED BY <3>1, <3>2, ChangedType
    <2>4. b \in Block /\ b.size = op.alloc_size
        BY <2>2 DEF NewBlock, Block
    <2>5. alloc_found_block(b, st)
        BY <1>11 DEF alloc_block
    <2> HIDE DEF st, b
    <2>6. /\ active_blocks' \subseteq Block /\ cached_blocks' \subseteq Block
          /\ stats' \in [StatName -> Int] /\ LocalsOK'
        BY <2>1, <2>2, <2>3, <2>4, <2>5, AllocFoundEffect
    <2>7. segments' \in [Segments -> Nat] /\ total_allocated_memory' \in Int
        BY <1>11, <2>2 DEF alloc_block, TypeOK
    <2>8. graph_pools' \in [MempoolIds -> PrivatePool]
        <3>1. CASE op.pool.id = NoPool
            BY <1>11, <3>1 DEF alloc_block, TypeOK
        <3>2. CASE op.pool.id # NoPool
            <4>1. op.pool.id \in MempoolIds
                BY <2>2, <3>2 DEF Pools
            <4>2. graph_pools[op.pool.id] \in PrivatePool
                BY <4>1 DEF TypeOK
            <4>3. [graph_pools[op.pool.id] EXCEPT !.supaMalloc_count = @ + 1] \in PrivatePool
                BY <4>2 DEF PrivatePool
            <4> QED BY <1>11, <3>2, <4>1, <4>3 DEF alloc_block, TypeOK
        <3> QED BY <3>1, <3>2
    <2>9. UNCHANGED <<eventVars, captures_underway, graph_pools_freeable, holders,
                      limitVars, kernels>>
        BY <1>11 DEF alloc_block
    <2> QED BY <2>6, <2>7, <2>8, <2>9 DEF TypeOK, eventVars, limitVars
<1>12. CASE alloc_block_fails
    <2>1. LocalsOK'
        BY <1>12, MallocLocals DEF alloc_block_fails, after_failure, LocalsOK
    <2> QED BY <1>12, <2>1, TypeStays DEF alloc_block_fails
<1>13. CASE release_available_return
    <2>1. op' \in MallocOp
        <3>1. op \in MallocOp /\ 0 \in Int
            BY <1>13, MallocLocals DEF release_available_return
        <3>2. [op EXCEPT !.attempt = 2, !.amount = 0] \in MallocOp
            BY <3>1, OpAttempt
        <3>3. [op EXCEPT !.amount = 0] \in MallocOp
            BY <3>1, OpAmount
        <3> QED BY <1>13, <3>2, <3>3 DEF release_available_return
    <2>2. LocalsOK'
        BY <1>13, <2>1 DEF release_available_return, LocalsOK
    <2> QED BY <1>13, <2>2, TypeStays DEF release_available_return
<1>14. CASE retry_release
    <2>1. op' \in MallocOp
        <3>1. op \in MallocOp /\ 0 \in Int
            BY <1>14, MallocLocals DEF retry_release
        <3> QED BY <1>14, <3>1, OpAttempt DEF retry_release
    <2>2. LocalsOK'
        BY <1>14, <2>1 DEF retry_release, enter_release, LocalsOK
    <2> QED BY <1>14, <2>2, TypeStays DEF retry_release
<1>15. CASE synchronize_return
    <2>1. LocalsOK'
        BY <1>15 DEF synchronize_return, TypeOK, LocalsOK
    <2> QED BY <1>15, <2>1, TypeStays DEF synchronize_return
<1>16. CASE release_return
    <2>1. /\ graph_pools' \in [MempoolIds -> PrivatePool]
          /\ graph_pools_freeable' \subseteq MempoolIds
        BY <1>16 DEF release_return, TypeOK, NoPrivatePool, PrivatePool
    <2>2. LocalsOK'
        BY <1>16 DEF release_return, TypeOK, LocalsOK, MallocOp, EmptyOp, NoOp
    <2>3. UNCHANGED <<memVars, eventVars, captures_underway, holders, limitVars,
                      stats, kernels>>
        BY <1>16 DEF release_return
    <2> QED BY <2>1, <2>2, <2>3 DEF TypeOK, memVars, eventVars, limitVars
<1>17. CASE throw
    <2>1. LocalsOK'
        BY <1>17 DEF throw, LocalsOK
    <2> QED BY <1>17, <2>1, TypeStays DEF throw
<1> QED
    BY <1>1, <1>2, <1>3, <1>4, <1>5, <1>6, <1>7, <1>8, <1>9, <1>10, <1>11, <1>12,
       <1>13, <1>14, <1>15, <1>16, <1>17 DEF Step

\* So does every call, the callback and the device.
LEMMA TypeCall ==
    ASSUME TypeOK, Call \/ Device \/ \E b \in active_blocks : callback_free(b)
    PROVE  TypeOK'
<1>1. ASSUME NEW b \in active_blocks, free(b) PROVE TypeOK'
    <2>1. do_free(b)
        BY <1>1 DEF free
    <2>2. UNCHANGED <<segments, total_allocated_memory, poolVars, limitVars,
                      kernels, pc, op>>
        BY <1>1 DEF free
    <2> QED BY <2>1, <2>2, DoFreeEffect DEF TypeOK, LocalsOK, poolVars, limitVars
<1>2. ASSUME NEW b \in active_blocks, callback_free(b) PROVE TypeOK'
    <2>1. do_free(b)
        BY <1>2 DEF callback_free
    <2>2. LocalsOK'
        <3>1. op \in MallocOp /\ 1 \in Int
            BY <1>2, MallocLocals DEF callback_free, MallocPhases
        <3>2. op' \in MallocOp
            BY <1>2, <3>1, OpAmount DEF callback_free
        <3> QED BY <1>2, <3>2 DEF callback_free, LocalsOK, MallocPhases
    <2>3. UNCHANGED <<segments, total_allocated_memory, poolVars, limitVars, kernels>>
        BY <1>2 DEF callback_free
    <2> QED BY <2>1, <2>2, <2>3, DoFreeEffect DEF TypeOK, poolVars, limitVars
<1>3. ASSUME NEW b \in active_blocks, NEW s \in Streams, recordStream(b, s) PROVE TypeOK'
    <2>1. b \in Block /\ active_blocks \subseteq Block
        BY DEF TypeOK
    <2>2. b.stream_uses \cup {s} \in SUBSET Streams /\ b.event_count \in Int
        BY <2>1 DEF Block
    <2>3. WithUse(b, TRUE, b.stream_uses \cup {s}, b.event_count) \in Block
        BY <2>1, <2>2, WithUseType
    <2>4. active_blocks' \subseteq Block
        BY <1>3, <2>1, <2>3 DEF recordStream
    <2>5. UNCHANGED <<segments, cached_blocks, total_allocated_memory, eventVars,
                      poolVars, limitVars, stats, kernels, pc, op>>
        BY <1>3 DEF recordStream
    <2> QED BY <2>4, <2>5 DEF TypeOK, LocalsOK, eventVars, poolVars, limitVars
<1>4. ASSUME NEW p \in MempoolIds \cup {NoPool}, emptyCache(p) PROVE TypeOK'
    <2>1. op' \in EmptyOp /\ pc' \in SharedPhases
        BY <1>4 DEF emptyCache, enter_release, EmptyOp, SharedPhases
    <2>2. LocalsOK'
        BY <2>1 DEF LocalsOK
    <2> QED BY <1>4, <2>2, TypeStays DEF emptyCache
<1>5. ASSUME NEW f \in Fractions, setMemoryFraction(f) PROVE TypeOK'
    <2>1. f \in Nat
        BY AllocatorAssumption
    <2> QED BY <1>5, <2>1 DEF setMemoryFraction, TypeOK, LocalsOK, memVars, eventVars, poolVars
<1>6. ASSUME NEW p \in MempoolIds, create_or_incref_pool(p)
      PROVE  graph_pools' \in [MempoolIds -> PrivatePool]
    <2>1. graph_pools \in [MempoolIds -> PrivatePool]
        BY DEF TypeOK
    <2>2. graph_pools' = [graph_pools EXCEPT ![p] =
                             [exists |-> TRUE, use_count |-> graph_pools[p].use_count + 1,
                              supaMalloc_count |-> graph_pools[p].supaMalloc_count]]
        BY <1>6, <2>1 DEF create_or_incref_pool, PrivatePool
    <2>3. [exists |-> TRUE, use_count |-> graph_pools[p].use_count + 1,
           supaMalloc_count |-> graph_pools[p].supaMalloc_count] \in PrivatePool
        BY <2>1 DEF PrivatePool
    <2> QED BY <2>1, <2>2, <2>3
<1>7. ASSUME NEW p \in MempoolIds, createOrIncrefPool(p) PROVE TypeOK'
    <2>1. graph_pools' \in [MempoolIds -> PrivatePool]
        BY <1>6, <1>7 DEF createOrIncrefPool
    <2>2. holders' \in [MempoolIds -> Nat]
        BY <1>7 DEF createOrIncrefPool, TypeOK
    <2>3. UNCHANGED <<memVars, eventVars, captures_underway, graph_pools_freeable,
                      limitVars, stats, kernels, pc, op>>
        BY <1>7 DEF createOrIncrefPool
    <2> QED BY <2>1, <2>2, <2>3 DEF TypeOK, LocalsOK, memVars, eventVars, limitVars
<1>8. ASSUME NEW p \in MempoolIds, NEW f \in SUBSET Streams, beginAllocateToPool(p, f)
      PROVE  TypeOK'
    <2>1. graph_pools' \in [MempoolIds -> PrivatePool]
        BY <1>6, <1>8 DEF beginAllocateToPool
    <2>2. holders' \in [MempoolIds -> Nat]
        <3>1. holders \in [MempoolIds -> Nat]
            BY DEF TypeOK
        <3>2. [holders EXCEPT ![p] = @ + 1] \in [MempoolIds -> Nat]
            BY <3>1
        <3> QED BY <1>8, <3>1, <3>2 DEF beginAllocateToPool
    <2>3. captures_underway' \in Seq(Capture)
        <3>1. [id |-> p, filter |-> f] \in Capture /\ captures_underway \in Seq(Capture)
            BY DEF Capture, TypeOK
        <3>2. Append(captures_underway, [id |-> p, filter |-> f]) \in Seq(Capture)
            BY <3>1
        <3> QED BY <1>8, <3>1, <3>2 DEF beginAllocateToPool
    <2>4. UNCHANGED <<memVars, eventVars, graph_pools_freeable, limitVars, stats,
                      kernels, pc, op>>
        BY <1>8 DEF beginAllocateToPool
    <2> QED BY <2>1, <2>2, <2>3, <2>4 DEF TypeOK, LocalsOK, memVars, eventVars, limitVars
<1>9. ASSUME NEW p \in MempoolIds, endAllocateToPool(p) PROVE TypeOK'
    <2>1. captures_underway \in Seq(Capture)
        BY DEF TypeOK
    <2>2. PICK i \in DOMAIN captures_underway :
             captures_underway' = Erase(captures_underway, i)
        BY <1>9 DEF endAllocateToPool
    <2>3. i \in 1 .. Len(captures_underway)
        BY <2>1, <2>2
    <2>4. captures_underway' \in Seq(Capture)
        BY <2>1, <2>2, <2>3, EraseType
    <2>5. UNCHANGED <<memVars, eventVars, graph_pools, graph_pools_freeable,
                      holders, limitVars, stats, kernels, pc, op>>
        BY <1>9 DEF endAllocateToPool
    <2> QED BY <2>4, <2>5 DEF TypeOK, LocalsOK, memVars, eventVars, limitVars
<1>10. ASSUME NEW p \in MempoolIds, releasePool(p) PROVE TypeOK'
    <2>1. graph_pools' \in [MempoolIds -> PrivatePool]
        <3>1. graph_pools \in [MempoolIds -> PrivatePool]
            BY DEF TypeOK
        <3>2. [graph_pools[p] EXCEPT !.use_count = @ - 1] \in PrivatePool
            BY <3>1 DEF PrivatePool
        <3> QED BY <1>10, <3>1, <3>2 DEF releasePool
    <2>2. holders' \in [MempoolIds -> Nat]
        <3>1. holders \in [MempoolIds -> Nat]
            BY DEF TypeOK
        <3>2. holders[p] - 1 \in Nat
            BY <1>10, <3>1 DEF releasePool, Indicator
        <3> QED BY <1>10, <3>1, <3>2 DEF releasePool
    <2>3. graph_pools_freeable' \subseteq MempoolIds
        BY <1>10 DEF releasePool, TypeOK
    <2>4. UNCHANGED <<memVars, eventVars, captures_underway, limitVars, stats,
                      kernels, pc, op>>
        BY <1>10 DEF releasePool
    <2> QED BY <2>1, <2>2, <2>3, <2>4 DEF TypeOK, LocalsOK, memVars, eventVars, limitVars
<1>11. ASSUME NEW b \in active_blocks, NEW s \in Streams, launch(b, s) PROVE TypeOK'
    <2>1. [stream |-> s, seg |-> b.seg, off |-> b.off, size |-> b.size] \in Kernel
        BY DEF Kernel, Block, TypeOK
    <2>2. kernels' \subseteq Kernel
        BY <1>11, <2>1 DEF launch, TypeOK
    <2>3. UNCHANGED <<memVars, eventVars, poolVars, limitVars, stats, pc, op>>
        BY <1>11 DEF launch
    <2> QED BY <2>2, <2>3 DEF TypeOK, LocalsOK, memVars, eventVars, poolVars, limitVars
<1>12. ASSUME NEW k \in kernels, retire(k) PROVE TypeOK'
    BY <1>12 DEF retire, TypeOK, LocalsOK, memVars, eventVars, poolVars, limitVars
<1>13. CASE Call
    BY <1>1, <1>3, <1>4, <1>5, <1>7, <1>8, <1>9, <1>10, <1>13, MallocType DEF Call
<1> QED
    BY <1>2, <1>11, <1>12, <1>13 DEF Device

\* No step of the allocator, its callers or the device leaves the types.
LEMMA TypeNext == TypeOK /\ [Next]_vars => TypeOK'
<1> SUFFICES ASSUME TypeOK, [Next]_vars PROVE TypeOK'
    OBVIOUS
<1>1. CASE UNCHANGED vars
    BY <1>1 DEF vars, TypeOK, LocalsOK, memVars, eventVars, poolVars, limitVars
<1>2. CASE Next
    BY <1>2, TypeStep, TypeCall DEF Next
<1> QED
    BY <1>1, <1>2

\* In every reachable state every variable of DeviceCachingAllocator has its
\* type and the mutex holder has the locals of its method.
THEOREM TypeCorrect == Spec => []TypeOK
    BY TypeInit, TypeNext, PTL DEF Spec

-----------------------------------------------------------------------------
(* The geometry of the blocks B of segments with sizes sz: the parts of    *)
(* SafetyInv that only look at where the blocks are and whose they are.    *)

Within(B, sz) == \A b \in B : b.size > 0 /\ b.off + b.size <= sz[b.seg]

Apart(B) == \A b, c \in B : b # c => ~Overlap(b, c)

Covered(B, sz) ==
    \A g \in Segments : \A u \in 0 .. (sz[g] - 1) :
        \E b \in B : b.seg = g /\ b.off <= u /\ u < b.off + b.size

Owned(B) == \A b, c \in B : b.seg = c.seg => b.stream = c.stream /\ b.pool = c.pool

Shape(b, size) ==
    /\ b.pool.small => size < MaxSplitSize
    /\ ~b.pool.small => b.size > kSmallSize
    /\ b.size < size => size <= MaxSplitSize + kSmallSize

Geometry(B, sz) ==
    /\ Within(B, sz) /\ Apart(B) /\ Covered(B, sz) /\ Owned(B)
    /\ \A b \in B : Shape(b, sz[b.seg])

SameRange(b, c) ==
    b.seg = c.seg /\ b.off = c.off /\ b.size = c.size /\ b.stream = c.stream
    /\ b.pool = c.pool

\* Two different blocks of a good geometry do not start at the same place.
LEMMA OneBlockPerPlace ==
    ASSUME NEW B \in SUBSET Block, NEW sz \in [Segments -> Nat], Geometry(B, sz),
           NEW b \in B, NEW c \in B, RefOf(b) = RefOf(c)
    PROVE  b = c
<1>1. b \in Block /\ c \in Block /\ b.seg = c.seg /\ b.off = c.off
    BY DEF RefOf
<1>2. b.size > 0 /\ c.size > 0
    BY DEF Geometry, Within
<1>3. Overlap(b, c)
    BY <1>1, <1>2 DEF Overlap, Block
<1> QED
    BY <1>3 DEF Geometry, Apart

\* A block whose state of use changes stays where it is.
LEMMA GeometryUse ==
    ASSUME NEW B \in SUBSET Block, NEW sz \in [Segments -> Nat], Geometry(B, sz),
           NEW b \in B, NEW c \in Block, SameRange(b, c)
    PROVE  Geometry((B \ {b}) \cup {c}, sz)
<1> DEFINE D == (B \ {b}) \cup {c}
<1>1. Within(D, sz)
    BY DEF Geometry, Within, SameRange
<1>2. Apart(D)
    BY DEF Geometry, Apart, SameRange, Overlap
<1>3. Covered(D, sz)
    <2> SUFFICES ASSUME NEW g \in Segments, NEW u \in 0 .. (sz[g] - 1)
                 PROVE  \E d \in D : d.seg = g /\ d.off <= u /\ u < d.off + d.size
        BY DEF Covered
    <2>1. PICK d \in B : d.seg = g /\ d.off <= u /\ u < d.off + d.size
        BY DEF Geometry, Covered
    <2> QED
        BY <2>1 DEF SameRange
<1>4. Owned(D)
    BY DEF Geometry, Owned, SameRange
<1>5. \A d \in D : Shape(d, sz[d.seg])
    BY DEF Geometry, Shape, SameRange
<1> QED
    BY <1>1, <1>2, <1>3, <1>4, <1>5 DEF Geometry

\* Two adjacent blocks become one.
LEMMA GeometryJoin ==
    ASSUME NEW B \in SUBSET Block, NEW sz \in [Segments -> Nat], Geometry(B, sz),
           NEW x \in B, NEW y \in B, x.seg = y.seg, x.off + x.size = y.off,
           NEW m \in Block, m.seg = x.seg, m.off = x.off, m.size = x.size + y.size,
           m.stream = x.stream, m.pool = x.pool
    PROVE  Geometry((B \ {x, y}) \cup {m}, sz)
<1> DEFINE D == (B \ {x, y}) \cup {m}
<1>0. /\ x \in Block /\ y \in Block /\ x.size > 0 /\ y.size > 0
      /\ x.size \in Nat /\ y.size \in Nat /\ x.off \in Nat /\ y.off \in Nat
      /\ x.seg \in Segments /\ sz[x.seg] \in Nat
    BY DEF Geometry, Within, Block
<1>1. Within(D, sz)
    BY <1>0 DEF Geometry, Within
<1>2. \A d \in B : d # x /\ d # y => ~Overlap(d, m) /\ ~Overlap(m, d)
    <2> SUFFICES ASSUME NEW d \in B, d # x, d # y
                 PROVE  ~Overlap(d, m) /\ ~Overlap(m, d)
        OBVIOUS
    <2>1. /\ ~Overlap(d, x) /\ ~Overlap(d, y) /\ d.size > 0
          /\ d.off \in Nat /\ d.size \in Nat
        BY DEF Geometry, Apart, Within, Block
    <2> QED
        BY <1>0, <2>1 DEF Overlap
<1>3. Apart(D)
    BY <1>2 DEF Geometry, Apart
<1>4. Covered(D, sz)
    <2> SUFFICES ASSUME NEW g \in Segments, NEW u \in 0 .. (sz[g] - 1)
                 PROVE  \E d \in D : d.seg = g /\ d.off <= u /\ u < d.off + d.size
        BY DEF Covered
    <2>1. PICK d \in B : d.seg = g /\ d.off <= u /\ u < d.off + d.size
        BY DEF Geometry, Covered
    <2>2. u \in Int
        OBVIOUS
    <2>3. CASE d = x
        BY <1>0, <2>1, <2>2, <2>3
    <2>4. CASE d = y
        BY <1>0, <2>1, <2>2, <2>4
    <2> QED
        BY <2>1, <2>3, <2>4
<1>5. Owned(D)
    BY <1>0 DEF Geometry, Owned
<1>6. Shape(m, sz[m.seg])
    <2>1. Shape(x, sz[x.seg])
        BY DEF Geometry
    <2>2. kSmallSize \in Nat
        BY SizeAssumption
    <2> QED
        BY <1>0, <2>1, <2>2 DEF Shape
<1> QED
    BY <1>1, <1>3, <1>4, <1>5, <1>6 DEF Geometry

\* A block becomes two.
LEMMA GeometrySplit ==
    ASSUME NEW B \in SUBSET Block, NEW sz \in [Segments -> Nat], Geometry(B, sz),
           NEW b \in B, NEW t \in Block, NEW r \in Block,
           t.seg = b.seg, t.off = b.off, t.stream = b.stream, t.pool = b.pool,
           r.seg = b.seg, r.off = b.off + t.size, r.stream = b.stream,
           r.pool = b.pool, t.size > 0, r.size > 0, t.size + r.size = b.size,
           ~b.pool.small => t.size > kSmallSize /\ r.size > kSmallSize,
           sz[b.seg] <= MaxSplitSize + kSmallSize
    PROVE  Geometry((B \ {b}) \cup {t, r}, sz)
<1> DEFINE D == (B \ {b}) \cup {t, r}
<1>0. /\ b \in Block /\ b.size \in Nat /\ b.off \in Nat /\ b.seg \in Segments
      /\ t.size \in Nat /\ r.size \in Nat /\ sz[b.seg] \in Nat
      /\ b.off + b.size <= sz[b.seg]
    BY DEF Geometry, Within, Block
<1>1. Within(D, sz)
    BY <1>0 DEF Geometry, Within
<1>2. \A d \in B : d # b => /\ ~Overlap(d, t) /\ ~Overlap(t, d)
                            /\ ~Overlap(d, r) /\ ~Overlap(r, d)
    <2> SUFFICES ASSUME NEW d \in B, d # b
                 PROVE  /\ ~Overlap(d, t) /\ ~Overlap(t, d)
                        /\ ~Overlap(d, r) /\ ~Overlap(r, d)
        OBVIOUS
    <2>1. ~Overlap(d, b) /\ d.off \in Nat /\ d.size \in Nat
        BY DEF Geometry, Apart, Block
    <2> QED
        BY <1>0, <2>1 DEF Overlap
<1>3. ~Overlap(t, r) /\ ~Overlap(r, t)
    BY <1>0 DEF Overlap
<1>4. Apart(D)
    BY <1>2, <1>3 DEF Geometry, Apart
<1>5. Covered(D, sz)
    <2> SUFFICES ASSUME NEW g \in Segments, NEW u \in 0 .. (sz[g] - 1)
                 PROVE  \E d \in D : d.seg = g /\ d.off <= u /\ u < d.off + d.size
        BY DEF Covered
    <2>1. PICK d \in B : d.seg = g /\ d.off <= u /\ u < d.off + d.size
        BY DEF Geometry, Covered
    <2>2. u \in Int
        OBVIOUS
    <2>3. CASE d = b
        BY <1>0, <2>1, <2>2, <2>3
    <2> QED
        BY <2>1, <2>3
<1>6. Owned(D)
    BY <1>0 DEF Geometry, Owned
<1>7. Shape(t, sz[t.seg]) /\ Shape(r, sz[r.seg])
    <2>1. Shape(b, sz[b.seg])
        BY DEF Geometry
    <2> QED
        BY <2>1 DEF Shape
<1> QED
    BY <1>1, <1>4, <1>5, <1>6, <1>7 DEF Geometry

\* b is cut into t, which comes first, and r.
CutsInto(b, t, r) ==
    /\ t.seg = b.seg /\ t.off = b.off /\ t.stream = b.stream /\ t.pool = b.pool
    /\ r.seg = b.seg /\ r.off = b.off + t.size /\ r.stream = b.stream
    /\ r.pool = b.pool /\ t.size > 0 /\ r.size > 0 /\ t.size + r.size = b.size

\* The driver hands out a segment, which is one block.
LEMMA GeometryNew ==
    ASSUME NEW B \in SUBSET Block, NEW sz \in [Segments -> Nat], Geometry(B, sz),
           NEW n \in Block, sz[n.seg] = 0, n.off = 0, n.size > 0, Shape(n, n.size)
    PROVE  /\ Geometry(B \cup {n}, [sz EXCEPT ![n.seg] = n.size])
           /\ \A b \in B : b.seg # n.seg
<1> DEFINE D == B \cup {n}
           tz == [sz EXCEPT ![n.seg] = n.size]
<1>0. n.seg \in Segments /\ n.size \in Nat
    BY DEF Block
<1>1. \A b \in B : b.seg # n.seg
    <2> SUFFICES ASSUME NEW b \in B, b.seg = n.seg PROVE FALSE
        OBVIOUS
    <2>1. b.size > 0 /\ b.off + b.size <= 0 /\ b.size \in Nat /\ b.off \in Nat
        BY DEF Geometry, Within, Block
    <2> QED
        BY <2>1
<1>2. tz \in [Segments -> Nat] /\ tz[n.seg] = n.size
      /\ \A g \in Segments : g # n.seg => tz[g] = sz[g]
    BY <1>0
<1> HIDE DEF tz
<1>3. \A b \in B : b.seg \in Segments /\ tz[b.seg] = sz[b.seg]
    BY <1>1, <1>2 DEF Block
<1>4. Within(D, tz)
    BY <1>0, <1>2, <1>3 DEF Geometry, Within
<1>5. Apart(D)
    BY <1>1 DEF Geometry, Apart, Overlap
<1>6. Covered(D, tz)
    <2> SUFFICES ASSUME NEW g \in Segments, NEW u \in 0 .. (tz[g] - 1)
                 PROVE  \E d \in D : d.seg = g /\ d.off <= u /\ u < d.off + d.size
        BY DEF Covered
    <2>1. CASE g = n.seg
        BY <1>0, <1>2, <2>1
    <2>2. CASE g # n.seg
        <3>1. u \in 0 .. (sz[g] - 1)
            BY <1>2, <2>2
        <3> QED BY <3>1 DEF Geometry, Covered
    <2> QED
        BY <2>1, <2>2
<1>7. Owned(D)
    BY <1>1 DEF Geometry, Owned
<1>8. \A d \in D : Shape(d, tz[d.seg])
    BY <1>2, <1>3 DEF Geometry
<1> QED
    BY <1>1, <1>4, <1>5, <1>6, <1>7, <1>8 DEF Geometry, tz

\* The only block of a segment goes, and the segment with it.
LEMMA GeometryRelease ==
    ASSUME NEW B \in SUBSET Block, NEW sz \in [Segments -> Nat], Geometry(B, sz),
           NEW b \in B, \A c \in B : c.seg = b.seg => c = b
    PROVE  Geometry(B \ {b}, [sz EXCEPT ![b.seg] = 0])
<1> DEFINE D == B \ {b}
           tz == [sz EXCEPT ![b.seg] = 0]
<1>0. b.seg \in Segments
    BY DEF Block
<1>1. tz[b.seg] = 0 /\ \A g \in Segments : g # b.seg => tz[g] = sz[g]
    BY <1>0
<1> HIDE DEF tz
<1>2. \A d \in D : d \in B /\ d.seg \in Segments /\ d.seg # b.seg /\ tz[d.seg] = sz[d.seg]
    BY <1>1 DEF Block
<1>3. Within(D, tz) /\ \A d \in D : Shape(d, tz[d.seg])
    BY <1>2 DEF Geometry, Within
<1>4. Apart(D) /\ Owned(D)
    BY DEF Geometry, Apart, Owned
<1>5. Covered(D, tz)
    <2> SUFFICES ASSUME NEW g \in Segments, NEW u \in 0 .. (tz[g] - 1)
                 PROVE  \E d \in D : d.seg = g /\ d.off <= u /\ u < d.off + d.size
        BY DEF Covered
    <2>1. g # b.seg
        <3> SUFFICES ASSUME g = b.seg PROVE FALSE
            OBVIOUS
        <3>1. u \in 0 .. (0 - 1)
            BY <1>1
        <3> QED BY <3>1
    <2>2. u \in 0 .. (sz[g] - 1)
        BY <1>1, <2>1
    <2>3. PICK d \in B : d.seg = g /\ d.off <= u /\ u < d.off + d.size
        BY <2>2 DEF Geometry, Covered
    <2> QED
        BY <2>1, <2>3
<1> QED
    BY <1>3, <1>4, <1>5 DEF Geometry, tz

\* A block without neighbours is alone in its segment.
LEMMA UnsplitAlone ==
    ASSUME NEW B \in SUBSET Block, NEW sz \in [Segments -> Nat], Geometry(B, sz),
           NEW b \in B, NEW c \in B, c.seg = b.seg,
           ~ \E x \in B : x.seg = b.seg /\ x.off + x.size = b.off,
           ~ \E x \in B : x.seg = b.seg /\ b.off + b.size = x.off
    PROVE  c = b
<1>1. /\ b \in Block /\ b.size \in Nat /\ b.off \in Nat /\ b.seg \in Segments
      /\ c.size \in Nat /\ c.off \in Nat /\ sz[b.seg] \in Nat
      /\ b.size > 0 /\ c.size > 0
      /\ b.off + b.size <= sz[b.seg] /\ c.off + c.size <= sz[b.seg]
    BY DEF Geometry, Within, Block
<1>2. b.off = 0
    <2> SUFFICES ASSUME b.off # 0 PROVE FALSE
        OBVIOUS
    <2>1. b.off - 1 \in 0 .. (sz[b.seg] - 1)
        BY <1>1
    <2>2. PICK d \in B : d.seg = b.seg /\ d.off <= b.off - 1 /\ b.off - 1 < d.off + d.size
        BY <1>1, <2>1 DEF Geometry, Covered
    <2>3. d.off \in Nat /\ d.size \in Nat /\ d # b
        BY <1>1, <2>2 DEF Block
    <2>4. ~Overlap(d, b)
        BY <2>3 DEF Geometry, Apart
    <2>5. d.off + d.size = b.off
        BY <1>1, <2>2, <2>3, <2>4 DEF Overlap
    <2> QED
        BY <2>2, <2>5
<1>3. b.size = sz[b.seg]
    <2> SUFFICES ASSUME b.size # sz[b.seg] PROVE FALSE
        OBVIOUS
    <2>1. b.size \in 0 .. (sz[b.seg] - 1)
        BY <1>1, <1>2
    <2>2. PICK d \in B : d.seg = b.seg /\ d.off <= b.size /\ b.size < d.off + d.size
        BY <1>1, <2>1 DEF Geometry, Covered
    <2>3. d.off \in Nat /\ d.size \in Nat /\ d # b
        BY <1>1, <1>2, <2>2 DEF Block
    <2>4. ~Overlap(d, b)
        BY <2>3 DEF Geometry, Apart
    <2>5. b.off + b.size = d.off
        BY <1>1, <1>2, <2>2, <2>3, <2>4 DEF Overlap
    <2> QED
        BY <2>2, <2>5
<1>4. Overlap(c, b)
    BY <1>1, <1>2, <1>3 DEF Overlap
<1> QED
    BY <1>4 DEF Geometry, Apart

\* So is an oversize block, split or not.
LEMMA OversizeAlone ==
    ASSUME NEW B \in SUBSET Block, NEW sz \in [Segments -> Nat], Geometry(B, sz),
           NEW b \in B, NEW c \in B, c.seg = b.seg, b.size >= MaxSplitSize
    PROVE  c = b
<1> SUFFICES ASSUME c # b PROVE FALSE
    OBVIOUS
<1>1. /\ b \in Block /\ b.size \in Nat /\ b.off \in Nat /\ b.seg \in Segments
      /\ c.size \in Nat /\ c.off \in Nat /\ sz[b.seg] \in Nat
      /\ b.size > 0 /\ c.size > 0
      /\ b.off + b.size <= sz[b.seg] /\ c.off + c.size <= sz[b.seg]
    BY DEF Geometry, Within, Block
<1>2. ~Overlap(b, c)
    BY DEF Geometry, Apart
<1>3. b.size + c.size <= sz[b.seg]
    BY <1>1, <1>2 DEF Overlap
<1>4. Shape(b, sz[b.seg]) /\ Shape(c, sz[b.seg]) /\ c.pool = b.pool
    BY DEF Geometry, Owned
<1>5. MaxSplitSize \in Nat /\ kSmallSize \in Nat
    BY SizeAssumption
<1>6. ~b.pool.small
    BY <1>1, <1>4, <1>5 DEF Shape
<1> QED
    BY <1>1, <1>3, <1>4, <1>5, <1>6 DEF Shape

\* Blocks at the same place overlap.
LEMMA SamePlace ==
    ASSUME NEW b \in Block, NEW c \in Block, b.seg = c.seg, b.off = c.off,
           b.size > 0, c.size > 0
    PROVE  Overlap(b, c)
    BY DEF Overlap, Block

\* m is b with the block of X, if any, that ends where b starts.
ExtendsBefore(b, X, m) ==
    /\ \A x \in X : x.seg = b.seg /\ x.off + x.size = b.off
    /\ m.seg = b.seg /\ m.stream = b.stream /\ m.pool = b.pool
    /\ (X = {} /\ m.off = b.off) \/ (\E x \in X : m.off = x.off)
    /\ m.size = b.off + b.size - m.off

\* m is b with the block of Y, if any, that starts where b ends.
ExtendsAfter(b, Y, m) ==
    /\ \A y \in Y : y.seg = b.seg /\ b.off + b.size = y.off
    /\ m.seg = b.seg /\ m.stream = b.stream /\ m.pool = b.pool /\ m.off = b.off
    /\ (Y = {} /\ m.size = b.size) \/ (\E y \in Y : m.size = b.size + y.size)

\* m is b with both neighbours.
ExtendsBoth(b, X, Y, m) ==
    /\ \A x \in X : x.seg = b.seg /\ x.off + x.size = b.off
    /\ \A y \in Y : y.seg = b.seg /\ b.off + b.size = y.off
    /\ m.seg = b.seg /\ m.stream = b.stream /\ m.pool = b.pool
    /\ (X = {} /\ m.off = b.off) \/ (\E x \in X : m.off = x.off)
    /\ \/ Y = {} /\ m.size = b.off + b.size - m.off
       \/ \E y \in Y : m.size = b.off + b.size + y.size - m.off

\* What touches m touches a block of D.
MadeOf(m, D) ==
    \A k \in Kernel : k.size > 0 /\ Overlap(k, m) => \E d \in D : Overlap(k, d)

\* A block b absorbs the block, if any, that ends where b starts.
LEMMA GeometryMergeBefore ==
    ASSUME NEW B \in SUBSET Block, NEW sz \in [Segments -> Nat], Geometry(B, sz),
           NEW b \in B, NEW X \in SUBSET B, NEW m \in Block, ExtendsBefore(b, X, m)
    PROVE  /\ Geometry((B \ ({b} \cup X)) \cup {m}, sz)
           /\ m \in B => m = b
           /\ MadeOf(m, {b} \cup X)
<1> USE DEF ExtendsBefore
<1>0. /\ b \in Block /\ b.off \in Nat /\ b.size \in Nat /\ b.size > 0
      /\ m.off \in Nat /\ m.size \in Nat
    BY DEF Geometry, Within, Block
<1>1. CASE X = {}
    <2>1. m.off = b.off /\ m.size = b.size
        BY <1>0, <1>1
    <2>2. Geometry((B \ {b}) \cup {m}, sz)
        BY <2>1, GeometryUse DEF SameRange
    <2>3. (B \ ({b} \cup X)) \cup {m} = (B \ {b}) \cup {m}
        BY <1>1
    <2>4. Overlap(m, b)
        BY <1>0, <2>1, SamePlace
    <2>5. m \in B => m = b
        BY <2>4 DEF Geometry, Apart
    <2>6. \A k \in Kernel : Overlap(k, m) => Overlap(k, b)
        BY <2>1 DEF Overlap
    <2> QED
        BY <2>2, <2>3, <2>5, <2>6 DEF MadeOf
<1>2. CASE X # {}
    <2>1. PICK x \in X : m.off = x.off
        BY <1>2
    <2>2. /\ x \in B /\ x \in Block /\ x.seg = b.seg /\ x.off + x.size = b.off
          /\ x.off \in Nat /\ x.size \in Nat /\ x.size > 0
        BY <2>1 DEF Geometry, Within, Block
    <2>3. m.off = x.off /\ m.size = x.size + b.size
        BY <1>0, <1>2, <2>1, <2>2
    <2>4. x.stream = b.stream /\ x.pool = b.pool
        BY <2>2 DEF Geometry, Owned
    <2>5. ASSUME NEW y \in X PROVE y = x
        <3>1. /\ y \in B /\ y.seg = b.seg /\ y.off + y.size = b.off
              /\ y.off \in Nat /\ y.size \in Nat /\ y.size > 0
            BY DEF Geometry, Within, Block
        <3>2. Overlap(y, x)
            BY <1>0, <2>2, <3>1 DEF Overlap
        <3> QED BY <2>2, <3>1, <3>2 DEF Geometry, Apart
    <2>6. Geometry((B \ {x, b}) \cup {m}, sz)
        BY <2>2, <2>3, <2>4, GeometryJoin
    <2>7. (B \ ({b} \cup X)) \cup {m} = (B \ {x, b}) \cup {m}
        BY <2>5
    <2>8. Overlap(m, b)
        BY <1>0, <2>2, <2>3 DEF Overlap
    <2>9. m \in B => m = b
        BY <2>8 DEF Geometry, Apart
    <2>10. \A k \in Kernel : k.size > 0 /\ Overlap(k, m) =>
              Overlap(k, b) \/ Overlap(k, x)
        BY <1>0, <2>2, <2>3 DEF Overlap, Kernel
    <2> QED
        BY <2>1, <2>6, <2>7, <2>9, <2>10 DEF MadeOf
<1> QED
    BY <1>1, <1>2

\* ... and the block that starts where b ends.
LEMMA GeometryMergeAfter ==
    ASSUME NEW B \in SUBSET Block, NEW sz \in [Segments -> Nat], Geometry(B, sz),
           NEW b \in B, NEW Y \in SUBSET B, NEW m \in Block, ExtendsAfter(b, Y, m)
    PROVE  /\ Geometry((B \ ({b} \cup Y)) \cup {m}, sz)
           /\ m \in B => m = b
           /\ MadeOf(m, {b} \cup Y)
<1> USE DEF ExtendsAfter
<1>0. /\ b \in Block /\ b.off \in Nat /\ b.size \in Nat /\ b.size > 0
      /\ m.off \in Nat /\ m.size \in Nat
    BY DEF Geometry, Within, Block
<1>1. CASE Y = {}
    <2>1. m.off = b.off /\ m.size = b.size
        BY <1>0, <1>1
    <2>2. Geometry((B \ {b}) \cup {m}, sz)
        BY <2>1, GeometryUse DEF SameRange
    <2>3. (B \ ({b} \cup Y)) \cup {m} = (B \ {b}) \cup {m}
        BY <1>1
    <2>4. Overlap(m, b)
        BY <1>0, <2>1 DEF Overlap
    <2>5. m \in B => m = b
        BY <2>4 DEF Geometry, Apart
    <2>6. \A k \in Kernel : Overlap(k, m) => Overlap(k, b)
        BY <2>1 DEF Overlap
    <2> QED
        BY <2>2, <2>3, <2>5, <2>6 DEF MadeOf
<1>2. CASE Y # {}
    <2>1. PICK y \in Y : m.size = b.size + y.size
        BY <1>2
    <2>2. /\ y \in B /\ y \in Block /\ y.seg = b.seg /\ b.off + b.size = y.off
          /\ y.off \in Nat /\ y.size \in Nat /\ y.size > 0
        BY <2>1 DEF Geometry, Within, Block
    <2>3. m.off = b.off /\ m.size = b.size + y.size
        BY <1>0, <1>2, <2>1, <2>2
    <2>5. ASSUME NEW z \in Y PROVE z = y
        <3>1. /\ z \in B /\ z.seg = b.seg /\ b.off + b.size = z.off
              /\ z.off \in Nat /\ z.size \in Nat /\ z.size > 0
            BY DEF Geometry, Within, Block
        <3>2. Overlap(z, y)
            BY <1>0, <2>2, <3>1 DEF Overlap
        <3> QED BY <2>2, <3>1, <3>2 DEF Geometry, Apart
    <2>6. Geometry((B \ {b, y}) \cup {m}, sz)
        BY <2>2, <2>3, GeometryJoin
    <2>7. (B \ ({b} \cup Y)) \cup {m} = (B \ {b, y}) \cup {m}
        BY <2>5
    <2>8. Overlap(m, b)
        BY <1>0, <2>2, <2>3 DEF Overlap
    <2>9. m \in B => m = b
        BY <2>8 DEF Geometry, Apart
    <2>10. \A k \in Kernel : k.size > 0 /\ Overlap(k, m) =>
              Overlap(k, b) \/ Overlap(k, y)
        BY <1>0, <2>2, <2>3 DEF Overlap, Kernel
    <2> QED
        BY <2>1, <2>6, <2>7, <2>9, <2>10 DEF MadeOf
<1> QED
    BY <1>1, <1>2

\* A block absorbs its neighbours X and Y, if any, on both sides.
LEMMA GeometryMerge ==
    ASSUME NEW B \in SUBSET Block, NEW sz \in [Segments -> Nat], Geometry(B, sz),
           NEW b \in B, NEW X \in SUBSET B, NEW Y \in SUBSET B, NEW m \in Block,
           ExtendsBoth(b, X, Y, m)
    PROVE  /\ Geometry((B \ ({b} \cup X \cup Y)) \cup {m}, sz)
           /\ m \in B => m \in {b} \cup X \cup Y
           /\ MadeOf(m, {b} \cup X \cup Y)
<1> DEFINE size == b.off + b.size - m.off
<1>1. b \in Block /\ b.off \in Nat /\ b.size \in Nat /\ b.size > 0
      /\ m.size \in Nat /\ m.off \in Nat
    BY DEF Block, Geometry, Within
<1>2. m.off <= b.off
    <2>1. CASE X # {}
        <3>1. PICK x \in X : m.off = x.off
            BY <2>1 DEF ExtendsBoth
        <3>2. x.off \in Nat /\ x.size \in Nat /\ x.off + x.size = b.off
            BY <3>1 DEF Block, ExtendsBoth
        <3> QED BY <1>1, <3>1, <3>2
    <2> QED BY <1>1, <2>1 DEF ExtendsBoth
<1>3. size \in Nat
    BY <1>1, <1>2
<1>4. (Y = {} /\ m.size = size) \/ (\E y \in Y : m.size = size + y.size)
    BY <1>1, <1>2 DEF ExtendsBoth, Block
<1> HIDE DEF size
<1> DEFINE n == NewBlock(b.seg, m.off, size, b.stream, b.pool)
<1>5. /\ n \in Block /\ n.seg = b.seg /\ n.stream = b.stream /\ n.pool = b.pool
      /\ n.off = m.off /\ n.size = size
    BY <1>1, <1>3 DEF NewBlock, Block
<1> HIDE DEF n
<1> DEFINE D == (B \ ({b} \cup X)) \cup {n}
<1>6. ExtendsBefore(b, X, n)
    BY <1>5 DEF ExtendsBefore, ExtendsBoth, size
<1>7. Geometry(D, sz) /\ (n \in B => n = b) /\ MadeOf(n, {b} \cup X)
    BY <1>5, <1>6, GeometryMergeBefore
<1>8. n.off + n.size = b.off + b.size
    BY <1>1, <1>5 DEF size
<1>9. ASSUME NEW y \in Y PROVE y \in D /\ y.seg = n.seg /\ n.off + n.size = y.off
    <2>1. y.off = b.off + b.size /\ y.seg = b.seg /\ y \in B /\ y \in Block
        BY DEF ExtendsBoth
    <2>2. y # b
        BY <1>1, <2>1
    <2>3. y \notin X
        <3> SUFFICES ASSUME y \in X PROVE FALSE
            OBVIOUS
        <3>1. y.off + y.size = b.off /\ y.off \in Nat /\ y.size \in Nat
            BY <2>1 DEF Block, ExtendsBoth
        <3> QED BY <1>1, <2>1, <3>1
    <2> QED BY <1>5, <1>8, <2>1, <2>2, <2>3
<1>10. ExtendsAfter(n, Y, m)
    BY <1>4, <1>5, <1>9 DEF ExtendsAfter, ExtendsBoth
<1>11. D \in SUBSET Block /\ n \in D /\ Y \in SUBSET D
    BY <1>5, <1>9
<1>12. /\ Geometry((D \ ({n} \cup Y)) \cup {m}, sz) /\ (m \in D => m = n)
       /\ MadeOf(m, {n} \cup Y)
    <2> HIDE DEF D
    <2> QED BY <1>5, <1>7, <1>10, <1>11, GeometryMergeAfter
<1>13. (D \ ({n} \cup Y)) \cup {m} = (B \ ({b} \cup X \cup Y)) \cup {m}
    BY <1>7
<1>14. m \in B => m \in {b} \cup X \cup Y
    BY <1>7, <1>12
<1>15. MadeOf(m, {b} \cup X \cup Y)
    BY <1>7, <1>12 DEF MadeOf
<1> QED
    BY <1>12, <1>13, <1>14, <1>15

-----------------------------------------------------------------------------
(* The accounts of end-of-life events: W[s] is the set of blocks with an   *)
(* event on stream s, Q the set of deferred blocks.                        *)

Entries(q) == {q[i] : i \in DOMAIN q}

Queued(E) == [s \in Streams |-> Entries(E[s])]

Freed(A, r) == \E b \in A : RefOf(b) = r /\ ~b.allocated

Accounts(A, W, Q) ==
    /\ \A s \in Streams : \A r \in W[s] : Freed(A, r)
    /\ \A r \in Q : Freed(A, r)
    /\ \A b \in A : b.event_count = Cardinality({s \in Streams : RefOf(b) \in W[s]})
    /\ \A b \in A : ~b.allocated =>
          IF RefOf(b) \in Q THEN b.stream_uses # {} /\ b.event_count = 0
                            ELSE b.stream_uses = {} /\ b.event_count > 0

\* V is W with r added for the streams of U, or taken out for stream s.
Added(W, V, U, r) ==
    \A s \in Streams : V[s] = IF s \in U THEN W[s] \cup {r} ELSE W[s]

Dropped(W, V, s, r) ==
    \A t \in Streams : V[t] = IF t = s THEN W[t] \ {r} ELSE W[t]

Distinct(A) == \A b, c \in A : RefOf(b) = RefOf(c) => b = c

\* Nothing changes for the freed blocks, and allocated blocks have no events.
LEMMA AccountsKept ==
    ASSUME NEW A, NEW B, NEW W, NEW Q, Accounts(A, W, Q), Distinct(B),
           \A b \in A : ~b.allocated => b \in B,
           \A b \in B : ~b.allocated => b \in A,
           \A b \in B : b.allocated => b.event_count = 0
    PROVE  Accounts(B, W, Q)
<1>1. \A r : Freed(A, r) => Freed(B, r)
    BY DEF Freed
<1>2. ASSUME NEW b \in B
      PROVE  b.event_count = Cardinality({s \in Streams : RefOf(b) \in W[s]})
    <2>1. CASE ~b.allocated
        BY <2>1 DEF Accounts
    <2>2. CASE b.allocated
        <3>1. ASSUME NEW s \in Streams, RefOf(b) \in W[s] PROVE FALSE
            <4>1. Freed(B, RefOf(b))
                BY <1>1, <3>1 DEF Accounts
            <4> QED BY <2>2, <4>1 DEF Freed, Distinct
        <3>2. {s \in Streams : RefOf(b) \in W[s]} = {}
            BY <3>1
        <3>3. Cardinality({}) = 0
            BY FS_EmptySet
        <3> QED BY <2>2, <3>2, <3>3
    <2> QED
        BY <2>1, <2>2
<1> QED
    BY <1>1, <1>2 DEF Accounts

\* The events of a freed block are recorded, one per stream that used it.
LEMMA AccountsInsert ==
    ASSUME NEW A \in SUBSET Block, NEW W, NEW Q, NEW R, Distinct(A),
           Accounts(A, W, Q), NEW b \in A, b.stream_uses # {},
           b.allocated \/ RefOf(b) \in Q,
           NEW c \in Block, RefOf(c) = RefOf(b), ~c.allocated, c.stream_uses = {},
           c.event_count = b.event_count + Cardinality(b.stream_uses),
           NEW V, Added(W, V, b.stream_uses, RefOf(b)), R = Q \ {RefOf(b)}
    PROVE  /\ Accounts((A \ {b}) \cup {c}, V, R)
           /\ \A s \in Streams : RefOf(b) \notin W[s]
<1> USE DEF Added
<1> DEFINE B == (A \ {b}) \cup {c}
           U == b.stream_uses
<1>0. U \in SUBSET Streams /\ b.event_count \in Int
    BY DEF Block
<1>1. b.event_count = 0 /\ \A s \in Streams : RefOf(b) \notin W[s]
    <2>1. CASE b.allocated
        <3>1. ASSUME NEW s \in Streams, RefOf(b) \in W[s] PROVE FALSE
            BY <2>1, <3>1 DEF Accounts, Freed, Distinct
        <3>2. {s \in Streams : RefOf(b) \in W[s]} = {}
            BY <3>1
        <3>3. b.event_count = 0
            BY <3>2, FS_EmptySet DEF Accounts
        <3> QED BY <3>1, <3>3
    <2>2. CASE ~b.allocated
        <3>1. b.event_count = 0
            BY <2>2 DEF Accounts
        <3>2. {s \in Streams : RefOf(b) \in W[s]} \in SUBSET Streams
            OBVIOUS
        <3>3. Cardinality({s \in Streams : RefOf(b) \in W[s]}) = 0
            BY <3>1 DEF Accounts
        <3>4. {s \in Streams : RefOf(b) \in W[s]} = {}
            BY <3>2, <3>3, UsesCount, FS_EmptySet
        <3> QED BY <3>1, <3>4
    <2> QED
        BY <2>1, <2>2
<1>2. \A r : Freed(A, r) => Freed(B, r)
    BY DEF Freed
<1>3. Freed(B, RefOf(b))
    BY DEF Freed
<1>4. \A d \in A : d # b => RefOf(d) # RefOf(b)
    BY DEF Distinct
<1>5. ASSUME NEW d \in A, d # b
      PROVE  {s \in Streams : RefOf(d) \in V[s]} = {s \in Streams : RefOf(d) \in W[s]}
    BY <1>4, <1>5
<1>6. {s \in Streams : RefOf(c) \in V[s]} = U
    BY <1>0, <1>1
<1>7. Cardinality(U) \in Nat /\ Cardinality(U) > 0
    BY <1>0, UsesCount, FS_EmptySet
<1>8. c.event_count = Cardinality(U) /\ c.event_count > 0
    BY <1>0, <1>1, <1>7
<1>9. \A d \in B : d.event_count = Cardinality({s \in Streams : RefOf(d) \in V[s]})
    BY <1>5, <1>6, <1>8 DEF Accounts
<1>10. \A d \in B : ~d.allocated =>
          IF RefOf(d) \in R THEN d.stream_uses # {} /\ d.event_count = 0
                            ELSE d.stream_uses = {} /\ d.event_count > 0
    BY <1>4, <1>8 DEF Accounts
<1>11. \A s \in Streams : \A r \in V[s] : Freed(B, r)
    BY <1>2, <1>3 DEF Accounts
<1>12. \A r \in R : Freed(B, r)
    BY <1>2 DEF Accounts
<1> QED
    BY <1>1, <1>9, <1>10, <1>11, <1>12 DEF Accounts

\* free during a capture defers the events.
LEMMA AccountsDefer ==
    ASSUME NEW A \in SUBSET Block, NEW W, NEW Q, Distinct(A), Accounts(A, W, Q),
           NEW b \in A, b.allocated, b.stream_uses # {},
           NEW c \in Block, RefOf(c) = RefOf(b), ~c.allocated,
           c.stream_uses = b.stream_uses, c.event_count = b.event_count
    PROVE  /\ Accounts((A \ {b}) \cup {c}, W, Q \cup {RefOf(b)})
           /\ RefOf(b) \notin Q
<1> DEFINE B == (A \ {b}) \cup {c}
<1>1. \A r : Freed(A, r) => Freed(B, r)
    BY DEF Freed
<1>2. Freed(B, RefOf(b)) /\ ~Freed(A, RefOf(b))
    BY DEF Freed, Distinct
<1>3. \A d \in A : d # b => RefOf(d) # RefOf(b)
    BY DEF Distinct
<1>4. {s \in Streams : RefOf(b) \in W[s]} = {}
    BY <1>2 DEF Accounts
<1>5. c.event_count = 0
    BY <1>4, FS_EmptySet DEF Accounts
<1>6. \A d \in B : d.event_count = Cardinality({s \in Streams : RefOf(d) \in W[s]})
    BY DEF Accounts
<1>7. \A d \in B : ~d.allocated =>
          IF RefOf(d) \in Q \cup {RefOf(b)}
          THEN d.stream_uses # {} /\ d.event_count = 0
          ELSE d.stream_uses = {} /\ d.event_count > 0
    BY <1>3, <1>5 DEF Accounts
<1> QED
    BY <1>1, <1>2, <1>6, <1>7 DEF Accounts

\* One event of a block completes, others are outstanding.
LEMMA AccountsComplete ==
    ASSUME NEW A \in SUBSET Block, NEW W, NEW Q, Distinct(A), Accounts(A, W, Q),
           NEW b \in A, NEW s \in Streams, RefOf(b) \in W[s], b.event_count # 1,
           NEW c \in Block, RefOf(c) = RefOf(b), c.allocated = b.allocated,
           c.stream_uses = b.stream_uses, c.event_count = b.event_count - 1,
           NEW V, Dropped(W, V, s, RefOf(b))
    PROVE  Accounts((A \ {b}) \cup {c}, V, Q)
<1> USE DEF Dropped
<1> DEFINE B == (A \ {b}) \cup {c}
           N == {t \in Streams : RefOf(b) \in W[t]}
<1>1. N \in SUBSET Streams /\ s \in N /\ IsFiniteSet(N) /\ Cardinality(N) \in Nat
      /\ b.event_count = Cardinality(N)
    BY UsesCount DEF Accounts
<1>2. \A d \in A : d # b => RefOf(d) # RefOf(b)
    BY DEF Distinct
<1>3. ASSUME NEW d \in A, d # b
      PROVE  {t \in Streams : RefOf(d) \in V[t]} = {t \in Streams : RefOf(d) \in W[t]}
    BY <1>2, <1>3
<1>4. {t \in Streams : RefOf(c) \in V[t]} = N \ {s}
    OBVIOUS
<1>5. Cardinality(N \ {s}) = Cardinality(N) - 1
    <2> HIDE DEF N
    <2> QED BY <1>1, FS_RemoveElement
<1>6. Cardinality(N) > 0
    <2> HIDE DEF N
    <2> QED BY <1>1, FS_EmptySet
<1>7. b.event_count \in Nat /\ b.event_count > 1 /\ c.event_count > 0
    BY <1>1, <1>6
<1>8. ~b.allocated
    BY DEF Accounts, Freed, Distinct
<1>9. RefOf(b) \notin Q /\ b.stream_uses = {}
    BY <1>7, <1>8 DEF Accounts
<1>10. \A r : Freed(A, r) => Freed(B, r)
    BY DEF Freed
<1>11. \A d \in B : d.event_count = Cardinality({t \in Streams : RefOf(d) \in V[t]})
    BY <1>1, <1>3, <1>4, <1>5 DEF Accounts
<1>12. \A d \in B : ~d.allocated =>
          IF RefOf(d) \in Q THEN d.stream_uses # {} /\ d.event_count = 0
                            ELSE d.stream_uses = {} /\ d.event_count > 0
    BY <1>7, <1>9 DEF Accounts
<1>13. \A t \in Streams : \A r \in V[t] : Freed(B, r)
    BY <1>10 DEF Accounts
<1> QED
    BY <1>10, <1>11, <1>12, <1>13 DEF Accounts

\* The last event of a block completes: nothing refers to it any more, and the
\* stream of that event was the only one waited for.
LEMMA AccountsLast ==
    ASSUME NEW A \in SUBSET Block, NEW W, NEW Q, Distinct(A), Accounts(A, W, Q),
           NEW b \in A, NEW s \in Streams, RefOf(b) \in W[s], b.event_count = 1,
           NEW V, Dropped(W, V, s, RefOf(b))
    PROVE  /\ Accounts(A \ {b}, V, Q)
           /\ ~b.allocated /\ b.stream_uses = {}
           /\ \A t \in Streams : RefOf(b) \in W[t] => t = s
<1> USE DEF Dropped
<1> DEFINE B == A \ {b}
           N == {t \in Streams : RefOf(b) \in W[t]}
<1>1. N \in SUBSET Streams /\ s \in N /\ IsFiniteSet(N) /\ Cardinality(N) = 1
    BY UsesCount DEF Accounts
<1>2. PICK x : N = {x}
    <2> HIDE DEF N
    <2> QED BY <1>1, FS_Singleton
<1>3. \A t \in Streams : RefOf(b) \in W[t] => t = s
    <2> SUFFICES ASSUME NEW t \in Streams, RefOf(b) \in W[t] PROVE t = s
        OBVIOUS
    <2>1. t \in N
        OBVIOUS
    <2> HIDE DEF N
    <2> QED BY <1>1, <1>2, <2>1
<1>4. \A d \in A : d # b => RefOf(d) # RefOf(b)
    BY DEF Distinct
<1>5. ASSUME NEW d \in A, d # b
      PROVE  {t \in Streams : RefOf(d) \in V[t]} = {t \in Streams : RefOf(d) \in W[t]}
    BY <1>4, <1>5
<1>6. ~b.allocated
    BY DEF Accounts, Freed, Distinct
<1>7. RefOf(b) \notin Q /\ b.stream_uses = {}
    BY <1>6 DEF Accounts
<1>8. \A r : Freed(A, r) /\ r # RefOf(b) => Freed(B, r)
    BY DEF Freed
<1>9. \A t \in Streams : \A r \in V[t] : r # RefOf(b) /\ Freed(A, r)
    BY <1>3 DEF Accounts
<1>10. \A r \in Q : r # RefOf(b) /\ Freed(A, r)
    BY <1>7 DEF Accounts
<1>11. \A d \in B : d.event_count = Cardinality({t \in Streams : RefOf(d) \in V[t]})
    BY <1>5 DEF Accounts
<1>12. Accounts(B, V, Q)
    BY <1>8, <1>9, <1>10, <1>11 DEF Accounts
<1> QED
    BY <1>3, <1>6, <1>7, <1>12

-----------------------------------------------------------------------------
(* What the operations on queues do to their entries.                      *)

\* A new entry at the end.
LEMMA EntriesAppend ==
    ASSUME NEW q \in Seq(Ref), NEW r \in Ref
    PROVE  /\ Entries(Append(q, r)) = Entries(q) \cup {r}
           /\ NoRepeats(q) /\ r \notin Entries(q) => NoRepeats(Append(q, r))
<1>1. /\ Append(q, r) \in Seq(Ref) /\ Len(Append(q, r)) = Len(q) + 1
      /\ \A i \in 1 .. Len(q) : Append(q, r)[i] = q[i]
      /\ Append(q, r)[Len(q) + 1] = r
      /\ DOMAIN Append(q, r) = 1 .. (Len(q) + 1) /\ DOMAIN q = 1 .. Len(q)
      /\ Len(q) \in Nat
    OBVIOUS
<1>2. Entries(Append(q, r)) \subseteq Entries(q) \cup {r}
    BY <1>1 DEF Entries
<1>3. Entries(q) \subseteq Entries(Append(q, r))
    <2> SUFFICES ASSUME NEW i \in 1 .. Len(q) PROVE q[i] \in Entries(Append(q, r))
        BY <1>1 DEF Entries
    <2>1. i \in 1 .. (Len(q) + 1) /\ Append(q, r)[i] = q[i]
        BY <1>1
    <2> QED BY <1>1, <2>1 DEF Entries
<1>4. r \in Entries(Append(q, r))
    <2>1. Len(q) + 1 \in 1 .. (Len(q) + 1)
        BY <1>1
    <2> QED BY <1>1, <2>1 DEF Entries
<1>5. NoRepeats(q) /\ r \notin Entries(q) => NoRepeats(Append(q, r))
    BY <1>1 DEF NoRepeats, Entries
<1> QED
    BY <1>2, <1>3, <1>4, <1>5

\* p is q without its i-th entry.
LEMMA EntriesWithout ==
    ASSUME NEW q, NEW p, NEW n \in Nat, DOMAIN q = 1 .. n, DOMAIN p = 1 .. (n - 1),
           NEW i \in 1 .. n, NoRepeats(q),
           \A j \in 1 .. (n - 1) : p[j] = IF j < i THEN q[j] ELSE q[j + 1]
    PROVE  Entries(p) = Entries(q) \ {q[i]} /\ NoRepeats(p)
<1> DEFINE at(j) == IF j < i THEN j ELSE j + 1
<1>1. \A j, k \in 1 .. n : q[j] = q[k] => j = k
    BY DEF NoRepeats
<1>2. \A j \in 1 .. (n - 1) : at(j) \in 1 .. n /\ at(j) # i /\ p[j] = q[at(j)]
    OBVIOUS
<1>3. \A j, k \in 1 .. (n - 1) : at(j) = at(k) => j = k
    OBVIOUS
<1>4. \A k \in 1 .. n : k # i => \E j \in 1 .. (n - 1) : k = at(j)
    <2> SUFFICES ASSUME NEW k \in 1 .. n, k # i
                 PROVE  \E j \in 1 .. (n - 1) : k = at(j)
        OBVIOUS
    <2>1. CASE k < i
        <3>1. k \in 1 .. (n - 1) /\ k = at(k)
            BY <2>1
        <3> QED BY <3>1
    <2>2. CASE k > i
        <3>1. k - 1 \in 1 .. (n - 1) /\ k = at(k - 1)
            BY <2>2
        <3> QED BY <3>1
    <2> QED
        BY <2>1, <2>2
<1> HIDE DEF at
<1>5. Entries(p) \subseteq Entries(q) \ {q[i]}
    BY <1>1, <1>2 DEF Entries
<1>6. Entries(q) \ {q[i]} \subseteq Entries(p)
    <2> SUFFICES ASSUME NEW k \in 1 .. n, q[k] # q[i] PROVE q[k] \in Entries(p)
        BY DEF Entries
    <2>1. PICK j \in 1 .. (n - 1) : k = at(j)
        BY <1>4
    <2>2. q[k] = p[j]
        BY <1>2, <2>1
    <2> QED BY <2>2 DEF Entries
<1>7. NoRepeats(p)
    BY <1>1, <1>2, <1>3 DEF NoRepeats
<1> QED
    BY <1>5, <1>6, <1>7

\* An entry is taken out.
LEMMA EntriesErase ==
    ASSUME NEW q \in Seq(Ref), NEW i \in DOMAIN q, NoRepeats(q)
    PROVE  Entries(Erase(q, i)) = Entries(q) \ {q[i]} /\ NoRepeats(Erase(q, i))
<1>1. i \in 1 .. Len(q) /\ DOMAIN q = 1 .. Len(q) /\ Len(q) \in Nat
    OBVIOUS
<1>2. DOMAIN Erase(q, i) = 1 .. (Len(q) - 1)
    BY DEF Erase
<1>3. \A j \in 1 .. (Len(q) - 1) : Erase(q, i)[j] = IF j < i THEN q[j] ELSE q[j + 1]
    BY <1>1, EraseType
<1> QED
    BY <1>1, <1>2, <1>3, EntriesWithout, Zenon

\* The first entry is taken out.
LEMMA EntriesTail ==
    ASSUME NEW q \in Seq(Ref), q # <<>>, NoRepeats(q)
    PROVE  /\ Entries(Tail(q)) = Entries(q) \ {Head(q)} /\ NoRepeats(Tail(q))
           /\ Head(q) \in Entries(q)
<1>1. 1 \in DOMAIN q /\ Head(q) = q[1]
    OBVIOUS
<1>2. /\ DOMAIN Tail(q) = 1 .. (Len(q) - 1)
      /\ DOMAIN q = 1 .. Len(q) /\ Len(q) \in Nat /\ 1 \in 1 .. Len(q)
      /\ \A j \in 1 .. (Len(q) - 1) : Tail(q)[j] = q[j + 1]
    OBVIOUS
<1>3. \A j \in 1 .. (Len(q) - 1) :
         Tail(q)[j] = IF j < 1 THEN q[j] ELSE q[j + 1]
    BY <1>2
<1>4. Entries(Tail(q)) = Entries(q) \ {q[1]} /\ NoRepeats(Tail(q))
    BY <1>2, <1>3, EntriesWithout, Zenon
<1> QED
    BY <1>1, <1>4 DEF Entries

-----------------------------------------------------------------------------
(* The parts of SafetyInv together, over explicit sets of blocks A (active) *)
(* and C (cached), queued events W and Q, and kernels K.                   *)

Quiet(b, K) == \A k \in K : Overlap(k, b) => k.stream = b.stream

Guarded(b, W, K) ==
    \A k \in K : Overlap(k, b) /\ k.stream # b.stream =>
        k.stream \in b.stream_uses \/ RefOf(b) \in W[k.stream]

Mapped(K, sz) == \A k \in K : sz[k.seg] # 0 /\ k.size > 0

Safe(A, C, sz, W, Q, K) ==
    /\ A \cap C = {} /\ Geometry(A \cup C, sz)
    /\ \A b \in C : Mergeable(b) /\ Quiet(b, K)
    /\ Accounts(A, W, Q)
    /\ Mapped(K, sz)
    /\ \A b \in A : ~b.allocated => Guarded(b, W, K)

\* Where a block starts tells it apart.
LEMMA SafeDistinct ==
    ASSUME NEW A \in SUBSET Block, NEW C \in SUBSET Block, NEW sz \in [Segments -> Nat],
           NEW W, NEW Q, NEW K, Safe(A, C, sz, W, Q, K)
    PROVE  Distinct(A)
<1>1. A \cup C \in SUBSET Block /\ Geometry(A \cup C, sz)
    BY DEF Safe
<1> QED
    BY <1>1, OneBlockPerPlace DEF Distinct

\* A block that nothing waits for any more goes to the cache, merged with its
\* idle neighbours, which are cached.
LEMMA SafeFree ==
    ASSUME NEW A \in SUBSET Block, NEW C \in SUBSET Block, NEW sz \in [Segments -> Nat],
           NEW W, NEW Q, NEW K \in SUBSET Kernel, Safe(A, C, sz, W, Q, K),
           NEW b \in A, Quiet(b, K), NEW V, Accounts(A \ {b}, V, Q),
           \A c \in A \ {b} : \A s \in Streams : RefOf(c) \in W[s] => RefOf(c) \in V[s],
           NEW X \in SUBSET (A \cup C), NEW Y \in SUBSET (A \cup C),
           \A x \in X \cup Y : Mergeable(x) /\ x.seg = b.seg,
           NEW m \in Block, Mergeable(m), m.stream = b.stream, ExtendsBoth(b, X, Y, m)
    PROVE  Safe(A \ {b}, (C \ (X \cup Y)) \cup {m}, sz, V, Q, K)
<1> DEFINE B == A \cup C
           D == {b} \cup X \cup Y
<1>1. /\ B \in SUBSET Block /\ Geometry(B, sz) /\ b \in B /\ X \in SUBSET B
      /\ Y \in SUBSET B /\ A \cap C = {}
    BY DEF Safe
<1>2. X \subseteq C /\ Y \subseteq C
    <2> SUFFICES ASSUME NEW x \in A, Mergeable(x) PROVE FALSE
        OBVIOUS
    <2> QED BY DEF Safe, Accounts, Mergeable
<1>3. Geometry((B \ D) \cup {m}, sz) /\ (m \in B => m \in D) /\ MadeOf(m, D)
    <2>1. ASSUME NEW G, G = B
          PROVE  Geometry((G \ D) \cup {m}, sz) /\ (m \in G => m \in D) /\ MadeOf(m, D)
        <3>1. G \in SUBSET Block /\ Geometry(G, sz) /\ b \in G /\ X \in SUBSET G
              /\ Y \in SUBSET G
            BY <1>1, <2>1
        <3>2. ExtendsBoth(b, X, Y, m) /\ m \in Block /\ sz \in [Segments -> Nat]
            OBVIOUS
        <3> QED BY <3>1, <3>2, GeometryMerge
    <2> QED BY <2>1
<1>4. (B \ D) \cup {m} = (A \ {b}) \cup ((C \ (X \cup Y)) \cup {m})
    BY <1>1, <1>2
<1>5. m \notin A \ {b}
    BY <1>1, <1>2, <1>3
<1>6. Quiet(m, K)
    <2> SUFFICES ASSUME NEW k \in K, Overlap(k, m) PROVE k.stream = b.stream
        BY DEF Quiet
    <2>1. k.size > 0 /\ k \in Kernel
        BY DEF Safe, Mapped
    <2>2. PICK d \in D : Overlap(k, d)
        BY <1>3, <2>1 DEF MadeOf
    <2>3. CASE d # b
        <3>1. d \in C /\ d.seg = b.seg
            BY <1>2, <2>3
        <3>2. k.stream = d.stream
            BY <2>2, <3>1 DEF Safe, Quiet
        <3>3. d.stream = b.stream
            BY <1>1, <3>1 DEF Geometry, Owned
        <3> QED BY <3>2, <3>3
    <2> QED BY <2>2, <2>3 DEF Quiet
<1>7. \A c \in A \ {b} : ~c.allocated => Guarded(c, V, K)
    BY DEF Safe, Guarded, Kernel
<1>8. \A c \in (C \ (X \cup Y)) \cup {m} : Mergeable(c) /\ Quiet(c, K)
    BY <1>6 DEF Safe
<1>9. (A \ {b}) \cap ((C \ (X \cup Y)) \cup {m}) = {}
    BY <1>1, <1>5
<1>10. Geometry((A \ {b}) \cup ((C \ (X \cup Y)) \cup {m}), sz)
    BY <1>3, <1>4
<1> QED
    BY <1>7, <1>8, <1>9, <1>10, Zenon DEF Safe

\* The state of use of an active block changes, and the events with it.
LEMMA SafeUse ==
    ASSUME NEW A \in SUBSET Block, NEW C \in SUBSET Block, NEW sz \in [Segments -> Nat],
           NEW W, NEW Q, NEW K \in SUBSET Kernel, Safe(A, C, sz, W, Q, K),
           NEW b \in A, NEW c \in Block, SameRange(b, c), NEW V, NEW R,
           Accounts((A \ {b}) \cup {c}, V, R),
           \A d \in A \ {b} : \A s \in Streams : RefOf(d) \in W[s] => RefOf(d) \in V[s],
           c.allocated \/ Guarded(c, V, K)
    PROVE  Safe((A \ {b}) \cup {c}, C, sz, V, R, K)
<1>1. A \cap C = {} /\ Geometry(A \cup C, sz)
    BY DEF Safe
<1>2. ASSUME NEW B, B = A \cup C
      PROVE  Geometry((B \ {b}) \cup {c}, sz) /\ Overlap(b, c)
    <2>1. B \in SUBSET Block /\ Geometry(B, sz) /\ b \in B /\ b \in Block
        BY <1>1, <1>2
    <2>2. Geometry((B \ {b}) \cup {c}, sz)
        BY <2>1, GeometryUse
    <2>3. b.size > 0
        BY <2>1 DEF Geometry, Within
    <2> QED BY <2>1, <2>2, <2>3, SamePlace DEF SameRange
<1>3. Geometry(((A \cup C) \ {b}) \cup {c}, sz) /\ Overlap(b, c)
    BY <1>2
<1>4. c \notin C
    BY <1>1, <1>3 DEF Geometry, Apart
<1>5. ((A \cup C) \ {b}) \cup {c} = ((A \ {b}) \cup {c}) \cup C
    BY <1>1
<1>6. ((A \ {b}) \cup {c}) \cap C = {}
    BY <1>1, <1>4
<1>7. \A d \in (A \ {b}) \cup {c} : ~d.allocated => Guarded(d, V, K)
    BY DEF Safe, Guarded, Kernel
<1> QED
    BY <1>3, <1>5, <1>6, <1>7 DEF Safe

\* A new allocated block has no events.
LEMMA AccountsNew ==
    ASSUME NEW A \in SUBSET Block, NEW C \in SUBSET Block, NEW sz \in [Segments -> Nat],
           NEW W, NEW Q, NEW K, Safe(A, C, sz, W, Q, K),
           NEW b \in C, NEW t \in Block, RefOf(t) = RefOf(b), t.allocated,
           t.event_count = 0
    PROVE  Accounts(A \cup {t}, W, Q)
<1>1. A \cap C = {} /\ Geometry(A \cup C, sz) /\ A \cup C \in SUBSET Block
    BY DEF Safe
<1>2. \A a \in A : RefOf(a) # RefOf(t)
    <2> SUFFICES ASSUME NEW a \in A, RefOf(a) = RefOf(b) PROVE FALSE
        OBVIOUS
    <2>1. a = b
        <3>1. ASSUME NEW B, B = A \cup C PROVE a = b
            <4>1. B \in SUBSET Block /\ Geometry(B, sz) /\ a \in B /\ b \in B
                BY <1>1, <3>1
            <4> QED BY <4>1, OneBlockPerPlace
        <3> QED BY <3>1
    <2> QED BY <1>1, <2>1
<1>3. Distinct(A)
    BY SafeDistinct
<1>4. Distinct(A \cup {t})
    BY <1>2, <1>3 DEF Distinct
<1>5. \A a \in A : a.allocated => a.event_count = 0
    <2> SUFFICES ASSUME NEW a \in A, a.allocated PROVE a.event_count = 0
        OBVIOUS
    <2>1. {s \in Streams : RefOf(a) \in W[s]} = {}
        BY <1>3 DEF Safe, Accounts, Freed, Distinct
    <2> QED BY <2>1, FS_EmptySet DEF Safe, Accounts
<1> QED
    BY <1>4, <1>5, AccountsKept DEF Safe

\* A cached block is handed out whole.
LEMMA SafeTakeWhole ==
    ASSUME NEW A \in SUBSET Block, NEW C \in SUBSET Block, NEW sz \in [Segments -> Nat],
           NEW W, NEW Q, NEW K \in SUBSET Kernel, Safe(A, C, sz, W, Q, K),
           NEW b \in C, NEW t \in Block, SameRange(b, t), t.allocated,
           t.event_count = 0
    PROVE  Safe(A \cup {t}, C \ {b}, sz, W, Q, K)
<1>1. A \cap C = {} /\ Geometry(A \cup C, sz)
    BY DEF Safe
<1>2. ASSUME NEW B, B = A \cup C
      PROVE  Geometry((B \ {b}) \cup {t}, sz) /\ Overlap(b, t)
    <2>1. B \in SUBSET Block /\ Geometry(B, sz) /\ b \in B /\ b \in Block
        BY <1>1, <1>2
    <2>2. Geometry((B \ {b}) \cup {t}, sz)
        BY <2>1, GeometryUse
    <2>3. b.size > 0
        BY <2>1 DEF Geometry, Within
    <2> QED BY <2>1, <2>2, <2>3, SamePlace DEF SameRange
<1>3. Geometry(((A \cup C) \ {b}) \cup {t}, sz) /\ Overlap(b, t)
    BY <1>2
<1>4. t \in C => t = b
    BY <1>1, <1>3 DEF Geometry, Apart
<1>5. ((A \cup C) \ {b}) \cup {t} = (A \cup {t}) \cup (C \ {b})
    BY <1>1
<1>6. (A \cup {t}) \cap (C \ {b}) = {}
    BY <1>1, <1>4
<1>7. Accounts(A \cup {t}, W, Q)
    BY AccountsNew DEF SameRange, RefOf
<1> QED
    BY <1>3, <1>5, <1>6, <1>7 DEF Safe

\* A cached block is split: t is handed out and r stays in the cache.
LEMMA SafeTakeSplit ==
    ASSUME NEW A \in SUBSET Block, NEW C \in SUBSET Block, NEW sz \in [Segments -> Nat],
           NEW W, NEW Q, NEW K \in SUBSET Kernel, Safe(A, C, sz, W, Q, K),
           NEW b \in C, NEW t \in Block, NEW r \in Block, CutsInto(b, t, r),
           ~b.pool.small => t.size > kSmallSize /\ r.size > kSmallSize,
           sz[b.seg] <= MaxSplitSize + kSmallSize,
           t.allocated, t.event_count = 0, Mergeable(r)
    PROVE  Safe(A \cup {t}, (C \ {b}) \cup {r}, sz, W, Q, K)
<1>1. A \cap C = {} /\ Geometry(A \cup C, sz)
    BY DEF Safe
<1>2. /\ b.off \in Nat /\ b.size \in Nat /\ t.size \in Nat /\ r.size \in Nat
      /\ t.size > 0 /\ r.size > 0
    BY DEF Block, CutsInto
<1>3. ASSUME NEW B, B = A \cup C
      PROVE  Geometry((B \ {b}) \cup {t, r}, sz)
    <2>1. B \in SUBSET Block /\ Geometry(B, sz) /\ b \in B
        BY <1>1, <1>3
    <2> QED BY <2>1, GeometrySplit DEF CutsInto
<1>4. Geometry(((A \cup C) \ {b}) \cup {t, r}, sz)
    BY <1>3
<1>5. Overlap(b, t) /\ Overlap(b, r)
    BY <1>2 DEF Overlap, CutsInto
<1>6. t \notin C \ {b} /\ r \notin A
    BY <1>1, <1>5 DEF Geometry, Apart
<1>7. t # r
    BY DEF Mergeable
<1>8. ((A \cup C) \ {b}) \cup {t, r} = (A \cup {t}) \cup ((C \ {b}) \cup {r})
    BY <1>1
<1>9. (A \cup {t}) \cap ((C \ {b}) \cup {r}) = {}
    BY <1>1, <1>6, <1>7
<1>10. Accounts(A \cup {t}, W, Q)
    BY AccountsNew DEF CutsInto, RefOf
<1>11. Quiet(r, K)
    <2>1. \A k \in K : k.size \in Nat /\ k.off \in Nat /\ k.seg \in Segments
        BY DEF Kernel
    <2>2. \A k \in K : Overlap(k, r) => Overlap(k, b)
        BY <1>2, <2>1 DEF Overlap, CutsInto
    <2> QED BY <2>2 DEF Safe, Quiet, CutsInto
<1> QED
    BY <1>4, <1>8, <1>9, <1>10, <1>11 DEF Safe

\* A new segment is a cached block that no work touches.
LEMMA SafeNewSegment ==
    ASSUME NEW A \in SUBSET Block, NEW C \in SUBSET Block, NEW sz \in [Segments -> Nat],
           NEW W, NEW Q, NEW K \in SUBSET Kernel, Safe(A, C, sz, W, Q, K),
           NEW n \in Block, sz[n.seg] = 0, n.off = 0, n.size > 0, Shape(n, n.size),
           Mergeable(n)
    PROVE  /\ Safe(A, C \cup {n}, [sz EXCEPT ![n.seg] = n.size], W, Q, K)
           /\ n \notin C
<1> DEFINE tz == [sz EXCEPT ![n.seg] = n.size]
<1>1. A \cap C = {} /\ Geometry(A \cup C, sz)
    BY DEF Safe
<1>2. ASSUME NEW B, B = A \cup C
      PROVE  Geometry(B \cup {n}, tz) /\ \A b \in B : b.seg # n.seg
    <2>1. B \in SUBSET Block /\ Geometry(B, sz)
        BY <1>1, <1>2
    <2> QED BY <2>1, GeometryNew
<1>3. Geometry((A \cup C) \cup {n}, tz) /\ \A b \in A \cup C : b.seg # n.seg
    BY <1>2
<1>4. n.seg \in Segments /\ n.size \in Nat /\ tz[n.seg] = n.size
      /\ \A g \in Segments : g # n.seg => tz[g] = sz[g]
    BY DEF Block
<1> HIDE DEF tz
<1>5. Mapped(K, tz) /\ \A k \in K : k.seg # n.seg
    BY <1>4 DEF Safe, Mapped, Kernel
<1>6. Quiet(n, K)
    BY <1>5 DEF Quiet, Overlap
<1>7. (A \cup C) \cup {n} = A \cup (C \cup {n})
    OBVIOUS
<1>8. A \cap (C \cup {n}) = {} /\ n \notin C
    BY <1>1, <1>3
<1>9. Safe(A, C \cup {n}, tz, W, Q, K)
    BY <1>3, <1>5, <1>6, <1>7, <1>8 DEF Safe
<1> QED
    BY <1>8, <1>9 DEF tz

\* The only block of a segment is given back, after the work that touches it.
LEMMA SafeRelease ==
    ASSUME NEW A \in SUBSET Block, NEW C \in SUBSET Block, NEW sz \in [Segments -> Nat],
           NEW W, NEW Q, NEW K \in SUBSET Kernel, Safe(A, C, sz, W, Q, K),
           NEW b \in C, \A c \in A \cup C : c.seg = b.seg => c = b,
           NEW tz, tz = [sz EXCEPT ![b.seg] = 0],
           NEW L, L = {k \in K : k.seg # b.seg}
    PROVE  Safe(A, C \ {b}, tz, W, Q, L)
<1>1. A \cap C = {} /\ Geometry(A \cup C, sz)
    BY DEF Safe
<1>2. ASSUME NEW B, B = A \cup C PROVE Geometry(B \ {b}, tz)
    <2>1. B \in SUBSET Block /\ Geometry(B, sz) /\ b \in B
          /\ \A c \in B : c.seg = b.seg => c = b
        BY <1>1, <1>2
    <2> QED BY <2>1, GeometryRelease
<1>3. Geometry((A \cup C) \ {b}, tz)
    BY <1>2
<1>4. (A \cup C) \ {b} = A \cup (C \ {b})
    BY <1>1
<1>5. \A g \in Segments : g # b.seg => tz[g] = sz[g]
    OBVIOUS
<1>6. Mapped(L, tz)
    BY <1>5 DEF Safe, Mapped, Kernel
<1>7. \A c \in C \ {b} : Mergeable(c) /\ Quiet(c, L)
    BY DEF Safe, Quiet
<1>8. \A a \in A : ~a.allocated => Guarded(a, W, L)
    BY DEF Safe, Guarded
<1> QED
    BY <1>1, <1>3, <1>4, <1>6, <1>7, <1>8 DEF Safe

\* Work is queued that touches an allocated block.
LEMMA SafeLaunch ==
    ASSUME NEW A \in SUBSET Block, NEW C \in SUBSET Block, NEW sz \in [Segments -> Nat],
           NEW W, NEW Q, NEW K \in SUBSET Kernel, Safe(A, C, sz, W, Q, K),
           NEW b \in A, b.allocated,
           NEW k \in Kernel, k.seg = b.seg, k.off = b.off, k.size = b.size
    PROVE  Safe(A, C, sz, W, Q, K \cup {k})
<1>1. A \cap C = {} /\ Geometry(A \cup C, sz)
    BY DEF Safe
<1>2. \A d \in A \cup C : d # b => ~Overlap(k, d)
    BY <1>1 DEF Geometry, Apart, Overlap
<1>3. sz[k.seg] # 0 /\ k.size > 0
    <2>1. b.size > 0 /\ b.off + b.size <= sz[b.seg] /\ b.off \in Nat /\ b.size \in Nat
        BY <1>1 DEF Geometry, Within, Block
    <2> QED BY <2>1
<1>4. Mapped(K \cup {k}, sz)
    BY <1>3 DEF Safe, Mapped
<1>5. \A c \in C : Mergeable(c) /\ Quiet(c, K \cup {k})
    BY <1>1, <1>2 DEF Safe, Quiet
<1>6. \A a \in A : ~a.allocated => Guarded(a, W, K \cup {k})
    BY <1>2 DEF Safe, Guarded
<1> QED
    BY <1>1, <1>4, <1>5, <1>6 DEF Safe

\* Work is retired.
LEMMA SafeRetire ==
    ASSUME NEW A, NEW C, NEW sz, NEW W, NEW Q, NEW K, Safe(A, C, sz, W, Q, K), NEW k
    PROVE  Safe(A, C, sz, W, Q, K \ {k})
    BY DEF Safe, Mapped, Quiet, Guarded

-----------------------------------------------------------------------------
(* The operations on blocks.                                               *)

SafeState == Safe(active_blocks, cached_blocks, segments, Queued(supa_events),
                  Entries(deferred), kernels)

QueuesOK == (\A s \in Streams : NoRepeats(supa_events[s])) /\ NoRepeats(deferred)

\* The sets that TypeOK and SafeState are about.
LEMMA StateTypes ==
    ASSUME TypeOK
    PROVE  /\ active_blocks \in SUBSET Block /\ cached_blocks \in SUBSET Block
           /\ segments \in [Segments -> Nat] /\ kernels \in SUBSET Kernel
           /\ deferred \in Seq(Ref) /\ supa_events \in [Streams -> Seq(Ref)]
    BY DEF TypeOK

\* free_block keeps memory safe if nothing waits for the block any more.
LEMMA FreeBlockSafe ==
    ASSUME TypeOK, SafeState, NEW b \in active_blocks, NEW st \in [StatName -> Int],
           free_block(b, st), Quiet(b, kernels), NEW V, NEW Q, Q = Entries(deferred),
           Accounts(active_blocks \ {b}, V, Q),
           \A c \in active_blocks \ {b} : \A s \in Streams :
              RefOf(c) \in Queued(supa_events)[s] => RefOf(c) \in V[s]
    PROVE  Safe(active_blocks', cached_blocks', segments, V, Q, kernels)
<1> DEFINE X == MergeBefore(b)
           Y == MergeAfter(b)
           m == Merged(b)
<1>1. /\ active_blocks' = active_blocks \ {b}
      /\ cached_blocks' = (cached_blocks \ (X \cup Y)) \cup {m}
      /\ m \in Block /\ MergedLow(b) \in Nat /\ MergedHigh(b) \in Nat
    BY FreeBlockEffect
<1>2. /\ X \in SUBSET (active_blocks \cup cached_blocks)
      /\ Y \in SUBSET (active_blocks \cup cached_blocks)
      /\ \A x \in X \cup Y : Mergeable(x) /\ x.seg = b.seg
      /\ \A x \in X : x.seg = b.seg /\ x.off + x.size = b.off
      /\ \A y \in Y : y.seg = b.seg /\ b.off + b.size = y.off
    BY DEF MergeBefore, MergeAfter, PrevOf, NextOf, AllBlocks
<1>3. /\ b \in Block /\ b.seg \in Segments /\ b.stream \in Streams /\ b.pool \in Pools
      /\ b.off \in Nat /\ b.size \in Nat
    BY StateTypes DEF Block
<1>4. /\ m.seg = b.seg /\ m.stream = b.stream /\ m.pool = b.pool
      /\ m.off = MergedLow(b) /\ m.size = MergedHigh(b) - MergedLow(b)
      /\ m.allocated = FALSE /\ m.event_count = 0 /\ m.stream_uses = {}
    BY DEF Merged, NewBlock
<1>5. Mergeable(m)
    BY <1>4 DEF Mergeable
<1>6. (X = {} /\ MergedLow(b) = b.off) \/ (\E x \in X : MergedLow(b) = x.off)
    BY DEF MergedLow
<1>7. \/ Y = {} /\ MergedHigh(b) = b.off + b.size
      \/ \E y \in Y : MergedHigh(b) = b.off + b.size + y.size
    <2>1. CASE Y = {}
        BY <1>3, <2>1 DEF MergedHigh
    <2>2. CASE Y # {}
        BY <2>2 DEF MergedHigh
    <2> QED BY <2>1, <2>2
<1> HIDE DEF X, Y, m
<1>8. ExtendsBoth(b, X, Y, m)
    <2>1. (X = {} /\ m.off = b.off) \/ (\E x \in X : m.off = x.off)
        BY <1>4, <1>6
    <2>2. \/ Y = {} /\ m.size = b.off + b.size - m.off
          \/ \E y \in Y : m.size = b.off + b.size + y.size - m.off
        <3>1. CASE Y = {}
            BY <1>1, <1>3, <1>4, <1>7, <3>1
        <3>2. CASE Y # {}
            <4>1. PICK y \in Y : MergedHigh(b) = b.off + b.size + y.size
                BY <1>7, <3>2
            <4>2. y.size \in Nat
                BY <1>2, StateTypes DEF Block
            <4>3. m.size = b.off + b.size + y.size - m.off
                BY <1>1, <1>3, <1>4, <4>1, <4>2
            <4> QED BY <4>3
        <3> QED BY <3>1, <3>2
    <2> QED BY <1>2, <1>4, <2>1, <2>2, Zenon DEF ExtendsBoth
<1>9. ASSUME NEW A, A = active_blocks, NEW C, C = cached_blocks,
             NEW W, W = Queued(supa_events), NEW K, K = kernels,
             NEW sz, sz = segments
      PROVE  Safe(A \ {b}, (C \ (X \cup Y)) \cup {m}, sz, V, Q, K)
    <2>1. /\ A \in SUBSET Block /\ C \in SUBSET Block /\ sz \in [Segments -> Nat]
          /\ K \in SUBSET Kernel
        BY <1>9, StateTypes
    <2>2. Safe(A, C, sz, W, Q, K) /\ b \in A /\ Quiet(b, K)
        BY <1>9 DEF SafeState
    <2>3. Accounts(A \ {b}, V, Q)
        BY <1>9
    <2>4. \A c \in A \ {b} : \A s \in Streams : RefOf(c) \in W[s] => RefOf(c) \in V[s]
        BY <1>9
    <2>5. X \in SUBSET (A \cup C) /\ Y \in SUBSET (A \cup C)
          /\ \A x \in X \cup Y : Mergeable(x) /\ x.seg = b.seg
        BY <1>2, <1>9
    <2>6. m \in Block /\ m.stream = b.stream
        BY <1>1, <1>4
    <2> QED BY <1>5, <1>8, <2>1, <2>2, <2>3, <2>4, <2>5, <2>6, SafeFree
<1> QED
    BY <1>1, <1>9

\* The completion of an event of stream s keeps memory safe.
LEMMA CompleteEventSafe ==
    ASSUME TypeOK, SafeState, NEW b \in active_blocks, NEW s \in Streams,
           RefOf(b) \in Queued(supa_events)[s], EventReady(s, b), complete_event(b),
           NEW V, Dropped(Queued(supa_events), V, s, RefOf(b))
    PROVE  Safe(active_blocks', cached_blocks', segments, V, Entries(deferred), kernels)
<1> DEFINE W == Queued(supa_events)
           Q == Entries(deferred)
<1>1. /\ Distinct(active_blocks) /\ Accounts(active_blocks, W, Q)
      /\ active_blocks \in SUBSET Block /\ b \in Block
    BY StateTypes, SafeDistinct DEF SafeState, Safe
<1>2. \A c \in active_blocks \ {b} : \A t \in Streams :
         RefOf(c) \in W[t] => RefOf(c) \in V[t]
    BY <1>1 DEF Distinct, Dropped
<1>3. ~b.allocated
    BY <1>1 DEF Accounts, Freed, Distinct
<1>4. Guarded(b, W, kernels)
    BY <1>3 DEF SafeState, Safe
<1> HIDE DEF W, Q
<1>5. CASE b.event_count = 1
    <2>1. /\ Accounts(active_blocks \ {b}, V, Q) /\ b.stream_uses = {}
          /\ \A t \in Streams : RefOf(b) \in W[t] => t = s
        <3>1. RefOf(b) \in W[s]
            BY DEF W
        <3>2. Dropped(W, V, s, RefOf(b))
            BY DEF W
        <3>3. ASSUME NEW A, A = active_blocks
              PROVE  /\ Accounts(A \ {b}, V, Q) /\ b.stream_uses = {}
                     /\ \A t \in Streams : RefOf(b) \in W[t] => t = s
            <4>1. A \in SUBSET Block /\ Distinct(A) /\ Accounts(A, W, Q) /\ b \in A
                BY <1>1, <3>3
            <4> QED BY <1>5, <3>1, <3>2, <4>1, AccountsLast
        <3> QED BY <3>3
    <2>2. Quiet(b, kernels)
        <3>1. \A k \in kernels : k.stream \in Streams
            BY StateTypes DEF Kernel
        <3> QED BY <1>4, <2>1, <3>1 DEF Guarded, Quiet, EventReady
    <2>3. stats \in [StatName -> Int] /\ free_block(b, stats)
        BY <1>5 DEF TypeOK, complete_event
    <2> QED BY <1>2, <2>1, <2>2, <2>3, FreeBlockSafe DEF W, Q
<1>6. CASE b.event_count # 1
    <2> DEFINE c == WithUse(b, b.allocated, b.stream_uses, b.event_count - 1)
    <2>1. b.allocated \in BOOLEAN /\ b.stream_uses \in SUBSET Streams /\ b.event_count \in Int
        BY <1>1 DEF Block
    <2>2. /\ c \in Block /\ c.seg = b.seg /\ c.off = b.off /\ c.size = b.size
          /\ c.stream = b.stream /\ c.pool = b.pool /\ c.allocated = b.allocated
          /\ c.stream_uses = b.stream_uses /\ c.event_count = b.event_count - 1
        BY <1>1, <2>1 DEF WithUse, Block
    <2>3. /\ active_blocks' = (active_blocks \ {b}) \cup {c}
          /\ cached_blocks' = cached_blocks
        BY <1>6 DEF complete_event
    <2> HIDE DEF c
    <2>4. RefOf(c) = RefOf(b) /\ SameRange(b, c)
        BY <2>2 DEF RefOf, SameRange
    <2>5. Accounts((active_blocks \ {b}) \cup {c}, V, Q)
        <3>1. RefOf(b) \in W[s]
            BY DEF W
        <3>2. Dropped(W, V, s, RefOf(b))
            BY DEF W
        <3> QED BY <1>1, <1>6, <2>2, <2>4, <3>1, <3>2, AccountsComplete
    <2>6. Guarded(c, V, kernels)
        <3> SUFFICES ASSUME NEW k \in kernels, Overlap(k, c), k.stream # c.stream
                     PROVE  k.stream \in c.stream_uses \/ RefOf(c) \in V[k.stream]
            BY DEF Guarded
        <3>1. Overlap(k, b) /\ k.stream # b.stream /\ k.stream \in Streams
            BY <2>2, StateTypes DEF Overlap, Kernel
        <3>2. k.stream # s
            BY <3>1 DEF EventReady
        <3> QED BY <1>4, <2>2, <2>4, <3>1, <3>2 DEF Guarded, W, Dropped
    <2>7. ASSUME NEW A, A = active_blocks, NEW C, C = cached_blocks, NEW K, K = kernels,
                 NEW sz, sz = segments
          PROVE  Safe((A \ {b}) \cup {c}, C, sz, V, Q, K)
        <3>1. /\ A \in SUBSET Block /\ C \in SUBSET Block /\ sz \in [Segments -> Nat]
              /\ K \in SUBSET Kernel /\ b \in A /\ Safe(A, C, sz, W, Q, K)
              /\ Accounts((A \ {b}) \cup {c}, V, Q) /\ Guarded(c, V, K)
              /\ \A d \in A \ {b} : \A t \in Streams :
                    RefOf(d) \in W[t] => RefOf(d) \in V[t]
            BY <1>2, <2>5, <2>6, <2>7, StateTypes DEF SafeState, W, Q
        <3> QED BY <2>2, <2>4, <3>1, SafeUse
    <2> QED BY <2>3, <2>7 DEF Q
<1> QED
    BY <1>5, <1>6

\* insert_events keeps memory safe: each stream whose work may still touch the
\* freed block now has an event for it.
LEMMA InsertEventsSafe ==
    ASSUME TypeOK, SafeState, QueuesOK, NEW b \in active_blocks, b.stream_uses # {},
           b.allocated \/ RefOf(b) \in Entries(deferred),
           Guarded(b, Queued(supa_events), kernels), insert_events(b),
           NEW R, R = Entries(deferred) \ {RefOf(b)}
    PROVE  /\ Safe(active_blocks', cached_blocks, segments, Queued(supa_events'), R,
                   kernels)
           /\ \A s \in Streams : NoRepeats(supa_events'[s])
<1> DEFINE W == Queued(supa_events)
           Q == Entries(deferred)
           V == Queued(supa_events')
           U == b.stream_uses
           c == WithUse(b, FALSE, {}, b.event_count + Cardinality(U))
<1>1. /\ Distinct(active_blocks) /\ Accounts(active_blocks, W, Q)
      /\ active_blocks \in SUBSET Block /\ b \in Block
    BY StateTypes, SafeDistinct DEF SafeState, Safe
<1>2. U \in SUBSET Streams /\ b.event_count \in Int /\ RefOf(b) \in Ref
      /\ b.event_count + Cardinality(U) \in Int
    <2>1. U \in SUBSET Streams /\ b.event_count \in Int
        BY <1>1 DEF Block
    <2> QED BY <1>1, <2>1, UsesCount, RefType
<1>3. /\ c \in Block /\ c.seg = b.seg /\ c.off = b.off /\ c.size = b.size
      /\ c.stream = b.stream /\ c.pool = b.pool /\ c.allocated = FALSE
      /\ c.stream_uses = {} /\ c.event_count = b.event_count + Cardinality(U)
    BY <1>1, <1>2 DEF WithUse, Block
<1>4. /\ active_blocks' = (active_blocks \ {b}) \cup {c}
      /\ supa_events' = [s \in Streams |-> IF s \in U THEN Append(supa_events[s], RefOf(b))
                                                     ELSE supa_events[s]]
    BY DEF insert_events
<1> HIDE DEF c
<1>5. RefOf(c) = RefOf(b) /\ SameRange(b, c)
    BY <1>3 DEF RefOf, SameRange
<1>6. ASSUME NEW s \in Streams
      PROVE  /\ s \in U => supa_events'[s] = Append(supa_events[s], RefOf(b))
             /\ s \notin U => supa_events'[s] = supa_events[s]
             /\ V[s] = Entries(supa_events'[s]) /\ W[s] = Entries(supa_events[s])
             /\ supa_events[s] \in Seq(Ref) /\ NoRepeats(supa_events[s])
    BY <1>4, StateTypes DEF Queued, QueuesOK
<1>7. Added(W, V, U, RefOf(b))
    <2> SUFFICES ASSUME NEW s \in Streams
                 PROVE  V[s] = IF s \in U THEN W[s] \cup {RefOf(b)} ELSE W[s]
        BY DEF Added
    <2> HIDE DEF V, W
    <2> QED BY <1>2, <1>6, EntriesAppend
<1> HIDE DEF W, V, Q
<1>8. /\ Accounts((active_blocks \ {b}) \cup {c}, V, R)
      /\ \A s \in Streams : RefOf(b) \notin W[s]
    <2>1. ASSUME NEW A, A = active_blocks
          PROVE  /\ Accounts((A \ {b}) \cup {c}, V, R)
                 /\ \A s \in Streams : RefOf(b) \notin W[s]
        <3>1. A \in SUBSET Block /\ Distinct(A) /\ Accounts(A, W, Q) /\ b \in A
            BY <1>1, <2>1
        <3>2. b.allocated \/ RefOf(b) \in Q
            BY DEF Q
        <3>3. R = Q \ {RefOf(b)} /\ ~c.allocated
            BY <1>3 DEF Q
        <3> QED BY <1>3, <1>5, <1>7, <3>1, <3>2, <3>3, AccountsInsert
    <2> QED BY <2>1
<1>9. \A s \in Streams : NoRepeats(supa_events'[s])
    <2> SUFFICES ASSUME NEW s \in Streams PROVE NoRepeats(supa_events'[s])
        OBVIOUS
    <2>1. RefOf(b) \notin Entries(supa_events[s])
        BY <1>6, <1>8
    <2> QED BY <1>2, <1>6, <2>1, EntriesAppend
<1>10. Guarded(c, V, kernels)
    <2> SUFFICES ASSUME NEW k \in kernels, Overlap(k, c), k.stream # c.stream
                 PROVE  RefOf(c) \in V[k.stream]
        BY DEF Guarded
    <2>1. Overlap(k, b) /\ k.stream # b.stream /\ k.stream \in Streams
        BY <1>3, StateTypes DEF Overlap, Kernel
    <2>2. k.stream \in U \/ RefOf(b) \in W[k.stream]
        BY <2>1 DEF Guarded, W
    <2> QED BY <1>5, <1>7, <2>1, <2>2 DEF Added
<1>11. \A d \in active_blocks \ {b} : \A s \in Streams :
          RefOf(d) \in W[s] => RefOf(d) \in V[s]
    BY <1>7 DEF Added
<1>12. ASSUME NEW A, A = active_blocks, NEW C, C = cached_blocks, NEW K, K = kernels,
              NEW sz, sz = segments
       PROVE  Safe((A \ {b}) \cup {c}, C, sz, V, R, K)
    <2>1. /\ A \in SUBSET Block /\ C \in SUBSET Block /\ sz \in [Segments -> Nat]
          /\ K \in SUBSET Kernel /\ b \in A /\ Safe(A, C, sz, W, Q, K)
          /\ Accounts((A \ {b}) \cup {c}, V, R) /\ Guarded(c, V, K)
          /\ \A d \in A \ {b} : \A s \in Streams : RefOf(d) \in W[s] => RefOf(d) \in V[s]
        BY <1>8, <1>10, <1>11, <1>12, StateTypes DEF SafeState, W, Q
    <2> QED BY <1>3, <1>5, <2>1, SafeUse
<1> QED
    BY <1>4, <1>9, <1>12 DEF V

\* The queue of one stream loses an entry.
LEMMA QueueDrops ==
    ASSUME TypeOK, QueuesOK, NEW s \in Streams, NEW p, NEW r,
           Entries(p) = Entries(supa_events[s]) \ {r}, NoRepeats(p),
           supa_events' = [supa_events EXCEPT ![s] = p]
    PROVE  /\ Dropped(Queued(supa_events), Queued(supa_events'), s, r)
           /\ \A t \in Streams : NoRepeats(supa_events'[t])
<1>1. supa_events'[s] = p /\ \A t \in Streams : t # s => supa_events'[t] = supa_events[t]
    BY StateTypes
<1>2. \A t \in Streams : /\ Queued(supa_events)[t] = Entries(supa_events[t])
                         /\ Queued(supa_events')[t] = Entries(supa_events'[t])
    BY DEF Queued
<1>3. Dropped(Queued(supa_events), Queued(supa_events'), s, r)
    BY <1>1, <1>2 DEF Dropped
<1>4. \A t \in Streams : NoRepeats(supa_events'[t])
    BY <1>1 DEF QueuesOK
<1> QED
    BY <1>3, <1>4

\* A caller may free a block when other work that touches it was recorded.
LEMMA DoFreeSafe ==
    ASSUME TypeOK, SafeState, QueuesOK, NEW b \in active_blocks, b.allocated,
           \A k \in kernels : Overlap(k, b) => k.stream \in b.stream_uses \cup {b.stream},
           do_free(b), UNCHANGED <<segments, kernels>>
    PROVE  SafeState' /\ QueuesOK'
<1> DEFINE W == Queued(supa_events)
           Q == Entries(deferred)
           change == [allocation |-> -1, allocated_bytes |-> -b.size,
                      oversize_allocations |-> -Indicator(b.size >= MaxSplitSize)]
           st == Changed(stats, change)
<1>1. /\ Distinct(active_blocks) /\ Accounts(active_blocks, W, Q)
      /\ active_blocks \in SUBSET Block /\ b \in Block
    BY StateTypes, SafeDistinct DEF SafeState, Safe
<1>2. Guarded(b, W, kernels)
    BY DEF Guarded
<1>3. RefOf(b) \notin Q /\ RefOf(b) \in Ref
    <2>1. RefOf(b) \notin Q
        BY <1>1 DEF Accounts, Freed, Distinct
    <2> QED BY <1>1, <2>1, RefType
<1>4. CASE /\ b.stream_uses # {} /\ captures_underway = <<>> /\ insert_events(b)
           /\ UNCHANGED <<cached_blocks, deferred>>
    <2>1. Q = Q \ {RefOf(b)}
        BY <1>3
    <2>2. /\ Safe(active_blocks', cached_blocks, segments, Queued(supa_events'), Q, kernels)
          /\ \A s \in Streams : NoRepeats(supa_events'[s])
        BY <1>2, <1>4, <2>1, InsertEventsSafe
    <2> QED BY <1>4, <2>2 DEF SafeState, QueuesOK
<1>5. CASE /\ b.stream_uses = {} /\ free_block(b, st) /\ UNCHANGED eventVars
    <2>1. Quiet(b, kernels)
        BY <1>5 DEF Quiet
    <2>2. Accounts(active_blocks \ {b}, W, Q)
        <3>1. \A a \in active_blocks : a.allocated => a.event_count = 0
            <4> SUFFICES ASSUME NEW a \in active_blocks, a.allocated
                         PROVE  a.event_count = 0
                OBVIOUS
            <4> HIDE DEF W, Q
            <4>1. {s \in Streams : RefOf(a) \in W[s]} = {}
                BY <1>1 DEF Accounts, Freed, Distinct
            <4> QED BY <1>1, <4>1, FS_EmptySet DEF Accounts
        <3>2. Distinct(active_blocks \ {b})
            BY <1>1 DEF Distinct
        <3> HIDE DEF W, Q
        <3> QED BY <1>1, <3>1, <3>2, AccountsKept
    <2>3. st \in [StatName -> Int]
        <3>1. Indicator(b.size >= MaxSplitSize) \in Int /\ b.size \in Int
            BY <1>1, IndicatorType DEF Block
        <3>2. \A n \in DOMAIN change : change[n] \in Int
            BY <3>1
        <3> HIDE DEF change
        <3> QED BY <3>2, ChangedType DEF TypeOK
    <2> HIDE DEF st
    <2>4. Safe(active_blocks', cached_blocks', segments, W, Q, kernels)
        BY <1>5, <2>1, <2>2, <2>3, FreeBlockSafe
    <2> QED BY <1>5, <2>4 DEF SafeState, QueuesOK, eventVars
<1>6. CASE /\ b.stream_uses # {} /\ captures_underway # <<>>
           /\ active_blocks' = (active_blocks \ {b})
                  \cup {WithUse(b, FALSE, b.stream_uses, b.event_count)}
           /\ deferred' = Append(deferred, RefOf(b))
           /\ UNCHANGED <<cached_blocks, supa_events>>
    <2> DEFINE c == WithUse(b, FALSE, b.stream_uses, b.event_count)
               R == Q \cup {RefOf(b)}
    <2>1. /\ c \in Block /\ c.seg = b.seg /\ c.off = b.off /\ c.size = b.size
          /\ c.stream = b.stream /\ c.pool = b.pool /\ c.allocated = FALSE
          /\ c.stream_uses = b.stream_uses /\ c.event_count = b.event_count
        BY <1>1 DEF WithUse, Block
    <2>2. active_blocks' = (active_blocks \ {b}) \cup {c}
        BY <1>6
    <2> HIDE DEF c
    <2>3. RefOf(c) = RefOf(b) /\ SameRange(b, c)
        BY <2>1 DEF RefOf, SameRange
    <2>4. Entries(deferred') = R /\ NoRepeats(deferred')
        BY <1>3, <1>6, EntriesAppend, StateTypes DEF QueuesOK
    <2>5. Guarded(c, W, kernels)
        BY <1>2, <2>1, <2>3 DEF Guarded, Overlap
    <2>6. ASSUME NEW A, A = active_blocks, NEW C, C = cached_blocks, NEW K, K = kernels,
                 NEW sz, sz = segments
          PROVE  Safe((A \ {b}) \cup {c}, C, sz, W, R, K)
        <3>1. /\ A \in SUBSET Block /\ C \in SUBSET Block /\ sz \in [Segments -> Nat]
              /\ K \in SUBSET Kernel /\ b \in A /\ Safe(A, C, sz, W, Q, K)
              /\ Guarded(c, W, K) /\ Distinct(A) /\ Accounts(A, W, Q)
            BY <1>1, <2>5, <2>6, StateTypes DEF SafeState
        <3> HIDE DEF W, Q
        <3>2. Accounts((A \ {b}) \cup {c}, W, R)
            <4>1. ~c.allocated
                BY <2>1
            <4> QED BY <1>6, <2>1, <2>3, <3>1, <4>1, AccountsDefer
        <3> QED BY <2>1, <2>3, <3>1, <3>2, SafeUse
    <2>7. Safe((active_blocks \ {b}) \cup {c}, cached_blocks, segments, W, R, kernels)
        BY <2>6
    <2> QED BY <1>6, <2>2, <2>4, <2>7 DEF SafeState, QueuesOK
<1> QED
    BY <1>4, <1>5, <1>6 DEF do_free

\* A segment goes back to the driver.
LEMMA ReleaseSafe ==
    ASSUME TypeOK, SafeState, QueuesOK, NEW b \in cached_blocks,
           ~is_split(b) \/ b.size >= MaxSplitSize, release_block(b)
    PROVE  SafeState' /\ QueuesOK'
<1> DEFINE B == active_blocks \cup cached_blocks
<1>1. B \in SUBSET Block /\ Geometry(B, segments) /\ b \in B /\ b \in Block
    BY StateTypes DEF SafeState, Safe
<1>2. \A c \in B : c.seg = b.seg => c = b
    <2>1. ASSUME NEW G, G = B, NEW sz, sz = segments, NEW c \in G, c.seg = b.seg
          PROVE  c = b
        <3>1. G \in SUBSET Block /\ Geometry(G, sz) /\ b \in G /\ sz \in [Segments -> Nat]
            BY <1>1, <2>1, StateTypes
        <3>2. CASE b.size >= MaxSplitSize
            BY <2>1, <3>1, <3>2, OversizeAlone
        <3>3. CASE ~is_split(b)
            <4>1. /\ ~ \E x \in G : x.seg = b.seg /\ x.off + x.size = b.off
                  /\ ~ \E x \in G : x.seg = b.seg /\ b.off + b.size = x.off
                BY <2>1, <3>3 DEF is_split, PrevOf, NextOf, AllBlocks
            <4> QED BY <2>1, <3>1, <4>1, UnsplitAlone
        <3> QED BY <3>2, <3>3
    <2> QED BY <2>1
<1>3. /\ cached_blocks' = cached_blocks \ {b} /\ active_blocks' = active_blocks
      /\ segments' = [segments EXCEPT ![b.seg] = 0]
      /\ kernels' = {k \in kernels : k.seg # b.seg}
      /\ UNCHANGED <<supa_events, deferred>>
    BY DEF release_block, eventVars
<1>4. ASSUME NEW A, A = active_blocks, NEW C, C = cached_blocks, NEW K, K = kernels,
             NEW sz, sz = segments, NEW W, W = Queued(supa_events),
             NEW Q, Q = Entries(deferred), NEW tz, tz = [sz EXCEPT ![b.seg] = 0],
             NEW L, L = {k \in K : k.seg # b.seg}
      PROVE  Safe(A, C \ {b}, tz, W, Q, L)
    <2>1. /\ A \in SUBSET Block /\ C \in SUBSET Block /\ sz \in [Segments -> Nat]
          /\ K \in SUBSET Kernel /\ b \in C /\ Safe(A, C, sz, W, Q, K)
          /\ \A c \in A \cup C : c.seg = b.seg => c = b
        BY <1>2, <1>4, StateTypes DEF SafeState
    <2> QED BY <1>4, <2>1, SafeRelease
<1>5. Safe(active_blocks, cached_blocks \ {b}, segments', Queued(supa_events),
           Entries(deferred), kernels')
    BY <1>3, <1>4
<1> QED
    BY <1>3, <1>5 DEF SafeState, QueuesOK

\* Rounding up keeps the order.
LEMMA RoundUpMonotone ==
    ASSUME NEW n \in Nat, NEW k \in Nat, n <= k, NEW m \in Nat \ {0}
    PROVE  RoundUp(n, m) <= RoundUp(k, m)
<1> DEFINE p == (n + m - 1) \div m
           q == (k + m - 1) \div m
<1>1. p \in Nat /\ m * p <= n + m - 1
    OBVIOUS
<1>2. q \in Nat /\ k + m - 1 < m * q + m
    OBVIOUS
<1> HIDE DEF p, q
<1>3. m * p \in Nat /\ m * q \in Nat
    BY <1>1, <1>2
<1>4. m * p < m * q + m
    BY <1>1, <1>2, <1>3
<1>5. p <= q
    <2> SUFFICES ASSUME p > q PROVE FALSE
        BY <1>1, <1>2
    <2> DEFINE d == p - q - 1
    <2>1. d \in Nat /\ p = q + 1 + d
        BY <1>1, <1>2
    <2> HIDE DEF d
    <2>2. m * d \in Nat
        BY <2>1
    <2>3. m * p = m * q + m + m * d
        BY <1>1, <1>2, <2>1
    <2> QED BY <1>3, <1>4, <2>2, <2>3
<1>6. m * p <= m * q
    <2> DEFINE d == q - p
    <2>1. d \in Nat /\ q = p + d
        BY <1>1, <1>2, <1>5
    <2> HIDE DEF d
    <2>2. m * d \in Nat
        BY <2>1
    <2>3. m * q = m * p + m * d
        BY <1>1, <1>2, <2>1
    <2> QED BY <1>3, <2>2, <2>3
<1> QED
    BY <1>6 DEF RoundUp, p, q

\* The segment requested for a block that may be split is not much larger than
\* max_split_size, and the segment of a small block is below it.
LEMMA SegmentSizes ==
    ASSUME NEW n \in Nat
    PROVE  /\ n < MaxSplitSize => get_allocation_size(n) <= MaxSplitSize + kSmallSize
           /\ n <= kSmallSize => get_allocation_size(n) < MaxSplitSize
<1>1. /\ kSmallSize \in Nat /\ kSmallBuffer \in Nat /\ kLargeBuffer \in Nat
      /\ kMinLargeAlloc \in Nat /\ kRoundLarge \in Nat \ {0} /\ MaxSplitSize \in Nat
      /\ kSmallBuffer < MaxSplitSize /\ kLargeBuffer < MaxSplitSize
    BY SizeAssumption, SplitAssumption
<1>2. n < MaxSplitSize => RoundUp(n, kRoundLarge) <= RoundUp(MaxSplitSize, kRoundLarge)
    BY <1>1, RoundUpMonotone
<1>3. /\ RoundUp(n, kRoundLarge) \in Nat /\ RoundUp(MaxSplitSize, kRoundLarge) \in Nat
    BY <1>1, RoundUpBound
<1>4. n < MaxSplitSize => RoundUp(n, kRoundLarge) <= MaxSplitSize + kSmallSize
    BY <1>1, <1>2, <1>3, SplitAssumption
<1> QED
    BY <1>1, <1>3, <1>4 DEF get_allocation_size

\* alloc_found_block keeps memory safe: b, of the cache C, is handed out.
LEMMA AllocFoundSafe ==
    ASSUME TypeOK, LocalsFit, op \in MallocOp, NEW st, NEW C \in SUBSET Block,
           NEW sz \in [Segments -> Nat],
           Safe(active_blocks, C, sz, Queued(supa_events), Entries(deferred), kernels),
           NEW b \in C, C \ {b} = cached_blocks \ {b}, b.pool = op.pool,
           b.size >= op.size,
           op.size < MaxSplitSize \/ b.pool.small => sz[b.seg] <= MaxSplitSize + kSmallSize,
           alloc_found_block(b, st)
    PROVE  Safe(active_blocks', cached_blocks', sz, Queued(supa_events),
                Entries(deferred), kernels)
<1> DEFINE split == should_split(b.size, op.size, op.pool.small)
           size == IF split THEN op.size ELSE b.size
           new == NewBlock(b.seg, b.off, size, b.stream, b.pool)
           t == WithUse(new, TRUE, {}, 0)
           r == NewBlock(b.seg, b.off + op.size, b.size - op.size, b.stream, b.pool)
<1>1. /\ active_blocks' = active_blocks \cup {t}
      /\ cached_blocks' = (cached_blocks \ {b}) \cup (IF split THEN {r} ELSE {})
    BY DEF alloc_found_block
<1>2. /\ op.size \in Nat /\ op.size > 0 /\ b.size \in Nat /\ b.off \in Nat
      /\ b.seg \in Segments /\ b.stream \in Streams /\ b.pool \in Pools
      /\ op.pool.small = (op.size <= kSmallSize) /\ op.pool.small \in BOOLEAN
    BY DEF MallocOp, Block, LocalsFit, Pools
<1>3. split => b.size - op.size > 0
    BY <1>2, SizeAssumption DEF should_split
<1>4. split /\ ~b.pool.small => /\ op.size > kSmallSize /\ b.size - op.size > kSmallSize
                                /\ op.size < MaxSplitSize
    <2> SUFFICES ASSUME split, ~op.pool.small
                 PROVE  /\ op.size > kSmallSize /\ b.size - op.size > kSmallSize
                        /\ op.size < MaxSplitSize
        OBVIOUS
    <2>1. ~(op.size <= kSmallSize) /\ kSmallSize \in Nat
        BY <1>2, SizeAssumption
    <2>2. op.size < MaxSplitSize /\ b.size - op.size > kSmallSize
        BY DEF should_split
    <2> QED BY <1>2, <2>1, <2>2
<1>5. size \in Nat /\ b.size - op.size \in Nat /\ b.off + op.size \in Nat
    BY <1>2
<1>6. (split => size = op.size) /\ (~split => size = b.size)
    OBVIOUS
<1> HIDE DEF split, size
<1>7. /\ new \in Block /\ new.seg = b.seg /\ new.off = b.off /\ new.size = size
      /\ new.stream = b.stream /\ new.pool = b.pool
    BY <1>2, <1>5 DEF NewBlock, Block
<1>8. /\ r \in Block /\ r.seg = b.seg /\ r.off = b.off + op.size
      /\ r.size = b.size - op.size /\ r.stream = b.stream /\ r.pool = b.pool
      /\ r.allocated = FALSE /\ r.event_count = 0 /\ r.stream_uses = {}
    BY <1>2, <1>5 DEF NewBlock, Block
<1> HIDE DEF new, r
<1>9. /\ t \in Block /\ t.seg = b.seg /\ t.off = b.off /\ t.size = size
       /\ t.stream = b.stream /\ t.pool = b.pool /\ t.allocated = TRUE
       /\ t.event_count = 0
    BY <1>7 DEF WithUse, Block
<1> HIDE DEF t
<1>10. Mergeable(r)
    BY <1>8 DEF Mergeable
<1>11. ASSUME NEW A, A = active_blocks, NEW K, K = kernels,
              NEW W, W = Queued(supa_events), NEW Q, Q = Entries(deferred)
       PROVE  Safe(A \cup {t}, (C \ {b}) \cup (IF split THEN {r} ELSE {}), sz, W, Q, K)
    <2>1. A \in SUBSET Block /\ K \in SUBSET Kernel /\ Safe(A, C, sz, W, Q, K)
        BY <1>11, StateTypes
    <2>2. CASE ~split
        <3>1. SameRange(b, t) /\ t.allocated
            BY <1>6, <1>9, <2>2 DEF SameRange
        <3>2. Safe(A \cup {t}, C \ {b}, sz, W, Q, K)
            BY <1>9, <2>1, <3>1, SafeTakeWhole
        <3>3. (C \ {b}) \cup (IF split THEN {r} ELSE {}) = C \ {b}
            BY <2>2
        <3> QED BY <3>2, <3>3
    <2>3. CASE split
        <3>1. t.size = op.size /\ t.allocated
            BY <1>6, <1>9, <2>3
        <3>2. CutsInto(b, t, r)
            BY <1>2, <1>3, <1>8, <1>9, <2>3, <3>1 DEF CutsInto
        <3>3. ~b.pool.small => t.size > kSmallSize /\ r.size > kSmallSize
            BY <1>4, <1>8, <2>3, <3>1
        <3>4. sz[b.seg] <= MaxSplitSize + kSmallSize
            BY <1>4, <2>3
        <3>5. Safe(A \cup {t}, (C \ {b}) \cup {r}, sz, W, Q, K)
            BY <1>8, <1>9, <1>10, <2>1, <3>1, <3>2, <3>3, <3>4, SafeTakeSplit
        <3> QED BY <2>3, <3>5
    <2> QED BY <2>2, <2>3
<1> QED
    BY <1>1, <1>11

-----------------------------------------------------------------------------
(* The steps of the specification.                                         *)

SafeAll == SafeState /\ QueuesOK /\ LocalsFit

\* A step that leaves memory, events and kernels alone keeps them safe.
LEMMA SafeStays ==
    ASSUME SafeState, QueuesOK,
           UNCHANGED <<segments, active_blocks, cached_blocks, supa_events, deferred,
                       kernels>>
    PROVE  SafeState' /\ QueuesOK'
    BY DEF SafeState, QueuesOK

\* The locals fit as long as malloc keeps its size and pool,
LEMMA LocalsStay ==
    ASSUME LocalsFit, op'.kind = op.kind, op'.size = op.size,
           op'.alloc_size = op.alloc_size, op'.pool = op.pool
    PROVE  LocalsFit'
    BY DEF LocalsFit

\* ... which it does when it moves on
LEMMA LocalsMove ==
    ASSUME LocalsFit, op \in MallocOp, NEW a, NEW n, NEW t,
           \/ op' = [op EXCEPT !.todo = t]
           \/ op' = [op EXCEPT !.amount = n]
           \/ op' = [op EXCEPT !.attempt = a]
           \/ op' = [op EXCEPT !.attempt = a, !.amount = n]
    PROVE  LocalsFit'
<1>1. ASSUME NEW o \in MallocOp
      PROVE  /\ [o EXCEPT !.todo = t].kind = o.kind
             /\ [o EXCEPT !.todo = t].size = o.size
             /\ [o EXCEPT !.todo = t].alloc_size = o.alloc_size
             /\ [o EXCEPT !.todo = t].pool = o.pool
    BY DEF MallocOp
<1>2. ASSUME NEW o \in MallocOp
      PROVE  /\ [o EXCEPT !.amount = n].kind = o.kind
             /\ [o EXCEPT !.amount = n].size = o.size
             /\ [o EXCEPT !.amount = n].alloc_size = o.alloc_size
             /\ [o EXCEPT !.amount = n].pool = o.pool
    BY DEF MallocOp
<1>3. ASSUME NEW o \in MallocOp
      PROVE  /\ [o EXCEPT !.attempt = a].kind = o.kind
             /\ [o EXCEPT !.attempt = a].size = o.size
             /\ [o EXCEPT !.attempt = a].alloc_size = o.alloc_size
             /\ [o EXCEPT !.attempt = a].pool = o.pool
    BY DEF MallocOp
<1>4. ASSUME NEW o \in MallocOp
      PROVE  /\ [o EXCEPT !.attempt = a, !.amount = n].kind = o.kind
             /\ [o EXCEPT !.attempt = a, !.amount = n].size = o.size
             /\ [o EXCEPT !.attempt = a, !.amount = n].alloc_size = o.alloc_size
             /\ [o EXCEPT !.attempt = a, !.amount = n].pool = o.pool
    BY DEF MallocOp
<1>5. /\ op'.kind = op.kind /\ op'.size = op.size
      /\ op'.alloc_size = op.alloc_size /\ op'.pool = op.pool
    <2>1. CASE op' = [op EXCEPT !.todo = t]
        BY <1>1, <2>1
    <2>2. CASE op' = [op EXCEPT !.amount = n]
        BY <1>2, <2>2
    <2>3. CASE op' = [op EXCEPT !.attempt = a]
        BY <1>3, <2>3
    <2>4. CASE op' = [op EXCEPT !.attempt = a, !.amount = n]
        BY <1>4, <2>4
    <2> QED BY <2>1, <2>2, <2>3, <2>4
<1> QED
    BY <1>5, LocalsStay

\* ... and no other method has such locals.
LEMMA LocalsOther ==
    ASSUME op' = NoOp \/ \E id : op' = [kind |-> "empty", id |-> id]
    PROVE  LocalsFit'
<1>1. op'.kind # "malloc"
    BY DEF NoOp
<1> QED
    BY <1>1 DEF LocalsFit

\* The initial state is safe.
LEMMA SafeInit == Init => SafeAll
<1> SUFFICES ASSUME Init PROVE SafeAll
    OBVIOUS
<1>1. /\ active_blocks = {} /\ cached_blocks = {} /\ kernels = {} /\ deferred = <<>>
      /\ \A g \in Segments : segments[g] = 0
      /\ \A s \in Streams : supa_events[s] = <<>>
      /\ op = NoOp
    BY DEF Init
<1>2. Entries(<<>>) = {} /\ NoRepeats(<<>>)
    BY DEF Entries, NoRepeats
<1>3. Geometry({}, segments)
    <2>1. Covered({}, segments)
        <3> SUFFICES ASSUME NEW g \in Segments, NEW u \in 0 .. (0 - 1) PROVE FALSE
            BY <1>1 DEF Covered
        <3> QED OBVIOUS
    <2> QED BY <2>1 DEF Geometry, Within, Apart, Owned
<1>4. \A s \in Streams : Queued(supa_events)[s] = {}
    BY <1>1, <1>2 DEF Queued
<1>5. SafeState
    BY <1>1, <1>2, <1>3, <1>4 DEF SafeState, Safe, Accounts, Mapped
<1>6. QueuesOK
    BY <1>1, <1>2 DEF QueuesOK
<1>7. op.kind # "malloc"
    BY <1>1 DEF NoOp
<1> QED
    BY <1>5, <1>6, <1>7 DEF SafeAll, LocalsFit

\* The deferred events are recorded once no capture is underway.
LEMMA DeferredSafe ==
    ASSUME TypeOK, SafeState, QueuesOK, insert_events_deferred
    PROVE  SafeState' /\ QueuesOK'
<1>1. UNCHANGED <<segments, cached_blocks, kernels>>
    BY DEF insert_events_deferred
<1>2. CASE deferred = <<>>
    <2>1. UNCHANGED <<active_blocks, supa_events, deferred>>
        BY <1>2 DEF insert_events_deferred, eventVars
    <2> QED BY <1>1, <2>1, SafeStays
<1>3. CASE deferred # <<>>
    <2>1. PICK b \in active_blocks : RefOf(b) = Head(deferred) /\ insert_events(b)
        BY <1>3 DEF insert_events_deferred
    <2>2. deferred' = Tail(deferred)
        BY <1>3 DEF insert_events_deferred
    <2>3. /\ Entries(deferred') = Entries(deferred) \ {RefOf(b)} /\ NoRepeats(deferred')
          /\ RefOf(b) \in Entries(deferred)
        BY <1>3, <2>1, <2>2, EntriesTail, StateTypes DEF QueuesOK
    <2>4. /\ Accounts(active_blocks, Queued(supa_events), Entries(deferred))
          /\ Distinct(active_blocks)
        BY StateTypes, SafeDistinct DEF SafeState, Safe
    <2>5. ~b.allocated
        BY <2>3, <2>4 DEF Accounts, Freed, Distinct
    <2>6. b.stream_uses # {} /\ Guarded(b, Queued(supa_events), kernels)
        BY <2>3, <2>4, <2>5 DEF Accounts, SafeState, Safe
    <2>7. /\ Safe(active_blocks', cached_blocks, segments, Queued(supa_events'),
                  Entries(deferred'), kernels)
          /\ \A s \in Streams : NoRepeats(supa_events'[s])
        BY <2>1, <2>3, <2>6, InsertEventsSafe
    <2> QED BY <1>1, <2>3, <2>7 DEF SafeState, QueuesOK
<1> QED
    BY <1>2, <1>3

\* A completed event leaves its queue.
LEMMA CompletedSafe ==
    ASSUME TypeOK, SafeState, QueuesOK, NEW s \in Streams, NEW b \in active_blocks,
           NEW p, RefOf(b) \in Entries(supa_events[s]), EventReady(s, b),
           complete_event(b), Entries(p) = Entries(supa_events[s]) \ {RefOf(b)},
           NoRepeats(p), supa_events' = [supa_events EXCEPT ![s] = p],
           UNCHANGED <<segments, deferred, kernels>>
    PROVE  SafeState' /\ QueuesOK'
<1>1. /\ Dropped(Queued(supa_events), Queued(supa_events'), s, RefOf(b))
      /\ \A t \in Streams : NoRepeats(supa_events'[t])
    BY QueueDrops
<1>2. RefOf(b) \in Queued(supa_events)[s]
    BY DEF Queued
<1>3. Safe(active_blocks', cached_blocks', segments, Queued(supa_events'),
           Entries(deferred), kernels)
    BY <1>1, <1>2, CompleteEventSafe
<1> QED
    BY <1>1, <1>3 DEF SafeState, QueuesOK

\* process_events
LEMMA QuerySafe ==
    ASSUME TypeOK, SafeState, QueuesOK, NEW s \in Streams, query_event(s)
    PROVE  SafeState' /\ QueuesOK'
<1>1. /\ supa_events[s] # <<>> /\ supa_events' = [supa_events EXCEPT ![s] = Tail(@)]
      /\ UNCHANGED <<segments, deferred, kernels>>
    BY DEF query_event
<1>2. PICK b \in active_blocks :
         RefOf(b) = Head(supa_events[s]) /\ EventReady(s, b) /\ complete_event(b)
    BY DEF query_event
<1>3. supa_events[s] \in Seq(Ref) /\ NoRepeats(supa_events[s])
    BY StateTypes DEF QueuesOK
<1> DEFINE p == Tail(supa_events[s])
<1>4. /\ Entries(p) = Entries(supa_events[s]) \ {RefOf(b)} /\ NoRepeats(p)
      /\ RefOf(b) \in Entries(supa_events[s])
    BY <1>1, <1>2, <1>3, EntriesTail
<1>5. supa_events' = [supa_events EXCEPT ![s] = p]
    BY <1>1
<1> HIDE DEF p
<1> QED
    BY <1>1, <1>2, <1>4, <1>5, CompletedSafe

\* synchronize_and_free_events
LEMMA SynchronizeSafe ==
    ASSUME TypeOK, SafeState, QueuesOK, NEW s \in Streams, synchronize_event(s)
    PROVE  SafeState' /\ QueuesOK'
<1>1. PICK i \in EventsInScope(s) :
         /\ \E b \in active_blocks :
               RefOf(b) = supa_events[s][i] /\ EventReady(s, b) /\ complete_event(b)
         /\ supa_events' = [supa_events EXCEPT ![s] = Erase(@, i)]
    BY DEF synchronize_event
<1>2. PICK b \in active_blocks :
         RefOf(b) = supa_events[s][i] /\ EventReady(s, b) /\ complete_event(b)
    BY <1>1
<1>3. supa_events[s] \in Seq(Ref) /\ NoRepeats(supa_events[s]) /\ i \in DOMAIN supa_events[s]
    BY StateTypes DEF QueuesOK, EventsInScope
<1> DEFINE p == Erase(supa_events[s], i)
<1>4. Entries(p) = Entries(supa_events[s]) \ {RefOf(b)} /\ NoRepeats(p)
    BY <1>2, <1>3, EntriesErase
<1>5. RefOf(b) \in Entries(supa_events[s])
    BY <1>2, <1>3 DEF Entries
<1>6. supa_events' = [supa_events EXCEPT ![s] = p] /\ UNCHANGED <<segments, deferred, kernels>>
    BY <1>1 DEF synchronize_event
<1> HIDE DEF p
<1> QED
    BY <1>2, <1>4, <1>5, <1>6, CompletedSafe

\* get_free_block hands out a block of the cache.
LEMMA GetFreeBlockSafe ==
    ASSUME TypeOK, SafeAll, get_free_block
    PROVE  SafeAll'
<1>1. op \in MallocOp
    BY MallocLocals DEF get_free_block, MallocPhases
<1>2. PICK b \in BestFit : alloc_found_block(b, stats)
    BY DEF get_free_block
<1>3. /\ b \in cached_blocks /\ b.pool = op.pool /\ b.size >= op.size
      /\ may_serve(b.size, op.size)
    BY DEF BestFit
<1>4. b \in Block /\ b.size \in Nat /\ b.off \in Nat /\ b.seg \in Segments
      /\ segments[b.seg] \in Nat /\ op.size \in Nat
    BY <1>1, <1>3, StateTypes DEF Block, MallocOp
<1>5. /\ b.off + b.size <= segments[b.seg] /\ Shape(b, segments[b.seg])
    BY <1>3 DEF SafeAll, SafeState, Safe, Geometry, Within
<1>6. op.size < MaxSplitSize \/ b.pool.small => segments[b.seg] <= MaxSplitSize + kSmallSize
    BY <1>3, <1>4, <1>5, SizeAssumption DEF Shape, may_serve
<1>7. Safe(active_blocks', cached_blocks', segments, Queued(supa_events),
           Entries(deferred), kernels)
    <2>1. cached_blocks \in SUBSET Block /\ segments \in [Segments -> Nat]
        BY StateTypes
    <2>2. LocalsFit /\ Safe(active_blocks, cached_blocks, segments, Queued(supa_events),
                            Entries(deferred), kernels)
        BY DEF SafeAll, SafeState
    <2>3. ASSUME NEW C, C = cached_blocks, NEW sz, sz = segments
          PROVE  Safe(active_blocks', cached_blocks', sz, Queued(supa_events),
                      Entries(deferred), kernels)
        <3>1. /\ C \in SUBSET Block /\ sz \in [Segments -> Nat] /\ b \in C
              /\ C \ {b} = cached_blocks \ {b}
              /\ Safe(active_blocks, C, sz, Queued(supa_events), Entries(deferred), kernels)
              /\ (op.size < MaxSplitSize \/ b.pool.small
                     => sz[b.seg] <= MaxSplitSize + kSmallSize)
            BY <1>3, <1>6, <2>1, <2>2, <2>3
        <3> QED BY <1>1, <1>2, <1>3, <2>2, <3>1, AllocFoundSafe
    <2> QED BY <2>3
<1>8. op' = NoOp /\ UNCHANGED <<segments, supa_events, deferred, kernels>>
    BY <1>2 DEF get_free_block, alloc_found_block, eventVars
<1>9. LocalsFit'
    BY <1>8, LocalsOther
<1> QED
    BY <1>7, <1>8, <1>9 DEF SafeAll, SafeState, QueuesOK

\* The segment that alloc_block gets from the driver, as one block n of the cache
LEMMA NewSegment ==
    ASSUME TypeOK, SafeAll, NEW g \in Segments, alloc_block(g),
           NEW n, n = NewBlock(g, 0, op.alloc_size, op.stream, op.pool)
    PROVE  /\ op \in MallocOp /\ op.size \in Nat /\ op.size > 0 /\ op.alloc_size \in Nat
           /\ n \in Block /\ n.seg = g /\ n.off = 0 /\ n.size = op.alloc_size
           /\ n.pool = op.pool /\ n.size >= op.size /\ n \notin cached_blocks
           /\ segments[g] = 0 /\ segments' = [segments EXCEPT ![g] = n.size]
           /\ segments' \in [Segments -> Nat] /\ segments'[n.seg] = n.size
           /\ op.size < MaxSplitSize \/ n.pool.small => n.size <= MaxSplitSize + kSmallSize
           /\ Safe(active_blocks, cached_blocks \cup {n}, segments', Queued(supa_events),
                   Entries(deferred), kernels)
<1>1. op \in MallocOp
    BY MallocLocals DEF alloc_block, MallocPhases
<1>2. /\ op.size \in Nat /\ op.size > 0 /\ op.alloc_size \in Nat
      /\ op.alloc_size >= op.size /\ op.stream \in Streams /\ op.pool \in Pools
      /\ op.alloc_size = get_allocation_size(op.size)
      /\ op.pool.small = (op.size <= kSmallSize)
    BY <1>1 DEF MallocOp, SafeAll, LocalsFit
<1>3. /\ n \in Block /\ n.seg = g /\ n.off = 0 /\ n.size = op.alloc_size
      /\ n.stream = op.stream /\ n.pool = op.pool /\ n.allocated = FALSE
      /\ n.event_count = 0 /\ n.stream_uses = {}
    BY <1>2 DEF NewBlock, Block
<1>5. segments[g] = 0 /\ segments' = [segments EXCEPT ![g] = op.alloc_size]
    BY DEF alloc_block
<1>6. Mergeable(n)
    BY <1>3 DEF Mergeable
<1>7. /\ op.size < MaxSplitSize => n.size <= MaxSplitSize + kSmallSize
      /\ n.pool.small => n.size < MaxSplitSize
      /\ MaxSplitSize \in Nat /\ kSmallSize \in Nat
    <2>1. CASE op.size <= kSmallSize
        BY <1>2, <1>3, <2>1, SegmentSizes, SizeAssumption
    <2>2. CASE ~(op.size <= kSmallSize)
        BY <1>2, <1>3, <2>2, SegmentSizes, SizeAssumption
    <2> QED BY <2>1, <2>2
<1>8. ~n.pool.small => n.size > kSmallSize
    <2> SUFFICES ASSUME ~op.pool.small PROVE op.alloc_size > kSmallSize
        BY <1>3
    <2>1. ~(op.size <= kSmallSize)
        BY <1>2
    <2> QED BY <1>2, <1>7, <2>1
<1>9. Shape(n, n.size)
    <2>1. ~(n.size < n.size)
        BY <1>2, <1>3
    <2> QED BY <1>7, <1>8, <2>1, Zenon DEF Shape
<1>11. /\ Safe(active_blocks, cached_blocks \cup {n}, segments', Queued(supa_events),
               Entries(deferred), kernels)
       /\ n \notin cached_blocks
    <2>1. ASSUME NEW A, A = active_blocks, NEW C, C = cached_blocks, NEW K, K = kernels,
                 NEW sz, sz = segments, NEW W, W = Queued(supa_events),
                 NEW Q, Q = Entries(deferred)
          PROVE  Safe(A, C \cup {n}, [sz EXCEPT ![n.seg] = n.size], W, Q, K) /\ n \notin C
        <3>1. /\ A \in SUBSET Block /\ C \in SUBSET Block /\ sz \in [Segments -> Nat]
              /\ K \in SUBSET Kernel /\ Safe(A, C, sz, W, Q, K) /\ sz[n.seg] = 0
            BY <1>3, <1>5, <2>1, StateTypes DEF SafeAll, SafeState
        <3>2. n.size > 0 /\ n.off = 0
            BY <1>2, <1>3
        <3>3. n \in Block /\ Mergeable(n) /\ Shape(n, n.size)
            BY <1>3, <1>6, <1>9
        <3> QED BY ONLY <3>1, <3>2, <3>3, SafeNewSegment
    <2>2. segments' = [segments EXCEPT ![n.seg] = n.size]
        BY <1>3, <1>5
    <2> QED BY <2>1, <2>2
<1>12. segments' \in [Segments -> Nat] /\ segments'[n.seg] = n.size
    BY <1>2, <1>3, <1>5, StateTypes
<1>13. op.size < MaxSplitSize \/ n.pool.small => n.size <= MaxSplitSize + kSmallSize
    BY <1>2, <1>3, <1>7
<1>14. n.size >= op.size /\ segments' = [segments EXCEPT ![g] = n.size]
    BY <1>2, <1>3, <1>5
<1> QED
    BY <1>1, <1>2, <1>3, <1>5, <1>11, <1>12, <1>13, <1>14

\* alloc_block hands out (a part of) it.
LEMMA AllocBlockSafe ==
    ASSUME TypeOK, SafeAll, NEW g \in Segments, alloc_block(g)
    PROVE  SafeAll'
<1>1. PICK n : n = NewBlock(g, 0, op.alloc_size, op.stream, op.pool)
    OBVIOUS
<1>2. /\ op \in MallocOp
      /\ n \in Block /\ n.pool = op.pool /\ n.size >= op.size
      /\ segments' \in [Segments -> Nat] /\ segments'[n.seg] = n.size
      /\ op.size < MaxSplitSize \/ n.pool.small => n.size <= MaxSplitSize + kSmallSize
      /\ Safe(active_blocks, cached_blocks \cup {n}, segments', Queued(supa_events),
              Entries(deferred), kernels)
    BY <1>1, NewSegment
<1>3. PICK st : alloc_found_block(n, st)
    BY <1>1 DEF alloc_block
<1>4. UNCHANGED <<supa_events, deferred, kernels>>
    BY DEF alloc_block, eventVars
<1>5. Safe(active_blocks', cached_blocks', segments', Queued(supa_events),
            Entries(deferred), kernels)
    <2>1. ASSUME NEW C, C = cached_blocks \cup {n}, NEW sz, sz = segments'
          PROVE  Safe(active_blocks', cached_blocks', sz, Queued(supa_events),
                      Entries(deferred), kernels)
        <3>1. /\ C \in SUBSET Block /\ sz \in [Segments -> Nat] /\ n \in C
              /\ C \ {n} = cached_blocks \ {n}
            BY <1>2, <2>1, StateTypes
        <3>2. Safe(active_blocks, C, sz, Queued(supa_events), Entries(deferred), kernels)
            BY <1>2, <2>1
        <3>3. op.size < MaxSplitSize \/ n.pool.small => sz[n.seg] <= MaxSplitSize + kSmallSize
            BY <1>2, <2>1
        <3>4. LocalsFit /\ n.pool = op.pool /\ n.size >= op.size
            BY <1>2 DEF SafeAll
        <3> QED BY <1>2, <1>3, <3>1, <3>2, <3>3, <3>4, AllocFoundSafe
    <2> QED BY <2>1
<1>6. LocalsFit'
    BY <1>3, LocalsOther DEF alloc_found_block
<1> QED
    BY <1>4, <1>5, <1>6 DEF SafeAll, SafeState, QueuesOK

\* malloc's locals fit each other.
LEMMA MallocSafe ==
    ASSUME SafeAll, NEW s, NEW n, NEW p, malloc(s, n, p)
    PROVE  SafeAll'
<1> DEFINE size == round_size(n)
<1>1. op' = [kind |-> "malloc", stream |-> s, size |-> size,
             alloc_size |-> get_allocation_size(size),
             pool |-> get_pool(size, s), id |-> p, attempt |-> 0,
             amount |-> 0, todo |-> Streams]
    BY DEF malloc
<1> HIDE DEF size
<1>2. /\ op'.size = size /\ op'.alloc_size = get_allocation_size(size)
      /\ op'.pool = get_pool(size, s)
    BY <1>1
<1>3. get_pool(size, s).small = (size <= kSmallSize)
    BY DEF get_pool
<1>4. LocalsFit'
    BY <1>2, <1>3 DEF LocalsFit
<1>5. UNCHANGED <<segments, active_blocks, cached_blocks, supa_events, deferred, kernels>>
    BY DEF malloc, memVars, eventVars
<1> QED
    BY <1>4, <1>5, SafeStays DEF SafeAll

\* recordStream, launch and retire
LEMMA UseSafe ==
    ASSUME TypeOK, SafeState, QueuesOK
    PROVE  /\ \A b \in active_blocks, s \in Streams :
                 recordStream(b, s) => SafeState' /\ QueuesOK'
           /\ \A b \in active_blocks, s \in Streams :
                 launch(b, s) => SafeState' /\ QueuesOK'
           /\ \A k \in kernels : retire(k) => SafeState' /\ QueuesOK'
<1>1. ASSUME NEW b \in active_blocks, NEW s \in Streams, recordStream(b, s)
      PROVE  SafeState' /\ QueuesOK'
    <2> DEFINE c == WithUse(b, TRUE, b.stream_uses \cup {s}, b.event_count)
    <2>1. /\ active_blocks' = (active_blocks \ {b}) \cup {c} /\ b.allocated
          /\ UNCHANGED <<segments, cached_blocks, supa_events, deferred, kernels>>
        BY <1>1 DEF recordStream, eventVars
    <2>2. b \in Block /\ b.stream_uses \in SUBSET Streams /\ b.event_count \in Int
        BY StateTypes DEF Block
    <2>3. /\ c \in Block /\ c.seg = b.seg /\ c.off = b.off /\ c.size = b.size
          /\ c.stream = b.stream /\ c.pool = b.pool /\ c.allocated = TRUE
          /\ c.event_count = b.event_count
        BY <2>2 DEF WithUse, Block
    <2> HIDE DEF c
    <2>4. SameRange(b, c) /\ RefOf(c) = RefOf(b) /\ c.allocated
        BY <2>3 DEF SameRange, RefOf
    <2>5. ASSUME NEW A, A = active_blocks, NEW C, C = cached_blocks, NEW K, K = kernels,
                 NEW sz, sz = segments, NEW W, W = Queued(supa_events),
                 NEW Q, Q = Entries(deferred)
          PROVE  Safe((A \ {b}) \cup {c}, C, sz, W, Q, K)
        <3>1. /\ A \in SUBSET Block /\ C \in SUBSET Block /\ sz \in [Segments -> Nat]
              /\ K \in SUBSET Kernel /\ b \in A /\ Safe(A, C, sz, W, Q, K)
            BY <2>5, StateTypes DEF SafeState
        <3>2. Distinct(A) /\ Accounts(A, W, Q)
            BY <3>1, SafeDistinct DEF Safe
        <3>3. Distinct((A \ {b}) \cup {c})
            BY <2>4, <3>1, <3>2 DEF Distinct
        <3>4. \A a \in A : a.allocated => a.event_count = 0
            <4> SUFFICES ASSUME NEW a \in A, a.allocated PROVE a.event_count = 0
                OBVIOUS
            <4>1. {t \in Streams : RefOf(a) \in W[t]} = {}
                BY <3>2 DEF Accounts, Freed, Distinct
            <4> QED BY <3>2, <4>1, FS_EmptySet DEF Accounts
        <3>5. Accounts((A \ {b}) \cup {c}, W, Q)
            <4>1. \A d \in (A \ {b}) \cup {c} : d.allocated => d.event_count = 0
                BY <2>1, <2>3, <3>1, <3>4
            <4>2. \A d \in (A \ {b}) \cup {c} : ~d.allocated => d \in A
                BY <2>4
            <4>3. \A a \in A : ~a.allocated => a \in (A \ {b}) \cup {c}
                BY <2>1
            <4> QED BY <3>2, <3>3, <4>1, <4>2, <4>3, AccountsKept
        <3> QED BY <2>3, <2>4, <3>1, <3>5, SafeUse
    <2>6. Safe((active_blocks \ {b}) \cup {c}, cached_blocks, segments,
               Queued(supa_events), Entries(deferred), kernels)
        BY <2>5
    <2> QED BY <2>1, <2>6 DEF SafeState, QueuesOK
<1>2. ASSUME NEW b \in active_blocks, NEW s \in Streams, launch(b, s)
      PROVE  SafeState' /\ QueuesOK'
    <2> DEFINE k == [stream |-> s, seg |-> b.seg, off |-> b.off, size |-> b.size]
    <2>1. /\ kernels' = kernels \cup {k} /\ b.allocated
          /\ UNCHANGED <<segments, active_blocks, cached_blocks, supa_events, deferred>>
        BY <1>2 DEF launch, memVars, eventVars
    <2>2. k \in Kernel /\ k.seg = b.seg /\ k.off = b.off /\ k.size = b.size
        BY StateTypes DEF Kernel, Block
    <2> HIDE DEF k
    <2>3. ASSUME NEW A, A = active_blocks, NEW C, C = cached_blocks, NEW K, K = kernels,
                 NEW sz, sz = segments, NEW W, W = Queued(supa_events),
                 NEW Q, Q = Entries(deferred)
          PROVE  Safe(A, C, sz, W, Q, K \cup {k})
        <3>1. /\ A \in SUBSET Block /\ C \in SUBSET Block /\ sz \in [Segments -> Nat]
              /\ K \in SUBSET Kernel /\ b \in A /\ Safe(A, C, sz, W, Q, K)
            BY <2>3, StateTypes DEF SafeState
        <3> QED BY <2>1, <2>2, <3>1, SafeLaunch
    <2>4. Safe(active_blocks, cached_blocks, segments, Queued(supa_events),
               Entries(deferred), kernels \cup {k})
        BY <2>3
    <2> QED BY <2>1, <2>4 DEF SafeState, QueuesOK
<1>3. ASSUME NEW k \in kernels, retire(k) PROVE SafeState' /\ QueuesOK'
    <2>1. /\ kernels' = kernels \ {k}
          /\ UNCHANGED <<segments, active_blocks, cached_blocks, supa_events, deferred>>
        BY <1>3 DEF retire, memVars, eventVars
    <2>2. Safe(active_blocks, cached_blocks, segments, Queued(supa_events),
               Entries(deferred), kernels \ {k})
        BY SafeRetire DEF SafeState
    <2> QED BY <2>1, <2>2 DEF SafeState, QueuesOK
<1> QED
    BY <1>1, <1>2, <1>3

\* Every step of a method keeps memory safe.
LEMMA SafeStep ==
    ASSUME TypeOK, SafeAll, Step
    PROVE  SafeAll'
<1> USE DEF MallocPhases
<1>1. SafeState /\ QueuesOK /\ LocalsFit
    BY DEF SafeAll
<1>2. CASE insert_events_deferred
    <2>1. op' = op
        BY <1>2 DEF insert_events_deferred
    <2> QED BY <1>1, <1>2, <2>1, DeferredSafe, LocalsStay DEF SafeAll
<1>3. ASSUME NEW s \in Streams, query_event(s) PROVE SafeAll'
    <2>1. op' = op
        BY <1>3 DEF query_event
    <2> QED BY <1>1, <1>3, <2>1, QuerySafe, LocalsStay DEF SafeAll
<1>4. ASSUME NEW s \in Streams, synchronize_event(s) PROVE SafeAll'
    <2>1. op' = op
        BY <1>4 DEF synchronize_event
    <2> QED BY <1>1, <1>4, <2>1, SynchronizeSafe, LocalsStay DEF SafeAll
<1>5. ASSUME NEW s \in Streams, leave_stream(s) PROVE SafeAll'
    <2>1. op \in MallocOp /\ op' = [op EXCEPT !.todo = op.todo \ {s}]
        BY <1>5, MallocLocals DEF leave_stream
    <2>2. UNCHANGED <<segments, active_blocks, cached_blocks, supa_events, deferred, kernels>>
        BY <1>5 DEF leave_stream, memVars, eventVars
    <2>3. LocalsFit'
        BY <1>1, <2>1, LocalsMove
    <2> QED BY <1>1, <2>2, <2>3, SafeStays DEF SafeAll
<1>6. CASE get_free_block
    BY <1>6, GetFreeBlockSafe
<1>7. ASSUME NEW g \in Segments, alloc_block(g) PROVE SafeAll'
    BY <1>7, AllocBlockSafe
<1>8. CASE no_free_block \/ alloc_block_fails \/ synchronize_return
    <2>1. UNCHANGED <<segments, active_blocks, cached_blocks, supa_events, deferred, kernels>>
          /\ op' = op
        BY <1>8 DEF no_free_block, alloc_block_fails, synchronize_return, memVars, eventVars
    <2> QED BY <1>1, <2>1, SafeStays, LocalsStay DEF SafeAll
<1>9. CASE callback_return \/ garbage_collect \/ gc_return \/ release_available_return
           \/ retry_release
    <2>1. UNCHANGED <<segments, active_blocks, cached_blocks, supa_events, deferred, kernels>>
        BY <1>9 DEF callback_return, garbage_collect, gc_return,
                    release_available_return, retry_release, memVars, eventVars
    <2>2. op \in MallocOp
        BY <1>9, MallocLocals DEF callback_return, garbage_collect, gc_return,
                    release_available_return, retry_release
    <2>3. \E a, n : \/ op' = [op EXCEPT !.amount = n]
                    \/ op' = [op EXCEPT !.attempt = a]
                    \/ op' = [op EXCEPT !.attempt = a, !.amount = n]
        BY <1>9, Zenon DEF callback_return, garbage_collect, gc_return,
                    release_available_return, retry_release
    <2>4. LocalsFit'
        BY <1>1, <2>2, <2>3, LocalsMove
    <2> QED BY <1>1, <2>1, <2>4, SafeStays DEF SafeAll
<1>10. ASSUME NEW b \in cached_blocks, gc_release(b) PROVE SafeAll'
    <2>1. op \in MallocOp /\ op' = [op EXCEPT !.amount = op.amount - b.size]
        BY <1>10, MallocLocals DEF gc_release
    <2>2. release_block(b) /\ ~is_split(b)
        BY <1>10 DEF gc_release, GcCandidates
    <2>3. LocalsFit'
        BY <1>1, <2>1, LocalsMove
    <2> QED BY <1>1, <2>2, <2>3, ReleaseSafe DEF SafeAll
<1>11. ASSUME NEW b \in cached_blocks, release_available(b) PROVE SafeAll'
    <2>1. op \in MallocOp /\ op' = [op EXCEPT !.amount = op.amount + b.size]
        BY <1>11, MallocLocals DEF release_available
    <2>2. release_block(b) /\ b.size >= MaxSplitSize
        BY <1>11 DEF release_available, AvailableVictims, Oversize
    <2>3. LocalsFit'
        BY <1>1, <2>1, LocalsMove
    <2> QED BY <1>1, <2>2, <2>3, ReleaseSafe DEF SafeAll
<1>12. ASSUME NEW b \in cached_blocks, release_cached(b) PROVE SafeAll'
    <2>1. op' = op
        BY <1>12 DEF release_cached
    <2>2. release_block(b) /\ ~is_split(b)
        BY <1>12 DEF release_cached, Releasable
    <2> QED BY <1>1, <2>1, <2>2, ReleaseSafe, LocalsStay DEF SafeAll
<1>13. CASE release_return \/ throw
    <2>1. UNCHANGED <<segments, active_blocks, cached_blocks, supa_events, deferred, kernels>>
        BY <1>13 DEF release_return, throw, memVars, eventVars
    <2>2. op' = op \/ op' = NoOp
        BY <1>13 DEF release_return, throw
    <2>3. LocalsFit'
        BY <1>1, <2>2, LocalsStay, LocalsOther
    <2> QED BY <1>1, <2>1, <2>3, SafeStays DEF SafeAll
<1> QED
    BY <1>2, <1>3, <1>4, <1>5, <1>6, <1>7, <1>8, <1>9, <1>10, <1>11, <1>12, <1>13 DEF Step

\* So does every call, and the device.
LEMMA SafeCall ==
    ASSUME TypeOK, SafeAll, Call \/ Device \/ \E b \in active_blocks : callback_free(b)
    PROVE  SafeAll'
<1>1. SafeState /\ QueuesOK /\ LocalsFit
    BY DEF SafeAll
<1>2. ASSUME NEW b \in active_blocks, free(b) PROVE SafeAll'
    <2>1. op' = op /\ UNCHANGED <<segments, kernels>> /\ do_free(b) /\ b.allocated
          /\ \A k \in kernels : Overlap(k, b) => k.stream \in b.stream_uses \cup {b.stream}
        BY <1>2 DEF free
    <2> QED BY <1>1, <2>1, DoFreeSafe, LocalsStay DEF SafeAll
<1>3. ASSUME NEW b \in active_blocks, callback_free(b) PROVE SafeAll'
    <2>1. /\ UNCHANGED <<segments, kernels>> /\ do_free(b) /\ b.allocated
          /\ \A k \in kernels : Overlap(k, b) => k.stream \in b.stream_uses \cup {b.stream}
        BY <1>3 DEF callback_free
    <2>2. op \in MallocOp /\ \E n : op' = [op EXCEPT !.amount = n]
        BY <1>3, MallocLocals DEF callback_free, MallocPhases
    <2>3. LocalsFit'
        BY <1>1, <2>2, LocalsMove
    <2> QED BY <1>1, <2>1, <2>3, DoFreeSafe DEF SafeAll
<1>4. ASSUME NEW s, NEW n, NEW p, malloc(s, n, p) PROVE SafeAll'
    BY <1>4, MallocSafe
<1>5. ASSUME NEW b \in active_blocks, NEW s \in Streams, recordStream(b, s) PROVE SafeAll'
    <2>1. op' = op
        BY <1>5 DEF recordStream
    <2> QED BY <1>1, <1>5, <2>1, UseSafe, LocalsStay DEF SafeAll
<1>6. CASE Device
    <2>1. op' = op
        BY <1>6 DEF Device, launch, retire
    <2> QED BY <1>1, <1>6, <2>1, UseSafe, LocalsStay DEF SafeAll, Device
<1>7. ASSUME NEW p, emptyCache(p) PROVE SafeAll'
    <2>1. UNCHANGED <<segments, active_blocks, cached_blocks, supa_events, deferred, kernels>>
        BY <1>7 DEF emptyCache, memVars, eventVars
    <2>2. op' = [kind |-> "empty", id |-> p]
        BY <1>7 DEF emptyCache
    <2> QED BY <1>1, <2>1, <2>2, SafeStays, LocalsOther DEF SafeAll
<1>8. ASSUME NEW f, setMemoryFraction(f) PROVE SafeAll'
    <2>1. UNCHANGED <<segments, active_blocks, cached_blocks, supa_events, deferred, kernels>>
          /\ op' = op
        BY <1>8 DEF setMemoryFraction, memVars, eventVars
    <2> QED BY <1>1, <2>1, SafeStays, LocalsStay DEF SafeAll
<1>9. ASSUME NEW p, createOrIncrefPool(p) \/ endAllocateToPool(p) \/ releasePool(p)
                    \/ \E filter : beginAllocateToPool(p, filter)
      PROVE  SafeAll'
    <2>1. UNCHANGED <<segments, active_blocks, cached_blocks, supa_events, deferred, kernels>>
          /\ op' = op
        BY <1>9 DEF createOrIncrefPool, endAllocateToPool, releasePool,
                    beginAllocateToPool, memVars, eventVars
    <2> QED BY <1>1, <2>1, SafeStays, LocalsStay DEF SafeAll
<1> QED
    BY <1>2, <1>3, <1>4, <1>5, <1>6, <1>7, <1>8, <1>9 DEF Call

\* SafeAll is inductive.
LEMMA SafeNext == TypeOK /\ SafeAll /\ [Next]_vars => SafeAll'
<1> SUFFICES ASSUME TypeOK, SafeAll, [Next]_vars PROVE SafeAll'
    OBVIOUS
<1>1. CASE UNCHANGED vars
    <2>1. UNCHANGED <<segments, active_blocks, cached_blocks, supa_events, deferred, kernels>>
          /\ op' = op
        BY <1>1 DEF vars, memVars, eventVars
    <2> QED BY <2>1, SafeStays, LocalsStay DEF SafeAll
<1>2. CASE Next
    BY <1>2, SafeStep, SafeCall DEF Next
<1> QED
    BY <1>1, <1>2

\* It says what SafetyInv says.
LEMMA SafeImplies == TypeOK /\ SafeAll => SafetyInv
<1> SUFFICES ASSUME TypeOK, SafeAll PROVE SafetyInv
    OBVIOUS
<1>1. Safe(active_blocks, cached_blocks, segments, Queued(supa_events),
           Entries(deferred), kernels)
    BY DEF SafeAll, SafeState
<1>2. SegmentsTiled /\ OneOwner
    BY <1>1 DEF Safe, Geometry, Within, Apart, Covered, Owned, SegmentsTiled,
                BlocksDisjoint, OneOwner, AllBlocks
<1>3. BlockShapes
    BY <1>1 DEF Safe, Geometry, Shape, BlockShapes, AllBlocks
<1>4. CachedIdle /\ FreeMemoryQuiescent /\ KernelsMapped
    BY <1>1 DEF Safe, Quiet, Mapped, CachedIdle, FreeMemoryQuiescent, KernelsMapped
<1>5. \A s \in Streams : \A b : WaitsFor(s, b) <=> RefOf(b) \in Queued(supa_events)[s]
    BY DEF WaitsFor, Queued, Entries
<1>6. \A b : Deferred(b) <=> RefOf(b) \in Entries(deferred)
    BY DEF Deferred, Entries
<1>7. FreedProtected
    BY <1>1, <1>5, StateTypes DEF Safe, Guarded, FreedProtected, Kernel
<1>8. \A b : Waiters(b) = {s \in Streams : RefOf(b) \in Queued(supa_events)[s]}
    BY <1>5 DEF Waiters
<1>9. EventsAccounted
    <2>1. \A s \in Streams : NamesFreed(supa_events[s])
        BY <1>1 DEF Safe, Accounts, Freed, Queued, Entries, NamesFreed
    <2>2. NamesFreed(deferred)
        BY <1>1 DEF Safe, Accounts, Freed, Entries, NamesFreed
    <2>3. \A b \in active_blocks : b.event_count = Cardinality(Waiters(b))
        BY <1>1, <1>8 DEF Safe, Accounts
    <2>4. \A b \in active_blocks : ~b.allocated =>
             IF Deferred(b) THEN b.stream_uses # {} /\ b.event_count = 0
                            ELSE b.stream_uses = {} /\ b.event_count > 0
        BY <1>1, <1>6 DEF Safe, Accounts
    <2> QED BY <2>1, <2>2, <2>3, <2>4 DEF EventsAccounted, SafeAll, QueuesOK
<1> QED
    BY <1>2, <1>3, <1>4, <1>7, <1>9 DEF SafetyInv, SafeAll

\* In every reachable state the blocks of every segment tile it, no work of
\* another stream touches a cached block, work of another stream on a freed
\* block is waited for, and the queues of end-of-life events account for every
\* freed block.
THEOREM SafetyCorrect == Spec => []SafetyInv
<1>1. Init => TypeOK /\ SafeAll
    BY TypeInit, SafeInit
<1>2. TypeOK /\ SafeAll /\ [Next]_vars => (TypeOK /\ SafeAll)'
    BY TypeNext, SafeNext
<1>3. TypeOK /\ SafeAll => SafetyInv
    BY SafeImplies
<1> QED
    BY <1>1, <1>2, <1>3, PTL DEF Spec

\* Splitting, merging, allocating and releasing keep the blocks of every segment
\* a tiling of it (alloc_found_block, try_merge_blocks, release_block).
THEOREM TilingCorrect == Spec => []SegmentsTiled
<1>1. SafetyInv => SegmentsTiled
    BY DEF SafetyInv
<1> QED
    BY <1>1, SafetyCorrect, PTL

\* event_count, the queues of end-of-life events and the blocks deferred during
\* a capture agree, whatever streams, captures and callbacks do in between
\* (insert_events, process_events, synchronize_and_free_events).
THEOREM EventsCorrect == Spec => []EventsAccounted
<1>1. SafetyInv => EventsAccounted
    BY DEF SafetyInv
<1> QED
    BY <1>1, SafetyCorrect, PTL

\* No queued work of another stream touches a block of the free lists: a block
\* is cached only when its last use is over (free_block).
THEOREM QuiescenceCorrect == Spec => []FreeMemoryQuiescent
<1>1. SafetyInv => FreeMemoryQuiescent
    BY DEF SafetyInv
<1> QED
    BY <1>1, SafetyCorrect, PTL

\* An oversize block in the cache is never split, so that
\* release_available_cached_blocks frees whole segments only.
THEOREM OversizeCorrect == Spec => []OversizeUnsplit
<1>1. TypeOK /\ SafeAll => OversizeUnsplit
    <2> SUFFICES ASSUME TypeOK, SafeAll, NEW b \in cached_blocks, b.size >= MaxSplitSize,
                        is_split(b)
                 PROVE  FALSE
        BY DEF OversizeUnsplit
    <2>1. ASSUME NEW B, B = AllBlocks, NEW sz, sz = segments, NEW c \in B, c.seg = b.seg
          PROVE  c = b
        <3>1. B \in SUBSET Block /\ Geometry(B, sz) /\ b \in B /\ sz \in [Segments -> Nat]
            BY <2>1, StateTypes DEF AllBlocks, SafeAll, SafeState, Safe
        <3> QED BY <2>1, <3>1, OversizeAlone
    <2>2. PICK c \in AllBlocks : /\ c.seg = b.seg
                                 /\ c.off + c.size = b.off \/ b.off + b.size = c.off
        BY DEF is_split, PrevOf, NextOf
    <2>3. c = b
        BY <2>1, <2>2
    <2>4. b.size > 0 /\ b.size \in Nat /\ b.off \in Nat
        BY StateTypes DEF SafeAll, SafeState, Safe, Geometry, Within, Block
    <2> QED BY <2>2, <2>3, <2>4
<1>2. Init => TypeOK /\ SafeAll
    BY TypeInit, SafeInit
<1>3. TypeOK /\ SafeAll /\ [Next]_vars => (TypeOK /\ SafeAll)'
    BY TypeNext, SafeNext
<1> QED
    BY <1>1, <1>2, <1>3, PTL DEF Spec

-----------------------------------------------------------------------------
(* What the allocator promises beyond SafetyInv.                           *)

Live(A) == {RangeOf(b) : b \in {x \in A : x.allocated}}
Held(A) == {RangeOf(b) : b \in {x \in A : ~x.allocated}}

-----------------------------------------------------------------------------
(* The refinement: what the operations do to the ranges of the blocks A.   *)

\* A block is told apart by its range.
LEMMA RangeTells ==
    ASSUME NEW A, Distinct(A), NEW b \in A, NEW c \in A, RangeOf(b) = RangeOf(c)
    PROVE  b = c
<1>1. RangeOf(b).seg = b.seg /\ RangeOf(b).off = b.off
    BY DEF RangeOf
<1>2. RangeOf(c).seg = c.seg /\ RangeOf(c).off = c.off
    BY DEF RangeOf
<1>3. RefOf(b) = RefOf(c)
    BY <1>1, <1>2 DEF RefOf
<1> QED
    BY <1>3 DEF Distinct

\* A block changes, but neither its range nor whether it is allocated.
LEMMA RangesKept ==
    ASSUME NEW A, NEW b \in A, NEW c, RangeOf(c) = RangeOf(b),
           c.allocated <=> b.allocated
    PROVE  /\ Live((A \ {b}) \cup {c}) = Live(A)
           /\ Held((A \ {b}) \cup {c}) = Held(A)
<1>1. ASSUME NEW r PROVE r \in Live((A \ {b}) \cup {c}) <=> r \in Live(A)
    BY DEF Live
<1>2. ASSUME NEW r PROVE r \in Held((A \ {b}) \cup {c}) <=> r \in Held(A)
    BY DEF Held
<1> QED
    BY <1>1, <1>2

\* An allocated block is freed and stays.
LEMMA RangesFreed ==
    ASSUME NEW A, Distinct(A), NEW b \in A, b.allocated, NEW c,
           RangeOf(c) = RangeOf(b), ~c.allocated
    PROVE  /\ Live((A \ {b}) \cup {c}) = Live(A) \ {RangeOf(b)}
           /\ Held((A \ {b}) \cup {c}) = Held(A) \cup {RangeOf(b)}
<1>1. ASSUME NEW r
      PROVE  r \in Live((A \ {b}) \cup {c}) <=> r \in Live(A) \ {RangeOf(b)}
    BY RangeTells DEF Live
<1>2. ASSUME NEW r
      PROVE  r \in Held((A \ {b}) \cup {c}) <=> r \in Held(A) \cup {RangeOf(b)}
    BY DEF Held
<1> QED
    BY <1>1, <1>2

\* A block leaves the active blocks.
LEMMA RangesLeft ==
    ASSUME NEW A, Distinct(A), NEW b \in A
    PROVE  /\ b.allocated => /\ Live(A \ {b}) = Live(A) \ {RangeOf(b)}
                             /\ Held(A \ {b}) = Held(A)
           /\ ~b.allocated => /\ Held(A \ {b}) = Held(A) \ {RangeOf(b)}
                              /\ Live(A \ {b}) = Live(A)
<1>1. ASSUME NEW r, b.allocated
      PROVE  /\ r \in Live(A \ {b}) <=> r \in Live(A) \ {RangeOf(b)}
             /\ r \in Held(A \ {b}) <=> r \in Held(A)
    BY <1>1, RangeTells DEF Live, Held
<1>2. ASSUME NEW r, ~b.allocated
      PROVE  /\ r \in Held(A \ {b}) <=> r \in Held(A) \ {RangeOf(b)}
             /\ r \in Live(A \ {b}) <=> r \in Live(A)
    BY <1>2, RangeTells DEF Live, Held
<1> QED
    BY <1>1, <1>2

\* A block is handed out.
LEMMA RangesNew ==
    ASSUME NEW A, NEW t, t.allocated
    PROVE  /\ Live(A \cup {t}) = Live(A) \cup {RangeOf(t)}
           /\ Held(A \cup {t}) = Held(A)
<1>1. ASSUME NEW r
      PROVE  /\ r \in Live(A \cup {t}) <=> r \in Live(A) \cup {RangeOf(t)}
             /\ r \in Held(A \cup {t}) <=> r \in Held(A)
    BY DEF Live, Held
<1> QED
    BY <1>1

-----------------------------------------------------------------------------
(* The steps of the abstract memory, told of the active blocks.             *)

AbstractStep == [Memory!Next]_(Memory!vars)

SameRanges == /\ Live(active_blocks') = Live(active_blocks)
              /\ Held(active_blocks') = Held(active_blocks)

\* Nothing happens to the ranges, and at most work is done.
LEMMA StepRetire ==
    ASSUME SameRanges, kernels' \subseteq kernels
    PROVE  AbstractStep
    BY DEF AbstractStep, SameRanges, Live, Held, Memory!Next, Memory!Retire

\* A range is freed, and held or quiet.
LEMMA StepFree ==
    ASSUME NEW r \in Live(active_blocks),
           Live(active_blocks') = Live(active_blocks) \ {r},
           \/ Held(active_blocks') = Held(active_blocks) \cup {r}
           \/ Held(active_blocks') = Held(active_blocks) /\ Quiet(r, kernels),
           UNCHANGED kernels
    PROVE  AbstractStep
    BY DEF AbstractStep, Live, Held, Quiet, Overlap, Memory!Next, Memory!Free,
           Memory!Quiescent, Memory!Meet

\* A held range becomes free.
LEMMA StepReclaim ==
    ASSUME NEW r \in Held(active_blocks), Quiet(r, kernels),
           Held(active_blocks') = Held(active_blocks) \ {r},
           Live(active_blocks') = Live(active_blocks), UNCHANGED kernels
    PROVE  AbstractStep
    BY DEF AbstractStep, Live, Held, Quiet, Overlap, Memory!Next, Memory!Reclaim,
           Memory!Quiescent, Memory!Meet

\* A range that meets no other is handed out.
LEMMA StepAlloc ==
    ASSUME NEW r \in Memory!Range, Quiet(r, kernels),
           r \notin Live(active_blocks) =>
              \A x \in Live(active_blocks) \cup Held(active_blocks) : ~Overlap(x, r),
           Live(active_blocks') = Live(active_blocks) \cup {r},
           Held(active_blocks') = Held(active_blocks), UNCHANGED kernels
    PROVE  AbstractStep
<1>1. CASE r \in Live(active_blocks)
    <2>1. SameRanges
        BY <1>1 DEF SameRanges
    <2> QED BY <2>1, StepRetire
<1>2. CASE r \notin Live(active_blocks)
    BY <1>2 DEF AbstractStep, Live, Held, Quiet, Overlap, Memory!Next, Memory!Alloc,
                Memory!Quiescent, Memory!Meet
<1> QED
    BY <1>1, <1>2

\* Work is queued on a range.
LEMMA StepLaunch ==
    ASSUME NEW r \in Live(active_blocks), NEW s \in Streams, SameRanges,
           kernels' = kernels \cup {[r EXCEPT !.stream = s]}
    PROVE  AbstractStep
    BY DEF AbstractStep, SameRanges, Live, Held, Memory!Next, Memory!Launch

-----------------------------------------------------------------------------
(* The steps of the allocator.                                             *)

\* The range of a block has the block's ends and stream.
LEMMA RangeFields ==
    ASSUME NEW b
    PROVE  /\ RangeOf(b).seg = b.seg /\ RangeOf(b).off = b.off
           /\ RangeOf(b).size = b.size /\ RangeOf(b).stream = b.stream
    BY DEF RangeOf

\* A block with another state of use has the same range.
LEMMA UseRange ==
    ASSUME NEW b, NEW a, NEW U, NEW n
    PROVE  /\ RangeOf(WithUse(b, a, U, n)) = RangeOf(b)
           /\ WithUse(b, a, U, n).allocated = a
    BY DEF RangeOf, WithUse

\* Work that does not touch a block does not touch a part of it.
LEMMA PartQuiet ==
    ASSUME NEW b, NEW c, b.off \in Nat, b.size \in Nat, c.off \in Nat, c.size \in Nat,
           b.seg = c.seg, b.stream = c.stream, c.off <= b.off,
           b.off + b.size <= c.off + c.size, NEW K \in SUBSET Kernel, Quiet(c, K)
    PROVE  Quiet(b, K)
<1> SUFFICES ASSUME NEW k \in K, Overlap(k, b) PROVE k.stream = b.stream
    BY DEF Quiet
<1>1. k.off \in Nat /\ k.size \in Nat
    BY DEF Kernel
<1>2. Overlap(k, c)
    BY <1>1 DEF Overlap
<1> QED
    BY <1>2 DEF Quiet

\* A block that free_block returns to the cache is quiet: the block it becomes
\* part of is.
LEMMA ReturnedQuiet ==
    ASSUME TypeOK, NEW b \in active_blocks, NEW st \in [StatName -> Int],
           free_block(b, st), SafeState', UNCHANGED kernels
    PROVE  Quiet(RangeOf(b), kernels)
<1>1. /\ MergedLow(b) \in Nat /\ MergedLow(b) <= b.off
      /\ MergedHigh(b) \in Nat /\ MergedHigh(b) >= b.off + b.size
      /\ Merged(b) \in cached_blocks'
    BY FreeBlockEffect
<1> DEFINE m == Merged(b)
<1>2. /\ m.seg = b.seg /\ m.stream = b.stream /\ m.off = MergedLow(b)
      /\ m.size = MergedHigh(b) - MergedLow(b)
    BY DEF Merged, NewBlock
<1>3. Quiet(m, kernels)
    BY <1>1 DEF SafeState, Safe
<1> HIDE DEF m
<1>4. b.off \in Nat /\ b.size \in Nat /\ kernels \in SUBSET Kernel
    BY DEF TypeOK, Block
<1>5. /\ m.off \in Nat /\ m.size \in Nat /\ m.off <= b.off
      /\ b.off + b.size <= m.off + m.size
    BY <1>1, <1>2, <1>4
<1> DEFINE r == RangeOf(b)
<1>6. r.seg = b.seg /\ r.off = b.off /\ r.size = b.size /\ r.stream = b.stream
    BY RangeFields
<1> HIDE DEF r
<1>7. Quiet(r, kernels)
    BY <1>2, <1>3, <1>4, <1>5, <1>6, PartQuiet
<1> QED
    BY <1>7 DEF r

\* The active blocks have different ranges.
LEMMA ActiveDistinct ==
    ASSUME TypeOK, SafeState
    PROVE  Distinct(active_blocks)
    BY StateTypes, SafeDistinct DEF SafeState

\* free and the callbacks free an allocation.
LEMMA DoFreeStep ==
    ASSUME TypeOK, SafeState, SafeState', NEW b \in active_blocks, b.allocated,
           do_free(b), UNCHANGED kernels
    PROVE  AbstractStep
<1> DEFINE change == [allocation |-> -1, allocated_bytes |-> -b.size,
                      oversize_allocations |-> -Indicator(b.size >= MaxSplitSize)]
           st == Changed(stats, change)
           A == active_blocks
<1>1. Distinct(A) /\ RangeOf(b) \in Live(A)
    BY ActiveDistinct DEF Live
<1>2. ASSUME NEW U, NEW n, active_blocks' = (A \ {b}) \cup {WithUse(b, FALSE, U, n)}
      PROVE  AbstractStep
    <2> DEFINE c == WithUse(b, FALSE, U, n)
    <2>1. RangeOf(c) = RangeOf(b) /\ ~c.allocated
        BY DEF RangeOf, WithUse
    <2> HIDE DEF c
    <2>2. /\ Live((A \ {b}) \cup {c}) = Live(A) \ {RangeOf(b)}
          /\ Held((A \ {b}) \cup {c}) = Held(A) \cup {RangeOf(b)}
        BY <1>1, <2>1, RangesFreed
    <2> QED BY <1>1, <1>2, <2>2, StepFree DEF c
<1>3. CASE b.stream_uses # {} /\ captures_underway # <<>>
    <2>1. active_blocks' = (A \ {b}) \cup {WithUse(b, FALSE, b.stream_uses, b.event_count)}
        BY <1>3 DEF do_free
    <2> QED BY <1>2, <2>1
<1>4. CASE b.stream_uses # {} /\ captures_underway = <<>>
    <2>1. insert_events(b)
        BY <1>4 DEF do_free
    <2> QED BY <1>2, <2>1 DEF insert_events
<1>5. CASE b.stream_uses = {}
    <2>1. free_block(b, st)
        BY <1>5 DEF do_free
    <2>2. st \in [StatName -> Int]
        <3>1. Indicator(b.size >= MaxSplitSize) \in Int /\ b.size \in Int
              /\ stats \in [StatName -> Int]
            BY IndicatorType DEF TypeOK, Block
        <3>2. \A n \in DOMAIN change : change[n] \in Int
            BY <3>1
        <3> QED BY <3>1, <3>2, ChangedType
    <2> HIDE DEF st
    <2>3. Quiet(RangeOf(b), kernels)
        BY <2>1, <2>2, ReturnedQuiet
    <2>4. active_blocks' = A \ {b}
        BY <2>1, <2>2, FreeBlockEffect
    <2>5. /\ Live(active_blocks') = Live(A) \ {RangeOf(b)}
          /\ Held(active_blocks') = Held(A)
        BY <1>1, <2>4, RangesLeft
    <2> QED BY <1>1, <2>3, <2>5, StepFree
<1> QED
    BY <1>3, <1>4, <1>5

\* The blocks that a queue of events names are freed.
LEMMA QueuedFreed ==
    ASSUME TypeOK, SafeAll, NEW b \in active_blocks, NEW q, NamesFreed(q),
           NEW i \in DOMAIN q, RefOf(b) = q[i]
    PROVE  ~b.allocated
<1>1. PICK c \in active_blocks : RefOf(c) = q[i] /\ ~c.allocated
    BY DEF NamesFreed
<1>2. Distinct(active_blocks)
    BY ActiveDistinct DEF SafeAll
<1> QED
    BY <1>1, <1>2 DEF Distinct

\* An event of a freed block completes: the last one gives the block back.
LEMMA CompleteStep ==
    ASSUME TypeOK, SafeState, SafeState', NEW b \in active_blocks, ~b.allocated,
           complete_event(b), UNCHANGED kernels
    PROVE  AbstractStep
<1> DEFINE A == active_blocks
<1>1. Distinct(A) /\ RangeOf(b) \in Held(A) /\ stats \in [StatName -> Int]
    BY ActiveDistinct DEF Held, TypeOK
<1>2. CASE b.event_count = 1
    <2>1. free_block(b, stats)
        BY <1>2 DEF complete_event
    <2>2. Quiet(RangeOf(b), kernels)
        BY <1>1, <2>1, ReturnedQuiet
    <2>3. active_blocks' = A \ {b}
        BY <1>1, <2>1, FreeBlockEffect
    <2>4. /\ Held(active_blocks') = Held(A) \ {RangeOf(b)}
          /\ Live(active_blocks') = Live(A)
        BY <1>1, <2>3, RangesLeft
    <2> QED BY <1>1, <2>2, <2>4, StepReclaim
<1>3. CASE b.event_count # 1
    <2>1. active_blocks' = (A \ {b}) \cup
             {WithUse(b, b.allocated, b.stream_uses, b.event_count - 1)}
        BY <1>3 DEF complete_event
    <2>2. SameRanges
        BY <2>1, UseRange, RangesKept DEF SameRanges
    <2> QED BY <2>2, StepRetire
<1> QED
    BY <1>2, <1>3

\* A block, or the first part of it, is handed out: no work but that of its
\* stream touches it, and it meets no other active block.
LEMMA AllocFoundStep ==
    ASSUME TypeOK, TypeOK', SafeState', op \in MallocOp, NEW b \in Block, NEW st,
           b.size >= op.size, Quiet(b, kernels), alloc_found_block(b, st),
           UNCHANGED kernels
    PROVE  AbstractStep
<1> DEFINE split == should_split(b.size, op.size, op.pool.small)
           size == IF split THEN op.size ELSE b.size
           t == WithUse(NewBlock(b.seg, b.off, size, b.stream, b.pool), TRUE, {}, 0)
           r == RangeOf(t)
           A == active_blocks
<1>1. active_blocks' = A \cup {t}
    BY DEF alloc_found_block
<1>2. /\ t.seg = b.seg /\ t.off = b.off /\ t.size = size /\ t.stream = b.stream
      /\ t.allocated
    BY DEF WithUse, NewBlock
<1>3. /\ size \in Nat /\ size <= b.size
      /\ b.off \in Nat /\ b.size \in Nat /\ b.seg \in Segments /\ b.stream \in Streams
    BY DEF MallocOp, Block
<1> HIDE DEF t, size
<1>4. r.seg = b.seg /\ r.off = b.off /\ r.size = size /\ r.stream = b.stream
    BY <1>2, RangeFields
<1>5. r \in Memory!Range
    BY <1>2, <1>3 DEF RangeOf, Memory!Range
<1> HIDE DEF r
<1>6. Quiet(r, kernels)
    <2>1. kernels \in SUBSET Kernel
        BY DEF TypeOK
    <2>2. r.off + r.size <= b.off + b.size
        BY <1>3, <1>4
    <2> QED BY <1>3, <1>4, <2>1, <2>2, PartQuiet
<1>7. ASSUME r \notin Live(A), NEW x \in Live(A) \cup Held(A)
      PROVE  ~Overlap(x, r)
    <2>1. t \notin A
        BY <1>2, <1>7 DEF Live, r
    <2>2. PICK d \in A : x = RangeOf(d)
        BY <1>7 DEF Live, Held
    <2>3. ~Overlap(d, t)
        BY <1>1, <2>1, <2>2 DEF SafeState, Safe, Geometry, Apart
    <2>4. x.seg = d.seg /\ x.off = d.off /\ x.size = d.size
        BY <2>2, RangeFields
    <2> QED BY <1>2, <1>4, <2>3, <2>4 DEF Overlap
<1>8. Live(active_blocks') = Live(A) \cup {r} /\ Held(active_blocks') = Held(A)
    BY <1>1, <1>2, RangesNew DEF r
<1> QED
    BY <1>5, <1>6, <1>7, <1>8, StepAlloc

\* The caller's memory is as before a step that leaves active_blocks alone and
\* queues no work.
LEMMA StepStutter ==
    ASSUME UNCHANGED active_blocks, kernels' \subseteq kernels
    PROVE  AbstractStep
    BY StepRetire DEF SameRanges

\* A step inside a method is a step of the abstract memory.
LEMMA StepImplements ==
    ASSUME TypeOK, SafeAll, TypeOK', SafeAll', Step
    PROVE  AbstractStep
<1>0. SafeState /\ SafeState' /\ EventsAccounted
    BY SafeImplies DEF SafeAll, SafetyInv
<1>1. CASE insert_events_deferred
    <2>1. CASE deferred = <<>>
        BY <1>1, <2>1, StepStutter DEF insert_events_deferred
    <2>2. CASE deferred # <<>>
        <3>1. PICK b \in active_blocks : RefOf(b) = Head(deferred) /\ insert_events(b)
            BY <1>1, <2>2 DEF insert_events_deferred
        <3>2. 1 \in DOMAIN deferred /\ Head(deferred) = deferred[1]
            BY <2>2, StateTypes
        <3>3. ~b.allocated
            BY <1>0, <3>1, <3>2, QueuedFreed DEF EventsAccounted
        <3> DEFINE c == WithUse(b, FALSE, {}, b.event_count + Cardinality(b.stream_uses))
        <3>4. RangeOf(c) = RangeOf(b) /\ ~c.allocated
            BY DEF RangeOf, WithUse
        <3>5. active_blocks' = (active_blocks \ {b}) \cup {c}
            BY <3>1 DEF insert_events
        <3> HIDE DEF c
        <3>6. SameRanges
            BY <3>3, <3>4, <3>5, RangesKept DEF SameRanges
        <3>7. UNCHANGED kernels
            BY <1>1 DEF insert_events_deferred
        <3> QED BY <3>6, <3>7, StepRetire
    <2> QED BY <2>1, <2>2
<1>2. ASSUME NEW s \in Streams, query_event(s) PROVE AbstractStep
    <2>1. PICK b \in active_blocks :
             RefOf(b) = Head(supa_events[s]) /\ complete_event(b)
        BY <1>2 DEF query_event
    <2>2. 1 \in DOMAIN supa_events[s] /\ Head(supa_events[s]) = supa_events[s][1]
        BY <1>2, StateTypes DEF query_event
    <2>3. ~b.allocated
        BY <1>0, <2>1, <2>2, QueuedFreed DEF EventsAccounted
    <2>4. UNCHANGED kernels
        BY <1>2 DEF query_event
    <2> QED BY <1>0, <2>1, <2>3, <2>4, CompleteStep
<1>3. ASSUME NEW s \in Streams, synchronize_event(s) PROVE AbstractStep
    <2>1. PICK i \in EventsInScope(s), b \in active_blocks :
             RefOf(b) = supa_events[s][i] /\ complete_event(b)
        BY <1>3 DEF synchronize_event
    <2>2. ~b.allocated
        BY <1>0, <2>1, QueuedFreed DEF EventsAccounted, EventsInScope
    <2>3. UNCHANGED kernels
        BY <1>3 DEF synchronize_event
    <2> QED BY <1>0, <2>1, <2>2, <2>3, CompleteStep
<1>4. CASE get_free_block
    <2>1. op \in MallocOp
        BY <1>4, MallocLocals DEF get_free_block, MallocPhases
    <2>2. PICK b \in BestFit : alloc_found_block(b, stats)
        BY <1>4 DEF get_free_block
    <2>3. b \in Block /\ b.size >= op.size /\ Quiet(b, kernels)
        BY <1>0, <2>2, StateTypes DEF BestFit, SafeState, Safe
    <2>4. UNCHANGED kernels
        BY <1>4 DEF get_free_block
    <2> QED BY <1>0, <2>1, <2>2, <2>3, <2>4, AllocFoundStep
<1>5. ASSUME NEW g \in Segments, alloc_block(g) PROVE AbstractStep
    <2>1. op \in MallocOp
        BY <1>5, MallocLocals DEF alloc_block, MallocPhases
    <2> DEFINE b == NewBlock(g, 0, op.alloc_size, op.stream, op.pool)
    <2>2. PICK st : alloc_found_block(b, st)
        BY <1>5 DEF alloc_block
    <2>3. b.seg = g /\ b.size = op.alloc_size /\ b \in Block
        BY <2>1 DEF NewBlock, Block, MallocOp
    <2> HIDE DEF b
    <2>4. Quiet(b, kernels)
        BY <1>0, <1>5, <2>3 DEF alloc_block, SafeState, Safe, Mapped, Quiet, Overlap
    <2>5. b.size >= op.size
        BY <2>1, <2>3 DEF MallocOp
    <2>6. UNCHANGED kernels
        BY <1>5 DEF alloc_block
    <2> QED BY <1>0, <2>1, <2>2, <2>3, <2>4, <2>5, <2>6, AllocFoundStep
<1>6. ASSUME NEW b \in cached_blocks, gc_release(b) \/ release_available(b) \/ release_cached(b)
      PROVE  AbstractStep
    <2>1. release_block(b)
        BY <1>6 DEF gc_release, release_available, release_cached
    <2> QED BY <2>1, StepStutter DEF release_block
<1>7. CASE \/ no_free_block \/ callback_return \/ garbage_collect \/ gc_return
           \/ alloc_block_fails \/ release_available_return \/ retry_release
           \/ synchronize_return \/ release_return \/ throw
           \/ \E s \in Streams : leave_stream(s)
    <2>1. UNCHANGED <<active_blocks, kernels>>
        BY <1>7 DEF no_free_block, callback_return, garbage_collect, gc_return,
                    alloc_block_fails, release_available_return, retry_release,
                    synchronize_return, release_return, throw, leave_stream, memVars
    <2> QED BY <2>1, StepStutter
<1> QED
    BY <1>1, <1>2, <1>3, <1>4, <1>5, <1>6, <1>7 DEF Step

\* A call, a callback or the device takes a step of the abstract memory.
LEMMA CallImplements ==
    ASSUME TypeOK, SafeAll, TypeOK', SafeAll',
           Call \/ Device \/ \E b \in active_blocks : callback_free(b)
    PROVE  AbstractStep
<1>0. SafeState /\ SafeState'
    BY DEF SafeAll
<1>1. ASSUME NEW b \in active_blocks, free(b) \/ callback_free(b) PROVE AbstractStep
    <2>1. b.allocated /\ do_free(b) /\ UNCHANGED kernels
        BY <1>1 DEF free, callback_free
    <2> QED BY <1>0, <2>1, DoFreeStep
<1>2. ASSUME NEW b \in active_blocks, NEW s \in Streams, recordStream(b, s)
      PROVE  AbstractStep
    <2> DEFINE c == WithUse(b, TRUE, b.stream_uses \cup {s}, b.event_count)
    <2>1. RangeOf(c) = RangeOf(b) /\ c.allocated
        BY DEF RangeOf, WithUse
    <2>2. /\ active_blocks' = (active_blocks \ {b}) \cup {c} /\ b.allocated
          /\ UNCHANGED kernels
        BY <1>2 DEF recordStream
    <2> HIDE DEF c
    <2>3. SameRanges
        BY <2>1, <2>2, RangesKept DEF SameRanges
    <2> QED BY <2>2, <2>3, StepRetire
<1>3. ASSUME NEW b \in active_blocks, NEW s \in Streams, launch(b, s)
      PROVE  AbstractStep
    <2>1. RangeOf(b) \in Live(active_blocks) /\ SameRanges
        BY <1>3 DEF launch, Live, SameRanges, memVars
    <2>2. [RangeOf(b) EXCEPT !.stream = s] =
             [stream |-> s, seg |-> b.seg, off |-> b.off, size |-> b.size]
        BY DEF RangeOf
    <2>3. kernels' = kernels \cup {[RangeOf(b) EXCEPT !.stream = s]}
        BY <1>3, <2>2 DEF launch
    <2> QED BY <2>1, <2>3, StepLaunch
<1>4. ASSUME NEW k \in kernels, retire(k) PROVE AbstractStep
    BY <1>4, StepStutter DEF retire, memVars
<1>5. ASSUME UNCHANGED <<memVars, kernels>> PROVE AbstractStep
    BY <1>5, StepStutter DEF memVars
<1>6. ASSUME NEW s \in Streams, NEW n \in Requests, NEW p \in MempoolIds \cup {NoPool},
             malloc(s, n, p)
      PROVE  AbstractStep
    BY <1>5, <1>6 DEF malloc
<1>7. ASSUME NEW p \in MempoolIds \cup {NoPool}, emptyCache(p) PROVE AbstractStep
    BY <1>5, <1>7 DEF emptyCache
<1>8. ASSUME NEW f \in Fractions, setMemoryFraction(f) PROVE AbstractStep
    BY <1>5, <1>8 DEF setMemoryFraction
<1>9. ASSUME NEW p \in MempoolIds, NEW F,
             \/ createOrIncrefPool(p) \/ endAllocateToPool(p) \/ releasePool(p)
             \/ beginAllocateToPool(p, F)
      PROVE  AbstractStep
    BY <1>5, <1>9 DEF createOrIncrefPool, endAllocateToPool, releasePool,
                      beginAllocateToPool
<1> QED
    BY <1>1, <1>2, <1>3, <1>4, <1>6, <1>7, <1>8, <1>9 DEF Call, Device

\* The allocator implements stream-ordered memory (class comment of
\* SUPACachingAllocator.cpp): a block malloc returns meets no allocated block, no
\* freed block that waits and no work of another stream, whichever way it was
\* found, and a freed block is reused only when it is quiet.
THEOREM RefinementCorrect == Spec => ImplementsMemory
<1>1. Init => Memory!Init
    BY DEF Init, Memory!Init
<1>2. TypeOK /\ SafeAll /\ TypeOK' /\ SafeAll' /\ [Next]_vars => AbstractStep
    <2> SUFFICES ASSUME TypeOK, SafeAll, TypeOK', SafeAll', [Next]_vars
                 PROVE  AbstractStep
        OBVIOUS
    <2>1. CASE UNCHANGED vars
        BY <2>1, StepStutter DEF vars, memVars
    <2>2. CASE Next
        BY <2>2, StepImplements, CallImplements DEF Next
    <2> QED BY <2>1, <2>2
<1>3. Init => TypeOK /\ SafeAll
    BY TypeInit, SafeInit
<1>4. TypeOK /\ SafeAll /\ [Next]_vars => (TypeOK /\ SafeAll)'
    BY TypeNext, SafeNext
<1> QED
    BY <1>1, <1>2, <1>3, <1>4, PTL DEF Spec, ImplementsMemory, Memory!Spec, AbstractStep

-----------------------------------------------------------------------------
(* Captures.                                                               *)

\* The methods that record, query or wait for events are entered only outside
\* captures, and no capture begins before they end.
EventPhases ==
    pc \in {"deferred", "query", "sync", "assert_no_capture"} =>
        (pc = "assert_no_capture" <=> captures_underway # <<>>)

\* EventPhases is kept.
LEMMA EventPhasesNext ==
    ASSUME EventPhases, [Next]_vars
    PROVE  EventPhases'
<1> USE DEF EventPhases
<1>1. CASE UNCHANGED vars
    BY <1>1 DEF vars, poolVars
<1>2. CASE Step
    <2>1. ASSUME NEW b, release_block(b), UNCHANGED pc PROVE EventPhases'
        BY <2>1 DEF release_block
    <2>2. ASSUME NEW b, NEW st, alloc_found_block(b, st) PROVE pc' = "idle"
        BY <2>2 DEF alloc_found_block
    <2>3. ASSUME NEW s \in Streams, query_event(s) \/ leave_stream(s) \/ synchronize_event(s)
          PROVE  EventPhases'
        BY <2>3 DEF query_event, leave_stream, synchronize_event, poolVars
    <2>4. ASSUME NEW b \in cached_blocks, gc_release(b) \/ release_available(b) \/ release_cached(b)
          PROVE  EventPhases'
        BY <2>1, <2>4 DEF gc_release, release_available, release_cached
    <2>5. ASSUME NEW g \in Segments, alloc_block(g) PROVE EventPhases'
        BY <2>2, <2>5 DEF alloc_block
    <2>6. CASE insert_events_deferred
        BY <2>6 DEF insert_events_deferred, poolVars
    <2>7. CASE get_free_block
        BY <2>2, <2>7 DEF get_free_block
    <2>8. CASE retry_release
        BY <2>8 DEF retry_release, enter_release, poolVars
    <2>9. CASE \/ no_free_block \/ callback_return \/ garbage_collect \/ gc_return
               \/ alloc_block_fails \/ release_available_return
               \/ synchronize_return \/ release_return \/ throw
        BY <2>9 DEF no_free_block, callback_return, garbage_collect, gc_return,
                    alloc_block_fails, after_failure, release_available_return,
                    synchronize_return, release_return, throw, poolVars
    <2> QED
        BY <1>2, <2>3, <2>4, <2>5, <2>6, <2>7, <2>8, <2>9 DEF Step
<1>3. CASE Call \/ Device \/ \E b \in active_blocks : callback_free(b)
    <2>1. ASSUME NEW b \in active_blocks, free(b) \/ callback_free(b) PROVE EventPhases'
        BY <2>1 DEF free, callback_free, poolVars
    <2>2. ASSUME NEW s \in Streams, NEW n \in Requests, NEW p \in MempoolIds \cup {NoPool},
                 malloc(s, n, p)
          PROVE  EventPhases'
        BY <2>2 DEF malloc, first_phase, poolVars
    <2>3. ASSUME NEW p \in MempoolIds \cup {NoPool}, emptyCache(p) PROVE EventPhases'
        BY <2>3 DEF emptyCache, enter_release, poolVars
    <2>4. ASSUME NEW f \in Fractions, setMemoryFraction(f) PROVE EventPhases'
        BY <2>4 DEF setMemoryFraction, poolVars
    <2>5. ASSUME NEW p \in MempoolIds, NEW F,
                 \/ createOrIncrefPool(p) \/ endAllocateToPool(p) \/ releasePool(p)
                 \/ beginAllocateToPool(p, F)
          PROVE  EventPhases'
        BY <2>5 DEF createOrIncrefPool, endAllocateToPool, releasePool, beginAllocateToPool
    <2>6. ASSUME NEW b, NEW s, recordStream(b, s) \/ launch(b, s) \/ retire(b)
          PROVE  EventPhases'
        BY <2>6 DEF recordStream, launch, retire, poolVars
    <2> QED
        BY <1>3, <2>1, <2>2, <2>3, <2>4, <2>5, <2>6 DEF Call, Device
<1> QED
    BY <1>1, <1>2, <1>3 DEF Next

\* A step that touches an event queue happens outside captures.
LEMMA EventsOutsideCapture ==
    ASSUME EventPhases, [Next]_vars, captures_underway # <<>>
    PROVE  UNCHANGED supa_events
<1>1. CASE UNCHANGED vars
    BY <1>1 DEF vars, eventVars
<1>2. CASE Step
    <2>1. ASSUME NEW b, release_block(b) PROVE UNCHANGED supa_events
        BY <2>1 DEF release_block, eventVars
    <2>2. ~insert_events_deferred
        BY DEF insert_events_deferred, EventPhases
    <2>3. \A s \in Streams : ~query_event(s) /\ ~synchronize_event(s)
        BY DEF query_event, synchronize_event, EventPhases
    <2> QED
        BY <1>2, <2>1, <2>2, <2>3
           DEF Step, leave_stream, get_free_block, no_free_block, callback_return,
               garbage_collect, gc_return, gc_release, release_available, release_cached,
               alloc_block, alloc_block_fails, release_available_return, retry_release,
               synchronize_return, release_return, throw, eventVars
<1>3. CASE Call \/ Device \/ \E b \in active_blocks : callback_free(b)
    <2>1. ASSUME NEW b \in active_blocks, free(b) \/ callback_free(b)
          PROVE  UNCHANGED supa_events
        BY <2>1 DEF free, callback_free, do_free, eventVars
    <2>2. ASSUME NEW s \in Streams, NEW n \in Requests, NEW p \in MempoolIds \cup {NoPool},
                 malloc(s, n, p)
          PROVE  UNCHANGED supa_events
        BY <2>2 DEF malloc, eventVars
    <2> QED
        BY <1>3, <2>1, <2>2
           DEF Call, Device, emptyCache, setMemoryFraction, createOrIncrefPool,
               endAllocateToPool, releasePool, beginAllocateToPool, recordStream, launch,
               retire, eventVars
<1> QED
    BY <1>1, <1>2, <1>3 DEF Next

\* No end-of-life event is recorded, queried or waited for while a capture is
\* underway: free defers them (line 1269) and malloc skips process_events.
THEOREM CaptureCorrect == Spec => NoEventsDuringCapture
<1>1. Init => EventPhases
    BY DEF Init, EventPhases
<1>2. EventPhases /\ [Next]_vars => EventPhases'
    BY EventPhasesNext
<1>3. EventPhases /\ [Next]_vars =>
         [captures_underway # <<>> => UNCHANGED supa_events]_vars
    BY EventsOutsideCapture
<1> QED
    BY <1>1, <1>2, <1>3, PTL DEF Spec, NoEventsDuringCapture

-----------------------------------------------------------------------------
(* Coalescing.                                                             *)

\* A block that may be merged is in the free lists: a freed block that is still
\* active has a use or an event left.
LEMMA MergeableCached ==
    ASSUME SafeState, NEW x \in AllBlocks, Mergeable(x)
    PROVE  x \in cached_blocks
<1> SUFFICES ASSUME x \in active_blocks PROVE FALSE
    BY DEF AllBlocks
<1> QED
    BY DEF Mergeable, SafeState, Safe, Accounts

\* free_block leaves no cached neighbour: it merges the ones there are, whose
\* own neighbours are not cached.
LEMMA FreeBlockCoalesced ==
    ASSUME TypeOK, SafeState, FullyCoalesced, NEW b \in active_blocks,
           NEW st \in [StatName -> Int], free_block(b, st)
    PROVE  FullyCoalesced'
<1> DEFINE X == MergeBefore(b)
           Y == MergeAfter(b)
           C == cached_blocks
           m == Merged(b)
<1>1. /\ cached_blocks' = (C \ (X \cup Y)) \cup {m}
      /\ MergedLow(b) \in Nat /\ MergedLow(b) <= b.off
      /\ MergedHigh(b) \in Nat /\ MergedHigh(b) >= b.off + b.size
    BY FreeBlockEffect
<1>2. /\ m.seg = b.seg /\ m.off = MergedLow(b)
      /\ m.size = MergedHigh(b) - MergedLow(b)
    BY DEF Merged, NewBlock
<1>3. /\ b.off \in Nat /\ b.size \in Nat /\ b.size > 0
      /\ C \in SUBSET Block
    BY DEF TypeOK, Block, SafeState, Safe, Geometry, Within
<1>4. \A x \in C : Mergeable(x) /\ x \in AllBlocks
    BY DEF SafeState, Safe, AllBlocks
<1>5. ASSUME NEW x \in C \ (X \cup Y), x.seg = b.seg, x.off + x.size = MergedLow(b)
      PROVE  FALSE
    <2>1. CASE X = {}
        <3>1. x \in X
            BY <1>4, <1>5, <2>1 DEF MergedLow, MergeBefore, PrevOf
        <3> QED BY <2>1, <3>1
    <2>2. CASE X # {}
        <3>1. PICK y \in X : MergedLow(b) = y.off
            BY <2>2 DEF MergedLow
        <3>2. y \in C /\ y.seg = b.seg
            BY MergeableCached DEF MergeBefore, PrevOf
        <3> QED BY <1>5, <3>1, <3>2 DEF FullyCoalesced
    <2> QED BY <2>1, <2>2
<1>6. ASSUME NEW x \in C \ (X \cup Y), x.seg = b.seg, x.off = MergedHigh(b)
      PROVE  FALSE
    <2>1. CASE Y = {}
        <3>1. MergedHigh(b) = b.off + b.size
            BY <1>3, <2>1 DEF MergedHigh
        <3>2. x \in Y
            BY <1>4, <1>6, <3>1 DEF MergeAfter, NextOf
        <3> QED BY <2>1, <3>2
    <2>2. CASE Y # {}
        <3>1. PICK y \in Y : MergedHigh(b) = b.off + b.size + y.size
            BY <2>2 DEF MergedHigh
        <3>2. y \in C /\ y.seg = b.seg /\ b.off + b.size = y.off
            BY MergeableCached DEF MergeAfter, NextOf
        <3>3. y.off + y.size = x.off
            BY <1>6, <3>1, <3>2
        <3> QED BY <1>6, <3>2, <3>3 DEF FullyCoalesced
    <2> QED BY <2>1, <2>2
<1>7. m.off + m.size = MergedHigh(b) /\ m.off # MergedHigh(b)
    BY <1>1, <1>2, <1>3
<1> HIDE DEF m, X, Y
<1> QED
    BY <1>1, <1>2, <1>5, <1>6, <1>7 DEF FullyCoalesced

\* The rest of a block that was handed out in part has no cached neighbour: the
\* neighbour of the block would have been one.
LEMMA AllocFoundCoalesced ==
    ASSUME TypeOK, SafeState, SafeState', FullyCoalesced, op \in MallocOp,
           NEW b \in Block, NEW st, b.size >= op.size, alloc_found_block(b, st),
           b \in cached_blocks \/ (\A c \in AllBlocks : c.seg # b.seg)
    PROVE  FullyCoalesced'
<1> DEFINE split == should_split(b.size, op.size, op.pool.small)
           r == NewBlock(b.seg, b.off + op.size, b.size - op.size, b.stream, b.pool)
           C == cached_blocks
<1>1. cached_blocks' = (C \ {b}) \cup (IF split THEN {r} ELSE {})
    BY DEF alloc_found_block
<1>2. r.seg = b.seg /\ r.off = b.off + op.size /\ r.size = b.size - op.size
    BY DEF NewBlock
<1>3. /\ op.size \in Nat /\ op.size > 0 /\ b.off \in Nat /\ b.size \in Nat
      /\ C \in SUBSET Block
    BY DEF MallocOp, Block, TypeOK
<1> HIDE DEF r
<1>4. CASE ~split
    BY <1>1, <1>4 DEF FullyCoalesced
<1>5. CASE split
    <2>1. r \in cached_blocks' /\ cached_blocks' = (C \ {b}) \cup {r}
        BY <1>1, <1>5
    <2>2. r.size > 0
        BY <2>1 DEF SafeState, Safe, Geometry, Within
    <2>3. ASSUME NEW x \in C \ {b}, x.seg = b.seg
          PROVE  x.off + x.size # r.off /\ r.off + r.size # x.off
        <3>1. b \in C
            BY <2>3 DEF AllBlocks
        <3>2. ~Overlap(x, b) /\ x.size > 0 /\ x.off \in Nat /\ x.size \in Nat
            BY <1>3, <2>3, <3>1 DEF SafeState, Safe, Geometry, Apart, Within, Block
        <3>3. b.off + b.size # x.off
            BY <2>3, <3>1 DEF FullyCoalesced
        <3> QED BY <1>2, <1>3, <2>3, <3>2, <3>3 DEF Overlap
    <2>4. r.off + r.size # r.off
        BY <1>2, <1>3, <2>2
    <2> QED BY <1>2, <2>1, <2>3, <2>4 DEF FullyCoalesced
<1> QED
    BY <1>4, <1>5

\* A step that adds nothing to the free lists leaves them coalesced.
LEMMA FewerCoalesced ==
    ASSUME FullyCoalesced, cached_blocks' \subseteq cached_blocks
    PROVE  FullyCoalesced'
    BY DEF FullyCoalesced

\* do_free
LEMMA DoFreeCoalesced ==
    ASSUME TypeOK, SafeState, FullyCoalesced, NEW b \in active_blocks, do_free(b)
    PROVE  FullyCoalesced'
<1> DEFINE change == [allocation |-> -1, allocated_bytes |-> -b.size,
                      oversize_allocations |-> -Indicator(b.size >= MaxSplitSize)]
           st == Changed(stats, change)
<1>1. CASE b.stream_uses # {}
    BY <1>1, FewerCoalesced DEF do_free
<1>2. CASE b.stream_uses = {}
    <2>1. free_block(b, st)
        BY <1>2 DEF do_free
    <2>2. Indicator(b.size >= MaxSplitSize) \in Int /\ b.size \in Int
          /\ stats \in [StatName -> Int]
        BY IndicatorType DEF TypeOK, Block
    <2>3. \A n \in DOMAIN change : change[n] \in Int
        BY <2>2
    <2>4. st \in [StatName -> Int]
        BY <2>2, <2>3, ChangedType
    <2> HIDE DEF st
    <2> QED BY <2>1, <2>4, FreeBlockCoalesced
<1> QED
    BY <1>1, <1>2

\* FullyCoalesced is kept, given that memory is safe before and after.
LEMMA CoalescedNext ==
    ASSUME TypeOK, SafeAll, SafeAll', FullyCoalesced, [Next]_vars
    PROVE  FullyCoalesced'
<1>0. SafeState /\ SafeState'
    BY DEF SafeAll
<1>1. CASE UNCHANGED vars
    BY <1>1, FewerCoalesced DEF vars, memVars
<1>2. CASE Step
    <2>1. ASSUME NEW b \in active_blocks, complete_event(b) PROVE FullyCoalesced'
        <3>1. stats \in [StatName -> Int]
            BY DEF TypeOK
        <3> QED BY <1>0, <2>1, <3>1, FreeBlockCoalesced, FewerCoalesced DEF complete_event
    <2>2. ASSUME NEW s \in Streams, query_event(s) \/ synchronize_event(s)
          PROVE  FullyCoalesced'
        BY <2>1, <2>2 DEF query_event, synchronize_event
    <2>3. ASSUME NEW b \in cached_blocks, gc_release(b) \/ release_available(b) \/ release_cached(b)
          PROVE  FullyCoalesced'
        BY <2>3, FewerCoalesced DEF gc_release, release_available, release_cached, release_block
    <2>4. ASSUME NEW g \in Segments, alloc_block(g) PROVE FullyCoalesced'
        <3>1. op \in MallocOp
            BY <2>4, MallocLocals DEF alloc_block, MallocPhases
        <3> DEFINE b == NewBlock(g, 0, op.alloc_size, op.stream, op.pool)
        <3>2. PICK st : alloc_found_block(b, st)
            BY <2>4 DEF alloc_block
        <3>3. b.seg = g /\ b.size = op.alloc_size /\ b \in Block
            BY <3>1 DEF NewBlock, Block, MallocOp
        <3> HIDE DEF b
        <3>4. ASSUME NEW c \in AllBlocks, c.seg = g PROVE FALSE
            <4>1. c.size > 0 /\ c.off + c.size <= 0
                BY <1>0, <2>4, <3>4 DEF alloc_block, SafeState, Safe, Geometry, Within,
                                        AllBlocks
            <4>2. c.off \in Nat /\ c.size \in Nat
                BY DEF TypeOK, AllBlocks, Block
            <4> QED BY <4>1, <4>2
        <3>5. b.size >= op.size
            BY <3>1, <3>3 DEF MallocOp
        <3> QED BY <1>0, <3>1, <3>2, <3>3, <3>4, <3>5, AllocFoundCoalesced
    <2>5. CASE get_free_block
        <3>1. op \in MallocOp
            BY <2>5, MallocLocals DEF get_free_block, MallocPhases
        <3>2. PICK b \in BestFit : alloc_found_block(b, stats)
            BY <2>5 DEF get_free_block
        <3>3. b \in cached_blocks /\ b \in Block /\ b.size >= op.size
            BY <3>2, StateTypes DEF BestFit
        <3> QED BY <1>0, <3>1, <3>2, <3>3, AllocFoundCoalesced
    <2> QED
        BY <1>2, <2>2, <2>3, <2>4, <2>5, FewerCoalesced
           DEF Step, insert_events_deferred, leave_stream, no_free_block, callback_return,
               garbage_collect, gc_return, alloc_block_fails, release_available_return,
               retry_release, synchronize_return, release_return, throw, memVars
<1>3. CASE Call \/ Device \/ \E b \in active_blocks : callback_free(b)
    <2>1. ASSUME NEW b \in active_blocks, free(b) \/ callback_free(b) PROVE FullyCoalesced'
        BY <1>0, <2>1, DoFreeCoalesced DEF free, callback_free
    <2>2. ASSUME NEW s \in Streams, NEW n \in Requests, NEW p \in MempoolIds \cup {NoPool},
                 malloc(s, n, p)
          PROVE  FullyCoalesced'
        BY <2>2, FewerCoalesced DEF malloc, memVars
    <2> QED
        BY <1>3, <2>1, <2>2, FewerCoalesced
           DEF Call, Device, emptyCache, setMemoryFraction, createOrIncrefPool,
               endAllocateToPool, releasePool, beginAllocateToPool, recordStream, launch,
               retire, memVars
<1> QED
    BY <1>1, <1>2, <1>3 DEF Next

\* Two neighbours are never both in the free lists (free_block merges both ways,
\* alloc_found_block cuts a block whose neighbours are not cached).
THEOREM CoalescedCorrect == Spec => []FullyCoalesced
<1>1. Init => FullyCoalesced
    BY DEF Init, FullyCoalesced
<1>2. TypeOK /\ SafeAll /\ SafeAll' /\ FullyCoalesced /\ [Next]_vars => FullyCoalesced'
    BY CoalescedNext
<1>3. Init => TypeOK /\ SafeAll
    BY TypeInit, SafeInit
<1>4. TypeOK /\ SafeAll /\ [Next]_vars => (TypeOK /\ SafeAll)'
    BY TypeNext, SafeNext
<1> QED
    BY <1>1, <1>2, <1>3, <1>4, PTL DEF Spec

-----------------------------------------------------------------------------
(* Exhaustion.                                                             *)

NoEventsLeft == deferred = <<>> /\ \A s \in Streams : supa_events[s] = <<>>

NothingToRelease ==
    \A b \in cached_blocks : b.pool.id \in graph_pools_freeable \cup {NoPool} => is_split(b)

\* The scope in which the last retry releases everything
Everything == captures_underway = <<>> /\ op.id = NoPool

\* The attempt malloc is in, by phase
Attempts ==
    /\ pc = "deferred" /\ op.kind = "malloc" => op.attempt \in {0, 3}
    /\ pc \in {"sync", "release"} /\ op.kind = "malloc" => op.attempt = 3
    /\ pc = "gc_loop" => op.attempt = 1
    /\ pc = "alloc" => op.attempt \in 1 .. 3
    /\ pc = "oom" /\ captures_underway = <<>> => op.attempt = 3

\* What the retries have achieved, by phase
Achieved ==
    /\ pc = "sync" => deferred = <<>>
    /\ pc = "release" /\ Everything => NoEventsLeft
    /\ pc \in {"alloc", "oom"} /\ op.attempt = 3 /\ Everything =>
          NoEventsLeft /\ NothingToRelease

Retries == Attempts /\ Achieved

\* A step that moves neither malloc nor memory keeps what was achieved.
LEMMA RetriesStay ==
    ASSUME Retries,
           UNCHANGED <<pc, op, eventVars, captures_underway, graph_pools_freeable,
                       active_blocks, cached_blocks>>
    PROVE  Retries'
<1>1. UNCHANGED <<AllBlocks, Everything, NoEventsLeft>>
    BY DEF AllBlocks, Everything, NoEventsLeft, eventVars
<1>2. UNCHANGED NothingToRelease
    BY <1>1 DEF NothingToRelease, is_split, PrevOf, NextOf
<1>3. Attempts'
    BY DEF Retries, Attempts
<1> QED
    BY <1>1, <1>2, <1>3 DEF Retries, Achieved, eventVars

\* A phase about which nothing is said
LEMMA RetriesElsewhere ==
    ASSUME pc' \notin {"deferred", "sync", "release", "gc_loop", "alloc", "oom"}
    PROVE  Retries'
    BY DEF Retries, Attempts, Achieved

\* Once every event in scope was waited for, no queue has an entry.
LEMMA AllSynchronized ==
    ASSUME TypeOK, SafeAll, op.id = NoPool, \A s \in Streams : EventsInScope(s) = {}
    PROVE  \A s \in Streams : supa_events[s] = <<>>
<1>1. EventsAccounted
    BY SafeImplies DEF SafetyInv
<1> SUFFICES ASSUME NEW s \in Streams, supa_events[s] # <<>> PROVE FALSE
    OBVIOUS
<1>2. 1 \in DOMAIN supa_events[s]
    BY StateTypes
<1>3. \E b \in active_blocks : RefOf(b) = supa_events[s][1]
    BY <1>1, <1>2 DEF EventsAccounted, NamesFreed
<1>4. 1 \in EventsInScope(s)
    BY <1>2, <1>3 DEF EventsInScope, InSyncScope
<1> QED
    BY <1>4

\* What malloc's retries have achieved is kept by the steps of a method.
LEMMA RetriesStep ==
    ASSUME TypeOK, SafeAll, Retries, Step
    PROVE  Retries'
<1>1. CASE insert_events_deferred
    <2>1. CASE deferred # <<>>
        <3>1. pc = "deferred" /\ UNCHANGED <<pc, op>>
            BY <1>1, <2>1 DEF insert_events_deferred
        <3> QED BY <3>1 DEF Retries, Attempts, Achieved
    <2>2. CASE deferred = <<>>
        <3>1. /\ pc = "deferred" /\ UNCHANGED <<op, deferred>>
              /\ pc' = IF ProcessingEvents THEN "query" ELSE "sync"
            BY <1>1, <2>2 DEF insert_events_deferred, eventVars
        <3> QED BY <2>2, <3>1 DEF Retries, Attempts, Achieved, ProcessingEvents
    <2> QED BY <2>1, <2>2
<1>2. ASSUME NEW s \in Streams, query_event(s) PROVE Retries'
    BY <1>2, RetriesElsewhere DEF query_event
<1>3. ASSUME NEW s \in Streams, leave_stream(s) PROVE Retries'
    BY <1>3, RetriesElsewhere DEF leave_stream
<1>4. ASSUME NEW s \in Streams, synchronize_event(s) PROVE Retries'
    <2>1. pc = "sync" /\ UNCHANGED <<pc, op, deferred>>
        BY <1>4 DEF synchronize_event
    <2> QED BY <2>1 DEF Retries, Attempts, Achieved
<1>5. ASSUME get_free_block \/ \E g \in Segments : alloc_block(g) PROVE Retries'
    <2>1. pc' = "idle"
        BY <1>5 DEF get_free_block, alloc_block, alloc_found_block
    <2> QED BY <2>1, RetriesElsewhere
<1>6. ASSUME no_free_block \/ callback_return \/ throw PROVE Retries'
    BY <1>6, RetriesElsewhere DEF no_free_block, callback_return, throw
<1>7. CASE garbage_collect
    <2>1. op \in MallocOp
        BY <1>7, MallocLocals DEF garbage_collect, MallocPhases
    <2>2. op'.attempt = 1 /\ pc' \in {"gc_loop", "alloc"}
        BY <1>7, <2>1 DEF garbage_collect, MallocOp
    <2> QED BY <2>2 DEF Retries, Attempts, Achieved
<1>8. CASE gc_return
    <2>1. op \in MallocOp
        BY <1>8, MallocLocals DEF gc_return, MallocPhases
    <2>2. op'.attempt = op.attempt /\ pc' = "alloc" /\ pc = "gc_loop"
        BY <1>8, <2>1 DEF gc_return, MallocOp
    <2> QED BY <2>2 DEF Retries, Attempts, Achieved
<1>9. ASSUME NEW b \in cached_blocks, gc_release(b) PROVE Retries'
    <2>1. op \in MallocOp
        BY <1>9, MallocLocals DEF gc_release, MallocPhases
    <2>2. op'.attempt = op.attempt /\ pc' = "gc_loop" /\ pc = "gc_loop"
        BY <1>9, <2>1 DEF gc_release, MallocOp
    <2> QED BY <2>2 DEF Retries, Attempts, Achieved
<1>10. ASSUME NEW b \in cached_blocks, release_available(b) PROVE Retries'
    BY <1>10, RetriesElsewhere DEF release_available
<1>11. ASSUME NEW b \in cached_blocks, release_cached(b) PROVE Retries'
    <2>1. pc = "release" /\ UNCHANGED <<pc, op, eventVars, captures_underway>>
        BY <1>11 DEF release_cached, release_block
    <2>2. UNCHANGED <<Everything, NoEventsLeft>>
        BY <2>1 DEF Everything, NoEventsLeft, eventVars
    <2> QED BY <2>1, <2>2 DEF Retries, Attempts, Achieved
<1>12. CASE alloc_block_fails
    <2>1. /\ pc = "alloc" /\ pc' = after_failure
          /\ UNCHANGED <<op, eventVars, poolVars, active_blocks, cached_blocks>>
        BY <1>12 DEF alloc_block_fails, memVars
    <2>2. op.attempt \in 1 .. 3
        BY <2>1 DEF Retries, Attempts
    <2>3. CASE op.attempt # 3
        <3>1. pc' \in {"available", "cached"}
            BY <2>1, <2>2, <2>3 DEF after_failure
        <3> QED BY <3>1, RetriesElsewhere
    <2>4. CASE op.attempt = 3
        <3>1. pc' = "oom"
            BY <2>1, <2>4 DEF after_failure
        <3>2. UNCHANGED <<AllBlocks, Everything, NoEventsLeft>>
            BY <2>1 DEF AllBlocks, Everything, NoEventsLeft, eventVars, poolVars
        <3>3. UNCHANGED NothingToRelease
            BY <2>1, <3>2 DEF NothingToRelease, is_split, PrevOf, NextOf, poolVars
        <3> QED BY <2>1, <2>4, <3>1, <3>2, <3>3 DEF Retries, Attempts, Achieved
    <2> QED BY <2>3, <2>4
<1>13. CASE release_available_return
    <2>1. op \in MallocOp
        BY <1>13, MallocLocals DEF release_available_return, MallocPhases
    <2>2. pc' = "cached" \/ (pc' = "alloc" /\ op'.attempt = 2)
        BY <1>13, <2>1 DEF release_available_return, MallocOp
    <2> QED BY <2>2 DEF Retries, Attempts, Achieved
<1>14. CASE retry_release
    <2>1. op \in MallocOp
        BY <1>14, MallocLocals DEF retry_release, MallocPhases
    <2>2. op'.attempt = 3 /\ op'.id = op.id /\ UNCHANGED captures_underway
        BY <1>14, <2>1 DEF retry_release, MallocOp, poolVars
    <2>3. CASE captures_underway # <<>>
        BY <1>14, <2>2, <2>3 DEF retry_release, Retries, Attempts, Achieved, Everything
    <2>4. CASE captures_underway = <<>>
        <3>1. \/ pc' = "deferred"
              \/ pc' = "release" /\ op'.id # NoPool
              \/ pc' = "assert_no_capture"
            BY <1>14, <2>4 DEF retry_release, enter_release
        <3> QED BY <2>2, <3>1 DEF Retries, Attempts, Achieved, Everything
    <2> QED BY <2>3, <2>4
<1>15. CASE synchronize_return
    <2>1. /\ pc = "sync" /\ pc' = "release" /\ \A s \in Streams : EventsInScope(s) = {}
          /\ UNCHANGED <<op, eventVars, captures_underway>>
        BY <1>15 DEF synchronize_return, poolVars
    <2>2. op.id = NoPool => NoEventsLeft
        BY <2>1, AllSynchronized DEF NoEventsLeft, Retries, Achieved
    <2>3. UNCHANGED <<Everything, NoEventsLeft>>
        BY <2>1 DEF Everything, NoEventsLeft, eventVars
    <2> QED BY <2>1, <2>2, <2>3 DEF Retries, Attempts, Achieved, Everything
<1>16. CASE release_return
    <2>1. CASE op.kind # "malloc"
        BY <1>16, <2>1, RetriesElsewhere DEF release_return
    <2>2. CASE op.kind = "malloc"
        <3>1. /\ pc = "release" /\ pc' = "alloc" /\ Releasable = {}
              /\ graph_pools_freeable' \subseteq graph_pools_freeable
              /\ UNCHANGED <<op, eventVars, captures_underway, active_blocks, cached_blocks>>
            BY <1>16, <2>2 DEF release_return, memVars
        <3>2. UNCHANGED <<AllBlocks, Everything, NoEventsLeft>>
            BY <3>1 DEF AllBlocks, Everything, NoEventsLeft, eventVars
        <3>3. op.attempt = 3
            BY <2>2, <3>1 DEF Retries, Attempts
        <3>4. Everything => NothingToRelease
            BY <3>1 DEF Releasable, ReleaseScope, Everything, NothingToRelease
        <3>5. NothingToRelease => NothingToRelease'
            BY <3>1, <3>2 DEF NothingToRelease, is_split, PrevOf, NextOf
        <3> QED BY <3>1, <3>2, <3>3, <3>4, <3>5 DEF Retries, Attempts, Achieved
    <2> QED BY <2>1, <2>2
<1> QED
    BY <1>1, <1>2, <1>3, <1>4, <1>5, <1>6, <1>7, <1>8, <1>9, <1>10, <1>11, <1>12, <1>13,
       <1>14, <1>15, <1>16 DEF Step

\* ... and by everything that happens outside it.
LEMMA RetriesNext ==
    ASSUME TypeOK, SafeAll, Retries, [Next]_vars
    PROVE  Retries'
<1>1. CASE UNCHANGED vars
    BY <1>1, RetriesStay DEF vars, poolVars, memVars
<1>2. ASSUME NEW s \in Streams, NEW n \in Requests, NEW p \in MempoolIds \cup {NoPool},
             malloc(s, n, p)
      PROVE  Retries'
    <2>1. op'.attempt = 0 /\ pc' \in {"deferred", "search"}
        BY <1>2 DEF malloc, first_phase
    <2> QED BY <2>1 DEF Retries, Attempts, Achieved
<1>3. ASSUME NEW p \in MempoolIds \cup {NoPool}, emptyCache(p) PROVE Retries'
    <2>1. /\ op'.kind = "empty" /\ op'.id = p
          /\ UNCHANGED captures_underway
        BY <1>3 DEF emptyCache, poolVars
    <2>2. \/ pc' = "deferred"
          \/ pc' = "release" /\ (captures_underway # <<>> \/ op'.id # NoPool)
          \/ pc' = "assert_no_capture"
        BY <1>3 DEF emptyCache, enter_release
    <2> QED BY <2>1, <2>2 DEF Retries, Attempts, Achieved, Everything
<1>4. ASSUME NEW b \in active_blocks, callback_free(b) PROVE Retries'
    BY <1>4, RetriesElsewhere DEF callback_free
<1>5. ASSUME pc = "idle", UNCHANGED pc PROVE Retries'
    BY <1>5, RetriesElsewhere
<1>6. ASSUME NEW f \in Fractions, setMemoryFraction(f) PROVE Retries'
    BY <1>6, RetriesStay DEF setMemoryFraction, poolVars, memVars
<1>7. ASSUME NEW b, NEW s, launch(b, s) \/ retire(b) PROVE Retries'
    BY <1>7, RetriesStay DEF launch, retire, poolVars, memVars
<1>8. CASE Step
    BY <1>8, RetriesStep
<1>9. CASE Call
    BY <1>2, <1>3, <1>5, <1>6, <1>9
       DEF Call, free, recordStream, createOrIncrefPool, endAllocateToPool, releasePool,
           beginAllocateToPool
<1>10. CASE Device
    BY <1>7, <1>10 DEF Device
<1> QED
    BY <1>1, <1>4, <1>8, <1>9, <1>10 DEF Next

\* When malloc reports an OutOfMemoryError outside captures and MemPoolContexts,
\* every cached segment that may be returned to the driver has been, and no freed
\* block waits for an event any more (the retries of malloc, from line 1003).
THEOREM ExhaustionCorrect == Spec => []OomOnlyWhenExhausted
<1>1. Init => Retries
    BY DEF Init, Retries, Attempts, Achieved
<1>2. TypeOK /\ SafeAll /\ Retries /\ [Next]_vars => Retries'
    BY RetriesNext
<1>3. Retries => OomOnlyWhenExhausted
    BY DEF Retries, Attempts, Achieved, Everything, NoEventsLeft, NothingToRelease,
           OomOnlyWhenExhausted
<1>4. Init => TypeOK /\ SafeAll
    BY TypeInit, SafeInit
<1>5. TypeOK /\ SafeAll /\ [Next]_vars => (TypeOK /\ SafeAll)'
    BY TypeNext, SafeNext
<1> QED
    BY <1>1, <1>2, <1>3, <1>4, <1>5, PTL DEF Spec

-----------------------------------------------------------------------------
(* Private pools.                                                          *)

\* The segments that the blocks B of a pool live in
SegsOf(B, p) == {b.seg : b \in {x \in B : x.pool.id = p}}

\* References on a pool: use_count covers the holders, a pool that is recorded to
\* is used, and a pool is freeable when its last reference is gone.
RefsOK(p) ==
    /\ (p \in graph_pools_freeable) <=>
          (graph_pools[p].exists /\ graph_pools[p].use_count = 0)
    /\ Recording(p) => graph_pools[p].use_count > 0
    /\ holders[p] <= graph_pools[p].use_count
    /\ graph_pools[p].use_count > 0 => graph_pools[p].exists

\* The pool's supaMalloc_count is its number of segments.
CountOK(p) ==
    /\ IsFiniteSet(SegsOf(AllBlocks, p))
    /\ graph_pools[p].supaMalloc_count = Cardinality(SegsOf(AllBlocks, p))
    /\ SegsOf(AllBlocks, p) # {} => graph_pools[p].exists

\* malloc allocates to a private pool only while a capture to it is underway.
RecordsTo == op.kind = "malloc" /\ op.pool.id # NoPool =>
                op.pool.id \in MempoolIds /\ Recording(op.pool.id)

PoolsInv == RecordsTo /\ \A p \in MempoolIds : RefsOK(p) /\ CountOK(p)

SameSegs == \A p \in MempoolIds : SegsOf(AllBlocks', p) = SegsOf(AllBlocks, p)

\* Blocks that live in the same segments, for the same pools
LEMMA SegsKept ==
    ASSUME NEW B, NEW D,
           \A b \in B : \E d \in D : d.seg = b.seg /\ d.pool = b.pool,
           \A d \in D : \E b \in B : d.seg = b.seg /\ d.pool = b.pool
    PROVE  \A p : SegsOf(D, p) = SegsOf(B, p)
<1>1. ASSUME NEW p, NEW g PROVE g \in SegsOf(D, p) <=> g \in SegsOf(B, p)
    <2>1. ASSUME g \in SegsOf(D, p) PROVE g \in SegsOf(B, p)
        <3>1. PICK d \in D : d.pool.id = p /\ g = d.seg
            BY <2>1 DEF SegsOf
        <3>2. PICK b \in B : d.seg = b.seg /\ d.pool = b.pool
            OBVIOUS
        <3> QED BY <3>1, <3>2 DEF SegsOf
    <2>2. ASSUME g \in SegsOf(B, p) PROVE g \in SegsOf(D, p)
        <3>1. PICK b \in B : b.pool.id = p /\ g = b.seg
            BY <2>2 DEF SegsOf
        <3>2. PICK d \in D : d.seg = b.seg /\ d.pool = b.pool
            OBVIOUS
        <3> QED BY <3>1, <3>2 DEF SegsOf
    <2> QED BY <2>1, <2>2
<1> SUFFICES ASSUME NEW p PROVE SegsOf(D, p) = SegsOf(B, p)
    OBVIOUS
<1>2. SegsOf(D, p) \subseteq SegsOf(B, p) /\ SegsOf(B, p) \subseteq SegsOf(D, p)
    BY <1>1
<1> QED
    BY <1>2

\* A block changes its state of use.
LEMMA UseSegs ==
    ASSUME NEW b \in active_blocks, NEW c, c.seg = b.seg, c.pool = b.pool,
           active_blocks' = (active_blocks \ {b}) \cup {c}, UNCHANGED cached_blocks
    PROVE  SameSegs
<1>1. \A x \in AllBlocks : \E d \in AllBlocks' : d.seg = x.seg /\ d.pool = x.pool
    BY DEF AllBlocks
<1>2. \A d \in AllBlocks' : \E x \in AllBlocks : d.seg = x.seg /\ d.pool = x.pool
    BY DEF AllBlocks
<1> QED
    BY <1>1, <1>2, SegsKept DEF SameSegs

\* free_block merges blocks of one segment and one pool.
LEMMA FreeBlockSegs ==
    ASSUME TypeOK, SafeState, NEW b \in active_blocks, NEW st \in [StatName -> Int],
           free_block(b, st)
    PROVE  SameSegs
<1> DEFINE X == MergeBefore(b)
           Y == MergeAfter(b)
           m == Merged(b)
<1>1. /\ active_blocks' = active_blocks \ {b}
      /\ cached_blocks' = (cached_blocks \ (X \cup Y)) \cup {m}
    BY FreeBlockEffect
<1>2. m.seg = b.seg /\ m.pool = b.pool
    BY DEF Merged, NewBlock
<1>3. \A x \in X \cup Y : x.seg = b.seg /\ x \in AllBlocks
    BY DEF MergeBefore, MergeAfter, PrevOf, NextOf
<1>4. \A x \in AllBlocks : x.seg = b.seg => x.pool = b.pool
    BY DEF SafeState, Safe, Geometry, Owned, AllBlocks
<1> HIDE DEF m, X, Y
<1>5. \A x \in AllBlocks : \E d \in AllBlocks' : d.seg = x.seg /\ d.pool = x.pool
    BY <1>1, <1>2, <1>3, <1>4 DEF AllBlocks
<1>6. \A d \in AllBlocks' : \E x \in AllBlocks : d.seg = x.seg /\ d.pool = x.pool
    BY <1>1, <1>2 DEF AllBlocks
<1> QED
    BY <1>5, <1>6, SegsKept DEF SameSegs

\* alloc_found_block keeps a cached block in its segment, whole or in two parts.
LEMMA AllocFoundSegs ==
    ASSUME NEW b \in cached_blocks, NEW st, alloc_found_block(b, st)
    PROVE  SameSegs
<1> DEFINE split == should_split(b.size, op.size, op.pool.small)
           size == IF split THEN op.size ELSE b.size
           t == WithUse(NewBlock(b.seg, b.off, size, b.stream, b.pool), TRUE, {}, 0)
           r == NewBlock(b.seg, b.off + op.size, b.size - op.size, b.stream, b.pool)
<1>1. /\ active_blocks' = active_blocks \cup {t}
      /\ cached_blocks' = (cached_blocks \ {b}) \cup (IF split THEN {r} ELSE {})
    BY DEF alloc_found_block
<1>2. t.seg = b.seg /\ t.pool = b.pool /\ r.seg = b.seg /\ r.pool = b.pool
    BY DEF WithUse, NewBlock
<1> HIDE DEF t, r, split
<1>3. \A x \in AllBlocks : \E d \in AllBlocks' : d.seg = x.seg /\ d.pool = x.pool
    BY <1>1, <1>2 DEF AllBlocks
<1>4. \A d \in AllBlocks' : \E x \in AllBlocks : d.seg = x.seg /\ d.pool = x.pool
    BY <1>1, <1>2 DEF AllBlocks
<1> QED
    BY <1>3, <1>4, SegsKept DEF SameSegs

\* do_free
LEMMA DoFreeSegs ==
    ASSUME TypeOK, SafeState, NEW b \in active_blocks, do_free(b)
    PROVE  SameSegs
<1> DEFINE change == [allocation |-> -1, allocated_bytes |-> -b.size,
                      oversize_allocations |-> -Indicator(b.size >= MaxSplitSize)]
           st == Changed(stats, change)
<1>1. ASSUME NEW U, NEW n, UNCHANGED cached_blocks,
             active_blocks' = (active_blocks \ {b}) \cup {WithUse(b, FALSE, U, n)}
      PROVE  SameSegs
    <2> DEFINE c == WithUse(b, FALSE, U, n)
    <2>1. c.seg = b.seg /\ c.pool = b.pool
        BY DEF WithUse
    <2> HIDE DEF c
    <2> QED BY <1>1, <2>1, UseSegs DEF c
<1>2. CASE b.stream_uses # {}
    BY <1>1, <1>2 DEF do_free, insert_events
<1>3. CASE b.stream_uses = {}
    <2>1. free_block(b, st)
        BY <1>3 DEF do_free
    <2>2. Indicator(b.size >= MaxSplitSize) \in Int /\ b.size \in Int
          /\ stats \in [StatName -> Int]
        BY IndicatorType DEF TypeOK, Block
    <2>3. \A n \in DOMAIN change : change[n] \in Int
        BY <2>2
    <2>4. st \in [StatName -> Int]
        BY <2>2, <2>3, ChangedType
    <2> HIDE DEF st
    <2> QED BY <2>1, <2>4, FreeBlockSegs
<1> QED
    BY <1>2, <1>3

\* complete_event
LEMMA CompleteSegs ==
    ASSUME TypeOK, SafeState, NEW b \in active_blocks, complete_event(b)
    PROVE  SameSegs
<1>1. CASE b.event_count = 1
    <2>1. free_block(b, stats) /\ stats \in [StatName -> Int]
        BY <1>1 DEF complete_event, TypeOK
    <2> QED BY <2>1, FreeBlockSegs
<1>2. CASE b.event_count # 1
    <2> DEFINE c == WithUse(b, b.allocated, b.stream_uses, b.event_count - 1)
    <2>1. c.seg = b.seg /\ c.pool = b.pool
        BY DEF WithUse
    <2>2. active_blocks' = (active_blocks \ {b}) \cup {c} /\ UNCHANGED cached_blocks
        BY <1>2 DEF complete_event
    <2> HIDE DEF c
    <2> QED BY <2>1, <2>2, UseSegs
<1> QED
    BY <1>1, <1>2

-----------------------------------------------------------------------------
\* Recording depends on the captures only.
LEMMA RecordingStays ==
    ASSUME UNCHANGED captures_underway
    PROVE  \A p : Recording(p)' <=> Recording(p)
    BY DEF Recording

\* A step that leaves the pools and the segments of their blocks alone
LEMMA PoolsStay ==
    ASSUME PoolsInv, RecordsTo', SameSegs, UNCHANGED poolVars
    PROVE  PoolsInv'
<1>1. ASSUME NEW p \in MempoolIds PROVE RefsOK(p)'
    BY RecordingStays DEF PoolsInv, RefsOK, poolVars
<1>2. ASSUME NEW p \in MempoolIds PROVE CountOK(p)'
    BY DEF PoolsInv, CountOK, SameSegs, poolVars
<1> QED
    BY <1>1, <1>2 DEF PoolsInv

\* No block lives in a segment the driver has not handed out.
LEMMA NoBlockThere ==
    ASSUME TypeOK, SafeState, NEW g, segments[g] = 0, NEW c \in AllBlocks
    PROVE  c.seg # g
<1>1. c.size > 0 /\ c.off + c.size <= segments[c.seg]
    BY DEF SafeState, Safe, Geometry, Within, AllBlocks
<1>2. c.off \in Nat /\ c.size \in Nat
    BY DEF TypeOK, AllBlocks, Block
<1> QED
    BY <1>1, <1>2

\* A segment goes back to the driver: its pool has one less.
LEMMA ReleasePools ==
    ASSUME TypeOK, TypeOK', SafeState, SafeState', PoolsInv, RecordsTo',
           NEW b \in cached_blocks, release_block(b)
    PROVE  PoolsInv'
<1>1. /\ cached_blocks' = cached_blocks \ {b} /\ segments' = [segments EXCEPT ![b.seg] = 0]
      /\ graph_pools' = uncount_segment(b)
      /\ UNCHANGED <<active_blocks, captures_underway, graph_pools_freeable, holders>>
    BY DEF release_block
<1>2. /\ b \in AllBlocks /\ b \in Block /\ b.seg \in Segments /\ b \notin active_blocks
      /\ segments \in [Segments -> Nat] /\ graph_pools \in [MempoolIds -> PrivatePool]
    BY DEF TypeOK, AllBlocks, Block, SafeState, Safe
<1>3. AllBlocks' = AllBlocks \ {b}
    BY <1>1, <1>2 DEF AllBlocks
<1>4. \A c \in AllBlocks' : c.seg # b.seg
    <2>1. segments'[b.seg] = 0
        BY <1>1, <1>2
    <2> SUFFICES ASSUME NEW c \in AllBlocks', c.seg = b.seg PROVE FALSE
        OBVIOUS
    <2>2. c.size > 0 /\ c.off + c.size <= segments'[c.seg]
        BY DEF SafeState, Safe, Geometry, Within, AllBlocks
    <2>3. c.off \in Nat /\ c.size \in Nat
        BY DEF TypeOK, AllBlocks, Block
    <2> QED BY <2>1, <2>2, <2>3
<1>5. ASSUME NEW p \in MempoolIds
      PROVE  SegsOf(AllBlocks', p) = IF p = b.pool.id THEN SegsOf(AllBlocks, p) \ {b.seg}
                                                      ELSE SegsOf(AllBlocks, p)
    BY <1>2, <1>3, <1>4 DEF SegsOf
<1>6. ASSUME NEW p \in MempoolIds
      PROVE  /\ graph_pools'[p].exists = graph_pools[p].exists
             /\ graph_pools'[p].use_count = graph_pools[p].use_count
             /\ graph_pools'[p].supaMalloc_count =
                   IF p = b.pool.id THEN graph_pools[p].supaMalloc_count - 1
                                    ELSE graph_pools[p].supaMalloc_count
    BY <1>1, <1>2, AllocatorAssumption DEF uncount_segment, PrivatePool
<1>7. ASSUME NEW p \in MempoolIds PROVE RefsOK(p)'
    BY <1>1, <1>6, RecordingStays DEF PoolsInv, RefsOK
<1>8. ASSUME NEW p \in MempoolIds PROVE CountOK(p)'
    <2>1. CountOK(p)
        BY DEF PoolsInv
    <2>2. CASE p # b.pool.id
        BY <1>5, <1>6, <2>1, <2>2 DEF CountOK
    <2>3. CASE p = b.pool.id
        <3> DEFINE S == SegsOf(AllBlocks, p)
        <3>1. b.seg \in S
            BY <1>2, <2>3 DEF SegsOf
        <3>2. IsFiniteSet(S) /\ graph_pools[p].supaMalloc_count = Cardinality(S)
              /\ graph_pools[p].exists
            BY <2>1, <3>1 DEF CountOK
        <3>3. SegsOf(AllBlocks', p) = S \ {b.seg}
            BY <1>5, <2>3
        <3> HIDE DEF S
        <3>4. IsFiniteSet(S \ {b.seg}) /\ Cardinality(S \ {b.seg}) = Cardinality(S) - 1
            BY <3>1, <3>2, FS_RemoveElement
        <3> QED BY <1>6, <2>3, <3>2, <3>3, <3>4 DEF CountOK
    <2> QED BY <2>2, <2>3
<1> QED
    BY <1>7, <1>8 DEF PoolsInv

\* alloc_block: the pool malloc allocates to has one segment more.
LEMMA AllocBlockPools ==
    ASSUME TypeOK, SafeState, PoolsInv, NEW g \in Segments, alloc_block(g)
    PROVE  PoolsInv'
<1>1. op \in MallocOp
    BY MallocLocals DEF alloc_block, MallocPhases
<1> DEFINE n == NewBlock(g, 0, op.alloc_size, op.stream, op.pool)
           split == should_split(n.size, op.size, op.pool.small)
           size == IF split THEN op.size ELSE n.size
           t == WithUse(NewBlock(n.seg, n.off, size, n.stream, n.pool), TRUE, {}, 0)
           r == NewBlock(n.seg, n.off + op.size, n.size - op.size, n.stream, n.pool)
           i == op.pool.id
<1>2. PICK st : alloc_found_block(n, st)
    BY DEF alloc_block
<1>3. /\ active_blocks' = active_blocks \cup {t}
      /\ cached_blocks' = (cached_blocks \ {n}) \cup (IF split THEN {r} ELSE {})
      /\ op' = NoOp
    BY <1>2 DEF alloc_found_block
<1>4. n.seg = g /\ t.seg = g /\ t.pool = op.pool /\ r.seg = g /\ r.pool = op.pool
    BY DEF WithUse, NewBlock
<1> HIDE DEF n, t, r, split
<1>5. \A c \in AllBlocks : c.seg # g
    BY NoBlockThere DEF alloc_block
<1>6. \E T : /\ AllBlocks' = AllBlocks \cup T /\ t \in T
             /\ \A x \in T : x.seg = g /\ x.pool = op.pool
    <2>1. cached_blocks \ {n} = cached_blocks
        BY <1>4, <1>5 DEF AllBlocks
    <2> DEFINE T == {t} \cup (IF split THEN {r} ELSE {})
    <2>2. AllBlocks' = AllBlocks \cup T
        BY <1>3, <2>1 DEF AllBlocks
    <2>3. t \in T /\ \A x \in T : x.seg = g /\ x.pool = op.pool
        BY <1>4
    <2> HIDE DEF T
    <2> QED BY <2>2, <2>3
<1>7. ASSUME NEW p \in MempoolIds
      PROVE  /\ SegsOf(AllBlocks', p) = IF p = i THEN SegsOf(AllBlocks, p) \cup {g}
                                                 ELSE SegsOf(AllBlocks, p)
             /\ g \notin SegsOf(AllBlocks, p)
    <2>1. PICK T : /\ AllBlocks' = AllBlocks \cup T /\ t \in T
                   /\ \A x \in T : x.seg = g /\ x.pool = op.pool
        BY <1>6
    <2> QED BY <1>5, <2>1 DEF SegsOf
<1>8. /\ graph_pools' = IF i = NoPool THEN graph_pools
                        ELSE [graph_pools EXCEPT ![i].supaMalloc_count = @ + 1]
      /\ UNCHANGED <<captures_underway, graph_pools_freeable, holders>>
    BY DEF alloc_block
<1>9. ASSUME NEW p \in MempoolIds
      PROVE  /\ graph_pools'[p].exists = graph_pools[p].exists
             /\ graph_pools'[p].use_count = graph_pools[p].use_count
             /\ graph_pools'[p].supaMalloc_count =
                   IF p = i THEN graph_pools[p].supaMalloc_count + 1
                            ELSE graph_pools[p].supaMalloc_count
    BY <1>8, AllocatorAssumption DEF TypeOK, PrivatePool
<1>10. ASSUME NEW p \in MempoolIds PROVE RefsOK(p)'
    BY <1>8, <1>9, RecordingStays DEF PoolsInv, RefsOK
<1>11. ASSUME NEW p \in MempoolIds PROVE CountOK(p)'
    <2>1. CountOK(p)
        BY DEF PoolsInv
    <2>2. CASE p # i
        BY <1>7, <1>9, <2>1, <2>2 DEF CountOK
    <2>3. CASE p = i
        <3> DEFINE S == SegsOf(AllBlocks, p)
        <3>1. g \notin S /\ SegsOf(AllBlocks', p) = S \cup {g}
            BY <1>7, <2>3
        <3>2. IsFiniteSet(S) /\ graph_pools[p].supaMalloc_count = Cardinality(S)
            BY <2>1 DEF CountOK
        <3> HIDE DEF S
        <3>3. IsFiniteSet(S \cup {g}) /\ Cardinality(S \cup {g}) = Cardinality(S) + 1
            BY <3>1, <3>2, FS_AddElement
        <3>4. graph_pools[p].exists
            <4>1. p # NoPool /\ op.kind = "malloc"
                BY <1>1, AllocatorAssumption DEF MallocOp
            <4>2. Recording(p)
                BY <2>3, <4>1 DEF PoolsInv, RecordsTo
            <4> QED BY <4>2 DEF PoolsInv, RefsOK
        <3> QED BY <1>9, <2>3, <3>1, <3>2, <3>3, <3>4 DEF CountOK
    <2> QED BY <2>2, <2>3
<1>12. RecordsTo'
    BY <1>3 DEF RecordsTo, NoOp
<1> QED
    BY <1>10, <1>11, <1>12 DEF PoolsInv

\* A step that leaves the blocks alone
LEMMA SegsStay ==
    ASSUME UNCHANGED <<active_blocks, cached_blocks>>
    PROVE  SameSegs
    BY DEF SameSegs, AllBlocks

\* malloc's pool stays the same during a call, and so do the captures.
LEMMA RecordsStay ==
    ASSUME RecordsTo, UNCHANGED captures_underway, op'.kind = op.kind,
           op.kind = "malloc" => op'.pool = op.pool
    PROVE  RecordsTo'
    BY RecordingStays DEF RecordsTo

\* No capture starts or ends during a call of malloc.
LEMMA RecordsIdle ==
    ASSUME op' = NoOp
    PROVE  RecordsTo'
    BY DEF RecordsTo, NoOp

\* release_cached_blocks erases freeable pools that have no segment left.
LEMMA ReleaseReturnPools ==
    ASSUME TypeOK, PoolsInv, release_return
    PROVE  PoolsInv'
<1> DEFINE dead == {p \in ReleaseScope \ {NoPool} : graph_pools[p].supaMalloc_count = 0}
<1>1. /\ graph_pools' = [p \in MempoolIds |->
                           IF p \in dead THEN NoPrivatePool ELSE graph_pools[p]]
      /\ graph_pools_freeable' = graph_pools_freeable \ dead
      /\ UNCHANGED <<active_blocks, cached_blocks, captures_underway, holders>>
    BY DEF release_return, memVars
<1>2. \A p \in dead : p \in graph_pools_freeable /\ graph_pools[p].supaMalloc_count = 0
    BY DEF ReleaseScope
<1> HIDE DEF dead
<1>3. SameSegs
    BY <1>1, SegsStay
<1>4. RecordsTo'
    <2>1. RecordsTo
        BY DEF PoolsInv
    <2>2. CASE op.kind = "malloc"
        <3>1. op' = op
            BY <2>2 DEF release_return
        <3> QED BY <1>1, <2>1, <3>1, RecordsStay
    <2>3. CASE op.kind # "malloc"
        BY <2>3, RecordsIdle DEF release_return
    <2> QED BY <2>2, <2>3
<1>5. ASSUME NEW p \in MempoolIds PROVE RefsOK(p)' /\ CountOK(p)'
    <2>1. RefsOK(p) /\ CountOK(p) /\ SegsOf(AllBlocks', p) = SegsOf(AllBlocks, p)
        BY <1>3 DEF PoolsInv, SameSegs
    <2>2. Recording(p)' <=> Recording(p)
        BY <1>1, RecordingStays
    <2>3. CASE p \notin dead
        <3>1. graph_pools'[p] = graph_pools[p]
              /\ (p \in graph_pools_freeable' <=> p \in graph_pools_freeable)
              /\ holders' = holders
            BY <1>1, <2>3
        <3> QED BY <2>1, <2>2, <3>1 DEF RefsOK, CountOK
    <2>4. CASE p \in dead
        <3>1. graph_pools'[p] = NoPrivatePool /\ p \notin graph_pools_freeable'
              /\ holders' = holders
            BY <1>1, <2>4
        <3>2. graph_pools[p].use_count = 0 /\ graph_pools[p].supaMalloc_count = 0
            BY <1>2, <2>1, <2>4 DEF RefsOK
        <3>3. RefsOK(p)'
            BY <2>1, <2>2, <3>1, <3>2 DEF RefsOK, NoPrivatePool
        <3>4. SegsOf(AllBlocks, p) = {}
            <4> DEFINE S == SegsOf(AllBlocks, p)
            <4>1. IsFiniteSet(S) /\ Cardinality(S) = 0
                BY <2>1, <3>2 DEF CountOK
            <4> HIDE DEF S
            <4>2. S = {}
                BY <4>1, FS_EmptySet
            <4> QED BY <4>2 DEF S
        <3>5. IsFiniteSet({}) /\ Cardinality({}) = 0
            BY FS_EmptySet
        <3> QED BY <2>1, <3>1, <3>3, <3>4, <3>5 DEF CountOK, NoPrivatePool
    <2> QED BY <2>3, <2>4
<1> QED
    BY <1>4, <1>5 DEF PoolsInv

\* create_or_incref_pool gives a pool one more reference.
LEMMA IncrefPools ==
    ASSUME TypeOK, PoolsInv, NEW q \in MempoolIds, create_or_incref_pool(q),
           UNCHANGED <<active_blocks, cached_blocks, graph_pools_freeable>>,
           \A p \in MempoolIds : p # q => (Recording(p)' <=> Recording(p)),
           holders' = holders \/ holders' = [holders EXCEPT ![q] = @ + 1],
           op = NoOp, op' = op
    PROVE  PoolsInv'
<1>1. /\ graph_pools \in [MempoolIds -> PrivatePool] /\ holders \in [MempoolIds -> Nat]
    BY DEF TypeOK
<1>2. graph_pools' = [graph_pools EXCEPT ![q] =
                        [exists |-> TRUE, use_count |-> @.use_count + 1,
                         supaMalloc_count |-> @.supaMalloc_count]]
    BY DEF create_or_incref_pool
<1>3. SameSegs
    BY SegsStay
<1>4. RecordsTo'
    BY RecordsIdle
<1>5. ASSUME NEW p \in MempoolIds PROVE RefsOK(p)' /\ CountOK(p)'
    <2>1. RefsOK(p) /\ CountOK(p) /\ SegsOf(AllBlocks', p) = SegsOf(AllBlocks, p)
        BY <1>3 DEF PoolsInv, SameSegs
    <2>2. CASE p # q
        <3>1. graph_pools'[p] = graph_pools[p] /\ holders'[p] = holders[p]
            BY <1>1, <1>2, <2>2
        <3> QED BY <2>1, <2>2, <3>1 DEF RefsOK, CountOK
    <2>3. CASE p = q
        <3>1. /\ graph_pools'[p].exists = TRUE
              /\ graph_pools'[p].use_count = graph_pools[p].use_count + 1
              /\ graph_pools'[p].supaMalloc_count = graph_pools[p].supaMalloc_count
            BY <1>1, <1>2, <2>3
        <3>2. holders[p] \in Nat /\ holders'[p] <= holders[p] + 1
            BY <1>1, <2>3
        <3>3. graph_pools[p].use_count \in Nat
            BY <1>1, <2>1, <3>2 DEF RefsOK, PrivatePool
        <3>4. p \notin graph_pools_freeable'
            BY <2>1, <2>3, <3>3 DEF RefsOK, create_or_incref_pool
        <3>5. holders'[p] \in Nat
            BY <1>1, <2>3
        <3>6. RefsOK(p)'
            BY <2>1, <3>1, <3>2, <3>3, <3>4, <3>5 DEF RefsOK
        <3> QED BY <2>1, <3>1, <3>6 DEF CountOK
    <2> QED BY <2>2, <2>3
<1> QED
    BY <1>4, <1>5 DEF PoolsInv

\* beginAllocateToPool starts a capture to the pool it took a reference on.
LEMMA BeginPools ==
    ASSUME TypeOK, PoolsInv, NEW q \in MempoolIds, NEW filter,
           beginAllocateToPool(q, filter)
    PROVE  PoolsInv'
<1>1. /\ create_or_incref_pool(q)
      /\ UNCHANGED <<active_blocks, cached_blocks, graph_pools_freeable, op>>
    BY DEF beginAllocateToPool, memVars
<1>2. op = NoOp
    BY DEF beginAllocateToPool, TypeOK, LocalsOK, MallocPhases, SharedPhases
<1>3. holders' = holders \/ holders' = [holders EXCEPT ![q] = @ + 1]
    BY DEF beginAllocateToPool
<1>4. ASSUME NEW p \in MempoolIds, p # q PROVE Recording(p)' <=> Recording(p)
    <2>1. CASE captures_underway' = captures_underway
        BY <2>1, RecordingStays
    <2>2. CASE captures_underway' = Append(captures_underway, [id |-> q, filter |-> filter])
        <3> DEFINE n == Len(captures_underway)
                   e == [id |-> q, filter |-> filter]
        <3>1. captures_underway \in Seq(Capture)
            BY DEF TypeOK
        <3>2. n \in Nat /\ DOMAIN captures_underway = 1 .. n
              /\ DOMAIN captures_underway' = 1 .. (n + 1)
              /\ captures_underway'[n + 1].id = q
              /\ \A j \in 1 .. n : captures_underway'[j] = captures_underway[j]
            BY <2>2, <3>1
        <3> HIDE DEF n
        <3>3. \A j \in 1 .. (n + 1) : j \in 1 .. n \/ j = n + 1
            BY <3>2
        <3>4. 1 .. n \subseteq 1 .. (n + 1)
            BY <3>2
        <3> QED BY <1>4, <3>2, <3>3, <3>4 DEF Recording
    <2> QED BY <2>1, <2>2 DEF beginAllocateToPool
<1> QED
    BY <1>1, <1>2, <1>3, <1>4, IncrefPools

\* endAllocateToPool: fewer captures need a reference.
LEMMA EndPools ==
    ASSUME TypeOK, PoolsInv, NEW q \in MempoolIds, endAllocateToPool(q)
    PROVE  PoolsInv'
<1>1. /\ UNCHANGED <<active_blocks, cached_blocks, graph_pools, graph_pools_freeable,
                     holders, op>>
    BY DEF endAllocateToPool, memVars
<1>2. op = NoOp
    BY DEF endAllocateToPool, TypeOK, LocalsOK, MallocPhases, SharedPhases
<1>3. SameSegs /\ RecordsTo'
    BY <1>1, <1>2, SegsStay, RecordsIdle
<1>4. ASSUME NEW p PROVE Recording(p)' => Recording(p)
    <2>1. captures_underway \in Seq(Capture)
        BY DEF TypeOK
    <2>2. PICK i \in 1 .. Len(captures_underway) :
              captures_underway' = Erase(captures_underway, i)
        BY <2>1 DEF endAllocateToPool
    <2> DEFINE n == Len(captures_underway)
    <2>3. /\ n \in Nat /\ DOMAIN captures_underway = 1 .. n
          /\ DOMAIN captures_underway' = 1 .. (n - 1)
          /\ \A j \in 1 .. (n - 1) : captures_underway'[j] =
                IF j < i THEN captures_underway[j] ELSE captures_underway[j + 1]
        BY <2>1, <2>2, EraseType DEF Erase
    <2> HIDE DEF n
    <2>4. \A j \in 1 .. (n - 1) : j \in 1 .. n /\ j + 1 \in 1 .. n
        BY <2>3
    <2> QED BY <2>3, <2>4 DEF Recording
<1>5. ASSUME NEW p \in MempoolIds PROVE RefsOK(p)'
    BY <1>1, <1>4 DEF PoolsInv, RefsOK
<1>6. ASSUME NEW p \in MempoolIds PROVE CountOK(p)'
    BY <1>1, <1>3 DEF PoolsInv, CountOK, SameSegs
<1> QED
    BY <1>3, <1>5, <1>6 DEF PoolsInv

\* releasePool: the last reference makes the pool freeable.
LEMMA ReleasePoolPools ==
    ASSUME TypeOK, PoolsInv, NEW q \in MempoolIds, releasePool(q)
    PROVE  PoolsInv'
<1>1. /\ graph_pools \in [MempoolIds -> PrivatePool] /\ holders \in [MempoolIds -> Nat]
    BY DEF TypeOK
<1>2. /\ holders[q] > Indicator(Recording(q))
      /\ holders' = [holders EXCEPT ![q] = @ - 1]
      /\ graph_pools' = [graph_pools EXCEPT ![q].use_count = @ - 1]
      /\ graph_pools_freeable' = IF graph_pools[q].use_count = 1
                                 THEN graph_pools_freeable \cup {q}
                                 ELSE graph_pools_freeable
      /\ UNCHANGED <<active_blocks, cached_blocks, captures_underway, op>>
    BY DEF releasePool, memVars
<1>3. op = NoOp
    BY DEF releasePool, TypeOK, LocalsOK, MallocPhases, SharedPhases
<1>4. SameSegs /\ RecordsTo'
    BY <1>2, <1>3, SegsStay, RecordsIdle
<1>5. ASSUME NEW p \in MempoolIds PROVE RefsOK(p)' /\ CountOK(p)'
    <2>1. RefsOK(p) /\ CountOK(p) /\ SegsOf(AllBlocks', p) = SegsOf(AllBlocks, p)
        BY <1>4 DEF PoolsInv, SameSegs
    <2>2. Recording(p)' <=> Recording(p)
        BY <1>2, RecordingStays
    <2>3. CASE p # q
        <3>1. graph_pools'[p] = graph_pools[p] /\ holders'[p] = holders[p]
              /\ (p \in graph_pools_freeable' <=> p \in graph_pools_freeable)
            BY <1>1, <1>2, <2>3
        <3> QED BY <2>1, <2>2, <3>1 DEF RefsOK, CountOK
    <2>4. CASE p = q
        <3>1. /\ graph_pools'[p].exists = graph_pools[p].exists
              /\ graph_pools'[p].use_count = graph_pools[p].use_count - 1
              /\ graph_pools'[p].supaMalloc_count = graph_pools[p].supaMalloc_count
              /\ holders'[p] = holders[p] - 1 /\ holders[p] \in Nat
              /\ graph_pools[p].use_count \in Int
            BY <1>1, <1>2, <2>4 DEF PrivatePool
        <3>2. holders[p] > 0 /\ (Recording(p) => holders[p] > 1)
            BY <1>2, <2>4, <3>1 DEF Indicator
        <3>3. p \in graph_pools_freeable' <=> graph_pools[p].use_count = 1
            BY <1>2, <2>1, <2>4, <3>1, <3>2 DEF RefsOK
        <3>4. graph_pools[p].exists /\ holders[p] <= graph_pools[p].use_count
            BY <2>1, <3>1, <3>2 DEF RefsOK
        <3>5. RefsOK(p)'
            BY <2>2, <3>1, <3>2, <3>3, <3>4 DEF RefsOK
        <3> QED BY <2>1, <3>1, <3>5 DEF CountOK
    <2> QED BY <2>3, <2>4
<1> QED
    BY <1>4, <1>5 DEF PoolsInv

\* malloc allocates to a pool that a capture underway records to.
LEMMA MallocRecords ==
    ASSUME TypeOK, NEW s \in Streams, NEW n \in Requests,
           NEW p \in MempoolIds \cup {NoPool}, malloc(s, n, p)
    PROVE  RecordsTo'
<1> DEFINE size == round_size(n)
           hits == {i \in DOMAIN captures_underway : s \in captures_underway[i].filter}
           first == CHOOSE i \in hits : \A j \in hits : i <= j
<1>1. captures_underway \in Seq(Capture) /\ UNCHANGED captures_underway
    BY DEF TypeOK, malloc, poolVars
<1>2. hits # {} => first \in hits
    <2>1. hits \in SUBSET Nat
        BY <1>1
    <2>2. hits # {} => \E i \in hits : \A j \in hits : i <= j
        BY <2>1, LeastNat
    <2> HIDE DEF hits
    <2> QED BY <2>2
<1>3. \A i \in DOMAIN captures_underway : captures_underway[i].id \in MempoolIds
    <2>1. \A i \in DOMAIN captures_underway : captures_underway[i] \in Capture
        BY <1>1
    <2> QED BY <2>1 DEF Capture
<1>4. op'.pool = get_pool(size, s)
    BY DEF malloc
<1>5. get_pool(size, s).id = IF hits = {} THEN NoPool ELSE captures_underway[first].id
    BY DEF get_pool
<1>6. hits # {} => first \in DOMAIN captures_underway
    <2>1. hits \subseteq DOMAIN captures_underway
        OBVIOUS
    <2> HIDE DEF hits, first
    <2> QED BY <1>2, <2>1
<1> HIDE DEF size, hits, first
<1>7. op'.pool.id # NoPool => op'.pool.id \in MempoolIds /\ Recording(op'.pool.id)
    BY <1>3, <1>4, <1>5, <1>6 DEF Recording
<1> QED
    BY <1>1, <1>7 DEF RecordsTo, Recording

\* The steps that leave the blocks and the pools alone
LEMMA LocalsPools ==
    ASSUME PoolsInv, UNCHANGED <<active_blocks, cached_blocks, poolVars>>,
           \/ op'.kind = op.kind /\ (op.kind = "malloc" => op'.pool = op.pool)
           \/ op' = NoOp
    PROVE  PoolsInv'
<1>1. SameSegs /\ RecordsTo /\ UNCHANGED captures_underway
    BY SegsStay DEF PoolsInv, poolVars
<1>2. RecordsTo'
    BY <1>1, RecordsStay, RecordsIdle
<1> QED
    BY <1>1, <1>2, PoolsStay

\* PoolsInv is kept by the steps of the methods that have the mutex ...
LEMMA PoolsStep ==
    ASSUME TypeOK, SafeAll, TypeOK', SafeAll', PoolsInv, Step
    PROVE  PoolsInv'
<1>1. SafeState /\ SafeState' /\ RecordsTo
    BY DEF SafeAll, PoolsInv
<1>2. op' = op /\ UNCHANGED captures_underway => RecordsTo'
    BY <1>1, RecordsStay
<1>3. CASE insert_events_deferred
    <2>1. op' = op /\ UNCHANGED poolVars
        BY <1>3 DEF insert_events_deferred
    <2>2. SameSegs
        <3>1. CASE deferred # <<>>
            <4>1. PICK b \in active_blocks : insert_events(b) /\ UNCHANGED cached_blocks
                BY <1>3, <3>1 DEF insert_events_deferred
            <4> DEFINE c == WithUse(b, FALSE, {}, b.event_count + Cardinality(b.stream_uses))
            <4>2. c.seg = b.seg /\ c.pool = b.pool
                BY DEF WithUse
            <4>3. active_blocks' = (active_blocks \ {b}) \cup {c}
                BY <4>1 DEF insert_events
            <4> HIDE DEF c
            <4> QED BY <4>1, <4>2, <4>3, UseSegs
        <3>2. CASE deferred = <<>>
            BY <1>3, <3>2, SegsStay DEF insert_events_deferred
        <3> QED BY <3>1, <3>2
    <2> QED BY <1>2, <2>1, <2>2, PoolsStay DEF poolVars
<1>4. ASSUME NEW s \in Streams, query_event(s) PROVE PoolsInv'
    <2>1. PICK b \in active_blocks : complete_event(b)
        BY <1>4 DEF query_event
    <2>2. SameSegs
        BY <1>1, <2>1, CompleteSegs
    <2>3. op' = op /\ UNCHANGED poolVars
        BY <1>4 DEF query_event
    <2> QED BY <1>2, <2>2, <2>3, PoolsStay DEF poolVars
<1>5. ASSUME NEW s \in Streams, synchronize_event(s) PROVE PoolsInv'
    <2>1. PICK b \in active_blocks : complete_event(b)
        BY <1>5 DEF synchronize_event
    <2>2. SameSegs
        BY <1>1, <2>1, CompleteSegs
    <2>3. op' = op /\ UNCHANGED poolVars
        BY <1>5 DEF synchronize_event
    <2> QED BY <1>2, <2>2, <2>3, PoolsStay DEF poolVars
<1>6. CASE get_free_block
    <2>1. PICK b \in cached_blocks : alloc_found_block(b, stats)
        BY <1>6 DEF get_free_block, BestFit
    <2>2. SameSegs
        BY <2>1, AllocFoundSegs
    <2>3. op' = NoOp /\ UNCHANGED poolVars
        BY <1>6, <2>1 DEF get_free_block, alloc_found_block
    <2>4. RecordsTo'
        BY <2>3, RecordsIdle
    <2> QED BY <2>2, <2>3, <2>4, PoolsStay
<1>7. ASSUME NEW g \in Segments, alloc_block(g) PROVE PoolsInv'
    BY <1>1, <1>7, AllocBlockPools
<1>8. ASSUME NEW b \in cached_blocks, release_cached(b) PROVE PoolsInv'
    <2>1. release_block(b) /\ op' = op /\ UNCHANGED captures_underway
        BY <1>8 DEF release_cached, release_block
    <2> QED BY <1>1, <1>2, <2>1, ReleasePools
<1>9. ASSUME NEW b \in cached_blocks, gc_release(b) \/ release_available(b)
      PROVE  PoolsInv'
    <2>1. op \in MallocOp
        BY <1>9, MallocLocals DEF gc_release, release_available, MallocPhases
    <2>2. /\ release_block(b) /\ op'.kind = op.kind /\ op'.pool = op.pool
          /\ UNCHANGED captures_underway
        BY <1>9, <2>1 DEF gc_release, release_available, release_block, MallocOp
    <2>3. RecordsTo'
        BY <1>1, <2>2, RecordsStay
    <2> QED BY <1>1, <2>2, <2>3, ReleasePools
<1>10. CASE release_return
    BY <1>10, ReleaseReturnPools
<1>11. CASE no_free_block \/ alloc_block_fails \/ synchronize_return \/ throw
    BY <1>11, LocalsPools
       DEF no_free_block, alloc_block_fails, synchronize_return, throw, memVars
<1>12. ASSUME \/ \E s \in Streams : leave_stream(s)
              \/ callback_return \/ garbage_collect \/ gc_return
              \/ release_available_return \/ retry_release
       PROVE  PoolsInv'
    <2>1. op \in MallocOp
        BY <1>12, MallocLocals
           DEF leave_stream, callback_return, garbage_collect, gc_return,
               release_available_return, retry_release, MallocPhases
    <2>2. /\ op'.kind = op.kind /\ op'.pool = op.pool
          /\ UNCHANGED <<active_blocks, cached_blocks, poolVars>>
        BY <1>12, <2>1
           DEF leave_stream, callback_return, garbage_collect, gc_return,
               release_available_return, retry_release, memVars, MallocOp
    <2> QED BY <2>2, LocalsPools
<1> QED
    BY <1>3, <1>4, <1>5, <1>6, <1>7, <1>8, <1>9, <1>10, <1>11, <1>12 DEF Step

\* ... and by every other step.
LEMMA PoolsNext ==
    ASSUME TypeOK, SafeAll, PoolsInv, [Next]_vars
    PROVE  PoolsInv'
<1>1. TypeOK' /\ SafeAll' /\ SafeState /\ RecordsTo
    BY TypeNext, SafeNext DEF SafeAll, PoolsInv
<1>2. CASE UNCHANGED vars
    BY <1>2, LocalsPools DEF vars, memVars
<1>3. CASE Step
    BY <1>1, <1>3, PoolsStep
<1>4. CASE Device
    BY <1>4, LocalsPools DEF Device, launch, retire, memVars
<1>5. ASSUME NEW b \in active_blocks, callback_free(b) PROVE PoolsInv'
    <2>1. op \in MallocOp
        BY <1>5, MallocLocals DEF callback_free, MallocPhases
    <2>2. /\ do_free(b) /\ op'.kind = op.kind /\ op'.pool = op.pool
          /\ UNCHANGED poolVars /\ UNCHANGED captures_underway
        BY <1>5, <2>1 DEF callback_free, MallocOp, poolVars
    <2>3. SameSegs
        BY <1>1, <2>2, DoFreeSegs
    <2>4. RecordsTo'
        BY <1>1, <2>2, RecordsStay
    <2> QED BY <2>2, <2>3, <2>4, PoolsStay
<1>6. ASSUME NEW b \in active_blocks, free(b) PROVE PoolsInv'
    <2>1. do_free(b) /\ op' = op /\ UNCHANGED poolVars /\ UNCHANGED captures_underway
        BY <1>6 DEF free, poolVars
    <2>2. SameSegs
        BY <1>1, <2>1, DoFreeSegs
    <2>3. RecordsTo'
        BY <1>1, <2>1, RecordsStay
    <2> QED BY <2>1, <2>2, <2>3, PoolsStay
<1>7. ASSUME NEW b \in active_blocks, NEW s \in Streams, recordStream(b, s)
      PROVE  PoolsInv'
    <2> DEFINE c == WithUse(b, TRUE, b.stream_uses \cup {s}, b.event_count)
    <2>1. c.seg = b.seg /\ c.pool = b.pool
        BY DEF WithUse
    <2>2. active_blocks' = (active_blocks \ {b}) \cup {c} /\ UNCHANGED cached_blocks
          /\ op' = op /\ UNCHANGED poolVars /\ UNCHANGED captures_underway
        BY <1>7 DEF recordStream, poolVars
    <2> HIDE DEF c
    <2>3. SameSegs
        BY <2>1, <2>2, UseSegs
    <2>4. RecordsTo'
        BY <1>1, <2>2, RecordsStay
    <2> QED BY <2>2, <2>3, <2>4, PoolsStay
<1>8. ASSUME NEW s \in Streams, NEW n \in Requests, NEW p \in MempoolIds \cup {NoPool},
             malloc(s, n, p)
      PROVE  PoolsInv'
    <2>1. RecordsTo'
        BY <1>8, MallocRecords
    <2>2. SameSegs /\ UNCHANGED poolVars
        BY <1>8, SegsStay DEF malloc, memVars
    <2> QED BY <2>1, <2>2, PoolsStay
<1>9. ASSUME NEW p \in MempoolIds \cup {NoPool}, emptyCache(p) PROVE PoolsInv'
    <2>1. op'.kind = "empty" /\ UNCHANGED poolVars
          /\ UNCHANGED <<active_blocks, cached_blocks>>
        BY <1>9 DEF emptyCache, memVars
    <2>2. RecordsTo' /\ SameSegs
        BY <2>1, SegsStay DEF RecordsTo
    <2> QED BY <2>1, <2>2, PoolsStay
<1>10. ASSUME NEW f \in Fractions, setMemoryFraction(f) PROVE PoolsInv'
    BY <1>10, LocalsPools DEF setMemoryFraction, memVars
<1>11. ASSUME NEW p \in MempoolIds, createOrIncrefPool(p) PROVE PoolsInv'
    <2>1. /\ create_or_incref_pool(p) /\ holders' = [holders EXCEPT ![p] = @ + 1]
          /\ UNCHANGED <<active_blocks, cached_blocks, graph_pools_freeable,
                         captures_underway, op>>
        BY <1>11 DEF createOrIncrefPool, memVars
    <2>2. op = NoOp
        BY <1>11 DEF createOrIncrefPool, TypeOK, LocalsOK, MallocPhases, SharedPhases
    <2>3. \A q \in MempoolIds : q # p => (Recording(q)' <=> Recording(q))
        BY <2>1, RecordingStays
    <2> QED BY <2>1, <2>2, <2>3, IncrefPools
<1>12. ASSUME NEW p \in MempoolIds, NEW filter, beginAllocateToPool(p, filter)
       PROVE  PoolsInv'
    BY <1>12, BeginPools
<1>13. ASSUME NEW p \in MempoolIds, endAllocateToPool(p) PROVE PoolsInv'
    BY <1>13, EndPools
<1>14. ASSUME NEW p \in MempoolIds, releasePool(p) PROVE PoolsInv'
    BY <1>14, ReleasePoolPools
<1>15. CASE Call
    BY <1>6, <1>7, <1>8, <1>9, <1>10, <1>11, <1>12, <1>13, <1>14, <1>15 DEF Call
<1> QED
    BY <1>2, <1>3, <1>4, <1>5, <1>15 DEF Next

\* There are no pools and no segments to begin with.
LEMMA PoolsInit == Init => PoolsInv
<1> SUFFICES ASSUME Init PROVE PoolsInv
    OBVIOUS
<1>1. RecordsTo
    BY DEF Init, RecordsTo, NoOp
<1>2. ASSUME NEW p \in MempoolIds PROVE RefsOK(p) /\ CountOK(p)
    <2>1. SegsOf(AllBlocks, p) = {}
        BY DEF Init, AllBlocks, SegsOf
    <2>2. IsFiniteSet({}) /\ Cardinality({}) = 0
        BY FS_EmptySet
    <2>3. graph_pools[p] = NoPrivatePool /\ holders[p] = 0
          /\ p \notin graph_pools_freeable /\ ~Recording(p)
        BY DEF Init, Recording
    <2> QED BY <2>1, <2>2, <2>3 DEF RefsOK, CountOK, NoPrivatePool
<1> QED BY <1>1, <1>2 DEF PoolsInv

\* supaMalloc_count of a private pool is the number of segments it owns, whatever
\* is split, merged, released and captured; a pool is freeable exactly when its
\* last reference is gone, and use_count covers all its holders and the capture
\* that records to it.
THEOREM PoolsCorrect == Spec => []PrivatePoolsAccounted
<1>1. Init => PoolsInv
    BY PoolsInit
<1>2. TypeOK /\ SafeAll /\ PoolsInv /\ [Next]_vars => PoolsInv'
    BY PoolsNext
<1>3. PoolsInv => PrivatePoolsAccounted
    BY DEF PoolsInv, RefsOK, CountOK, SegsOf, PrivatePoolsAccounted
<1>4. Init => TypeOK /\ SafeAll
    BY TypeInit, SafeInit
<1>5. TypeOK /\ SafeAll /\ [Next]_vars => (TypeOK /\ SafeAll)'
    BY TypeNext, SafeNext
<1> QED
    BY <1>1, <1>2, <1>3, <1>4, <1>5, PTL DEF Spec

-----------------------------------------------------------------------------
(* The memory of a graph.                                                  *)

\* No request needs an oversize segment: so it is by default, where
\* max_split_size is unlimited.
NoOversizeRequest == \A n \in Requests : get_allocation_size(round_size(n)) < MaxSplitSize

\* Then no segment is oversize, and none is about to be.
BelowSplit ==
    /\ \A g \in Segments : segments[g] < MaxSplitSize
    /\ op.kind = "malloc" => op.alloc_size < MaxSplitSize

\* malloc's locals that decide the size of a segment stay the same, or are dropped.
SameNeed ==
    \/ op'.kind = op.kind /\ (op.kind = "malloc" => op'.alloc_size = op.alloc_size)
    \/ op' = NoOp
    \/ op'.kind = "empty"

\* A step that leaves the segments alone
LEMMA BelowStay ==
    ASSUME BelowSplit, UNCHANGED segments, SameNeed
    PROVE  BelowSplit'
    BY DEF BelowSplit, SameNeed, NoOp

\* A segment goes back to the driver.
LEMMA BelowRelease ==
    ASSUME TypeOK, BelowSplit, NEW b \in cached_blocks, release_block(b), SameNeed
    PROVE  BelowSplit'
<1>1. segments \in [Segments -> Nat] /\ segments' = [segments EXCEPT ![b.seg] = 0]
    BY DEF TypeOK, release_block
<1>2. 0 < MaxSplitSize
    BY SizeAssumption
<1>3. \A g \in Segments : segments'[g] < MaxSplitSize
    BY <1>1, <1>2 DEF BelowSplit
<1> QED
    BY <1>3 DEF BelowSplit, SameNeed, NoOp

\* The steps of the methods keep it ...
LEMMA BelowStep ==
    ASSUME TypeOK, BelowSplit, Step
    PROVE  BelowSplit'
<1>1. CASE \/ insert_events_deferred \/ no_free_block \/ alloc_block_fails
           \/ synchronize_return
           \/ \E s \in Streams : query_event(s) \/ synchronize_event(s)
    <2>1. op' = op /\ UNCHANGED segments
        BY <1>1 DEF insert_events_deferred, no_free_block, alloc_block_fails,
                    synchronize_return, query_event, synchronize_event, memVars
    <2> QED BY <2>1, BelowStay DEF SameNeed
<1>2. CASE get_free_block
    <2>1. op' = NoOp /\ UNCHANGED segments
        BY <1>2 DEF get_free_block, alloc_found_block
    <2> QED BY <2>1, BelowStay DEF SameNeed
<1>3. CASE throw
    BY <1>3, BelowStay DEF throw, memVars, SameNeed
<1>4. ASSUME NEW g \in Segments, alloc_block(g) PROVE BelowSplit'
    <2>1. op \in MallocOp
        BY <1>4, MallocLocals DEF alloc_block, MallocPhases
    <2>2. /\ op' = NoOp /\ segments' = [segments EXCEPT ![g] = op.alloc_size]
          /\ segments \in [Segments -> Nat]
        BY <1>4 DEF alloc_block, alloc_found_block, TypeOK
    <2>3. op.alloc_size < MaxSplitSize
        BY <2>1 DEF BelowSplit, MallocOp
    <2> QED BY <2>2, <2>3 DEF BelowSplit, NoOp
<1>5. ASSUME NEW b \in cached_blocks, release_cached(b) PROVE BelowSplit'
    BY <1>5, BelowRelease DEF release_cached, SameNeed
<1>6. ASSUME NEW b \in cached_blocks, gc_release(b) \/ release_available(b)
      PROVE  BelowSplit'
    <2>1. op \in MallocOp
        BY <1>6, MallocLocals DEF gc_release, release_available, MallocPhases
    <2>2. release_block(b) /\ op'.kind = op.kind /\ op'.alloc_size = op.alloc_size
        BY <1>6, <2>1 DEF gc_release, release_available, MallocOp
    <2> QED BY <2>2, BelowRelease DEF SameNeed
<1>7. CASE release_return
    <2>1. (op' = op \/ op' = NoOp) /\ UNCHANGED segments
        BY <1>7 DEF release_return, memVars
    <2> QED BY <2>1, BelowStay DEF SameNeed
<1>8. ASSUME \/ \E s \in Streams : leave_stream(s)
             \/ callback_return \/ garbage_collect \/ gc_return
             \/ release_available_return \/ retry_release
      PROVE  BelowSplit'
    <2>1. op \in MallocOp
        BY <1>8, MallocLocals
           DEF leave_stream, callback_return, garbage_collect, gc_return,
               release_available_return, retry_release, MallocPhases
    <2>2. op'.kind = op.kind /\ op'.alloc_size = op.alloc_size /\ UNCHANGED segments
        BY <1>8, <2>1
           DEF leave_stream, callback_return, garbage_collect, gc_return,
               release_available_return, retry_release, memVars, MallocOp
    <2> QED BY <2>2, BelowStay DEF SameNeed
<1> QED
    BY <1>1, <1>2, <1>3, <1>4, <1>5, <1>6, <1>7, <1>8 DEF Step

\* ... and so does everything else, if the requests are small enough.
LEMMA BelowNext ==
    ASSUME NoOversizeRequest, TypeOK, BelowSplit, [Next]_vars
    PROVE  BelowSplit'
<1>1. CASE UNCHANGED vars
    BY <1>1, BelowStay DEF vars, memVars, SameNeed
<1>2. CASE Step
    BY <1>2, BelowStep
<1>3. CASE Device
    BY <1>3, BelowStay DEF Device, launch, retire, memVars, SameNeed
<1>4. ASSUME NEW b \in active_blocks, callback_free(b) PROVE BelowSplit'
    <2>1. op \in MallocOp
        BY <1>4, MallocLocals DEF callback_free, MallocPhases
    <2>2. op'.kind = op.kind /\ op'.alloc_size = op.alloc_size /\ UNCHANGED segments
        BY <1>4, <2>1 DEF callback_free, MallocOp
    <2> QED BY <2>2, BelowStay DEF SameNeed
<1>5. ASSUME NEW s \in Streams, NEW n \in Requests, NEW p \in MempoolIds \cup {NoPool},
             malloc(s, n, p)
      PROVE  BelowSplit'
    <2>1. op'.alloc_size = get_allocation_size(round_size(n)) /\ UNCHANGED segments
        BY <1>5 DEF malloc, memVars
    <2> QED BY <2>1 DEF BelowSplit, NoOversizeRequest
<1>6. ASSUME NEW p, emptyCache(p) PROVE BelowSplit'
    <2>1. op'.kind = "empty" /\ UNCHANGED segments
        BY <1>6 DEF emptyCache, memVars
    <2> QED BY <2>1, BelowStay DEF SameNeed
<1>7. ASSUME op' = op, UNCHANGED segments PROVE BelowSplit'
    BY <1>7, BelowStay DEF SameNeed
<1>8. CASE Call
    BY <1>5, <1>6, <1>7, <1>8
       DEF Call, free, recordStream, setMemoryFraction, createOrIncrefPool,
           endAllocateToPool, releasePool, beginAllocateToPool, memVars
<1> QED
    BY <1>1, <1>2, <1>3, <1>4, <1>8 DEF Next

\* The segment of a cached block of a pool in use
HeldMemory(b) == b.pool.id # NoPool /\ graph_pools[b.pool.id].use_count > 0

\* release_block only takes segments of the default pools or of freeable ones.
LEMMA ReleaseSpares ==
    ASSUME TypeOK, SafeState, PoolsInv, NEW b \in cached_blocks, release_block(b),
           b.pool.id \in graph_pools_freeable \cup {NoPool},
           NEW c \in cached_blocks, HeldMemory(c)
    PROVE  segments'[c.seg] # 0
<1>1. /\ segments \in [Segments -> Nat] /\ segments' = [segments EXCEPT ![b.seg] = 0]
      /\ graph_pools_freeable \subseteq MempoolIds
    BY DEF TypeOK, release_block
<1>2. c \in Block /\ c.seg \in Segments /\ segments[c.seg] # 0
    <2>1. c.size > 0 /\ c.off + c.size <= segments[c.seg]
        BY DEF SafeState, Safe, Geometry, Within, AllBlocks
    <2>2. c \in Block /\ c.off \in Nat /\ c.size \in Nat /\ c.seg \in Segments
        BY DEF TypeOK, Block
    <2> QED BY <2>1, <2>2
<1>3. c.seg = b.seg => c.pool = b.pool
    BY DEF SafeState, Safe, Geometry, Owned, AllBlocks
<1>4. ~HeldMemory(b)
    BY <1>1 DEF HeldMemory, PoolsInv, RefsOK
<1>5. c.seg # b.seg
    BY <1>3, <1>4 DEF HeldMemory
<1> QED
    BY <1>1, <1>2, <1>5

\* A step takes no segment from a pool in use.
LEMMA MemoryKept ==
    ASSUME TypeOK, SafeState, PoolsInv, BelowSplit, [Next]_vars,
           NEW c \in cached_blocks, HeldMemory(c)
    PROVE  segments'[c.seg] # 0
<1>1. c.seg \in Segments /\ segments[c.seg] # 0 /\ segments \in [Segments -> Nat]
    <2>1. c.size > 0 /\ c.off + c.size <= segments[c.seg]
        BY DEF SafeState, Safe, Geometry, Within, AllBlocks
    <2>2. /\ c.off \in Nat /\ c.size \in Nat /\ c.seg \in Segments
          /\ segments \in [Segments -> Nat]
        BY DEF TypeOK, Block
    <2> QED BY <2>1, <2>2
<1>2. CASE UNCHANGED segments
    BY <1>1, <1>2
<1>3. ASSUME NEW g \in Segments, alloc_block(g) PROVE segments'[c.seg] # 0
    <2>1. segments[g] = 0 /\ segments' = [segments EXCEPT ![g] = op.alloc_size]
        BY <1>3 DEF alloc_block
    <2> QED BY <1>1, <2>1
<1>4. ASSUME NEW b \in cached_blocks, gc_release(b) \/ release_cached(b)
      PROVE  segments'[c.seg] # 0
    <2>1. release_block(b)
        BY <1>4 DEF gc_release, release_cached
    <2>2. b.pool.id \in graph_pools_freeable \cup {NoPool}
        BY <1>4 DEF gc_release, release_cached, GcCandidates, Releasable, ReleaseScope
    <2> QED BY <2>1, <2>2, ReleaseSpares
<1>5. ASSUME NEW b \in cached_blocks, release_available(b) PROVE FALSE
    <2>1. b.size >= MaxSplitSize
        BY <1>5 DEF release_available, AvailableVictims, Oversize
    <2>2. b.off + b.size <= segments[b.seg]
        BY DEF SafeState, Safe, Geometry, Within, AllBlocks
    <2>3. b.off \in Nat /\ b.size \in Nat /\ b.seg \in Segments /\ MaxSplitSize \in Nat
        BY SizeAssumption DEF TypeOK, Block
    <2>4. segments[b.seg] < MaxSplitSize
        BY <2>3 DEF BelowSplit
    <2> QED BY <1>1, <2>1, <2>2, <2>3, <2>4
<1>6. CASE Step
    BY <1>2, <1>3, <1>4, <1>5, <1>6
       DEF Step, insert_events_deferred, query_event, leave_stream, synchronize_event,
           get_free_block, no_free_block, callback_return, garbage_collect, gc_return,
           alloc_block_fails, release_available_return, retry_release,
           synchronize_return, release_return, throw, memVars
<1>7. CASE Call
    BY <1>2, <1>7
       DEF Call, malloc, emptyCache, free, recordStream, setMemoryFraction,
           createOrIncrefPool, endAllocateToPool, releasePool, beginAllocateToPool, memVars
<1>8. ASSUME \/ Device \/ UNCHANGED vars
             \/ \E b \in active_blocks : callback_free(b)
      PROVE  segments'[c.seg] # 0
    BY <1>2, <1>8 DEF Device, launch, retire, callback_free, vars, memVars
<1> QED
    BY <1>6, <1>7, <1>8 DEF Next

\* While a graph or a MemPool holds a private pool, no step takes a segment from
\* it: replays find their memory.  It needs that no request is oversize, as it is
\* with the default max_split_size; otherwise release_available_cached_blocks may
\* take one.
THEOREM RetainedCorrect ==
    ASSUME NoOversizeRequest
    PROVE  Spec => GraphMemoryRetained
<1>1. Init => BelowSplit
    BY SizeAssumption DEF Init, BelowSplit, NoOp
<1>2. TypeOK /\ BelowSplit /\ [Next]_vars => BelowSplit'
    BY BelowNext
<1>3. Init => PoolsInv
    BY PoolsInit
<1>4. TypeOK /\ SafeAll /\ PoolsInv /\ [Next]_vars => PoolsInv'
    BY PoolsNext
<1>5. TypeOK /\ SafeAll /\ PoolsInv /\ BelowSplit /\ [Next]_vars
         => [\A b \in cached_blocks :
                b.pool.id # NoPool /\ graph_pools[b.pool.id].use_count > 0
                   => segments'[b.seg] # 0]_vars
    BY MemoryKept DEF HeldMemory, SafeAll
<1>6. Init => TypeOK /\ SafeAll
    BY TypeInit, SafeInit
<1>7. TypeOK /\ SafeAll /\ [Next]_vars => (TypeOK /\ SafeAll)'
    BY TypeNext, SafeNext
<1> QED
    BY <1>1, <1>2, <1>3, <1>4, <1>5, <1>6, <1>7, PTL DEF Spec, GraphMemoryRetained

-----------------------------------------------------------------------------
(* The statistics.                                                         *)

\* The units of memory that the ranges of S take up
Covers(S) == UNION {Span(x) : x \in S}

\* The units are counted.
LEMMA UnitsCovered == \A S : Units(S) = Cardinality(Covers(S))
    BY DEF Units, Covers

\* S is a finite set of ranges that do not overlap.
Measured(S) ==
    /\ IsFiniteSet(S) /\ IsFiniteSet(Covers(S))
    /\ \A x \in S : x.off \in Nat /\ x.size \in Nat
    /\ Apart(S)

\* A range has as many units as its size says.
LEMMA SpanSize ==
    ASSUME NEW x, x.off \in Nat, x.size \in Nat
    PROVE  IsFiniteSet(Span(x)) /\ Cardinality(Span(x)) = x.size
<1> DEFINE I == x.off .. (x.off + x.size - 1)
<1>1. IsFiniteSet(I) /\ Cardinality(I) = x.size
    <2>1. PICK lo \in Int, hi \in Int : lo = x.off /\ hi = x.off + x.size - 1
        OBVIOUS
    <2>2. IsFiniteSet(lo .. hi)
          /\ Cardinality(lo .. hi) = IF lo > hi THEN 0 ELSE hi - lo + 1
        BY FS_Interval
    <2>3. I = lo .. hi
        BY <2>1
    <2>4. (IF lo > hi THEN 0 ELSE hi - lo + 1) = x.size
        BY <2>1
    <2> HIDE DEF I
    <2> QED BY <2>2, <2>3, <2>4
<1>2. IsFiniteSet({x.seg}) /\ Cardinality({x.seg}) = 1
    BY FS_Singleton
<1> HIDE DEF I
<1>3. IsFiniteSet({x.seg} \X I) /\ Cardinality({x.seg} \X I) = 1 * x.size
    BY <1>1, <1>2, FS_Product
<1> QED
    BY <1>3 DEF Span, I

\* Ranges that do not overlap have no unit in common.
LEMMA SpansApart ==
    ASSUME NEW x, NEW y, x.off \in Nat, x.size \in Nat, y.off \in Nat, y.size \in Nat,
           ~Overlap(x, y)
    PROVE  Span(x) \cap Span(y) = {}
    BY DEF Span, Overlap

\* Some of the ranges
LEMMA MeasuredSubset ==
    ASSUME NEW S, Measured(S), NEW T \in SUBSET S
    PROVE  Measured(T) /\ Units(T) \in Nat /\ Cardinality(T) \in Nat
           /\ Cardinality(Large(T)) \in Nat
<1>1. Covers(T) \in SUBSET Covers(S)
    BY DEF Covers
<1>2. IsFiniteSet(T) /\ IsFiniteSet(Covers(T)) /\ Large(T) \in SUBSET T
    BY <1>1, FS_Subset DEF Measured, Large
<1>3. IsFiniteSet(Large(T))
    BY <1>2, FS_Subset
<1> QED
    BY <1>2, <1>3, UnitsCovered, FS_CardinalityType DEF Measured, Apart

\* One range more
LEMMA AddRange ==
    ASSUME NEW S, Measured(S), NEW x, x \notin S, x.off \in Nat, x.size \in Nat,
           \A y \in S : ~Overlap(x, y) /\ ~Overlap(y, x)
    PROVE  /\ Measured(S \cup {x})
           /\ Cardinality(S \cup {x}) = Cardinality(S) + 1
           /\ Units(S \cup {x}) = Units(S) + x.size
           /\ Cardinality(Large(S \cup {x})) =
                 Cardinality(Large(S)) + Indicator(x.size >= MaxSplitSize)
<1>1. Covers(S \cup {x}) = Covers(S) \cup Span(x)
    BY DEF Covers
<1>2. IsFiniteSet(Span(x)) /\ Cardinality(Span(x)) = x.size
    BY SpanSize
<1>3. Covers(S) \cap Span(x) = {}
    BY SpansApart DEF Covers, Measured
<1>4. Cardinality({}) = 0
    BY FS_EmptySet
<1>5. IsFiniteSet(Covers(S) \cup Span(x))
      /\ Cardinality(Covers(S) \cup Span(x)) =
            Cardinality(Covers(S)) + Cardinality(Span(x)) - Cardinality({})
    <2>1. IsFiniteSet(Covers(S))
        BY DEF Measured
    <2>2. IsFiniteSet(Covers(S) \cup Span(x))
          /\ Cardinality(Covers(S) \cup Span(x)) =
            Cardinality(Covers(S)) + Cardinality(Span(x)) - Cardinality(Covers(S) \cap Span(x))
        BY <1>2, <2>1, FS_Union
    <2> QED BY <1>3, <2>2
<1>6. Units(S) \in Nat
    BY UnitsCovered, FS_CardinalityType DEF Measured
<1>7. Units(S \cup {x}) = Units(S) + x.size
    <2>1. Units(S \cup {x}) = Cardinality(Covers(S) \cup Span(x))
        BY <1>1, UnitsCovered
    <2>2. Units(S) = Cardinality(Covers(S))
        BY UnitsCovered
    <2> QED BY <1>2, <1>4, <1>5, <1>6, <2>1, <2>2
<1>8. IsFiniteSet(S \cup {x}) /\ Cardinality(S \cup {x}) = Cardinality(S) + 1
    BY FS_AddElement DEF Measured
<1>9. IsFiniteSet(Large(S)) /\ x \notin Large(S)
    <2>1. Large(S) \in SUBSET S
        BY DEF Large
    <2> QED BY <2>1, FS_Subset DEF Measured
<1>10. Cardinality(Large(S \cup {x})) =
          Cardinality(Large(S)) + Indicator(x.size >= MaxSplitSize)
    <2>1. CASE x.size >= MaxSplitSize
        <3>1. Large(S \cup {x}) = Large(S) \cup {x}
            BY <2>1 DEF Large
        <3>2. Cardinality(Large(S) \cup {x}) = Cardinality(Large(S)) + 1
            BY <1>9, FS_AddElement
        <3> QED BY <2>1, <3>1, <3>2 DEF Indicator
    <2>2. CASE ~(x.size >= MaxSplitSize)
        <3>1. Large(S \cup {x}) = Large(S)
            BY <2>2 DEF Large
        <3>2. Cardinality(Large(S)) \in Nat
            BY <1>9, FS_CardinalityType
        <3> QED BY <2>2, <3>1, <3>2 DEF Indicator
    <2> QED BY <2>1, <2>2
<1>11. Measured(S \cup {x})
    BY <1>1, <1>5, <1>8 DEF Measured, Apart
<1> QED
    BY <1>7, <1>8, <1>10, <1>11

\* One range less
LEMMA RemoveRange ==
    ASSUME NEW S, Measured(S), NEW x \in S
    PROVE  /\ Measured(S \ {x})
           /\ Cardinality(S \ {x}) = Cardinality(S) - 1
           /\ Units(S \ {x}) = Units(S) - x.size
           /\ Cardinality(Large(S \ {x})) =
                 Cardinality(Large(S)) - Indicator(x.size >= MaxSplitSize)
<1> DEFINE T == S \ {x}
<1>1. Measured(T) /\ Units(T) \in Nat /\ Cardinality(T) \in Nat
      /\ Cardinality(Large(T)) \in Nat
    BY MeasuredSubset
<1>2. T \cup {x} = S /\ x \notin T /\ x.off \in Nat /\ x.size \in Nat
      /\ \A y \in T : ~Overlap(x, y) /\ ~Overlap(y, x)
    BY DEF Measured, Apart
<1> HIDE DEF T
<1>3. /\ Cardinality(S) = Cardinality(T) + 1
      /\ Units(S) = Units(T) + x.size
      /\ Cardinality(Large(S)) = Cardinality(Large(T)) + Indicator(x.size >= MaxSplitSize)
    BY <1>1, <1>2, AddRange
<1>4. Indicator(x.size >= MaxSplitSize) \in Int
    BY IndicatorType
<1> QED
    BY <1>1, <1>2, <1>3, <1>4 DEF T

\* T has n ranges and u units more than S; T has l oversize ranges more.
Grows(S, T, n, u) == Cardinality(T) = Cardinality(S) + n /\ Units(T) = Units(S) + u

Enlarges(S, T, l) == Cardinality(Large(T)) = Cardinality(Large(S)) + l

IsLarge(x) == Indicator(x.size >= MaxSplitSize)

\* A range takes the place of another one.
LEMMA ReplaceRange ==
    ASSUME NEW S, Measured(S), NEW b \in S, NEW c, b.size > 0,
           c.seg = b.seg, c.off = b.off, c.size = b.size
    PROVE  /\ Measured((S \ {b}) \cup {c})
           /\ Grows(S, (S \ {b}) \cup {c}, 0, 0) /\ Enlarges(S, (S \ {b}) \cup {c}, 0)
<1> DEFINE T == S \ {b}
<1>1. /\ Measured(T) /\ Grows(S, T, -1, -b.size) /\ Enlarges(S, T, -IsLarge(b))
    <2>1. /\ Measured(T)
          /\ Cardinality(T) = Cardinality(S) - 1
          /\ Units(T) = Units(S) - b.size
          /\ Cardinality(Large(T)) = Cardinality(Large(S)) - IsLarge(b)
        BY RemoveRange DEF IsLarge
    <2>2. /\ Cardinality(S) \in Nat /\ Units(S) \in Nat /\ Cardinality(Large(S)) \in Nat
          /\ b.size \in Nat /\ IsLarge(b) \in Int
        BY MeasuredSubset, IndicatorType DEF Measured, IsLarge
    <2> QED BY <2>1, <2>2 DEF Grows, Enlarges
<1>2. /\ b.off \in Nat /\ b.size \in Nat
      /\ \A y \in T : ~Overlap(b, y) /\ ~Overlap(y, b)
    BY DEF Measured, Apart
<1>3. Overlap(c, b)
    BY <1>2 DEF Overlap
<1>4. c \notin T /\ \A y \in T : ~Overlap(c, y) /\ ~Overlap(y, c)
    BY <1>2, <1>3 DEF Overlap
<1>5. c.off \in Nat /\ c.size \in Nat
    BY <1>2
<1>6. /\ Cardinality(S) \in Nat /\ Units(S) \in Nat /\ Cardinality(Large(S)) \in Nat
      /\ IsLarge(b) \in Int /\ IsLarge(c) = IsLarge(b)
    BY MeasuredSubset, IndicatorType DEF IsLarge
<1> HIDE DEF T
<1>7. /\ Measured(T \cup {c})
      /\ Cardinality(T \cup {c}) = Cardinality(T) + 1
      /\ Units(T \cup {c}) = Units(T) + c.size
      /\ Cardinality(Large(T \cup {c})) = Cardinality(Large(T)) + IsLarge(c)
    BY <1>1, <1>4, <1>5, AddRange DEF IsLarge
<1>8. Grows(S, T \cup {c}, 0, 0) /\ Enlarges(S, T \cup {c}, 0)
    BY <1>1, <1>2, <1>6, <1>7 DEF Grows, Enlarges
<1> QED
    BY <1>7, <1>8 DEF T

\* The sets that the statistics are about, of active blocks A, cached blocks C
\* and segments of sizes sz
LiveOf(A) == {b \in A : b.allocated}

Adjacent(x, b) == x.seg = b.seg /\ (x.off + x.size = b.off \/ b.off + b.size = x.off)

SplitOf(A, C) == {b \in C : \E x \in A \cup C : Adjacent(x, b)}

RangesOf(sz) == {[seg |-> g, off |-> 0, size |-> sz[g]] : g \in {h \in Segments : sz[h] > 0}}

\* An active block b becomes c: its state of use changes.
UseCase(A, C, sz, b, c, D) ==
    /\ A \in SUBSET Block /\ C \in SUBSET Block /\ sz \in [Segments -> Nat]
    /\ Geometry(A \cup C, sz) /\ A \cap C = {} /\ Measured(A \cup C)
    /\ b \in A /\ c \in Block /\ SameRange(b, c) /\ (b.allocated \/ ~c.allocated)
    /\ D = (A \ {b}) \cup {c}

LEMMA UseTallies ==
    ASSUME NEW A, NEW C, NEW sz, NEW b, NEW c, NEW D, UseCase(A, C, sz, b, c, D)
    PROVE  /\ Measured(D \cup C) /\ SplitOf(D, C) = SplitOf(A, C)
           /\ Grows(A, D, 0, 0)
           /\ b.allocated = c.allocated => /\ Grows(LiveOf(A), LiveOf(D), 0, 0)
                                           /\ Enlarges(LiveOf(A), LiveOf(D), 0)
           /\ b.allocated # c.allocated => /\ Grows(LiveOf(A), LiveOf(D), -1, -b.size)
                                           /\ Enlarges(LiveOf(A), LiveOf(D), -IsLarge(b))
<1>0. /\ A \in SUBSET Block /\ C \in SUBSET Block /\ sz \in [Segments -> Nat]
      /\ Geometry(A \cup C, sz) /\ A \cap C = {} /\ Measured(A \cup C)
      /\ b \in A /\ c \in Block /\ SameRange(b, c) /\ (b.allocated \/ ~c.allocated)
      /\ D = (A \ {b}) \cup {c}
    BY DEF UseCase
<1> USE <1>0
<1>1. /\ b.size > 0 /\ b \in Block /\ c.seg = b.seg /\ c.off = b.off /\ c.size = b.size
      /\ b.off \in Nat /\ b.size \in Nat
    BY DEF Geometry, Within, SameRange, Block
<1>2. Measured(D \cup C)
    <2>1. D \cup C = ((A \cup C) \ {b}) \cup {c}
        OBVIOUS
    <2>2. Measured(((A \cup C) \ {b}) \cup {c})
        BY <1>1, ReplaceRange
    <2> QED BY <2>1, <2>2
<1>3. Measured(A) /\ Measured(LiveOf(A)) /\ LiveOf(A) \in SUBSET A
    <2>1. A \in SUBSET (A \cup C) /\ LiveOf(A) \in SUBSET (A \cup C)
        BY DEF LiveOf
    <2> QED BY <2>1, MeasuredSubset DEF LiveOf
<1>4. Grows(A, D, 0, 0)
    BY <1>1, <1>3, ReplaceRange
<1>5. SplitOf(D, C) = SplitOf(A, C)
    <2>1. \A x : Adjacent(b, x) <=> Adjacent(c, x)
        BY <1>1 DEF Adjacent
    <2> QED BY <2>1 DEF SplitOf
<1>6. CASE b.allocated /\ c.allocated
    <2>1. LiveOf(D) = (LiveOf(A) \ {b}) \cup {c} /\ b \in LiveOf(A)
        BY <1>6 DEF LiveOf
    <2>2. /\ Grows(LiveOf(A), (LiveOf(A) \ {b}) \cup {c}, 0, 0)
          /\ Enlarges(LiveOf(A), (LiveOf(A) \ {b}) \cup {c}, 0)
        BY <1>1, <1>3, <2>1, ReplaceRange
    <2>3. Grows(LiveOf(A), LiveOf(D), 0, 0) /\ Enlarges(LiveOf(A), LiveOf(D), 0)
        BY <2>1, <2>2
    <2> QED BY <1>2, <1>4, <1>5, <1>6, <2>3 DEF Block
<1>7. CASE b.allocated /\ ~c.allocated
    <2>1. LiveOf(D) = LiveOf(A) \ {b} /\ b \in LiveOf(A)
        BY <1>7 DEF LiveOf
    <2>2. /\ Cardinality(LiveOf(D)) = Cardinality(LiveOf(A)) - 1
          /\ Units(LiveOf(D)) = Units(LiveOf(A)) - b.size
          /\ Cardinality(Large(LiveOf(D))) = Cardinality(Large(LiveOf(A))) - IsLarge(b)
        BY <1>3, <2>1, RemoveRange DEF IsLarge
    <2>3. /\ Cardinality(LiveOf(A)) \in Nat /\ Units(LiveOf(A)) \in Nat
          /\ Cardinality(Large(LiveOf(A))) \in Nat /\ IsLarge(b) \in Int
        BY <1>3, MeasuredSubset, IndicatorType DEF IsLarge
    <2>4. Grows(LiveOf(A), LiveOf(D), -1, -b.size) /\ Enlarges(LiveOf(A), LiveOf(D), -IsLarge(b))
        BY <1>1, <2>2, <2>3 DEF Grows, Enlarges
    <2> QED BY <1>2, <1>4, <1>5, <1>7, <2>4
<1>8. CASE ~b.allocated /\ ~c.allocated
    <2>1. LiveOf(D) = LiveOf(A)
        BY <1>8 DEF LiveOf
    <2>2. /\ Cardinality(LiveOf(A)) \in Nat /\ Units(LiveOf(A)) \in Nat
          /\ Cardinality(Large(LiveOf(A))) \in Nat
        BY <1>3, MeasuredSubset
    <2>3. Grows(LiveOf(A), LiveOf(D), 0, 0) /\ Enlarges(LiveOf(A), LiveOf(D), 0)
        BY <2>1, <2>2 DEF Grows, Enlarges
    <2>4. b.allocated = c.allocated
        BY <1>1, <1>8 DEF Block
    <2> QED BY <1>2, <1>4, <1>5, <2>3, <2>4
<1> QED
    BY <1>6, <1>7, <1>8

\* An active block leaves the active ones.
LEMMA LeaveTallies ==
    ASSUME NEW A, Measured(A), NEW b \in A, b.size \in Nat
    PROVE  /\ Grows(A, A \ {b}, -1, -b.size)
           /\ b.allocated => /\ Grows(LiveOf(A), LiveOf(A \ {b}), -1, -b.size)
                             /\ Enlarges(LiveOf(A), LiveOf(A \ {b}), -IsLarge(b))
           /\ ~b.allocated => LiveOf(A \ {b}) = LiveOf(A)
<1>1. Measured(LiveOf(A))
    <2>1. LiveOf(A) \in SUBSET A
        BY DEF LiveOf
    <2> QED BY <2>1, MeasuredSubset
<1>2. ASSUME NEW S, Measured(S), b \in S
      PROVE  Grows(S, S \ {b}, -1, -b.size) /\ Enlarges(S, S \ {b}, -IsLarge(b))
    <2>1. /\ Cardinality(S \ {b}) = Cardinality(S) - 1
          /\ Units(S \ {b}) = Units(S) - b.size
          /\ Cardinality(Large(S \ {b})) = Cardinality(Large(S)) - IsLarge(b)
        BY <1>2, RemoveRange DEF IsLarge
    <2>2. /\ Cardinality(S) \in Nat /\ Units(S) \in Nat
          /\ Cardinality(Large(S)) \in Nat /\ IsLarge(b) \in Int
        BY <1>2, MeasuredSubset, IndicatorType DEF IsLarge
    <2> QED BY <2>1, <2>2 DEF Grows, Enlarges
<1>3. CASE b.allocated
    <2>1. LiveOf(A \ {b}) = LiveOf(A) \ {b} /\ b \in LiveOf(A)
        BY <1>3 DEF LiveOf
    <2> QED BY <1>1, <1>2, <1>3, <2>1
<1>4. CASE ~b.allocated
    <2>1. LiveOf(A \ {b}) = LiveOf(A)
        BY <1>4 DEF LiveOf
    <2> QED BY <1>2, <1>4, <2>1
<1> QED
    BY <1>3, <1>4

\* An allocated block joins the active ones.
LEMMA JoinTallies ==
    ASSUME NEW A, Measured(A), NEW t, t \notin A, t.off \in Nat, t.size \in Nat, t.allocated,
           \A y \in A : ~Overlap(t, y) /\ ~Overlap(y, t)
    PROVE  /\ Grows(A, A \cup {t}, 1, t.size)
           /\ Grows(LiveOf(A), LiveOf(A \cup {t}), 1, t.size)
           /\ Enlarges(LiveOf(A), LiveOf(A \cup {t}), IsLarge(t))
<1>1. Grows(A, A \cup {t}, 1, t.size)
    BY AddRange DEF Grows
<1>2. LiveOf(A) \in SUBSET A /\ LiveOf(A \cup {t}) = LiveOf(A) \cup {t}
    BY DEF LiveOf
<1>3. Measured(LiveOf(A))
    BY <1>2, MeasuredSubset
<1>4. /\ Grows(LiveOf(A), LiveOf(A) \cup {t}, 1, t.size)
      /\ Enlarges(LiveOf(A), LiveOf(A) \cup {t}, IsLarge(t))
    BY <1>2, <1>3, AddRange DEF Grows, Enlarges, IsLarge
<1> QED
    BY <1>1, <1>2, <1>4

\* At most one range goes, of n units.
LEMMA TakeOut ==
    ASSUME NEW P, Measured(P), NEW X \in SUBSET P, NEW n \in Nat, NEW j \in Nat,
           \A x, y \in X : x = y, (X = {} /\ n = 0) \/ (\E x \in X : n = x.size),
           j = IF X = {} THEN 0 ELSE 1
    PROVE  Measured(P \ X) /\ Grows(P, P \ X, -j, -n)
<1>1. Cardinality(P) \in Nat /\ Units(P) \in Nat
    BY MeasuredSubset
<1>2. CASE X = {}
    <2>1. P \ X = P /\ j = 0 /\ n = 0
        BY <1>2
    <2>2. Cardinality(P \ X) = Cardinality(P) /\ Units(P \ X) = Units(P) /\ Measured(P \ X)
        BY <2>1
    <2> QED BY <1>1, <2>1, <2>2 DEF Grows
<1>3. CASE X # {}
    <2>1. PICK x \in X : n = x.size
        BY <1>3
    <2>2. P \ X = P \ {x} /\ j = 1
        BY <1>3
    <2>3. /\ Measured(P \ {x}) /\ Cardinality(P \ {x}) = Cardinality(P) - 1
          /\ Units(P \ {x}) = Units(P) - x.size
        BY <2>1, RemoveRange
    <2>4. Cardinality(P \ X) = Cardinality(P) - 1 /\ Units(P \ X) = Units(P) - n
          /\ Measured(P \ X)
        BY <2>1, <2>2, <2>3
    <2> QED BY <1>1, <2>2, <2>4 DEF Grows
<1> QED
    BY <1>2, <1>3

\* m is b with the block of X, if any, before it and the one of Y after it: j and k blocks, of
\* xs and ys units.
Merges(b, C, X, Y, j, k, xs, ys, m) ==
    /\ j = (IF X = {} THEN 0 ELSE 1) /\ k = (IF Y = {} THEN 0 ELSE 1)
    /\ X = {x \in C : x.seg = b.seg /\ x.off + x.size = b.off}
    /\ Y = {y \in C : y.seg = b.seg /\ b.off + b.size = y.off}
    /\ (X = {} /\ xs = 0) \/ (\E x \in X : xs = x.size)
    /\ (Y = {} /\ ys = 0) \/ (\E y \in Y : ys = y.size)
    /\ m.seg = b.seg /\ m.off = b.off - xs /\ m.size = xs + b.size + ys

\* b has a neighbour in B.
Touched(b, B) == \E x \in B : Adjacent(x, b)

\* Among the blocks B, b counts as i split blocks of l units.
CountsAs(b, B, i, l) ==
    IF Touched(b, B) THEN i = 1 /\ l = b.size ELSE i = 0 /\ l = 0

\* b, of the active blocks A, goes to the cache C as m, which is merged with the blocks of X and
\* Y and counts as i split blocks of l units. The active blocks are then D, the cached ones E.
MergeCase(A, C, sz, b, X, Y, j, k, xs, ys, m, D, E, i, l) ==
    /\ A \in SUBSET Block /\ C \in SUBSET Block /\ sz \in [Segments -> Nat] /\ m \in Block
    /\ Geometry(A \cup C, sz) /\ A \cap C = {} /\ Measured(A \cup C) /\ b \in A
    /\ xs \in Nat /\ ys \in Nat /\ j \in Nat /\ k \in Nat
    /\ Merges(b, C, X, Y, j, k, xs, ys, m)
    /\ D = A \ {b} /\ m \notin D /\ E = (C \ (X \cup Y)) \cup {m}
    /\ CountsAs(m, A \cup C, i, l)

\* The split blocks are then those that were not merged, and m if it has a neighbour.
LEMMA MergeTallies ==
    ASSUME NEW A, NEW C, NEW sz, NEW b, NEW X, NEW Y, NEW j, NEW k, NEW xs, NEW ys, NEW m,
           NEW D, NEW E, NEW i, NEW l, MergeCase(A, C, sz, b, X, Y, j, k, xs, ys, m, D, E, i, l)
    PROVE  /\ Measured(D \cup E)
           /\ Grows(SplitOf(A, C), SplitOf(D, E), i - j - k, l - (m.size - b.size))
<1>0. /\ A \in SUBSET Block /\ C \in SUBSET Block /\ sz \in [Segments -> Nat] /\ m \in Block
      /\ Geometry(A \cup C, sz) /\ A \cap C = {} /\ Measured(A \cup C) /\ b \in A
      /\ xs \in Nat /\ ys \in Nat /\ j \in Nat /\ k \in Nat
      /\ D = A \ {b} /\ m \notin D /\ E = (C \ (X \cup Y)) \cup {m}
      /\ CountsAs(m, A \cup C, i, l)
      /\ X = {x \in C : x.seg = b.seg /\ x.off + x.size = b.off}
      /\ Y = {y \in C : y.seg = b.seg /\ b.off + b.size = y.off}
      /\ (X = {} /\ xs = 0) \/ (\E x \in X : xs = x.size)
      /\ (Y = {} /\ ys = 0) \/ (\E y \in Y : ys = y.size)
      /\ m.seg = b.seg /\ m.off = b.off - xs /\ m.size = xs + b.size + ys
      /\ j = (IF X = {} THEN 0 ELSE 1) /\ k = (IF Y = {} THEN 0 ELSE 1)
    BY DEF MergeCase, Merges
<1> USE <1>0
<1> DEFINE B == A \cup C
           P == SplitOf(A, C)
           O == (P \ X) \ Y
           still == Touched(m, A \cup C)
<1>1. /\ \A x \in B : x.off \in Nat /\ x.size \in Nat /\ x.size > 0
      /\ \A x, y \in B : x # y => ~Overlap(x, y)
      /\ b \in B /\ m.off \in Nat /\ m.size \in Nat
    BY DEF Geometry, Within, Apart, Block
<1>2. X \subseteq P /\ Y \subseteq P /\ P \in SUBSET B /\ X \cap Y = {}
    <2>1. X \subseteq P /\ Y \subseteq P /\ P \in SUBSET B
        BY DEF SplitOf, Adjacent
    <2>2. ASSUME NEW x \in X, x \in Y PROVE FALSE
        <3>1. x.off + x.size = b.off /\ b.off + b.size = x.off /\ x \in B
            BY <2>2
        <3> QED BY <1>1, <3>1
    <2> QED BY <2>1, <2>2
<1>3. \A x, y \in X : x = y
    <2> SUFFICES ASSUME NEW x \in X, NEW y \in X, x # y PROVE FALSE
        OBVIOUS
    <2>1. x \in B /\ y \in B /\ x.seg = y.seg /\ x.off + x.size = y.off + y.size
        OBVIOUS
    <2> QED BY <1>1, <2>1 DEF Overlap
<1>4. \A x, y \in Y : x = y
    <2> SUFFICES ASSUME NEW x \in Y, NEW y \in Y, x # y PROVE FALSE
        OBVIOUS
    <2>1. x \in B /\ y \in B /\ x.seg = y.seg /\ x.off = y.off
        OBVIOUS
    <2> QED BY <1>1, <2>1 DEF Overlap
<1>5. \A x \in B : Overlap(x, m) => x \in {b} \cup X \cup Y
    <2> SUFFICES ASSUME NEW x \in B, x \notin {b} \cup X \cup Y PROVE ~Overlap(x, m)
        OBVIOUS
    <2>1. ~Overlap(x, b) /\ (\A y \in X \cup Y : ~Overlap(x, y))
        BY <1>1
    <2>2. \/ xs = 0
          \/ \E y \in X : xs = y.size /\ y.seg = b.seg /\ y.off + xs = b.off /\ y.off \in Nat
                        /\ ~Overlap(x, y)
        BY <1>1, <2>1
    <2>3. \/ ys = 0
          \/ \E y \in Y : ys = y.size /\ y.seg = b.seg /\ b.off + b.size = y.off
                        /\ ~Overlap(x, y)
        BY <1>1, <2>1
    <2>4. x.off \in Nat /\ x.size \in Nat /\ x.size > 0 /\ b.off \in Nat /\ b.size \in Nat
        BY <1>1
    <2> HIDE DEF B
    <2> QED BY <2>1, <2>2, <2>3, <2>4 DEF Overlap
<1>6. Measured(D \cup E)
    <2>1. /\ (D \cup E) \ {m} \in SUBSET B
          /\ \A x \in (D \cup E) \ {m} : x \notin {b} \cup X \cup Y
        BY DEF AllBlocks
    <2>2. Measured((D \cup E) \ {m})
        BY <2>1, MeasuredSubset
    <2>3. \A x \in (D \cup E) \ {m} : ~Overlap(m, x) /\ ~Overlap(x, m)
        BY <1>1, <1>5, <2>1 DEF Overlap
    <2>4. Measured(((D \cup E) \ {m}) \cup {m})
        BY <1>1, <2>2, <2>3, AddRange
    <2>5. ((D \cup E) \ {m}) \cup {m} = D \cup E
        OBVIOUS
    <2> QED BY <2>4, <2>5
<1>7. /\ Measured(O) /\ Cardinality(P) \in Nat /\ Units(P) \in Nat
      /\ Grows(P, O, -j - k, -xs - ys)
    <2>1. Measured(P) /\ Cardinality(P) \in Nat /\ Units(P) \in Nat
        BY <1>2, MeasuredSubset
    <2>2. Measured(P \ X) /\ Grows(P, P \ X, -j, -xs)
        BY <1>2, <1>3, <2>1, TakeOut
    <2>3. Y \in SUBSET (P \ X)
        BY <1>2
    <2>4. ASSUME NEW Q, Q = P \ X
          PROVE  /\ Measured(Q \ Y) /\ Cardinality(Q \ Y) = Cardinality(Q) - k
                 /\ Units(Q \ Y) = Units(Q) - ys
        <3>1. Measured(Q) /\ Y \in SUBSET Q
            BY <2>2, <2>3, <2>4
        <3>2. Measured(Q \ Y) /\ Grows(Q, Q \ Y, -k, -ys)
            BY <1>4, <3>1, TakeOut
        <3>3. Cardinality(Q) \in Nat /\ Units(Q) \in Nat
            BY <3>1, MeasuredSubset
        <3> QED BY <3>2, <3>3 DEF Grows
    <2>5. /\ Measured(O) /\ Cardinality(O) = Cardinality(P \ X) - k
          /\ Units(O) = Units(P \ X) - ys
        BY <2>4
    <2> HIDE DEF P, O
    <2>6. Cardinality(O) = Cardinality(P) + (-j - k) /\ Units(O) = Units(P) + (-xs - ys)
        BY <2>1, <2>2, <2>5 DEF Grows
    <2> QED BY <2>1, <2>5, <2>6 DEF Grows
<1>8. \A c \in E : c # m => c \in C /\ c \notin {b} \cup X \cup Y
    OBVIOUS
<1>9. ASSUME NEW c \in C, c \notin X \cup Y
      PROVE  (\E x \in B : Adjacent(x, c)) <=> (\E x \in D \cup E : Adjacent(x, c))
    <2>1. ~Adjacent(b, c) /\ c # b
        BY <1>9 DEF Adjacent
    <2>2. ASSUME NEW x \in X \cup Y, Adjacent(x, c) PROVE Adjacent(m, c)
        <3>1. CASE x \in X
            <4>1. x \in B /\ c \in B /\ c # b /\ c # x /\ xs = x.size /\ c.seg = b.seg
                  /\ x.off + x.size = b.off /\ x.seg = b.seg
                BY <1>3, <1>9, <2>1, <2>2, <3>1 DEF Adjacent
            <4>2. ~Overlap(c, b) /\ ~Overlap(b, c)
                BY <1>1, <4>1
            <4>3. x.off + x.size = c.off => Overlap(c, b)
                BY <1>1, <4>1 DEF Overlap
            <4>4. c.off + c.size = x.off
                BY <2>2, <4>2, <4>3 DEF Adjacent
            <4>5. m.off = x.off
                BY <1>1, <4>1
            <4> QED BY <4>1, <4>4, <4>5 DEF Adjacent
        <3>2. CASE x \in Y
            <4>1. x \in B /\ c \in B /\ c # b /\ c # x /\ ys = x.size /\ c.seg = b.seg
                  /\ b.off + b.size = x.off /\ x.seg = b.seg
                BY <1>4, <1>9, <2>1, <2>2, <3>2 DEF Adjacent
            <4>2. ~Overlap(c, b) /\ ~Overlap(b, c)
                BY <1>1, <4>1
            <4>3. c.off + c.size = x.off => Overlap(c, b)
                BY <1>1, <4>1 DEF Overlap
            <4>4. x.off + x.size = c.off
                BY <2>2, <4>2, <4>3 DEF Adjacent
            <4>5. m.off + m.size = x.off + x.size
                BY <1>1, <4>1
            <4> QED BY <4>1, <4>4, <4>5 DEF Adjacent
        <3> QED BY <3>1, <3>2
    <2>3. ASSUME Adjacent(m, c) PROVE \E x \in X \cup Y : Adjacent(x, c)
        <3>1. c.seg = b.seg /\ c.off \in Nat /\ c.size \in Nat /\ b.off \in Nat /\ b.size \in Nat
            BY <1>1, <1>9, <2>3 DEF Adjacent
        <3>2. CASE m.off + m.size = c.off
            <4>1. m.off + m.size = b.off + b.size + ys
                BY <3>1
            <4>2. CASE Y = {}
                <5>1. b.off + b.size = c.off
                    BY <3>1, <3>2, <4>1, <4>2
                <5> QED BY <2>1, <3>1, <5>1 DEF Adjacent
            <4>3. CASE Y # {}
                <5>1. PICK y \in Y : ys = y.size
                    BY <4>3
                <5>2. y.off + y.size = c.off /\ y.seg = c.seg
                    BY <3>1, <3>2, <4>1, <5>1
                <5> QED BY <5>2 DEF Adjacent
            <4> QED BY <4>2, <4>3
        <3>3. CASE c.off + c.size = m.off
            <4>1. CASE X = {}
                <5>1. c.off + c.size = b.off
                    BY <3>1, <3>3, <4>1
                <5> QED BY <2>1, <3>1, <5>1 DEF Adjacent
            <4>2. CASE X # {}
                <5>1. PICK x \in X : xs = x.size
                    BY <4>2
                <5>2. c.off + c.size = x.off /\ x.seg = c.seg
                    BY <1>1, <3>1, <3>3, <5>1
                <5> QED BY <5>2 DEF Adjacent
            <4> QED BY <4>1, <4>2
        <3> QED BY <2>3, <3>2, <3>3 DEF Adjacent
    <2>4. X \cup Y \subseteq B /\ m \in E /\ \A x \in D \cup E : x = m \/ x \in B
        OBVIOUS
    <2>5. \A x \in B : x = b \/ x \in X \cup Y \/ x \in D \cup E
        OBVIOUS
    <2> HIDE DEF B
    <2> QED BY <2>1, <2>2, <2>3, <2>4, <2>5
<1>10. (\E x \in D \cup E : Adjacent(x, m)) <=> still
    <2>1. ~Adjacent(b, m) /\ ~Adjacent(m, m) /\ \A x \in X \cup Y : ~Adjacent(x, m)
        <3>1. b.off \in Nat /\ b.size \in Nat /\ b.size > 0 /\ m.size > 0
            BY <1>1
        <3>2. ~Adjacent(b, m) /\ ~Adjacent(m, m)
            BY <1>1, <3>1 DEF Adjacent
        <3>3. ASSUME NEW x \in X PROVE ~Adjacent(x, m)
            <4>1. xs = x.size /\ x.off + x.size = b.off /\ x.off \in Nat /\ x.size \in Nat
                  /\ x.size > 0
                BY <1>1, <1>3, <3>3
            <4> QED BY <3>1, <4>1 DEF Adjacent
        <3>4. ASSUME NEW x \in Y PROVE ~Adjacent(x, m)
            <4>1. ys = x.size /\ b.off + b.size = x.off /\ x.off \in Nat /\ x.size \in Nat
                  /\ x.size > 0
                BY <1>1, <1>4, <3>4
            <4> QED BY <3>1, <4>1 DEF Adjacent
        <3> QED BY <3>2, <3>3, <3>4
    <2>2. \A x \in D \cup E : x = m \/ x \in B
        OBVIOUS
    <2>3. \A x \in B : x = b \/ x \in X \cup Y \/ x \in D \cup E
        OBVIOUS
    <2>4. still <=> \E x \in B : Adjacent(x, m)
        BY DEF Touched
    <2> HIDE DEF B, still
    <2> QED BY <2>1, <2>2, <2>3, <2>4
<1> HIDE DEF still
<1>11. SplitOf(D, E) \ {m} = O \ {m} /\ (m \in SplitOf(D, E) <=> still)
    BY <1>8, <1>9, <1>10 DEF SplitOf
<1>12. m \notin O /\ \A x \in O : ~Overlap(m, x) /\ ~Overlap(x, m)
    <2>1. \A x \in O : x \in B /\ x \notin {b} \cup X \cup Y
        BY DEF SplitOf
    <2>2. Overlap(m, m)
        BY <1>1 DEF Overlap
    <2>3. \A x \in B : Overlap(m, x) => Overlap(x, m)
        BY <1>1 DEF Overlap
    <2> HIDE DEF B, O
    <2> QED BY <1>5, <2>1, <2>2, <2>3
<1>13. CASE still
    <2>1. SplitOf(D, E) = O \cup {m}
        BY <1>11, <1>12, <1>13
    <2>6. i = 1 /\ l = m.size
        BY <1>13 DEF still, CountsAs
    <2>2. Grows(O, O \cup {m}, 1, m.size)
        <3> HIDE DEF O
        <3> QED BY <1>1, <1>7, <1>12, AddRange DEF Grows
    <2>3. PICK S : S = SplitOf(D, E)
        OBVIOUS
    <2>4. Cardinality(S) = Cardinality(O) + 1 /\ Units(S) = Units(O) + m.size
        BY <2>1, <2>2, <2>3 DEF Grows
    <2>5. Grows(P, S, i - j - k, l - (m.size - b.size))
        <3>1. b.size \in Nat /\ m.size \in Nat
            BY <1>1
        <3> HIDE DEF P, O
        <3>2. Cardinality(O) = Cardinality(P) + (-j - k) /\ Units(O) = Units(P) + (-xs - ys)
            BY <1>7 DEF Grows
        <3>3. m.size - (m.size - b.size) = -xs - ys + m.size
            BY <3>1
        <3>4. Cardinality(S) = Cardinality(P) + (i - j - k)
            BY <1>7, <2>4, <2>6, <3>2
        <3>5. PICK z : z = -xs - ys
            OBVIOUS
        <3>6. z \in Int
            BY <1>0, <3>5
        <3>7. Units(S) = Units(P) + (z + m.size)
            BY <1>7, <2>4, <3>1, <3>2, <3>5, <3>6
        <3> QED BY <2>6, <3>3, <3>4, <3>5, <3>6, <3>7 DEF Grows
    <2> QED BY <1>6, <2>3, <2>5
<1>14. CASE ~still
    <2>1. SplitOf(D, E) = O
        <3>1. PICK S : S = SplitOf(D, E)
            OBVIOUS
        <3>2. S \ {m} = O \ {m} /\ m \notin S /\ m \notin O
            BY <1>11, <1>12, <1>14, <3>1
        <3> HIDE DEF O
        <3>3. \A x : x \in S <=> x \in O
            BY <3>2, Zenon
        <3>4. S \subseteq O /\ O \subseteq S
            BY <3>3
        <3>5. S = O
            BY <3>4
        <3> QED BY <3>1, <3>5
    <2>2. i = 0 /\ l = 0
        BY <1>14 DEF still, CountsAs
    <2>3. PICK S : S = SplitOf(D, E)
        OBVIOUS
    <2>4. Cardinality(S) = Cardinality(O) /\ Units(S) = Units(O)
        BY <2>1, <2>3
    <2>5. Grows(P, S, i - j - k, l - (m.size - b.size))
        <3> HIDE DEF P, O
        <3> QED BY <1>1, <1>7, <2>2, <2>4 DEF Grows
    <2> QED BY <1>6, <2>3, <2>5
<1> QED
    BY <1>6, <1>13, <1>14

\* A block that is no longer one of the split blocks P, if it was.
LEMMA SplitLeaves ==
    ASSUME NEW P, Measured(P), NEW b, b.size \in Nat, NEW j, NEW n,
           IF b \in P THEN j = 1 /\ n = b.size ELSE j = 0 /\ n = 0
    PROVE  Measured(P \ {b}) /\ Grows(P, P \ {b}, -j, -n)
<1>1. Cardinality(P) \in Nat /\ Units(P) \in Nat
    BY MeasuredSubset
<1>2. CASE b \in P
    <2>1. /\ Measured(P \ {b}) /\ Cardinality(P \ {b}) = Cardinality(P) - 1
          /\ Units(P \ {b}) = Units(P) - b.size
        BY <1>2, RemoveRange
    <2> QED BY <1>1, <1>2, <2>1 DEF Grows
<1>3. CASE b \notin P
    <2>1. P \ {b} = P
        BY <1>3
    <2>2. /\ Measured(P \ {b}) /\ Cardinality(P \ {b}) = Cardinality(P)
          /\ Units(P \ {b}) = Units(P)
        BY <2>1
    <2> QED BY <1>1, <1>3, <2>2 DEF Grows
<1> QED
    BY <1>2, <1>3

\* A cached block is handed out whole.
LEMMA TakeWhole ==
    ASSUME NEW A \in SUBSET Block, NEW C \in SUBSET Block, NEW sz \in [Segments -> Nat],
           Geometry(A \cup C, sz), A \cap C = {}, Measured(A \cup C), NEW b \in C,
           NEW t \in Block, SameRange(b, t),
           NEW D, D = A \cup {t}, NEW E, E = C \ {b},
           NEW j, NEW n, CountsAs(b, A \cup C, j, n)
    PROVE  Measured(D \cup E) /\ Grows(SplitOf(A, C), SplitOf(D, E), -j, -n)
<1>1. /\ b.size > 0 /\ b.off \in Nat /\ b.size \in Nat
      /\ t.seg = b.seg /\ t.off = b.off /\ t.size = b.size
    BY DEF Geometry, Within, Block, SameRange
<1>2. Measured(D \cup E)
    <2>1. D \cup E = ((A \cup C) \ {b}) \cup {t}
        OBVIOUS
    <2>2. Measured(((A \cup C) \ {b}) \cup {t})
        BY <1>1, ReplaceRange
    <2> QED BY <2>1, <2>2
<1>3. SplitOf(D, E) = SplitOf(A, C) \ {b}
    <2>1. \A x : Adjacent(b, x) <=> Adjacent(t, x)
        BY <1>1 DEF Adjacent
    <2>3. \A x \in A \cup C : x = b \/ x \in D \cup E
        OBVIOUS
    <2>4. \A x \in D \cup E : x = t \/ x \in A \cup C
        OBVIOUS
    <2>5. ASSUME NEW c PROVE (\E x \in A \cup C : Adjacent(x, c)) <=>
                             (\E x \in D \cup E : Adjacent(x, c))
        BY <2>1, <2>3, <2>4
    <2> QED BY <2>5 DEF SplitOf
<1>4. IF b \in SplitOf(A, C) THEN j = 1 /\ n = b.size ELSE j = 0 /\ n = 0
    BY DEF SplitOf, Touched, CountsAs
<1>5. Measured(SplitOf(A, C))
    <2>1. SplitOf(A, C) \in SUBSET (A \cup C)
        BY DEF SplitOf
    <2> QED BY <2>1, MeasuredSubset
<1>6. Grows(SplitOf(A, C), SplitOf(A, C) \ {b}, -j, -n)
    BY <1>1, <1>4, <1>5, SplitLeaves
<1> QED
    BY <1>2, <1>3, <1>6

\* The first part t of a cached block b is handed out; the rest, r, is a split block.
LEMMA TakePart ==
    ASSUME NEW A \in SUBSET Block, NEW C \in SUBSET Block, NEW sz \in [Segments -> Nat],
           Geometry(A \cup C, sz), A \cap C = {}, Measured(A \cup C), NEW b \in C,
           NEW t \in Block, NEW r \in Block, CutsInto(b, t, r),
           NEW D, D = A \cup {t}, NEW E, E = (C \ {b}) \cup {r},
           NEW j, NEW n, CountsAs(b, A \cup C, j, n)
    PROVE  Measured(D \cup E) /\ Grows(SplitOf(A, C), SplitOf(D, E), 1 - j, r.size - n)
<1> DEFINE B == A \cup C
           P == SplitOf(A, C)
<1>1. /\ b.size > 0 /\ b.off \in Nat /\ b.size \in Nat
      /\ t.off \in Nat /\ t.size \in Nat /\ r.off \in Nat /\ r.size \in Nat
    BY DEF Geometry, Within, Block
<1>2. /\ t.seg = b.seg /\ t.off = b.off /\ r.seg = b.seg /\ r.off = b.off + t.size
      /\ t.size > 0 /\ r.size > 0 /\ t.size + r.size = b.size
    BY DEF CutsInto
<1>3. \A x \in B \ {b} : /\ ~Overlap(x, b) /\ ~Overlap(b, x)
                         /\ x.off \in Nat /\ x.size \in Nat /\ x.size > 0
    BY DEF Geometry, Within, Apart, Block
<1>4. \A x \in B \ {b} : /\ ~Overlap(x, t) /\ ~Overlap(t, x)
                         /\ ~Overlap(x, r) /\ ~Overlap(r, x)
    <2> SUFFICES ASSUME NEW x \in B \ {b}
                 PROVE  /\ ~Overlap(x, t) /\ ~Overlap(t, x)
                        /\ ~Overlap(x, r) /\ ~Overlap(r, x)
        OBVIOUS
    <2> HIDE DEF B
    <2>1. ~Overlap(x, b) /\ ~Overlap(b, x) /\ x.off \in Nat /\ x.size \in Nat /\ x.size > 0
        BY <1>3
    <2> QED BY <1>1, <1>2, <2>1 DEF Overlap
<1>5. ~Overlap(t, r) /\ ~Overlap(r, t) /\ Overlap(t, t) /\ Overlap(r, r)
    BY <1>1, <1>2 DEF Overlap
<1>6. r \notin B \ {b} /\ t \notin B \ {b} /\ r # t
    BY <1>4, <1>5
<1>7. Measured(D \cup E)
    <2>1. Measured(B \ {b})
        BY RemoveRange
    <2>2. ASSUME NEW S, S = B \ {b} PROVE Measured((S \cup {t}) \cup {r})
        <3>1. Measured(S \cup {t})
            BY <1>1, <1>4, <1>6, <2>1, <2>2, AddRange
        <3>2. r \notin S \cup {t} /\ \A y \in S \cup {t} : ~Overlap(r, y) /\ ~Overlap(y, r)
            BY <1>4, <1>5, <1>6, <2>2
        <3> QED BY <1>1, <3>1, <3>2, AddRange
    <2>3. D \cup E = ((B \ {b}) \cup {t}) \cup {r}
        OBVIOUS
    <2> QED BY <2>2, <2>3
<1>8. ASSUME NEW c \in C \ {b}
      PROVE  (\E x \in B : Adjacent(x, c)) <=> (\E x \in D \cup E : Adjacent(x, c))
    <2>1. /\ ~Overlap(c, b) /\ ~Overlap(c, r) /\ ~Overlap(c, t)
          /\ c.off \in Nat /\ c.size \in Nat /\ c.size > 0
        BY <1>3, <1>4
    <2>2. Adjacent(b, c) <=> Adjacent(t, c) \/ Adjacent(r, c)
        <3>1. Adjacent(b, c) => Adjacent(t, c) \/ Adjacent(r, c)
            BY <1>1, <1>2 DEF Adjacent
        <3>2. Adjacent(t, c) => Adjacent(b, c)
            BY <1>1, <1>2, <2>1 DEF Adjacent, Overlap
        <3>3. Adjacent(r, c) => Adjacent(b, c)
            BY <1>1, <1>2, <2>1 DEF Adjacent, Overlap
        <3> QED BY <3>1, <3>2, <3>3
    <2>3. \A x \in B : x = b \/ x \in D \cup E
        OBVIOUS
    <2>4. \A x \in D \cup E : x = t \/ x = r \/ x \in B
        OBVIOUS
    <2>5. t \in D \cup E /\ r \in D \cup E /\ b \in B
        OBVIOUS
    <2> HIDE DEF B
    <2> QED BY <2>2, <2>3, <2>4, <2>5
<1>9. Adjacent(t, r)
    BY <1>1, <1>2 DEF Adjacent
<1>10. SplitOf(D, E) = (P \ {b}) \cup {r}
    <2>1. r \in E /\ t \in D \cup E /\ \A c \in E : c = r \/ c \in C \ {b}
        OBVIOUS
    <2>2. r \in SplitOf(D, E)
        BY <1>9, <2>1 DEF SplitOf
    <2>3. ASSUME NEW c \in C \ {b} PROVE c \in SplitOf(D, E) <=> c \in P
        BY <1>8 DEF SplitOf
    <2>4. P \in SUBSET C /\ SplitOf(D, E) \in SUBSET E
        BY DEF SplitOf
    <2>5. PICK S : S = SplitOf(D, E)
        OBVIOUS
    <2>6. \A x : x \in S <=> x \in (P \ {b}) \cup {r}
        <3> HIDE DEF P
        <3> QED BY <2>1, <2>2, <2>3, <2>4, <2>5
    <2>7. S = (P \ {b}) \cup {r}
        <3> HIDE DEF P
        <3> QED BY <2>6
    <2> QED BY <2>5, <2>7
<1>11. Touched(b, B) <=> b \in P
    BY DEF SplitOf, Touched
<1>12. Measured(P) /\ P \in SUBSET B
    <2>1. P \in SUBSET B
        BY DEF SplitOf
    <2> QED BY <2>1, MeasuredSubset
<1>13. Measured(P \ {b}) /\ Grows(P, P \ {b}, -j, -n)
    <2>1. IF b \in P THEN j = 1 /\ n = b.size ELSE j = 0 /\ n = 0
        BY <1>11 DEF CountsAs
    <2> HIDE DEF P
    <2> QED BY <1>1, <1>12, <2>1, SplitLeaves
<1>14. r \notin P \ {b} /\ \A y \in P \ {b} : ~Overlap(r, y) /\ ~Overlap(y, r)
    BY <1>4, <1>6, <1>12
<1>15. j \in Nat /\ n \in Nat /\ Cardinality(P) \in Nat /\ Units(P) \in Nat
    BY <1>1, <1>12, MeasuredSubset DEF CountsAs
<1>16. ASSUME NEW S, S = P \ {b}
       PROVE  /\ Cardinality(S \cup {r}) = Cardinality(P) - j + 1
              /\ Units(S \cup {r}) = Units(P) - n + r.size
    <2>1. Grows(P, S, -j, -n)
        BY <1>13, <1>16
    <2>2. Measured(S) /\ r \notin S /\ \A y \in S : ~Overlap(r, y) /\ ~Overlap(y, r)
        BY <1>13, <1>14, <1>16
    <2>3. Cardinality(S \cup {r}) = Cardinality(S) + 1 /\ Units(S \cup {r}) = Units(S) + r.size
        BY <1>1, <2>2, AddRange
    <2> HIDE DEF P
    <2> QED BY <1>1, <1>15, <2>1, <2>3 DEF Grows
<1>17. Grows(P, SplitOf(D, E), 1 - j, r.size - n)
    <2>1. PICK S : S = SplitOf(D, E)
        OBVIOUS
    <2>2. Cardinality(S) = Cardinality(P) - j + 1 /\ Units(S) = Units(P) - n + r.size
        BY <1>10, <1>16, <2>1
    <2>3. Grows(P, S, 1 - j, r.size - n)
        <3> HIDE DEF P
        <3> QED BY <1>1, <1>15, <2>2 DEF Grows
    <2> QED BY <2>1, <2>3
<1> QED
    BY <1>7, <1>17

\* A block that is alone in its segment is not split, and splits no other one.
LEMMA AloneTallies ==
    ASSUME NEW A, NEW C, NEW b, b \notin A, b.off \in Nat, b.size \in Nat, b.size > 0,
           \A x \in A \cup C : x.seg = b.seg => x = b
    PROVE  /\ SplitOf(A, C \cup {b}) = SplitOf(A, C \ {b})
           /\ ~ \E x \in A \cup C \cup {b} : Adjacent(x, b)
<1>1. ~Adjacent(b, b)
    BY DEF Adjacent
<1>2. \A x \in A \cup C : x # b => ~Adjacent(x, b) /\ ~Adjacent(b, x)
    BY DEF Adjacent
<1>3. \A c \in C \ {b} : (\E x \in A \cup (C \cup {b}) : Adjacent(x, c)) <=>
                         (\E x \in A \cup (C \ {b}) : Adjacent(x, c))
    BY <1>2
<1> QED
    BY <1>1, <1>2, <1>3 DEF SplitOf

\* It covers its segment.
LEMMA AloneWhole ==
    ASSUME NEW B \in SUBSET Block, NEW sz \in [Segments -> Nat], Geometry(B, sz),
           NEW b \in B, \A c \in B : c.seg = b.seg => c = b
    PROVE  b.seg \in Segments /\ b.off = 0 /\ b.size = sz[b.seg] /\ b.size > 0
<1>1. /\ b.seg \in Segments /\ b.off \in Nat /\ b.size \in Nat /\ sz[b.seg] \in Nat
      /\ b.size > 0 /\ b.off + b.size <= sz[b.seg]
    BY DEF Geometry, Within, Block
<1>2. \A u \in 0 .. (sz[b.seg] - 1) : b.off <= u /\ u < b.off + b.size
    BY <1>1 DEF Geometry, Covered
<1>3. 0 \in 0 .. (sz[b.seg] - 1) /\ sz[b.seg] - 1 \in 0 .. (sz[b.seg] - 1)
    BY <1>1
<1>4. b.off <= 0 /\ sz[b.seg] - 1 < b.off + b.size
    BY <1>2, <1>3
<1> QED
    BY <1>1, <1>4

\* The driver hands out a segment of n units.
LEMMA GrowRanges ==
    ASSUME NEW sz \in [Segments -> Nat], Measured(RangesOf(sz)), NEW g \in Segments,
           sz[g] = 0, NEW n \in Nat, n > 0, NEW tz, tz = [sz EXCEPT ![g] = n]
    PROVE  /\ Measured(RangesOf(tz)) /\ Grows(RangesOf(sz), RangesOf(tz), 1, n)
           /\ Enlarges(RangesOf(sz), RangesOf(tz), Indicator(n >= MaxSplitSize))
<1> DEFINE x == [seg |-> g, off |-> 0, size |-> n]
           R == RangesOf(sz)
<1>1. x.seg = g /\ x.off = 0 /\ x.size = n
    OBVIOUS
<1>2. RangesOf(tz) = R \cup {x}
    <2>1. tz[g] = n /\ \A h \in Segments : h # g => tz[h] = sz[h]
        OBVIOUS
    <2> QED BY <2>1 DEF RangesOf
<1>3. \A y \in R : y.seg # g
    BY DEF RangesOf
<1> HIDE DEF x, R
<1>4. x \notin R /\ \A y \in R : ~Overlap(x, y) /\ ~Overlap(y, x)
    BY <1>1, <1>3 DEF Overlap
<1>5. /\ Measured(R \cup {x}) /\ Cardinality(R \cup {x}) = Cardinality(R) + 1
      /\ Units(R \cup {x}) = Units(R) + x.size
      /\ Cardinality(Large(R \cup {x})) = Cardinality(Large(R)) + Indicator(x.size >= MaxSplitSize)
    <2>1. Measured(R)
        BY DEF R
    <2>2. x.off \in Nat /\ x.size \in Nat
        BY <1>1
    <2> QED BY <1>4, <2>1, <2>2, AddRange
<1>6. /\ Grows(R, RangesOf(tz), 1, n)
      /\ Enlarges(R, RangesOf(tz), Indicator(n >= MaxSplitSize))
    BY <1>1, <1>2, <1>5 DEF Grows, Enlarges
<1> QED
    BY <1>2, <1>5, <1>6 DEF R

\* A segment goes back to the driver.
LEMMA DropRanges ==
    ASSUME NEW sz \in [Segments -> Nat], Measured(RangesOf(sz)), NEW g \in Segments,
           NEW n, n = sz[g], n > 0, NEW tz, tz = [sz EXCEPT ![g] = 0]
    PROVE  /\ Measured(RangesOf(tz)) /\ Grows(RangesOf(sz), RangesOf(tz), -1, -n)
           /\ Enlarges(RangesOf(sz), RangesOf(tz), -Indicator(n >= MaxSplitSize))
<1> DEFINE x == [seg |-> g, off |-> 0, size |-> n]
           R == RangesOf(sz)
<1>1. x.seg = g /\ x.off = 0 /\ x.size = n /\ n \in Nat
    OBVIOUS
<1>2. RangesOf(tz) = R \ {x} /\ x \in R
    <2>1. tz[g] = 0 /\ \A h \in Segments : h # g => tz[h] = sz[h]
        OBVIOUS
    <2> QED BY <2>1 DEF RangesOf
<1> HIDE DEF x, R
<1>3. /\ Measured(R \ {x}) /\ Cardinality(R \ {x}) = Cardinality(R) - 1
      /\ Units(R \ {x}) = Units(R) - x.size
      /\ Cardinality(Large(R \ {x})) = Cardinality(Large(R)) - Indicator(x.size >= MaxSplitSize)
    <2>1. Measured(R)
        BY DEF R
    <2> QED BY <1>2, <2>1, RemoveRange
<1>4. /\ Cardinality(R) \in Nat /\ Units(R) \in Nat /\ Cardinality(Large(R)) \in Nat
      /\ Indicator(n >= MaxSplitSize) \in Int
    <2>1. Measured(R)
        BY DEF R
    <2> QED BY <2>1, MeasuredSubset, IndicatorType
<1>5. /\ Grows(R, RangesOf(tz), -1, -n)
      /\ Enlarges(R, RangesOf(tz), -Indicator(n >= MaxSplitSize))
    BY <1>1, <1>2, <1>3, <1>4 DEF Grows, Enlarges
<1> QED
    BY <1>2, <1>3, <1>5 DEF R

\* A field of the statistics after a change
LEMMA ChangedAt ==
    ASSUME NEW st, NEW change, NEW n \in StatName
    PROVE  Changed(st, change)[n] = st[n] + (IF n \in DOMAIN change THEN change[n] ELSE 0)
    BY DEF Changed

\* What the statistics say, of the parts of the state that each entry is about
LiveTallied(st, A) ==
    /\ st["allocation"] = Cardinality(LiveOf(A))
    /\ st["allocated_bytes"] = Units(LiveOf(A))
    /\ st["oversize_allocations"] = Cardinality(Large(LiveOf(A)))

ActiveTallied(st, A) == st["active"] = Cardinality(A) /\ st["active_bytes"] = Units(A)

SplitTallied(st, A, C) ==
    /\ st["inactive_split"] = Cardinality(SplitOf(A, C))
    /\ st["inactive_split_bytes"] = Units(SplitOf(A, C))

SegmentsTallied(st, tot, sz) ==
    /\ Measured(RangesOf(sz))
    /\ tot = Units(RangesOf(sz))
    /\ st["segment"] = Cardinality(RangesOf(sz))
    /\ st["reserved_bytes"] = Units(RangesOf(sz))
    /\ st["oversize_segments"] = Cardinality(Large(RangesOf(sz)))

BlocksTallied(st, A, C) ==
    /\ Measured(A \cup C)
    /\ LiveTallied(st, A) /\ ActiveTallied(st, A) /\ SplitTallied(st, A, C)

StatsInv ==
    /\ BlocksTallied(stats, active_blocks, cached_blocks)
    /\ SegmentsTallied(stats, total_allocated_memory, segments)

\* The invariant says what StatsExact says, entry by entry.
LEMMA StatsImplies == TypeOK /\ StatsInv => StatsExact
<1> SUFFICES ASSUME TypeOK, StatsInv PROVE StatsExact
    OBVIOUS
<1>1. /\ LiveBlocks = LiveOf(active_blocks)
      /\ Ranges = RangesOf(segments)
    BY DEF LiveBlocks, LiveOf, Ranges, RangesOf
<1>2. SplitBlocks = SplitOf(active_blocks, cached_blocks)
    BY DEF SplitBlocks, SplitOf, is_split, PrevOf, NextOf, AllBlocks, Adjacent
<1>3. stats \in [StatName -> Int]
    BY DEF TypeOK
<1>4. /\ stats["allocation"] = Cardinality(LiveBlocks)
      /\ stats["allocated_bytes"] = Units(LiveBlocks)
      /\ stats["active"] = Cardinality(active_blocks)
      /\ stats["active_bytes"] = Units(active_blocks)
      /\ stats["oversize_allocations"] = Cardinality(Large(LiveBlocks))
    BY <1>1 DEF StatsInv, BlocksTallied, LiveTallied, ActiveTallied
<1>5. /\ stats["inactive_split"] = Cardinality(SplitBlocks)
      /\ stats["inactive_split_bytes"] = Units(SplitBlocks)
    BY <1>2 DEF StatsInv, BlocksTallied, SplitTallied
<1>6. /\ stats["segment"] = Cardinality(Ranges)
      /\ stats["reserved_bytes"] = Units(Ranges)
      /\ stats["oversize_segments"] = Cardinality(Large(Ranges))
      /\ total_allocated_memory = Units(Ranges)
    BY <1>1 DEF StatsInv, SegmentsTallied
<1> QED
    BY <1>3, <1>4, <1>5, <1>6 DEF StatsExact, StatName

\* free_block: the entries for active and split blocks follow the block that is freed and
\* the ones it is merged with.
LEMMA FreeBlockTallied ==
    ASSUME TypeOK, SafeState, NEW b \in active_blocks, NEW st \in [StatName -> Int],
           free_block(b, st), Measured(active_blocks \cup cached_blocks),
           LiveTallied(st, active_blocks \ {b}), ActiveTallied(st, active_blocks),
           SplitTallied(st, active_blocks, cached_blocks)
    PROVE  /\ BlocksTallied(stats', active_blocks', cached_blocks')
           /\ \A n \in {"segment", "reserved_bytes", "oversize_segments"} : stats'[n] = st[n]
<1> DEFINE X == MergeBefore(b)
           Y == MergeAfter(b)
           m == Merged(b)
           A == active_blocks
           C == cached_blocks
           still == \E x \in AllBlocks : x.seg = b.seg /\
                       (x.off + x.size = MergedLow(b) \/ x.off = MergedHigh(b))
           D == A \ {b}
           E == (C \ (X \cup Y)) \cup {m}
           change ==
              [active |-> -1,
               active_bytes |-> -b.size,
               inactive_split |-> Indicator(still) - Indicator(X # {}) - Indicator(Y # {}),
               inactive_split_bytes |-> (IF still THEN m.size ELSE 0) - (m.size - b.size)]
<1>1. active_blocks' = D /\ cached_blocks' = E /\ stats' = Changed(st, change)
    BY DEF free_block, Merged, MergedLow, MergedHigh
<1>2. /\ MergedLow(b) \in Nat /\ MergedLow(b) <= b.off
      /\ MergedHigh(b) \in Nat /\ MergedHigh(b) >= b.off + b.size /\ m \in Block
    BY FreeBlockEffect
<1>3. /\ m.seg = b.seg /\ m.off = MergedLow(b)
      /\ m.size = MergedHigh(b) - MergedLow(b)
    BY DEF Merged, NewBlock
<1>4. /\ A \in SUBSET Block /\ C \in SUBSET Block /\ segments \in [Segments -> Nat]
      /\ Geometry(A \cup C, segments) /\ A \cap C = {}
      /\ b.off \in Nat /\ b.size \in Nat /\ b.size > 0
    BY StateTypes DEF SafeState, Safe, Geometry, Within, Block
<1>5. \A x \in C : Mergeable(x)
    BY DEF SafeState, Safe
<1>6. /\ X = {x \in C : x.seg = b.seg /\ x.off + x.size = b.off}
      /\ Y = {y \in C : y.seg = b.seg /\ b.off + b.size = y.off}
    BY <1>5, MergeableCached DEF MergeBefore, MergeAfter, PrevOf, NextOf, AllBlocks
<1>7. PICK xs \in Nat : /\ xs = b.off - MergedLow(b)
                        /\ (X = {} /\ xs = 0) \/ (\E x \in X : xs = x.size)
    <2>1. CASE X = {}
        BY <1>4, <2>1 DEF MergedLow
    <2>2. CASE X # {}
        <3>1. PICK x \in X : MergedLow(b) = x.off
            BY <2>2 DEF MergedLow
        <3>2. x.off + x.size = b.off /\ x \in Block
            BY <1>4, <1>6
        <3>3. x.size = b.off - MergedLow(b) /\ x.size \in Nat
            BY <3>1, <3>2 DEF Block
        <3> QED BY <3>3
    <2> QED BY <2>1, <2>2
<1>8. PICK ys \in Nat : /\ MergedHigh(b) = b.off + b.size + ys
                        /\ (Y = {} /\ ys = 0) \/ (\E y \in Y : ys = y.size)
    <2>1. CASE Y = {}
        BY <1>4, <2>1 DEF MergedHigh
    <2>2. CASE Y # {}
        <3>1. PICK y \in Y : MergedHigh(b) = b.off + b.size + y.size
            BY <2>2 DEF MergedHigh
        <3>2. y.size \in Nat
            BY <1>4, <1>6 DEF Block
        <3> QED BY <3>1, <3>2
    <2> QED BY <2>1, <2>2
<1>9. m.off = b.off - xs /\ m.size = xs + b.size + ys /\ m.size \in Nat
    BY <1>2, <1>3, <1>4, <1>7, <1>8
<1>10. m \notin D
    <2>1. Overlap(m, b)
        BY <1>2, <1>3, <1>4 DEF Overlap
    <2> HIDE DEF m
    <2> QED BY <1>4, <2>1 DEF Geometry, Apart
<1>11. still <=> \E x \in A \cup C : Adjacent(x, m)
    <2>1. m.off + m.size = MergedHigh(b)
        BY <1>2, <1>3
    <2> HIDE DEF m
    <2> QED BY <1>3, <2>1 DEF AllBlocks, Adjacent
<1> HIDE DEF X, Y, m, still
<1>12. PICK i, j, k, l : /\ i = Indicator(still) /\ j = Indicator(X # {})
                         /\ k = Indicator(Y # {}) /\ l = (IF still THEN m.size ELSE 0)
    OBVIOUS
<1>13. /\ CountsAs(m, A \cup C, i, l)
       /\ j = IF X = {} THEN 0 ELSE 1
       /\ k = IF Y = {} THEN 0 ELSE 1
    BY <1>11, <1>12 DEF CountsAs, Touched, Indicator
<1>14. /\ Measured(D \cup E)
       /\ Grows(SplitOf(A, C), SplitOf(D, E), i - j - k, l - (m.size - b.size))
    <2>1. Merges(b, C, X, Y, j, k, xs, ys, m)
        BY <1>3, <1>6, <1>7, <1>8, <1>9, <1>13 DEF Merges
    <2>2. j \in Nat /\ k \in Nat
        BY <1>13
    <2>3. MergeCase(A, C, segments, b, X, Y, j, k, xs, ys, m, D, E, i, l)
        BY <1>2, <1>4, <1>7, <1>8, <1>10, <1>13, <2>1, <2>2 DEF MergeCase
    <2> HIDE DEF A, C, D, E
    <2> QED BY <2>3, MergeTallies
<1>15. i \in Int /\ j \in Int /\ k \in Int /\ l \in Int
    BY <1>9, <1>13 DEF CountsAs
<1>19. Grows(A, D, -1, -b.size)
    <2>1. Measured(A)
        BY MeasuredSubset
    <2> QED BY <1>4, <2>1, LeaveTallies
<1>20. /\ Changed(st, change)["active"] = st["active"] - 1
       /\ Changed(st, change)["active_bytes"] = st["active_bytes"] - b.size
       /\ Changed(st, change)["inactive_split"] = st["inactive_split"] + (i - j - k)
       /\ Changed(st, change)["inactive_split_bytes"] =
             st["inactive_split_bytes"] + (l - (m.size - b.size))
       /\ \A n \in {"allocation", "allocated_bytes", "oversize_allocations", "segment",
                    "reserved_bytes", "oversize_segments"} : Changed(st, change)[n] = st[n]
    <2>1. change = [active |-> -1, active_bytes |-> -b.size, inactive_split |-> i - j - k,
                    inactive_split_bytes |-> l - (m.size - b.size)]
        BY <1>12
    <2> HIDE DEF change
    <2>2. \A n \in StatName : Changed(st, change)[n] =
              st[n] + (IF n \in DOMAIN change THEN change[n] ELSE 0)
        BY ChangedAt
    <2>3. \A n \in StatName : st[n] \in Int
        OBVIOUS
    <2>4. /\ Changed(st, change)["active"] = st["active"] - 1
          /\ Changed(st, change)["active_bytes"] = st["active_bytes"] - b.size
        BY <1>4, <2>1, <2>2, <2>3 DEF StatName
    <2>5. /\ Changed(st, change)["inactive_split"] = st["inactive_split"] + (i - j - k)
          /\ Changed(st, change)["inactive_split_bytes"] =
             st["inactive_split_bytes"] + (l - (m.size - b.size))
        BY <2>1, <2>2 DEF StatName
    <2>6. \A n \in {"allocation", "allocated_bytes", "oversize_allocations", "segment",
                    "reserved_bytes", "oversize_segments"} : Changed(st, change)[n] = st[n]
        BY <2>1, <2>2, <2>3 DEF StatName
    <2> QED BY <2>4, <2>5, <2>6
<1> HIDE DEF A, C, D, E, change
<1>21. LiveTallied(stats', D)
    BY <1>1, <1>20 DEF LiveTallied, A, D
<1>22. ActiveTallied(stats', D)
    <2>1. ActiveTallied(st, A)
        BY DEF A
    <2>2. Cardinality(A) \in Nat /\ Units(A) \in Nat
        BY MeasuredSubset DEF A
    <2> QED BY <1>1, <1>4, <1>19, <1>20, <2>1, <2>2 DEF ActiveTallied, Grows
<1>23. SplitTallied(stats', D, E)
    <2>1. SplitTallied(st, A, C)
        BY DEF A, C
    <2> QED BY <1>1, <1>14, <1>20, <2>1 DEF SplitTallied, Grows
<1> QED
    BY <1>1, <1>14, <1>20, <1>21, <1>22, <1>23 DEF BlocksTallied

\* What free takes from the statistics
FreedStats(b) ==
    Changed(stats, [allocation |-> -1, allocated_bytes |-> -b.size,
                    oversize_allocations |-> -Indicator(b.size >= MaxSplitSize)])

\* It is taken from the entries for live blocks.
LEMMA FreedFields ==
    ASSUME stats \in [StatName -> Int], NEW b \in Block
    PROVE  /\ FreedStats(b) \in [StatName -> Int]
           /\ FreedStats(b)["allocation"] = stats["allocation"] - 1
           /\ FreedStats(b)["allocated_bytes"] = stats["allocated_bytes"] - b.size
           /\ FreedStats(b)["oversize_allocations"] = stats["oversize_allocations"] - IsLarge(b)
           /\ \A n \in StatName \ {"allocation", "allocated_bytes", "oversize_allocations"} :
                 FreedStats(b)[n] = stats[n]
<1>1. PICK l \in Int : l = IsLarge(b)
    BY IndicatorType DEF IsLarge
<1> DEFINE change == [allocation |-> -1, allocated_bytes |-> -b.size, oversize_allocations |-> -l]
<1>2. FreedStats(b) = Changed(stats, change)
    BY <1>1 DEF FreedStats, IsLarge
<1>3. b.size \in Nat /\ \A n \in StatName : stats[n] \in Int
    BY DEF Block
<1>4. \A n \in DOMAIN change : change[n] \in Int
    BY <1>3
<1>5. \A n \in StatName : Changed(stats, change)[n] =
                             stats[n] + (IF n \in DOMAIN change THEN change[n] ELSE 0)
    BY ChangedAt
<1>6. /\ DOMAIN change = {"allocation", "allocated_bytes", "oversize_allocations"}
      /\ change["allocation"] = -1 /\ change["allocated_bytes"] = -b.size
      /\ change["oversize_allocations"] = -l
    OBVIOUS
<1> HIDE DEF change
<1>7. Changed(stats, change) \in [StatName -> Int]
    BY <1>4, ChangedType
<1>8. /\ Changed(stats, change)["allocation"] = stats["allocation"] - 1
      /\ Changed(stats, change)["allocated_bytes"] = stats["allocated_bytes"] - b.size
      /\ Changed(stats, change)["oversize_allocations"] = stats["oversize_allocations"] - l
    BY <1>3, <1>5, <1>6 DEF StatName
<1>9. \A n \in StatName \ {"allocation", "allocated_bytes", "oversize_allocations"} :
         Changed(stats, change)[n] = stats[n]
    BY <1>3, <1>5, <1>6
<1> QED
    BY <1>1, <1>2, <1>7, <1>8, <1>9

\* The names of the entries for segments, and for active and split blocks
SegmentNames == {"segment", "reserved_bytes", "oversize_segments"}

\* Entries for segments that do not change go on to say what they said.
LEMMA SegmentsStay ==
    ASSUME StatsInv, NEW st, \A n \in SegmentNames : st[n] = stats[n]
    PROVE  SegmentsTallied(st, total_allocated_memory, segments)
    BY DEF StatsInv, SegmentsTallied, SegmentNames

\* An active block whose state of use changes, to freed (with the statistics of free) or without
\* the caller's doing
LEMMA UseTallied ==
    ASSUME TypeOK, SafeState, StatsInv, NEW b \in active_blocks, NEW c \in Block,
           SameRange(b, c), NEW st, NEW D, D = (active_blocks \ {b}) \cup {c},
           \/ b.allocated = c.allocated /\ st = stats
           \/ b.allocated /\ ~c.allocated /\ st = FreedStats(b)
    PROVE  /\ BlocksTallied(st, D, cached_blocks)
           /\ \A n \in SegmentNames : st[n] = stats[n]
<1> DEFINE A == active_blocks
           C == cached_blocks
<1>1. /\ A \in SUBSET Block /\ C \in SUBSET Block /\ segments \in [Segments -> Nat]
      /\ Geometry(A \cup C, segments) /\ A \cap C = {} /\ Measured(A \cup C)
      /\ stats \in [StatName -> Int] /\ b \in Block /\ b.size \in Nat
      /\ b.allocated \in BOOLEAN /\ c.allocated \in BOOLEAN
    BY StateTypes DEF SafeState, Safe, StatsInv, BlocksTallied, TypeOK, Block
<1>2. b.allocated \/ ~c.allocated
    BY <1>1
<1>3. /\ Measured(D \cup C) /\ SplitOf(D, C) = SplitOf(A, C) /\ Grows(A, D, 0, 0)
      /\ b.allocated = c.allocated => /\ Grows(LiveOf(A), LiveOf(D), 0, 0)
                                      /\ Enlarges(LiveOf(A), LiveOf(D), 0)
      /\ b.allocated # c.allocated => /\ Grows(LiveOf(A), LiveOf(D), -1, -b.size)
                                      /\ Enlarges(LiveOf(A), LiveOf(D), -IsLarge(b))
    <2>1. UseCase(A, C, segments, b, c, D)
        BY <1>1, <1>2 DEF UseCase
    <2> HIDE DEF A, C
    <2> QED BY <2>1, UseTallies
<1>4. /\ Cardinality(A) \in Nat /\ Units(A) \in Nat
      /\ Cardinality(LiveOf(A)) \in Nat /\ Units(LiveOf(A)) \in Nat
      /\ Cardinality(Large(LiveOf(A))) \in Nat
    <2>1. A \in SUBSET (A \cup C) /\ LiveOf(A) \in SUBSET (A \cup C)
        BY DEF LiveOf
    <2> HIDE DEF A, C
    <2> QED BY <1>1, <2>1, MeasuredSubset
<1>5. LiveTallied(stats, A) /\ ActiveTallied(stats, A) /\ SplitTallied(stats, A, C)
    BY DEF StatsInv, BlocksTallied
<1> HIDE DEF A, C
<1>6. CASE b.allocated = c.allocated /\ st = stats
    <2>1. LiveTallied(st, D)
        BY <1>3, <1>4, <1>5, <1>6 DEF LiveTallied, Grows, Enlarges
    <2>2. ActiveTallied(st, D)
        BY <1>3, <1>4, <1>5, <1>6 DEF ActiveTallied, Grows
    <2>3. SplitTallied(st, D, C)
        BY <1>3, <1>5, <1>6 DEF SplitTallied
    <2> QED BY <1>3, <1>6, <2>1, <2>2, <2>3 DEF BlocksTallied, C
<1>7. CASE b.allocated /\ ~c.allocated /\ st = FreedStats(b)
    <2>1. /\ st["allocation"] = stats["allocation"] - 1
          /\ st["allocated_bytes"] = stats["allocated_bytes"] - b.size
          /\ st["oversize_allocations"] = stats["oversize_allocations"] - IsLarge(b)
          /\ \A n \in StatName \ {"allocation", "allocated_bytes", "oversize_allocations"} :
                st[n] = stats[n]
        BY <1>1, <1>7, FreedFields
    <2>2. /\ Grows(LiveOf(A), LiveOf(D), -1, -b.size)
          /\ Enlarges(LiveOf(A), LiveOf(D), -IsLarge(b))
        BY <1>3, <1>7
    <2>3. IsLarge(b) \in Int
        BY IndicatorType DEF IsLarge
    <2>4. LiveTallied(st, D)
        BY <1>1, <1>4, <1>5, <2>1, <2>2, <2>3 DEF LiveTallied, Grows, Enlarges
    <2>5. ActiveTallied(st, D)
        BY <1>3, <1>4, <1>5, <2>1 DEF ActiveTallied, Grows, StatName
    <2>6. SplitTallied(st, D, C)
        BY <1>3, <1>5, <2>1 DEF SplitTallied, StatName
    <2> QED BY <1>3, <2>1, <2>4, <2>5, <2>6 DEF BlocksTallied, C, StatName, SegmentNames
<1> QED
    BY <1>6, <1>7

\* The entries for live blocks without b are what free, or nothing if b is freed, makes of them.
LEMMA LiveWithout ==
    ASSUME TypeOK, SafeState, StatsInv, NEW b \in active_blocks, NEW st,
           (~b.allocated /\ st = stats) \/ (b.allocated /\ st = FreedStats(b))
    PROVE  /\ st \in [StatName -> Int]
           /\ Measured(active_blocks \cup cached_blocks)
           /\ LiveTallied(st, active_blocks \ {b}) /\ ActiveTallied(st, active_blocks)
           /\ SplitTallied(st, active_blocks, cached_blocks)
           /\ \A n \in SegmentNames : st[n] = stats[n]
<1> DEFINE A == active_blocks
           C == cached_blocks
<1>1. /\ A \in SUBSET Block /\ Measured(A \cup C)
      /\ stats \in [StatName -> Int] /\ b \in Block /\ b.size \in Nat
    BY StateTypes DEF StatsInv, BlocksTallied, TypeOK, Block
<1>2. LiveTallied(stats, A) /\ ActiveTallied(stats, A) /\ SplitTallied(stats, A, C)
    BY DEF StatsInv, BlocksTallied
<1>3. /\ Measured(A) /\ Measured(LiveOf(A))
      /\ Cardinality(LiveOf(A)) \in Nat /\ Units(LiveOf(A)) \in Nat
      /\ Cardinality(Large(LiveOf(A))) \in Nat
    <2>1. A \in SUBSET (A \cup C) /\ LiveOf(A) \in SUBSET (A \cup C)
        BY DEF LiveOf
    <2> HIDE DEF A, C
    <2> QED BY <1>1, <2>1, MeasuredSubset
<1>4. /\ b.allocated => /\ Grows(LiveOf(A), LiveOf(A \ {b}), -1, -b.size)
                        /\ Enlarges(LiveOf(A), LiveOf(A \ {b}), -IsLarge(b))
      /\ ~b.allocated => LiveOf(A \ {b}) = LiveOf(A)
    BY <1>1, <1>3, LeaveTallies
<1>5. CASE ~b.allocated /\ st = stats
    <2>1. LiveOf(A \ {b}) = LiveOf(A)
        BY <1>4, <1>5
    <2>2. LiveTallied(stats, A \ {b})
        BY <1>2, <2>1 DEF LiveTallied
    <2> QED BY <1>1, <1>2, <1>5, <2>2
<1>6. CASE b.allocated /\ st = FreedStats(b)
    <2>1. /\ st \in [StatName -> Int]
          /\ st["allocation"] = stats["allocation"] - 1
          /\ st["allocated_bytes"] = stats["allocated_bytes"] - b.size
          /\ st["oversize_allocations"] = stats["oversize_allocations"] - IsLarge(b)
          /\ \A n \in StatName \ {"allocation", "allocated_bytes", "oversize_allocations"} :
                st[n] = stats[n]
        BY <1>1, <1>6, FreedFields
    <2>2. /\ Grows(LiveOf(A), LiveOf(A \ {b}), -1, -b.size)
          /\ Enlarges(LiveOf(A), LiveOf(A \ {b}), -IsLarge(b))
        BY <1>4, <1>6
    <2>3. IsLarge(b) \in Int
        BY IndicatorType DEF IsLarge
    <2>4. LiveTallied(st, A \ {b})
        BY <1>1, <1>2, <1>3, <2>1, <2>2, <2>3 DEF LiveTallied, Grows, Enlarges
    <2>5. ActiveTallied(st, A) /\ SplitTallied(st, A, C) /\ \A n \in SegmentNames : st[n] = stats[n]
        BY <1>2, <2>1 DEF ActiveTallied, SplitTallied, StatName, SegmentNames
    <2> QED BY <1>1, <2>1, <2>4, <2>5
<1> QED
    BY <1>5, <1>6

\* The step keeps what the statistics say of the blocks, and touches no segment.
BlocksStep ==
    /\ BlocksTallied(stats', active_blocks', cached_blocks')
    /\ \A n \in SegmentNames : stats'[n] = stats[n]

\* The invariant holds after it.
LEMMA BlocksStepTallied ==
    ASSUME StatsInv, BlocksStep, UNCHANGED <<segments, total_allocated_memory>>
    PROVE  StatsInv'
<1>1. SegmentsTallied(stats', total_allocated_memory, segments)
    BY SegmentsStay DEF BlocksStep
<1>2. SegmentsTallied(stats', total_allocated_memory', segments')
    BY <1>1
<1> QED
    BY <1>2 DEF StatsInv, BlocksStep

\* A block whose last use is over goes back to the cache.
LEMMA ReturnTallied ==
    ASSUME TypeOK, SafeState, StatsInv, NEW b \in active_blocks, NEW st,
           (~b.allocated /\ st = stats) \/ (b.allocated /\ st = FreedStats(b)),
           free_block(b, st)
    PROVE  BlocksStep
<1>1. /\ st \in [StatName -> Int]
      /\ Measured(active_blocks \cup cached_blocks)
      /\ LiveTallied(st, active_blocks \ {b}) /\ ActiveTallied(st, active_blocks)
      /\ SplitTallied(st, active_blocks, cached_blocks)
      /\ \A n \in SegmentNames : st[n] = stats[n]
    BY LiveWithout
<1>2. /\ BlocksTallied(stats', active_blocks', cached_blocks')
      /\ \A n \in {"segment", "reserved_bytes", "oversize_segments"} : stats'[n] = st[n]
    BY <1>1, FreeBlockTallied
<1> QED
    BY <1>1, <1>2 DEF BlocksStep, SegmentNames

\* An event of a freed block completes.
LEMMA CompleteTallied ==
    ASSUME TypeOK, SafeState, StatsInv, NEW b \in active_blocks, ~b.allocated, complete_event(b)
    PROVE  BlocksStep
<1>1. CASE b.event_count = 1
    BY <1>1, ReturnTallied DEF complete_event
<1>2. CASE b.event_count # 1
    <2> DEFINE c == WithUse(b, b.allocated, b.stream_uses, b.event_count - 1)
    <2>1. active_blocks' = (active_blocks \ {b}) \cup {c} /\ UNCHANGED <<cached_blocks, stats>>
        BY <1>2 DEF complete_event
    <2>2. c \in Block /\ SameRange(b, c) /\ b.allocated = c.allocated
        <3>1. b \in Block /\ b.allocated \in BOOLEAN /\ b.stream_uses \in SUBSET Streams
              /\ b.event_count - 1 \in Int
            BY StateTypes DEF Block
        <3> QED BY <3>1, WithUseType DEF SameRange
    <2> HIDE DEF c
    <2>3. /\ BlocksTallied(stats, active_blocks', cached_blocks)
          /\ \A n \in SegmentNames : stats[n] = stats[n]
        BY <2>1, <2>2, UseTallied
    <2> QED BY <2>1, <2>3 DEF BlocksStep
<1> QED
    BY <1>1, <1>2

\* insert_events
LEMMA InsertTallied ==
    ASSUME TypeOK, SafeState, StatsInv, NEW b \in active_blocks, insert_events(b),
           UNCHANGED cached_blocks, NEW st, stats' = st,
           (~b.allocated /\ st = stats) \/ (b.allocated /\ st = FreedStats(b))
    PROVE  BlocksStep
<1> DEFINE n == b.event_count + Cardinality(b.stream_uses)
           c == WithUse(b, FALSE, {}, n)
<1>1. active_blocks' = (active_blocks \ {b}) \cup {c}
    BY DEF insert_events
<1>2. b \in Block /\ b.allocated \in BOOLEAN /\ n \in Int
    BY UsesCount, StateTypes DEF Block
<1>3. c \in Block /\ SameRange(b, c) /\ c.allocated = FALSE
    <2> HIDE DEF n
    <2>1. c \in Block
        BY <1>2, WithUseType
    <2>2. SameRange(b, c) /\ c.allocated = FALSE
        BY DEF WithUse, SameRange
    <2> QED BY <2>1, <2>2
<1> HIDE DEF c
<1>4. /\ BlocksTallied(st, active_blocks', cached_blocks)
      /\ \A i \in SegmentNames : st[i] = stats[i]
    BY <1>1, <1>2, <1>3, UseTallied
<1> QED
    BY <1>4 DEF BlocksStep

\* free and the callbacks
LEMMA DoFreeTallied ==
    ASSUME TypeOK, SafeState, StatsInv, NEW b \in active_blocks, b.allocated, do_free(b)
    PROVE  BlocksStep
<1>1. CASE b.stream_uses # {} /\ captures_underway # <<>>
    <2> DEFINE c == WithUse(b, FALSE, b.stream_uses, b.event_count)
    <2>1. active_blocks' = (active_blocks \ {b}) \cup {c} /\ stats' = FreedStats(b)
          /\ UNCHANGED cached_blocks
        BY <1>1 DEF do_free, FreedStats
    <2>2. c \in Block /\ SameRange(b, c) /\ c.allocated = FALSE
        <3>1. b \in Block /\ b.stream_uses \in SUBSET Streams /\ b.event_count \in Int
            BY StateTypes DEF Block
        <3>2. c \in Block
            BY <3>1, WithUseType
        <3>3. SameRange(b, c) /\ c.allocated = FALSE
            BY DEF WithUse, SameRange
        <3> QED BY <3>2, <3>3
    <2> HIDE DEF c
    <2>3. PICK st : st = FreedStats(b)
        OBVIOUS
    <2>4. /\ BlocksTallied(st, active_blocks', cached_blocks)
          /\ \A n \in SegmentNames : st[n] = stats[n]
        BY <2>1, <2>2, <2>3, UseTallied
    <2> QED BY <2>1, <2>3, <2>4 DEF BlocksStep
<1>2. CASE b.stream_uses # {} /\ captures_underway = <<>>
    <2>1. insert_events(b) /\ stats' = FreedStats(b) /\ UNCHANGED cached_blocks
        BY <1>2 DEF do_free, FreedStats
    <2> QED BY <2>1, InsertTallied
<1>3. CASE b.stream_uses = {}
    <2>1. free_block(b, FreedStats(b))
        BY <1>3 DEF do_free, FreedStats
    <2> QED BY <2>1, ReturnTallied
<1> QED
    BY <1>1, <1>2, <1>3

\* What alloc_found_block adds to the statistics for a block of size units, with split and
\* split_bytes those of inactive_split and inactive_split_bytes
TakenChange(size, split, split_bytes) ==
    [allocation |-> 1, allocated_bytes |-> size, active |-> 1, active_bytes |-> size,
     oversize_allocations |-> Indicator(size >= MaxSplitSize),
     inactive_split |-> split, inactive_split_bytes |-> split_bytes]

TakenFrom(st, t, i, l, after) ==
    /\ st \in [StatName -> Int] /\ t.size \in Nat /\ i \in Int /\ l \in Int
    /\ after = Changed(st, TakenChange(t.size, i, l))

LEMMA TakenFields ==
    ASSUME NEW st, NEW t, NEW i, NEW l, NEW after, TakenFrom(st, t, i, l, after)
    PROVE  /\ after["allocation"] = st["allocation"] + 1
           /\ after["allocated_bytes"] = st["allocated_bytes"] + t.size
           /\ after["oversize_allocations"] = st["oversize_allocations"] + IsLarge(t)
           /\ after["active"] = st["active"] + 1
           /\ after["active_bytes"] = st["active_bytes"] + t.size
           /\ after["inactive_split"] = st["inactive_split"] + i
           /\ after["inactive_split_bytes"] = st["inactive_split_bytes"] + l
           /\ \A n \in SegmentNames : after[n] = st[n]
<1>0. /\ st \in [StatName -> Int] /\ t.size \in Nat /\ i \in Int /\ l \in Int
      /\ after = Changed(st, TakenChange(t.size, i, l))
    BY DEF TakenFrom
<1> USE <1>0
<1> DEFINE change == TakenChange(t.size, i, l)
<1>1. PICK o \in Int : o = IsLarge(t)
    BY IndicatorType DEF IsLarge
<1>2. /\ DOMAIN change = {"allocation", "allocated_bytes", "active", "active_bytes",
                          "oversize_allocations", "inactive_split", "inactive_split_bytes"}
      /\ change["allocation"] = 1 /\ change["allocated_bytes"] = t.size
      /\ change["active"] = 1 /\ change["active_bytes"] = t.size
      /\ change["inactive_split"] = i /\ change["inactive_split_bytes"] = l
      /\ change["oversize_allocations"] = o
    BY <1>1 DEF TakenChange, IsLarge
<1>3. \A n \in StatName : after[n] = st[n] + (IF n \in DOMAIN change THEN change[n] ELSE 0)
    BY ChangedAt
<1>4. \A n \in StatName : st[n] \in Int
    OBVIOUS
<1> HIDE DEF change
<1>5. /\ after["allocation"] = st["allocation"] + 1
      /\ after["allocated_bytes"] = st["allocated_bytes"] + t.size
      /\ after["oversize_allocations"] = st["oversize_allocations"] + o
    BY <1>2, <1>3 DEF StatName
<1>6. /\ after["active"] = st["active"] + 1
      /\ after["active_bytes"] = st["active_bytes"] + t.size
      /\ after["inactive_split"] = st["inactive_split"] + i
      /\ after["inactive_split_bytes"] = st["inactive_split_bytes"] + l
    BY <1>2, <1>3 DEF StatName
<1>7. \A n \in SegmentNames : after[n] = st[n]
    BY <1>2, <1>3, <1>4 DEF StatName, SegmentNames
<1> QED
    BY <1>1, <1>5, <1>6, <1>7

\* t, the whole or the first part of the cached block b, becomes active; D and E are then the
\* active and the cached blocks, and the split blocks are i more, of l more units.
TakeCase(A, C, sz, b, t, D, E, i, l) ==
    /\ A \in SUBSET Block /\ C \in SUBSET Block /\ sz \in [Segments -> Nat]
    /\ Geometry(A \cup C, sz) /\ A \cap C = {} /\ Measured(A \cup C)
    /\ b \in C /\ t \in Block /\ t.allocated /\ D = A \cup {t}
    /\ \E j, n \in Nat :
          /\ CountsAs(b, A \cup C, j, n)
          /\ \/ SameRange(b, t) /\ E = C \ {b} /\ i = -j /\ l = -n
             \/ \E r \in Block : /\ CutsInto(b, t, r) /\ E = (C \ {b}) \cup {r}
                                 /\ i = 1 - j /\ l = r.size - n

\* The tallies follow.
LEMMA TakeTallies ==
    ASSUME NEW A, NEW C, NEW sz, NEW b, NEW t, NEW D, NEW E, NEW i, NEW l,
           TakeCase(A, C, sz, b, t, D, E, i, l)
    PROVE  /\ Measured(D \cup E) /\ Grows(SplitOf(A, C), SplitOf(D, E), i, l)
           /\ Grows(A, D, 1, t.size) /\ Grows(LiveOf(A), LiveOf(D), 1, t.size)
           /\ Enlarges(LiveOf(A), LiveOf(D), IsLarge(t))
<1>1. /\ A \in SUBSET Block /\ C \in SUBSET Block /\ sz \in [Segments -> Nat]
      /\ Geometry(A \cup C, sz) /\ A \cap C = {} /\ Measured(A \cup C)
      /\ b \in C /\ t \in Block /\ t.allocated /\ D = A \cup {t}
    BY DEF TakeCase
<1>2. PICK j \in Nat, n \in Nat :
          /\ CountsAs(b, A \cup C, j, n)
          /\ \/ SameRange(b, t) /\ E = C \ {b} /\ i = -j /\ l = -n
             \/ \E r \in Block : /\ CutsInto(b, t, r) /\ E = (C \ {b}) \cup {r}
                                 /\ i = 1 - j /\ l = r.size - n
    BY DEF TakeCase
<1>3. Measured(D \cup E) /\ Grows(SplitOf(A, C), SplitOf(D, E), i, l)
    <2>1. CASE SameRange(b, t) /\ E = C \ {b} /\ i = -j /\ l = -n
        BY <1>1, <1>2, <2>1, TakeWhole
    <2>2. ASSUME NEW r \in Block, CutsInto(b, t, r), E = (C \ {b}) \cup {r},
                 i = 1 - j, l = r.size - n
          PROVE  Measured(D \cup E) /\ Grows(SplitOf(A, C), SplitOf(D, E), i, l)
        BY <1>1, <1>2, <2>2, TakePart
    <2> QED BY <1>2, <2>1, <2>2
<1>4. /\ b \in Block /\ b.off \in Nat /\ b.size \in Nat /\ b.size > 0
      /\ t.off \in Nat /\ t.size \in Nat
      /\ t.seg = b.seg /\ t.off = b.off /\ t.size > 0 /\ t.size <= b.size
    <2>1. b \in Block /\ b.size > 0
        BY <1>1 DEF Geometry, Within
    <2>2. CASE SameRange(b, t)
        BY <1>1, <2>1, <2>2 DEF SameRange, Block
    <2>3. ASSUME NEW r \in Block, CutsInto(b, t, r)
          PROVE  t.seg = b.seg /\ t.off = b.off /\ t.size > 0 /\ t.size <= b.size
        BY <1>1, <2>1, <2>3 DEF CutsInto, Block
    <2> QED BY <1>1, <1>2, <2>1, <2>2, <2>3 DEF Block
<1>5. t \notin A /\ \A y \in A : ~Overlap(t, y) /\ ~Overlap(y, t)
    <2>1. ASSUME NEW y \in A PROVE ~Overlap(t, y) /\ ~Overlap(y, t)
        <3>1. ~Overlap(b, y) /\ ~Overlap(y, b) /\ y.off \in Nat /\ y.size \in Nat
            BY <1>1 DEF Geometry, Apart, Block
        <3> QED BY <1>4, <3>1 DEF Overlap
    <2>2. Overlap(t, t)
        BY <1>4 DEF Overlap
    <2> QED BY <2>1, <2>2
<1>6. Measured(A)
    <2>1. A \in SUBSET (A \cup C)
        OBVIOUS
    <2> QED BY <1>1, <2>1, MeasuredSubset
<1>7. /\ Grows(A, A \cup {t}, 1, t.size)
      /\ Grows(LiveOf(A), LiveOf(A \cup {t}), 1, t.size)
      /\ Enlarges(LiveOf(A), LiveOf(A \cup {t}), IsLarge(t))
    BY <1>1, <1>4, <1>5, <1>6, JoinTallies
<1> QED
    BY <1>1, <1>3, <1>7

\* alloc_found_block: b, of the cache C, is handed out.
LEMMA AllocFoundTallied ==
    ASSUME TypeOK, op \in MallocOp, op.size > 0, NEW C \in SUBSET Block,
           NEW sz \in [Segments -> Nat], Geometry(active_blocks \cup C, sz),
           active_blocks \cap C = {}, NEW st \in [StatName -> Int],
           BlocksTallied(st, active_blocks, C), NEW b \in C, C \ {b} = cached_blocks \ {b},
           b.size >= op.size, is_split(b) <=> Touched(b, active_blocks \cup C),
           alloc_found_block(b, st)
    PROVE  /\ BlocksTallied(stats', active_blocks', cached_blocks')
           /\ \A n \in SegmentNames : stats'[n] = st[n]
<1> DEFINE A == active_blocks
           split == should_split(b.size, op.size, op.pool.small)
           size == IF split THEN op.size ELSE b.size
           t == WithUse(NewBlock(b.seg, b.off, size, b.stream, b.pool), TRUE, {}, 0)
           r == NewBlock(b.seg, b.off + op.size, b.size - op.size, b.stream, b.pool)
           D == A \cup {t}
           E == (C \ {b}) \cup (IF split THEN {r} ELSE {})
<1>1. PICK i, l : /\ i = split_change(b, split)
                  /\ l = (IF split THEN b.size - op.size ELSE 0)
                         - (IF is_split(b) THEN b.size ELSE 0)
    OBVIOUS
<1>2. active_blocks' = D /\ cached_blocks' = E /\ stats' = Changed(st, TakenChange(t.size, i, l))
    BY <1>1 DEF alloc_found_block, TakenChange
<1>3. /\ op.size \in Nat /\ b.size \in Nat /\ b.off \in Nat
      /\ b.seg \in Segments /\ b.stream \in Streams /\ b.pool \in Pools
      /\ A \in SUBSET Block
    BY DEF MallocOp, Block, TypeOK
<1>4. split => b.size - op.size > 0
    BY <1>3, SizeAssumption DEF should_split
<1>5. size \in Nat /\ (split => size = op.size) /\ (~split => size = b.size)
    BY <1>3
<1>6. PICK j \in Nat, n \in Nat : /\ CountsAs(b, A \cup C, j, n)
                                  /\ j = Indicator(is_split(b))
                                  /\ n = (IF is_split(b) THEN b.size ELSE 0)
    <2>1. CASE is_split(b)
        BY <1>3, <2>1 DEF CountsAs, Indicator
    <2>2. CASE ~is_split(b)
        BY <2>2 DEF CountsAs, Indicator
    <2> QED BY <2>1, <2>2
<1>7. /\ split => i = 1 - j /\ l = b.size - op.size - n
      /\ ~split => i = -j /\ l = -n
    BY <1>1, <1>3, <1>6 DEF split_change, Indicator
<1> HIDE DEF split
<1>8. /\ t \in Block /\ t.seg = b.seg /\ t.off = b.off /\ t.size = size
      /\ t.stream = b.stream /\ t.pool = b.pool /\ t.allocated = TRUE
    <2> HIDE DEF size
    <2>1. PICK new : new = NewBlock(b.seg, b.off, size, b.stream, b.pool)
        OBVIOUS
    <2>2. /\ new \in Block /\ new.seg = b.seg /\ new.off = b.off /\ new.size = size
          /\ new.stream = b.stream /\ new.pool = b.pool
        BY <1>3, <1>5, <2>1 DEF NewBlock, Block
    <2>3. t = WithUse(new, TRUE, {}, 0)
        BY <2>1
    <2> QED BY <2>2, <2>3 DEF WithUse, Block
<1>9. split => CutsInto(b, t, r) /\ r \in Block /\ r.size = b.size - op.size
    <2> SUFFICES ASSUME split PROVE CutsInto(b, t, r) /\ r \in Block /\ r.size = b.size - op.size
        OBVIOUS
    <2>1. b.size - op.size \in Nat /\ b.off + op.size \in Nat /\ b.size - op.size > 0
        BY <1>3, <1>4
    <2>2. /\ r \in Block /\ r.seg = b.seg /\ r.off = b.off + op.size
          /\ r.size = b.size - op.size /\ r.stream = b.stream /\ r.pool = b.pool
        BY <1>3, <2>1 DEF NewBlock, Block
    <2>3. t.size = op.size
        BY <1>5, <1>8
    <2> HIDE DEF t, r
    <2> QED BY <1>3, <1>8, <2>1, <2>2, <2>3 DEF CutsInto
<1>10. ~split => SameRange(b, t)
    BY <1>5, <1>8 DEF SameRange
<1> HIDE DEF t, r, size
<1>11. TakeCase(A, C, sz, b, t, D, E, i, l)
    <2>1. Measured(A \cup C)
        BY DEF BlocksTallied
    <2>2. \/ SameRange(b, t) /\ E = C \ {b} /\ i = -j /\ l = -n
          \/ \E s \in Block : /\ CutsInto(b, t, s) /\ E = (C \ {b}) \cup {s}
                              /\ i = 1 - j /\ l = s.size - n
        <3>1. CASE split
            <4>1. CutsInto(b, t, r) /\ E = (C \ {b}) \cup {r} /\ i = 1 - j /\ l = r.size - n
                BY <1>7, <1>9, <3>1
            <4> QED BY <1>9, <3>1, <4>1
        <3>2. CASE ~split
            BY <1>7, <1>10, <3>2
        <3> QED BY <3>1, <3>2
    <2> HIDE DEF E
    <2> QED BY <1>3, <1>6, <1>8, <2>1, <2>2 DEF TakeCase
<1> HIDE DEF A, D, E
<1>12. /\ Measured(D \cup E) /\ Grows(SplitOf(A, C), SplitOf(D, E), i, l)
       /\ Grows(A, D, 1, t.size) /\ Grows(LiveOf(A), LiveOf(D), 1, t.size)
       /\ Enlarges(LiveOf(A), LiveOf(D), IsLarge(t))
    BY <1>11, TakeTallies
<1>13. LiveTallied(st, A) /\ ActiveTallied(st, A) /\ SplitTallied(st, A, C)
    BY DEF BlocksTallied, A
<1>14. PICK after : after = Changed(st, TakenChange(t.size, i, l))
    OBVIOUS
<1>15. /\ after["allocation"] = st["allocation"] + 1
       /\ after["allocated_bytes"] = st["allocated_bytes"] + t.size
       /\ after["oversize_allocations"] = st["oversize_allocations"] + IsLarge(t)
       /\ after["active"] = st["active"] + 1
       /\ after["active_bytes"] = st["active_bytes"] + t.size
       /\ after["inactive_split"] = st["inactive_split"] + i
       /\ after["inactive_split_bytes"] = st["inactive_split_bytes"] + l
       /\ \A k \in SegmentNames : after[k] = st[k]
    <2>1. i \in Int /\ l \in Int
        <3>1. CASE split
            BY <1>3, <1>7, <3>1
        <3>2. CASE ~split
            BY <1>7, <3>2
        <3> QED BY <3>1, <3>2
    <2>2. t.size \in Nat
        BY <1>5, <1>8
    <2>3. TakenFrom(st, t, i, l, after)
        BY <1>14, <2>1, <2>2 DEF TakenFrom
    <2> QED BY <2>3, TakenFields
<1>16. LiveTallied(after, D)
    BY <1>12, <1>13, <1>15 DEF LiveTallied, Grows, Enlarges
<1>17. ActiveTallied(after, D) /\ SplitTallied(after, D, E)
    BY <1>12, <1>13, <1>15 DEF ActiveTallied, SplitTallied, Grows
<1>18. BlocksTallied(after, D, E)
    BY <1>12, <1>16, <1>17 DEF BlocksTallied
<1> QED
    BY <1>2, <1>14, <1>15, <1>18

\* Changes to the entries for segments: c segments of n units in all, l of them oversize
SegmentChange(c, n, l) == [segment |-> c, reserved_bytes |-> n, oversize_segments |-> l]

SegmentsFrom(st, c, n, l, after) ==
    /\ st \in [StatName -> Int] /\ c \in Int /\ n \in Int /\ l \in Int
    /\ after = Changed(st, SegmentChange(c, n, l))

LEMMA SegmentFields ==
    ASSUME NEW st, NEW c, NEW n, NEW l, NEW after, SegmentsFrom(st, c, n, l, after)
    PROVE  /\ after \in [StatName -> Int]
           /\ after["segment"] = st["segment"] + c
           /\ after["reserved_bytes"] = st["reserved_bytes"] + n
           /\ after["oversize_segments"] = st["oversize_segments"] + l
           /\ \A i \in StatName \ SegmentNames : after[i] = st[i]
<1>0. /\ st \in [StatName -> Int] /\ c \in Int /\ n \in Int /\ l \in Int
      /\ after = Changed(st, SegmentChange(c, n, l))
    BY DEF SegmentsFrom
<1> DEFINE change == SegmentChange(c, n, l)
<1>1. /\ DOMAIN change = SegmentNames /\ change["segment"] = c
      /\ change["reserved_bytes"] = n /\ change["oversize_segments"] = l
    BY DEF SegmentChange, SegmentNames
<1>2. \A i \in StatName : after[i] = st[i] + (IF i \in DOMAIN change THEN change[i] ELSE 0)
    BY <1>0, ChangedAt
<1>3. \A i \in StatName : st[i] \in Int
    BY <1>0
<1>4. \A i \in DOMAIN change : change[i] \in Int
    BY <1>0, <1>1 DEF SegmentNames
<1> HIDE DEF change
<1>5. after \in [StatName -> Int]
    BY <1>0, <1>4, ChangedType DEF change
<1>6. /\ after["segment"] = st["segment"] + c
      /\ after["reserved_bytes"] = st["reserved_bytes"] + n
      /\ after["oversize_segments"] = st["oversize_segments"] + l
    BY <1>1, <1>2 DEF StatName, SegmentNames
<1>7. \A i \in StatName \ SegmentNames : after[i] = st[i]
    BY <1>1, <1>2, <1>3
<1> QED
    BY <1>5, <1>6, <1>7

\* What the statistics say of blocks does not depend on the entries for segments.
LEMMA BlocksStay ==
    ASSUME NEW st, NEW after, NEW A, NEW C, BlocksTallied(st, A, C),
           \A i \in StatName \ SegmentNames : after[i] = st[i]
    PROVE  BlocksTallied(after, A, C)
    BY DEF BlocksTallied, LiveTallied, ActiveTallied, SplitTallied, StatName, SegmentNames

\* What they say of segments, after a change by one segment
SegmentsCase(st, tot, sz, tz, c, n, l, after) ==
    /\ SegmentsTallied(st, tot, sz) /\ SegmentsFrom(st, c, n, l, after)
    /\ Measured(RangesOf(tz)) /\ Grows(RangesOf(sz), RangesOf(tz), c, n)
    /\ Enlarges(RangesOf(sz), RangesOf(tz), l)

LEMMA SegmentsChange ==
    ASSUME NEW st, NEW tot, NEW sz, NEW tz, NEW c, NEW n, NEW l, NEW after,
           SegmentsCase(st, tot, sz, tz, c, n, l, after)
    PROVE  SegmentsTallied(after, tot + n, tz)
<1>1. /\ SegmentsTallied(st, tot, sz) /\ SegmentsFrom(st, c, n, l, after)
      /\ Measured(RangesOf(tz)) /\ Grows(RangesOf(sz), RangesOf(tz), c, n)
      /\ Enlarges(RangesOf(sz), RangesOf(tz), l)
    BY DEF SegmentsCase
<1>2. /\ after["segment"] = st["segment"] + c
      /\ after["reserved_bytes"] = st["reserved_bytes"] + n
      /\ after["oversize_segments"] = st["oversize_segments"] + l
    BY <1>1, SegmentFields
<1> QED
    BY <1>1, <1>2 DEF SegmentsTallied, Grows, Enlarges

\* release_block: the block that goes is the whole of its segment.
LEMMA ReleaseTallied ==
    ASSUME TypeOK, SafeState, StatsInv, NEW b \in cached_blocks,
           ~is_split(b) \/ b.size >= MaxSplitSize, release_block(b)
    PROVE  StatsInv'
<1> DEFINE A == active_blocks
           C == cached_blocks
           B == A \cup C
<1>1. /\ B \in SUBSET Block /\ Geometry(B, segments) /\ A \cap C = {}
      /\ b \in Block /\ b.off \in Nat /\ b.size \in Nat
      /\ segments \in [Segments -> Nat] /\ stats \in [StatName -> Int]
      /\ total_allocated_memory \in Int
    BY StateTypes DEF SafeState, Safe, TypeOK, Block
<1>2. \A c \in B : c.seg = b.seg => c = b
    <2>1. ASSUME NEW G, G = B, NEW sz, sz = segments, NEW c \in G, c.seg = b.seg
          PROVE  c = b
        <3>1. G \in SUBSET Block /\ Geometry(G, sz) /\ b \in G /\ sz \in [Segments -> Nat]
            BY <1>1, <2>1
        <3>2. CASE b.size >= MaxSplitSize
            BY <2>1, <3>1, <3>2, OversizeAlone
        <3>3. CASE ~is_split(b)
            <4>1. /\ ~ \E x \in G : x.seg = b.seg /\ x.off + x.size = b.off
                  /\ ~ \E x \in G : x.seg = b.seg /\ b.off + b.size = x.off
                BY <2>1, <3>3 DEF is_split, PrevOf, NextOf, AllBlocks
            <4> QED BY <2>1, <3>1, <4>1, UnsplitAlone
        <3> QED BY <3>2, <3>3
    <2> QED BY <2>1
<1>3. PICK l \in Int : l = -Indicator(b.size >= MaxSplitSize)
    <2>1. Indicator(b.size >= MaxSplitSize) \in Int
        BY IndicatorType
    <2> QED BY <2>1
<1>4. /\ cached_blocks' = C \ {b} /\ active_blocks' = A
      /\ segments' = [segments EXCEPT ![b.seg] = 0]
      /\ total_allocated_memory' = total_allocated_memory - b.size
      /\ stats' = Changed(stats, SegmentChange(-1, -b.size, l))
    BY <1>3 DEF release_block, SegmentChange
<1>5. b.seg \in Segments /\ b.off = 0 /\ b.size = segments[b.seg] /\ b.size > 0
    <2>1. b \in B
        OBVIOUS
    <2> HIDE DEF B
    <2> QED BY <1>1, <1>2, <2>1, AloneWhole
<1>6. PICK after : after = Changed(stats, SegmentChange(-1, -b.size, l))
    OBVIOUS
<1>7. SegmentsFrom(stats, -1, -b.size, l, after)
    BY <1>1, <1>3, <1>6 DEF SegmentsFrom
<1>8. \A i \in StatName \ SegmentNames : after[i] = stats[i]
    BY <1>7, SegmentFields
<1>9. BlocksTallied(after, A, C \ {b})
    <2>1. BlocksTallied(after, A, C)
        BY <1>8, BlocksStay DEF StatsInv
    <2>2. SplitOf(A, C \cup {b}) = SplitOf(A, C \ {b})
        <3>1. b \notin A
            BY <1>1
        <3> QED BY <1>1, <1>2, <1>5, <3>1, AloneTallies
    <2>3. C \cup {b} = C
        OBVIOUS
    <2>4. SplitOf(A, C) = SplitOf(A, C \ {b})
        BY <2>2, <2>3
    <2>5. Measured(A \cup (C \ {b}))
        <3>1. Measured(B)
            BY <2>1 DEF BlocksTallied
        <3>2. A \cup (C \ {b}) \in SUBSET B
            OBVIOUS
        <3> QED BY <3>1, <3>2, MeasuredSubset
    <2> QED BY <2>1, <2>4, <2>5 DEF BlocksTallied, SplitTallied
<1>10. PICK tz : tz = [segments EXCEPT ![b.seg] = 0]
    OBVIOUS
<1>11. SegmentsCase(stats, total_allocated_memory, segments, tz, -1, -b.size, l, after)
    <2>1. SegmentsTallied(stats, total_allocated_memory, segments)
        BY DEF StatsInv
    <2>2. Measured(RangesOf(segments))
        BY <2>1 DEF SegmentsTallied
    <2>3. /\ Measured(RangesOf(tz)) /\ Grows(RangesOf(segments), RangesOf(tz), -1, -b.size)
          /\ Enlarges(RangesOf(segments), RangesOf(tz), -Indicator(b.size >= MaxSplitSize))
        BY <1>1, <1>5, <1>10, <2>2, DropRanges
    <2>4. Enlarges(RangesOf(segments), RangesOf(tz), l)
        BY <1>3, <2>3
    <2> QED BY <1>7, <2>1, <2>3, <2>4 DEF SegmentsCase
<1>12. SegmentsTallied(after, total_allocated_memory + (-b.size), tz)
    BY <1>11, SegmentsChange
<1>13. total_allocated_memory' = total_allocated_memory + (-b.size)
    BY <1>1, <1>4
<1> QED
    BY <1>4, <1>6, <1>9, <1>10, <1>12, <1>13 DEF StatsInv

\* get_free_block
LEMMA FoundTallied ==
    ASSUME TypeOK, SafeAll, StatsInv, get_free_block
    PROVE  StatsInv'
<1>1. op \in MallocOp /\ op.size > 0
    BY MallocLocals DEF get_free_block, MallocPhases, MallocOp
<1>2. PICK b \in BestFit : alloc_found_block(b, stats)
    BY DEF get_free_block
<1>3. b \in cached_blocks /\ b.size >= op.size
    BY <1>2 DEF BestFit
<1>4. /\ cached_blocks \in SUBSET Block /\ segments \in [Segments -> Nat]
      /\ Geometry(active_blocks \cup cached_blocks, segments)
      /\ active_blocks \cap cached_blocks = {} /\ stats \in [StatName -> Int]
      /\ BlocksTallied(stats, active_blocks, cached_blocks)
    BY StateTypes DEF SafeAll, SafeState, Safe, TypeOK, StatsInv
<1>5. is_split(b) <=> Touched(b, active_blocks \cup cached_blocks)
    BY DEF is_split, PrevOf, NextOf, AllBlocks, Touched, Adjacent
<1>6. BlocksStep
    BY <1>1, <1>2, <1>3, <1>4, <1>5, AllocFoundTallied DEF BlocksStep
<1> QED
    BY <1>6, BlocksStepTallied DEF get_free_block

\* alloc_block
LEMMA AllocBlockTallied ==
    ASSUME TypeOK, SafeAll, StatsInv, NEW g \in Segments, alloc_block(g)
    PROVE  StatsInv'
<1> DEFINE A == active_blocks
           C == cached_blocks
<1>1. PICK n : n = NewBlock(g, 0, op.alloc_size, op.stream, op.pool)
    OBVIOUS
<1>2. /\ op \in MallocOp /\ op.size \in Nat /\ op.size > 0 /\ op.alloc_size \in Nat
      /\ n \in Block /\ n.seg = g /\ n.off = 0 /\ n.size = op.alloc_size
      /\ n.size >= op.size /\ n \notin C
      /\ segments[g] = 0 /\ segments' = [segments EXCEPT ![g] = n.size]
      /\ segments' \in [Segments -> Nat]
      /\ Safe(A, C \cup {n}, segments', Queued(supa_events), Entries(deferred), kernels)
    BY <1>1, NewSegment
<1>3. PICK l \in Int : l = Indicator(n.size >= MaxSplitSize)
    BY IndicatorType
<1>4. PICK after : after = Changed(stats, SegmentChange(1, n.size, l))
    OBVIOUS
<1>5. /\ alloc_found_block(n, after)
      /\ total_allocated_memory' = total_allocated_memory + n.size
    BY <1>1, <1>2, <1>3, <1>4 DEF alloc_block, SegmentChange
<1>6. SegmentsFrom(stats, 1, n.size, l, after)
    BY <1>2, <1>3, <1>4 DEF SegmentsFrom, TypeOK
<1>7. after \in [StatName -> Int] /\ \A i \in StatName \ SegmentNames : after[i] = stats[i]
    BY <1>6, SegmentFields
<1>8. SegmentsTallied(after, total_allocated_memory + n.size, segments')
    <2>1. SegmentsTallied(stats, total_allocated_memory, segments)
        BY DEF StatsInv
    <2>2. Measured(RangesOf(segments)) /\ segments \in [Segments -> Nat]
        BY <2>1 DEF SegmentsTallied, TypeOK
    <2>3. PICK tz : tz = [segments EXCEPT ![g] = n.size]
        OBVIOUS
    <2>4. /\ Measured(RangesOf(tz)) /\ Grows(RangesOf(segments), RangesOf(tz), 1, n.size)
          /\ Enlarges(RangesOf(segments), RangesOf(tz), Indicator(n.size >= MaxSplitSize))
        <3>1. n.size \in Nat /\ n.size > 0
            BY <1>2
        <3> QED BY <1>2, <2>2, <2>3, <3>1, GrowRanges
    <2>5. Enlarges(RangesOf(segments), RangesOf(tz), l)
        BY <1>3, <2>4
    <2>6. SegmentsCase(stats, total_allocated_memory, segments, tz, 1, n.size, l, after)
        BY <1>6, <2>1, <2>4, <2>5 DEF SegmentsCase
    <2>7. SegmentsTallied(after, total_allocated_memory + n.size, tz)
        BY <2>6, SegmentsChange
    <2> QED BY <1>2, <2>3, <2>7
<1>9. \A x \in A \cup C : x.seg # g
    <2> SUFFICES ASSUME NEW x \in A \cup C, x.seg = g PROVE FALSE
        OBVIOUS
    <2>1. x.size > 0 /\ x.off + x.size <= 0
        BY <1>2 DEF SafeAll, SafeState, Safe, Geometry, Within
    <2>2. x.off \in Nat /\ x.size \in Nat
        BY DEF TypeOK, Block
    <2> QED BY <2>1, <2>2
<1>10. /\ SplitOf(A, C \cup {n}) = SplitOf(A, C)
       /\ ~Touched(n, A \cup (C \cup {n})) /\ ~is_split(n)
    <2>1. n.off \in Nat /\ n.size \in Nat /\ n.size > 0 /\ n \notin A
        BY <1>2, <1>9
    <2>2. /\ SplitOf(A, C \cup {n}) = SplitOf(A, C \ {n})
          /\ ~ \E x \in A \cup C \cup {n} : Adjacent(x, n)
        <3>1. ASSUME NEW S, S = A, NEW T, T = C
              PROVE  /\ SplitOf(S, T \cup {n}) = SplitOf(S, T \ {n})
                     /\ ~ \E x \in S \cup T \cup {n} : Adjacent(x, n)
            <4>1. n \notin S /\ \A x \in S \cup T : x.seg = n.seg => x = n
                BY <1>2, <1>9, <2>1, <3>1
            <4> QED BY <2>1, <4>1, AloneTallies
        <3> QED BY <3>1
    <2>3. C \ {n} = C
        BY <1>2
    <2>4. ~is_split(n)
        BY <1>2, <1>9 DEF is_split, PrevOf, NextOf, AllBlocks
    <2> QED BY <2>2, <2>3, <2>4 DEF Touched
<1>11. BlocksTallied(after, A, C \cup {n})
    <2>1. BlocksTallied(after, A, C)
        BY <1>7, BlocksStay DEF StatsInv
    <2>2. Measured(A \cup (C \cup {n}))
        <3>1. Measured(A \cup C)
            BY <2>1 DEF BlocksTallied
        <3>2. n \notin A \cup C /\ \A y \in A \cup C : ~Overlap(n, y) /\ ~Overlap(y, n)
            BY <1>2, <1>9 DEF Overlap
        <3>3. n.off \in Nat /\ n.size \in Nat
            BY <1>2
        <3>4. ASSUME NEW S, S = A \cup C PROVE Measured(S \cup {n})
            BY <3>1, <3>2, <3>3, <3>4, AddRange
        <3>5. A \cup (C \cup {n}) = (A \cup C) \cup {n}
            OBVIOUS
        <3> QED BY <3>4, <3>5
    <2> QED BY <1>10, <2>1, <2>2 DEF BlocksTallied, SplitTallied
<1>12. /\ BlocksTallied(stats', active_blocks', cached_blocks')
       /\ \A i \in SegmentNames : stats'[i] = after[i]
    <2>1. ASSUME NEW E, E = C \cup {n}, NEW tz, tz = segments'
          PROVE  /\ BlocksTallied(stats', active_blocks', cached_blocks')
                 /\ \A i \in SegmentNames : stats'[i] = after[i]
        <3>1. /\ E \in SUBSET Block /\ tz \in [Segments -> Nat]
              /\ Geometry(active_blocks \cup E, tz) /\ active_blocks \cap E = {}
            BY <1>2, <2>1, StateTypes DEF Safe
        <3>2. BlocksTallied(after, active_blocks, E) /\ n \in E
              /\ E \ {n} = cached_blocks \ {n}
            BY <1>11, <2>1
        <3>3. is_split(n) <=> Touched(n, active_blocks \cup E)
            BY <1>10, <2>1
        <3> QED BY <1>2, <1>5, <1>7, <3>1, <3>2, <3>3, AllocFoundTallied
    <2> QED BY <2>1
<1>13. SegmentsTallied(stats', total_allocated_memory', segments')
    BY <1>5, <1>8, <1>12 DEF SegmentsTallied, SegmentNames
<1> QED
    BY <1>12, <1>13 DEF StatsInv

\* At the start there is nothing to count.
LEMMA StatsInit == Init => StatsInv
<1> SUFFICES ASSUME Init PROVE StatsInv
    OBVIOUS
<1>1. /\ active_blocks = {} /\ cached_blocks = {} /\ total_allocated_memory = 0
      /\ segments = [g \in Segments |-> 0] /\ stats = [n \in StatName |-> 0]
    BY DEF Init
<1>2. Cardinality({}) = 0 /\ IsFiniteSet({})
    BY FS_EmptySet
<1>3. Covers({}) = {} /\ Large({}) = {} /\ LiveOf({}) = {} /\ SplitOf({}, {}) = {}
    BY DEF Covers, Large, LiveOf, SplitOf
<1>4. Units({}) = 0 /\ Measured({})
    BY <1>2, <1>3, UnitsCovered DEF Measured, Apart
<1>5. RangesOf(segments) = {}
    BY <1>1 DEF RangesOf
<1>6. \A n \in StatName : stats[n] = 0
    BY <1>1
<1>7. BlocksTallied(stats, {}, {})
    BY <1>2, <1>3, <1>4, <1>6 DEF BlocksTallied, LiveTallied, ActiveTallied, SplitTallied,
                                  StatName
<1>8. SegmentsTallied(stats, 0, segments)
    BY <1>2, <1>3, <1>4, <1>5, <1>6 DEF SegmentsTallied, StatName
<1> QED
    BY <1>1, <1>7, <1>8 DEF StatsInv

\* A step that changes neither blocks nor segments
LEMMA StatsStay ==
    ASSUME StatsInv, UNCHANGED <<segments, active_blocks, cached_blocks,
                                 total_allocated_memory, stats>>
    PROVE  StatsInv'
    BY DEF StatsInv

\* The blocks that the steps of malloc and of release_cached_blocks give back may be released.
LEMMA ReleasedAlone ==
    ASSUME NEW b \in cached_blocks, gc_release(b) \/ release_available(b) \/ release_cached(b)
    PROVE  (~is_split(b) \/ b.size >= MaxSplitSize) /\ release_block(b)
    BY DEF gc_release, release_available, release_cached, GcCandidates, Releasable,
           AvailableVictims, Oversize

\* The invariant is kept.
LEMMA StatsNext ==
    ASSUME TypeOK, SafeAll, StatsInv, [Next]_vars
    PROVE  StatsInv'
<1>0. SafeState /\ EventsAccounted
    BY SafeImplies DEF SafeAll, SafetyInv
<1>1. CASE UNCHANGED vars
    BY <1>1, StatsStay DEF vars, memVars
<1>2. CASE Step
    <2>1. ASSUME NEW s \in Streams, query_event(s) PROVE StatsInv'
        <3>1. PICK b \in active_blocks : RefOf(b) = Head(supa_events[s]) /\ complete_event(b)
            BY <2>1 DEF query_event
        <3>2. ~b.allocated
            <4>1. 1 \in DOMAIN supa_events[s] /\ Head(supa_events[s]) = supa_events[s][1]
                BY <2>1, StateTypes DEF query_event
            <4> QED BY <1>0, <3>1, <4>1, QueuedFreed DEF EventsAccounted
        <3>3. BlocksStep
            BY <1>0, <3>1, <3>2, CompleteTallied
        <3> QED BY <2>1, <3>3, BlocksStepTallied DEF query_event
    <2>2. ASSUME NEW s \in Streams, synchronize_event(s) PROVE StatsInv'
        <3>1. PICK i \in EventsInScope(s), b \in active_blocks :
                  RefOf(b) = supa_events[s][i] /\ complete_event(b)
            BY <2>2 DEF synchronize_event
        <3>2. ~b.allocated
            BY <1>0, <3>1, QueuedFreed DEF EventsAccounted, EventsInScope
        <3>3. BlocksStep
            BY <1>0, <3>1, <3>2, CompleteTallied
        <3> QED BY <2>2, <3>3, BlocksStepTallied DEF synchronize_event
    <2>3. ASSUME NEW b \in cached_blocks, gc_release(b) \/ release_available(b) \/ release_cached(b)
          PROVE  StatsInv'
        BY <1>0, <2>3, ReleasedAlone, ReleaseTallied
    <2>4. ASSUME NEW g \in Segments, alloc_block(g) PROVE StatsInv'
        BY <2>4, AllocBlockTallied
    <2>5. CASE get_free_block
        BY <2>5, FoundTallied
    <2>6. CASE insert_events_deferred
        <3>1. CASE deferred = <<>> /\ UNCHANGED active_blocks
            BY <2>6, <3>1, StatsStay DEF insert_events_deferred
        <3>2. CASE deferred # <<>> /\ \E b \in active_blocks :
                      RefOf(b) = Head(deferred) /\ insert_events(b)
            <4>1. PICK b \in active_blocks : RefOf(b) = Head(deferred) /\ insert_events(b)
                BY <3>2
            <4>2. ~b.allocated
                <5>1. 1 \in DOMAIN deferred /\ Head(deferred) = deferred[1]
                    BY <3>2, StateTypes
                <5> QED BY <1>0, <4>1, <5>1, QueuedFreed DEF EventsAccounted
            <4>3. UNCHANGED <<segments, cached_blocks, total_allocated_memory, stats>>
                BY <2>6 DEF insert_events_deferred
            <4>4. BlocksStep
                BY <1>0, <4>1, <4>2, <4>3, InsertTallied
            <4> QED BY <4>3, <4>4, BlocksStepTallied
        <3> QED BY <2>6, <3>1, <3>2 DEF insert_events_deferred
    <2> QED
        BY <1>2, <2>1, <2>2, <2>3, <2>4, <2>5, <2>6, StatsStay
           DEF Step, leave_stream, no_free_block, callback_return,
               garbage_collect, gc_return, alloc_block_fails, release_available_return,
               retry_release, synchronize_return, release_return, throw, memVars
<1>3. CASE Call \/ Device \/ \E b \in active_blocks : callback_free(b)
    <2>1. ASSUME NEW b \in active_blocks, free(b) \/ callback_free(b) PROVE StatsInv'
        <3>1. /\ b.allocated /\ do_free(b)
              /\ UNCHANGED <<segments, total_allocated_memory>>
            BY <2>1 DEF free, callback_free
        <3>2. BlocksStep
            BY <1>0, <3>1, DoFreeTallied
        <3> QED BY <3>1, <3>2, BlocksStepTallied
    <2>2. ASSUME NEW s \in Streams, NEW n \in Requests, NEW p \in MempoolIds \cup {NoPool},
                 malloc(s, n, p)
          PROVE  StatsInv'
        BY <2>2, StatsStay DEF malloc, memVars
    <2>3. ASSUME NEW b \in active_blocks, NEW s \in Streams, recordStream(b, s)
          PROVE  StatsInv'
        <3> DEFINE c == WithUse(b, TRUE, b.stream_uses \cup {s}, b.event_count)
        <3>1. /\ active_blocks' = (active_blocks \ {b}) \cup {c} /\ b.allocated
              /\ UNCHANGED <<segments, cached_blocks, total_allocated_memory, stats>>
            BY <2>3 DEF recordStream
        <3>2. c \in Block
            <4>1. b \in Block /\ b.stream_uses \cup {s} \in SUBSET Streams /\ b.event_count \in Int
                BY StateTypes DEF Block
            <4> QED BY <4>1, WithUseType
        <3>3. SameRange(b, c) /\ c.allocated = TRUE
            BY DEF WithUse, SameRange
        <3>4. b.allocated = c.allocated
            <4>1. b.allocated \in BOOLEAN
                BY StateTypes DEF Block
            <4> HIDE DEF c
            <4> QED BY <3>1, <3>3, <4>1
        <3> HIDE DEF c
        <3>5. BlocksTallied(stats, active_blocks', cached_blocks)
            BY <1>0, <3>1, <3>2, <3>3, <3>4, UseTallied
        <3>6. BlocksStep
            BY <3>1, <3>5 DEF BlocksStep
        <3> QED BY <3>1, <3>6, BlocksStepTallied
    <2> QED
        BY <1>3, <2>1, <2>2, <2>3, StatsStay
           DEF Call, Device, emptyCache, setMemoryFraction, createOrIncrefPool,
               endAllocateToPool, releasePool, beginAllocateToPool, launch,
               retire, memVars
<1> QED
    BY <1>1, <1>2, <1>3 DEF Next

\* The entries of DeviceStats, and total_allocated_memory, are at all times what the blocks and
\* the segments add up to (every method that moves a block adjusts them by hand).
THEOREM StatsCorrect == Spec => []StatsExact
<1>1. TypeOK /\ SafeAll /\ StatsInv /\ [Next]_vars => StatsInv'
    BY StatsNext
<1>2. Init => TypeOK /\ SafeAll /\ StatsInv
    BY TypeInit, SafeInit, StatsInit
<1>3. TypeOK /\ SafeAll /\ [Next]_vars => (TypeOK /\ SafeAll)'
    BY TypeNext, SafeNext
<1>4. TypeOK /\ StatsInv => StatsExact
    BY StatsImplies
<1> QED
    BY <1>1, <1>2, <1>3, <1>4, PTL DEF Spec

=============================================================================
