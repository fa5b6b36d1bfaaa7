----------------------- MODULE DeviceCachingAllocator -----------------------
(***************************************************************************)
(* DeviceCachingAllocator of csrc/core/supa/SUPACachingAllocator.cpp: the  *)
(* per-device cache of device memory, with expandable segments turned off. *)
(*                                                                         *)
(* Every public method runs under one recursive mutex.  A method that      *)
(* loops (malloc, emptyCache) is a sequence of steps driven by pc, which   *)
(* is also the lock: a new method starts only when pc = "idle".  Kernels   *)
(* are launched and retired at any moment, also in the middle of a method. *)
(*                                                                         *)
(* A Block is a record; the doubly linked list of a segment's blocks is    *)
(* the address order of the blocks with that seg.  Blocks live in          *)
(* active_blocks or in the free lists of the block pools (cached_blocks,   *)
(* whose members name their pool).  A kernel is the range it touches.      *)
(***************************************************************************)
EXTENDS Integers, Sequences, FiniteSets, FiniteSetsExt

(***************************************************************************)
(* Size arithmetic: how a request is rounded to a block size, how large a  *)
(* segment is requested from the driver for it, and when a block found in  *)
(* the cache is split.  Sizes are counted in an abstract unit; the six     *)
(* thresholds are constants so that small instances keep the order the     *)
(* real values have (512 B, 1 MB, 2 MB, 20 MB, 10 MB, 2 MB).               *)
(***************************************************************************)
CONSTANTS
    kMinBlockSize,   \* every block size is a multiple of it
    kSmallSize,      \* the largest "small" allocation
    kSmallBuffer,    \* segment size for small allocations
    kLargeBuffer,    \* segment size for allocations below kMinLargeAlloc
    kMinLargeAlloc,  \* allocations from here on get a segment of their own size
    kRoundLarge,     \* ... rounded up to a multiple of it
    MaxSplitSize     \* SUPAAllocatorConfig::max_split_size()

ASSUME SizeAssumption ==
    /\ kMinBlockSize \in Nat \ {0}
    /\ kSmallSize \in Nat /\ kSmallBuffer \in Nat /\ kLargeBuffer \in Nat
    /\ kMinLargeAlloc \in Nat /\ kRoundLarge \in Nat \ {0}
    /\ MaxSplitSize \in Nat \ {0}
    /\ kMinBlockSize <= kSmallSize
    /\ kSmallSize < kSmallBuffer
    /\ kMinLargeAlloc <= kLargeBuffer + 1

\* The least multiple of m that is at least n.
RoundUp(n, m) == m * ((n + m - 1) \div m)

\* max_split_size is a whole number of megabytes above kLargeBuffer, so the
\* segment of a smaller request exceeds it by at most kSmallSize.
ASSUME SplitAssumption ==
    /\ kSmallBuffer <= kLargeBuffer
    /\ kLargeBuffer < MaxSplitSize
    /\ RoundUp(MaxSplitSize, kRoundLarge) <= MaxSplitSize + kSmallSize

\* round_size with roundup_power2_divisions unset, its default.
round_size(n) ==
    IF n < kMinBlockSize THEN kMinBlockSize ELSE RoundUp(n, kMinBlockSize)

\* Mutant: the size of a large segment is cut to a multiple instead of raised.
get_allocation_size_Cut(size) ==
    IF size <= kSmallSize THEN kSmallBuffer
    ELSE IF size < kMinLargeAlloc THEN kLargeBuffer
    ELSE kRoundLarge * (size \div kRoundLarge)

get_allocation_size(size) ==
    IF size <= kSmallSize THEN kSmallBuffer
    ELSE IF size < kMinLargeAlloc THEN kLargeBuffer
    ELSE RoundUp(size, kRoundLarge)

\* Whether the rest of a block of blockSize units goes back to the cache when
\* size units of it are handed out (expandable segments off).
should_split(blockSize, size, small) ==
    IF small THEN blockSize - size >= kMinBlockSize
             ELSE size < MaxSplitSize /\ blockSize - size > kSmallSize

\* Mutant: a request below MaxSplitSize may take an oversize block.
may_serve_Any(blockSize, size) ==
    size >= MaxSplitSize => blockSize < size + kLargeBuffer

\* Whether the smallest cached block that fits a request may serve it: an
\* oversize block serves oversize requests only, and only with limited waste.
may_serve(blockSize, size) ==
    /\ size < MaxSplitSize => blockSize < MaxSplitSize
    /\ size >= MaxSplitSize => blockSize < size + kLargeBuffer

-----------------------------------------------------------------------------
(* The allocator.                                                          *)

CONSTANTS
    Streams,       \* supaStream_t values
    Segments,      \* names for the driver's allocations
    MempoolIds,    \* MempoolId_t values other than {0, 0}
    NoPool,        \* MempoolId_t {0, 0}: the default pools
    Requests,      \* sizes a caller asks for
    Fractions,     \* limits setMemoryFraction may set
    GcEnabled,     \* garbage_collection_threshold() > 0
    GcThreshold,   \* garbage_collection_threshold() * limit, for each limit
    MaxUse,        \* bound on the use_count of a private pool
    MaxKernels     \* bound on the queued work

ASSUME AllocatorAssumption ==
    /\ NoPool \notin MempoolIds
    /\ Requests \subseteq Nat \ {0}
    /\ Fractions \subseteq Nat
    /\ GcEnabled \in BOOLEAN
    /\ GcThreshold \in [Fractions -> Nat]
    /\ MaxUse \in Nat \ {0} /\ MaxKernels \in Nat
    /\ IsFiniteSet(Streams)

VARIABLES
    segments,          \* size of each driver allocation, 0 when not allocated
    active_blocks,     \* Blocks allocated or still in use by a stream
    cached_blocks,     \* Blocks in the free lists of the block pools
    supa_events,       \* per stream, the blocks with an end-of-life event
    deferred,          \* needs_events_deferred_until_no_capture
    captures_underway, \* <<pool id, streams its filter accepts>>, in order
    graph_pools,       \* the private pools
    graph_pools_freeable,
    holders,           \* graphs and MemPools that hold a reference on a pool
    set_fraction,
    allowed_memory_maximum,
    total_allocated_memory,
    stats,             \* the AGGREGATE entries of DeviceStats
    kernels,           \* ranges that work queued on the streams still touches
    pc,                \* where the running method is
    op                 \* its parameters and locals

memVars   == <<segments, active_blocks, cached_blocks, total_allocated_memory>>
eventVars == <<supa_events, deferred>>
poolVars  == <<captures_underway, graph_pools, graph_pools_freeable, holders>>
limitVars == <<set_fraction, allowed_memory_maximum>>
vars == <<memVars, eventVars, poolVars, limitVars, stats, kernels, pc, op>>

-----------------------------------------------------------------------------
Pools == [id : MempoolIds \cup {NoPool}, small : BOOLEAN]

Block == [seg : Segments, off : Nat, size : Nat, stream : Streams, pool : Pools,
          allocated : BOOLEAN, stream_uses : SUBSET Streams, event_count : Int]

\* An entry of captures_underway: the pool, and the streams its filter accepts
Capture == [id : MempoolIds, filter : SUBSET Streams]

Kernel == [stream : Streams, seg : Segments, off : Nat, size : Nat]

AllBlocks == active_blocks \cup cached_blocks

Overlap(x, y) ==
    /\ x.seg = y.seg
    /\ x.off < y.off + y.size
    /\ y.off < x.off + x.size

\* block->prev and block->next
PrevOf(b) == {x \in AllBlocks : x.seg = b.seg /\ x.off + x.size = b.off}
NextOf(b) == {x \in AllBlocks : x.seg = b.seg /\ b.off + b.size = x.off}

\* Mutant: the predecessor is not looked at.
is_split_NextOnly(b) == NextOf(b) # {}

is_split(b) == PrevOf(b) \cup NextOf(b) # {}

\* What an event entry (a Block pointer) refers to
RefOf(b) == <<b.seg, b.off>>

\* kernels that supaEventQuery and supaEventSynchronize wait for: work of the
\* stream the event was recorded on that touches the block
EventReady(s, b) == \A k \in kernels : k.stream = s => ~Overlap(k, b)

Indicator(p) == IF p THEN 1 ELSE 0

StatName == {"allocation", "allocated_bytes", "active", "active_bytes",
             "segment", "reserved_bytes", "inactive_split",
             "inactive_split_bytes", "oversize_allocations", "oversize_segments"}

\* The statistics st changed by the amounts in change (increase, decrease)
Changed(st, change) ==
    [n \in StatName |-> st[n] + (IF n \in DOMAIN change THEN change[n] ELSE 0)]

\* The constructor of Block: neither allocated nor in use
NewBlock(g, off, size, s, p) ==
    [seg |-> g, off |-> off, size |-> size, stream |-> s, pool |-> p,
     allocated |-> FALSE, stream_uses |-> {}, event_count |-> 0]

\* b with another state of use
WithUse(b, allocated, uses, count) ==
    [seg |-> b.seg, off |-> b.off, size |-> b.size, stream |-> b.stream,
     pool |-> b.pool, allocated |-> allocated, stream_uses |-> uses,
     event_count |-> count]

NoOp == [kind |-> "none"]

NoPrivatePool == [exists |-> FALSE, use_count |-> 0, supaMalloc_count |-> 0]

Init ==
    /\ segments = [g \in Segments |-> 0]
    /\ active_blocks = {} /\ cached_blocks = {}
    /\ total_allocated_memory = 0
    /\ supa_events = [s \in Streams |-> <<>>]
    /\ deferred = <<>>
    /\ captures_underway = <<>>
    /\ graph_pools = [p \in MempoolIds |-> NoPrivatePool]
    /\ graph_pools_freeable = {}
    /\ holders = [p \in MempoolIds |-> 0]
    /\ set_fraction = FALSE /\ allowed_memory_maximum = 0
    /\ stats = [n \in StatName |-> 0]
    /\ kernels = {}
    /\ pc = "idle" /\ op = NoOp

-----------------------------------------------------------------------------
(* Returning a block to the cache.                                         *)

\* The condition under which try_merge_blocks absorbs a neighbour
Mergeable(x) == ~x.allocated /\ x.event_count = 0 /\ x.stream_uses = {}

\* The neighbours that free_block merges into b
MergeBefore(b) == {x \in PrevOf(b) : Mergeable(x)}

\* Mutant: only the predecessor is tried.
MergeAfter_Never(b) == {}

MergeAfter(b) == {x \in NextOf(b) : Mergeable(x)}

\* free_block: b, whose last use is over, absorbs its idle neighbours and goes
\* to the free list of its pool.  st is the statistics record it updates.
free_block(b, st) ==
    LET before == MergeBefore(b)
        after  == MergeAfter(b)
        lo == IF before = {} THEN b.off ELSE (CHOOSE x \in before : TRUE).off
        hi == b.off + b.size
              + (IF after = {} THEN 0 ELSE (CHOOSE x \in after : TRUE).size)
        merged == NewBlock(b.seg, lo, hi - lo, b.stream, b.pool)
        stillSplit == \E x \in AllBlocks :
                         x.seg = b.seg /\ (x.off + x.size = lo \/ x.off = hi)
    IN  /\ active_blocks' = active_blocks \ {b}
        /\ cached_blocks' = (cached_blocks \ (before \cup after)) \cup {merged}
        /\ stats' = Changed(st,
              [active |-> -1,
               active_bytes |-> -b.size,
               inactive_split |-> Indicator(stillSplit)
                     - Indicator(before # {}) - Indicator(after # {}),
               inactive_split_bytes |-> (IF stillSplit THEN merged.size ELSE 0)
                     - (merged.size - b.size)])

\* Mutant: the first completed event frees the block.
complete_event_First(b) == free_block(b, stats)

\* One end-of-life event of b has completed.
complete_event(b) ==
    IF b.event_count = 1
    THEN free_block(b, stats)
    ELSE /\ active_blocks' = (active_blocks \ {b}) \cup
               {WithUse(b, b.allocated, b.stream_uses, b.event_count - 1)}
         /\ UNCHANGED <<cached_blocks, stats>>

\* Mutant: stream_uses is not moved out of the block.
insert_events_KeepsUses(b) ==
    /\ active_blocks' = (active_blocks \ {b}) \cup
          {WithUse(b, FALSE, b.stream_uses,
                   b.event_count + Cardinality(b.stream_uses))}
    /\ supa_events' = [s \in Streams |->
          IF s \in b.stream_uses THEN Append(supa_events[s], RefOf(b))
                                 ELSE supa_events[s]]

\* insert_events: one event per stream that used the block
insert_events(b) ==
    /\ active_blocks' = (active_blocks \ {b}) \cup
          {WithUse(b, FALSE, {}, b.event_count + Cardinality(b.stream_uses))}
    /\ supa_events' = [s \in Streams |->
          IF s \in b.stream_uses THEN Append(supa_events[s], RefOf(b))
                                 ELSE supa_events[s]]

\* The body of free
do_free(b) ==
    LET st == Changed(stats,
                 [allocation |-> -1, allocated_bytes |-> -b.size,
                  oversize_allocations |-> -Indicator(b.size >= MaxSplitSize)])
    IN  \/ /\ b.stream_uses # {} /\ captures_underway # <<>>
           /\ active_blocks' = (active_blocks \ {b})
                  \cup {WithUse(b, FALSE, b.stream_uses, b.event_count)}
           /\ deferred' = Append(deferred, RefOf(b))
           /\ stats' = st
           /\ UNCHANGED <<cached_blocks, supa_events>>
        \/ /\ b.stream_uses # {} /\ captures_underway = <<>>
           /\ insert_events(b)
           /\ stats' = st
           /\ UNCHANGED <<cached_blocks, deferred>>
        \/ /\ b.stream_uses = {}
           /\ free_block(b, st)
           /\ UNCHANGED eventVars

\* Mutant: the count is only ever incremented.
uncount_segment_Never(b) == graph_pools

\* supaMalloc_count of the private pool that loses the segment of b
uncount_segment(b) ==
    IF b.pool.id = NoPool THEN graph_pools
    ELSE [graph_pools EXCEPT ![b.pool.id].supaMalloc_count = @ - 1]

\* release_block: the segment of an unsplit cached block goes back to the
\* driver.  supaFree (external) returns once no queued work touches the range.
release_block(b) ==
    /\ cached_blocks' = cached_blocks \ {b}
    /\ segments' = [segments EXCEPT ![b.seg] = 0]
    /\ kernels' = {k \in kernels : k.seg # b.seg}
    /\ total_allocated_memory' = total_allocated_memory - b.size
    /\ graph_pools' = uncount_segment(b)
    /\ stats' = Changed(stats,
          [segment |-> -1, reserved_bytes |-> -b.size,
           oversize_segments |-> -Indicator(b.size >= MaxSplitSize)])
    /\ UNCHANGED <<active_blocks, eventVars, captures_underway,
                   graph_pools_freeable, holders, limitVars>>

-----------------------------------------------------------------------------
(* malloc.                                                                 *)

Recording(p) == \E i \in DOMAIN captures_underway : captures_underway[i].id = p

\* get_pool: the first capture whose filter accepts the stream takes the
\* allocation, otherwise a default pool does.
get_pool(size, s) ==
    LET hits == {i \in DOMAIN captures_underway : s \in captures_underway[i].filter}
    IN  [id |-> IF hits = {} THEN NoPool
                ELSE captures_underway[CHOOSE i \in hits : \A j \in hits : i <= j].id,
         small |-> size <= kSmallSize]

\* Mutant: events are processed during a capture, too.
first_phase_Unguarded == "deferred"

\* process_events is skipped while a capture is underway.
first_phase == IF captures_underway = <<>> THEN "deferred" ELSE "search"

\* active is the MemPool of the caller's MemPoolContext, if any.
malloc(s, n, active) ==
    /\ pc = "idle"
    /\ active = NoPool \/ (active \in MempoolIds /\ holders[active] > 0)
    /\ pc' = first_phase
    /\ LET size == round_size(n)
       IN  op' = [kind |-> "malloc", stream |-> s, size |-> size,
                  alloc_size |-> get_allocation_size(size),
                  pool |-> get_pool(size, s), id |-> active, attempt |-> 0,
                  amount |-> 0, todo |-> Streams]
    /\ UNCHANGED <<memVars, eventVars, poolVars, limitVars, stats, kernels>>

ProcessingEvents == op.kind = "malloc" /\ op.attempt = 0

\* insert_events_deferred_until_no_capture, one block at a time; then
\* process_events or synchronize_and_free_events goes on.
insert_events_deferred ==
    /\ pc = "deferred"
    /\ \/ /\ deferred # <<>>
          /\ \E b \in active_blocks :
                RefOf(b) = Head(deferred) /\ insert_events(b)
          /\ deferred' = Tail(deferred)
          /\ UNCHANGED pc
       \/ /\ deferred = <<>>
          /\ pc' = IF ProcessingEvents THEN "query" ELSE "sync"
          /\ UNCHANGED <<active_blocks, eventVars>>
    /\ UNCHANGED <<segments, cached_blocks, total_allocated_memory, poolVars,
                   limitVars, stats, kernels, op>>

\* process_events: the first event of a stream's queue is queried; the loop
\* leaves the stream at the first event that is not ready.
query_event(s) ==
    /\ pc = "query" /\ s \in op.todo /\ supa_events[s] # <<>>
    /\ \E b \in active_blocks :
          /\ RefOf(b) = Head(supa_events[s])
          /\ EventReady(s, b)
          /\ complete_event(b)
    /\ supa_events' = [supa_events EXCEPT ![s] = Tail(@)]
    /\ UNCHANGED <<segments, total_allocated_memory, deferred, poolVars,
                   limitVars, kernels, pc, op>>

leave_stream(s) ==
    /\ pc = "query" /\ s \in op.todo
    /\ supa_events[s] # <<>> =>
          \E b \in active_blocks :
              RefOf(b) = Head(supa_events[s]) /\ ~EventReady(s, b)
    /\ op' = [op EXCEPT !.todo = @ \ {s}]
    /\ pc' = IF op.todo = {s} THEN "search" ELSE pc
    /\ UNCHANGED <<memVars, eventVars, poolVars, limitVars, stats, kernels>>

\* Mutant: the count is not adjusted for a block that was split before.
split_change_NewOnly(b, split) == Indicator(split)

\* Change of inactive_split when b becomes active and is split, or not
split_change(b, split) == Indicator(split) - Indicator(is_split(b))

\* alloc_found_block: b, taken from the cache or new, becomes active; what is
\* left of it goes to the cache.
alloc_found_block(b, st) ==
    LET split == should_split(b.size, op.size, op.pool.small)
        taken == WithUse(NewBlock(b.seg, b.off, IF split THEN op.size ELSE b.size,
                                  b.stream, b.pool), TRUE, {}, 0)
        rest  == NewBlock(b.seg, b.off + op.size, b.size - op.size, b.stream, b.pool)
    IN  /\ active_blocks' = active_blocks \cup {taken}
        /\ cached_blocks' = (cached_blocks \ {b}) \cup (IF split THEN {rest} ELSE {})
        /\ stats' = Changed(st,
              [allocation |-> 1, allocated_bytes |-> taken.size,
               active |-> 1, active_bytes |-> taken.size,
               oversize_allocations |-> Indicator(taken.size >= MaxSplitSize),
               inactive_split |-> split_change(b, split),
               inactive_split_bytes |-> (IF split THEN b.size - op.size ELSE 0)
                     - (IF is_split(b) THEN b.size ELSE 0)])
        /\ pc' = "idle" /\ op' = NoOp

\* get_free_block: the smallest cached block of the pool and stream that fits
BestFit ==
    LET fit == {b \in cached_blocks :
                   b.pool = op.pool /\ b.stream = op.stream /\ b.size >= op.size}
    IN  {b \in fit : /\ \A c \in fit : b.size <= c.size
                     /\ may_serve(b.size, op.size)}

get_free_block ==
    /\ pc \in {"search", "search_again"}
    /\ \E b \in BestFit : alloc_found_block(b, stats)
    /\ UNCHANGED <<segments, total_allocated_memory, eventVars, poolVars,
                   limitVars, kernels>>

no_free_block ==
    /\ pc \in {"search", "search_again"} /\ BestFit = {}
    /\ pc' = IF pc = "search" THEN "callback" ELSE "gc"
    /\ UNCHANGED <<memVars, eventVars, poolVars, limitVars, stats, kernels, op>>

\* trigger_free_memory_callbacks: the IPC collector may free blocks, re-entering
\* the recursive mutex; a callback that freed nothing ends the search.
callback_free(b) ==
    /\ pc = "callback" /\ b \in active_blocks /\ b.allocated
    /\ \A k \in kernels :
          Overlap(k, b) => k.stream \in b.stream_uses \cup {b.stream}
    /\ do_free(b)
    /\ op' = [op EXCEPT !.amount = 1]
    /\ UNCHANGED <<segments, total_allocated_memory, poolVars, limitVars,
                   kernels, pc>>

callback_return ==
    /\ pc = "callback"
    /\ pc' = IF op.amount = 1 THEN "search_again" ELSE "gc"
    /\ op' = [op EXCEPT !.amount = 0]
    /\ UNCHANGED <<memVars, eventVars, poolVars, limitVars, stats, kernels>>

\* garbage_collect_cached_blocks: amount is what is still to be reclaimed.
\* Which blocks exceed the average age is left open.
GcCandidates == {b \in cached_blocks : /\ b.pool = [id |-> NoPool, small |-> FALSE]
                                       /\ ~is_split(b)}

garbage_collect ==
    /\ pc = "gc"
    /\ LET needed == /\ set_fraction /\ GcEnabled
                     /\ total_allocated_memory > GcThreshold[allowed_memory_maximum]
       IN  /\ pc' = IF needed THEN "gc_loop" ELSE "alloc"
           /\ op' = [op EXCEPT !.attempt = 1, !.amount =
                 IF needed THEN total_allocated_memory
                                - GcThreshold[allowed_memory_maximum]
                           ELSE 0]
    /\ UNCHANGED <<memVars, eventVars, poolVars, limitVars, stats, kernels>>

gc_release(b) ==
    /\ pc = "gc_loop" /\ b \in GcCandidates
    /\ release_block(b)
    /\ op' = [op EXCEPT !.amount = @ - b.size]
    /\ UNCHANGED pc

gc_return ==
    /\ pc = "gc_loop" /\ (op.amount <= 0 \/ GcCandidates = {})
    /\ pc' = "alloc" /\ op' = [op EXCEPT !.amount = 0]
    /\ UNCHANGED <<memVars, eventVars, poolVars, limitVars, stats, kernels>>

WithinLimit == set_fraction =>
                 total_allocated_memory + op.alloc_size <= allowed_memory_maximum

\* alloc_block: supaMalloc (external) returns a range disjoint from every
\* range it handed out before.
alloc_block(g) ==
    /\ pc = "alloc" /\ segments[g] = 0 /\ WithinLimit
    /\ LET st == Changed(stats,
                    [segment |-> 1, reserved_bytes |-> op.alloc_size,
                     oversize_segments |-> Indicator(op.alloc_size >= MaxSplitSize)])
       IN  alloc_found_block(NewBlock(g, 0, op.alloc_size, op.stream, op.pool), st)
    /\ segments' = [segments EXCEPT ![g] = op.alloc_size]
    /\ total_allocated_memory' = total_allocated_memory + op.alloc_size
    /\ graph_pools' = IF op.pool.id = NoPool THEN graph_pools
          ELSE [graph_pools EXCEPT ![op.pool.id].supaMalloc_count = @ + 1]
    /\ UNCHANGED <<eventVars, captures_underway, graph_pools_freeable, holders,
                   limitVars, kernels>>

\* Mutant: the last attempt is retried as well.
after_failure_Retry == IF op.attempt = 1 THEN "available" ELSE "cached"

\* Where malloc goes on after alloc_block returned false
after_failure == CASE op.attempt = 1 -> "available"
                   [] op.attempt = 2 -> "cached"
                   [] OTHER -> "oom"

\* The limit is exceeded, or supaMalloc reports supaErrorMemoryAllocation,
\* which it may do at any time: others use the device too.
alloc_block_fails ==
    /\ pc = "alloc"
    /\ pc' = after_failure
    /\ UNCHANGED <<memVars, eventVars, poolVars, limitVars, stats, kernels, op>>

\* release_available_cached_blocks: the smallest oversize block of the pool
\* and stream that is large enough, otherwise the largest ones until enough is
\* released.  amount is totalReleased.
KeySize == IF op.size < MaxSplitSize THEN MaxSplitSize ELSE op.size

Oversize == {b \in cached_blocks : /\ b.pool = op.pool /\ b.stream = op.stream
                                   /\ b.size >= MaxSplitSize}

AvailableVictims ==
    LET enough == {b \in Oversize : b.size >= KeySize}
    IN  IF enough # {} THEN {b \in enough : \A c \in enough : b.size <= c.size}
                       ELSE {b \in Oversize : \A c \in Oversize : b.size >= c.size}

release_available(b) ==
    /\ pc = "available" /\ op.amount < KeySize /\ b \in AvailableVictims
    /\ release_block(b)
    /\ op' = [op EXCEPT !.amount = @ + b.size]
    /\ UNCHANGED pc

release_available_return ==
    /\ pc = "available" /\ (op.amount >= KeySize \/ Oversize = {})
    /\ IF op.amount >= KeySize
       THEN pc' = "alloc" /\ op' = [op EXCEPT !.attempt = 2, !.amount = 0]
       ELSE pc' = "cached" /\ op' = [op EXCEPT !.amount = 0]
    /\ UNCHANGED <<memVars, eventVars, poolVars, limitVars, stats, kernels>>

-----------------------------------------------------------------------------
(* release_cached_blocks, called by emptyCache and by malloc's last retry.  *)

\* Mutant: the cache is released without waiting for events.
enter_release_NoSync == pc' = "release"

\* synchronize_and_free_events refuses to run while a capture is underway.
enter_release ==
    IF op'.id = NoPool
    THEN pc' = IF captures_underway = <<>> THEN "deferred" ELSE "release"
    ELSE pc' = CASE op'.id \notin graph_pools_freeable -> "release"
                 [] captures_underway = <<>> -> "deferred"
                 [] OTHER -> "assert_no_capture"

emptyCache(id) ==
    /\ pc = "idle"
    /\ op' = [kind |-> "empty", id |-> id]
    /\ enter_release
    /\ UNCHANGED <<memVars, eventVars, poolVars, limitVars, stats, kernels>>

retry_release ==
    /\ pc = "cached"
    /\ op' = [op EXCEPT !.attempt = 3]
    /\ IF captures_underway = <<>> THEN enter_release ELSE pc' = "oom"
    /\ UNCHANGED <<memVars, eventVars, poolVars, limitVars, stats, kernels>>

InSyncScope(b) == op.id = NoPool \/ b.pool.id = op.id

EventsInScope(s) ==
    {i \in DOMAIN supa_events[s] :
        \E b \in active_blocks : RefOf(b) = supa_events[s][i] /\ InSyncScope(b)}

\* q without its i-th entry
Erase(q, i) == [j \in 1 .. (Len(q) - 1) |-> IF j < i THEN q[j] ELSE q[j + 1]]

\* synchronize_and_free_events waits for the next event in scope of a queue.
synchronize_event(s) ==
    /\ pc = "sync"
    /\ \E i \in EventsInScope(s) :
          /\ \A j \in EventsInScope(s) : i <= j
          /\ \E b \in active_blocks :
                /\ RefOf(b) = supa_events[s][i]
                /\ EventReady(s, b)
                /\ complete_event(b)
          /\ supa_events' = [supa_events EXCEPT ![s] = Erase(@, i)]
    /\ UNCHANGED <<segments, total_allocated_memory, deferred, poolVars,
                   limitVars, kernels, pc, op>>

synchronize_return ==
    /\ pc = "sync" /\ \A s \in Streams : EventsInScope(s) = {}
    /\ pc' = "release"
    /\ UNCHANGED <<memVars, eventVars, poolVars, limitVars, stats, kernels, op>>

\* Mutant: every private pool is released, not just the freeable ones.
ReleaseScope_All ==
    IF op.id = NoPool
    THEN MempoolIds \cup (IF captures_underway = <<>> THEN {NoPool} ELSE {})
    ELSE {op.id}

ReleaseScope ==
    IF op.id = NoPool
    THEN graph_pools_freeable \cup (IF captures_underway = <<>> THEN {NoPool} ELSE {})
    ELSE {op.id} \cap graph_pools_freeable

Releasable == {b \in cached_blocks : b.pool.id \in ReleaseScope /\ ~is_split(b)}

release_cached(b) ==
    /\ pc = "release" /\ b \in Releasable
    /\ release_block(b)
    /\ UNCHANGED <<pc, op>>

\* Freeable pools without segments are erased; malloc goes on to its last try.
release_return ==
    /\ pc = "release" /\ Releasable = {}
    /\ LET dead == {p \in ReleaseScope \ {NoPool} :
                       graph_pools[p].supaMalloc_count = 0}
       IN  /\ graph_pools' = [p \in MempoolIds |->
                 IF p \in dead THEN NoPrivatePool ELSE graph_pools[p]]
           /\ graph_pools_freeable' = graph_pools_freeable \ dead
    /\ IF op.kind = "malloc" THEN pc' = "alloc" /\ UNCHANGED op
                             ELSE pc' = "idle" /\ op' = NoOp
    /\ UNCHANGED <<memVars, eventVars, captures_underway, holders, limitVars,
                   stats, kernels>>

\* The method leaves through an exception: OutOfMemoryError, an error of
\* supaMalloc other than lack of memory, or the internal assertion of
\* synchronize_and_free_events.
throw ==
    /\ pc \in {"alloc", "oom", "assert_no_capture"}
    /\ pc' = "idle" /\ op' = NoOp
    /\ UNCHANGED <<memVars, eventVars, poolVars, limitVars, stats, kernels>>

-----------------------------------------------------------------------------
(* The methods that are one step, and the outside world.                   *)

\* A caller frees a block only after recordStream for every other stream
\* whose queued work touches it.
free(b) ==
    /\ pc = "idle" /\ b \in active_blocks /\ b.allocated
    /\ \A k \in kernels :
          Overlap(k, b) => k.stream \in b.stream_uses \cup {b.stream}
    /\ do_free(b)
    /\ UNCHANGED <<segments, total_allocated_memory, poolVars, limitVars,
                   kernels, pc, op>>

recordStream(b, s) ==
    /\ pc = "idle" /\ b \in active_blocks /\ b.allocated
    /\ s # b.stream
    /\ active_blocks' = (active_blocks \ {b}) \cup
          {WithUse(b, TRUE, b.stream_uses \cup {s}, b.event_count)}
    /\ UNCHANGED <<segments, cached_blocks, total_allocated_memory, eventVars,
                   poolVars, limitVars, stats, kernels, pc, op>>

\* setMemoryFraction does not take the mutex.
setMemoryFraction(f) ==
    /\ allowed_memory_maximum' = f /\ set_fraction' = TRUE
    /\ UNCHANGED <<memVars, eventVars, poolVars, stats, kernels, pc, op>>

\* create_or_incref_pool; a pool whose use_count is zero cannot be revived.
create_or_incref_pool(p) ==
    /\ graph_pools[p].exists => graph_pools[p].use_count > 0
    /\ graph_pools[p].use_count < MaxUse
    /\ graph_pools' = [graph_pools EXCEPT ![p] =
          [exists |-> TRUE, use_count |-> @.use_count + 1,
           supaMalloc_count |-> @.supaMalloc_count]]

createOrIncrefPool(p) ==
    /\ pc = "idle"
    /\ create_or_incref_pool(p)
    /\ holders' = [holders EXCEPT ![p] = @ + 1]
    /\ UNCHANGED <<memVars, eventVars, captures_underway, graph_pools_freeable,
                   limitVars, stats, kernels, pc, op>>

\* beginAllocateToPool takes its reference before it finds that the pool is
\* already recorded to; the exception does not give the reference back.
beginAllocateToPool(p, filter) ==
    /\ pc = "idle"
    /\ create_or_incref_pool(p)
    /\ IF Recording(p)
       THEN UNCHANGED <<captures_underway, holders>>
       ELSE /\ captures_underway' =
                  Append(captures_underway, [id |-> p, filter |-> filter])
            /\ holders' = [holders EXCEPT ![p] = @ + 1]
    /\ UNCHANGED <<memVars, eventVars, graph_pools_freeable, limitVars, stats,
                   kernels, pc, op>>

endAllocateToPool(p) ==
    /\ pc = "idle"
    /\ \E i \in DOMAIN captures_underway :
          /\ captures_underway[i].id = p
          /\ captures_underway' = Erase(captures_underway, i)
    /\ UNCHANGED <<memVars, eventVars, graph_pools, graph_pools_freeable,
                   holders, limitVars, stats, kernels, pc, op>>

\* A holder gives its reference back; the one that records does so afterwards.
releasePool(p) ==
    /\ pc = "idle"
    /\ holders[p] > Indicator(Recording(p))
    /\ holders' = [holders EXCEPT ![p] = @ - 1]
    /\ graph_pools' = [graph_pools EXCEPT ![p].use_count = @ - 1]
    /\ graph_pools_freeable' = IF graph_pools[p].use_count = 1
                               THEN graph_pools_freeable \cup {p}
                               ELSE graph_pools_freeable
    /\ UNCHANGED <<memVars, eventVars, captures_underway, limitVars, stats,
                   kernels, pc, op>>

\* External: work that touches a live allocation is queued on a stream, and
\* work is retired.
launch(b, s) ==
    /\ b.allocated /\ Cardinality(kernels) < MaxKernels
    /\ kernels' = kernels \cup
          {[stream |-> s, seg |-> b.seg, off |-> b.off, size |-> b.size]}
    /\ UNCHANGED <<memVars, eventVars, poolVars, limitVars, stats, pc, op>>

retire(k) ==
    /\ kernels' = kernels \ {k}
    /\ UNCHANGED <<memVars, eventVars, poolVars, limitVars, stats, pc, op>>

-----------------------------------------------------------------------------
\* The steps of a method that has the mutex
Step ==
    \/ insert_events_deferred
    \/ \E s \in Streams : query_event(s) \/ leave_stream(s) \/ synchronize_event(s)
    \/ get_free_block \/ no_free_block
    \/ callback_return
    \/ garbage_collect \/ gc_return
    \/ \E b \in cached_blocks : gc_release(b) \/ release_available(b) \/ release_cached(b)
    \/ \E g \in Segments : alloc_block(g)
    \/ alloc_block_fails
    \/ release_available_return
    \/ retry_release \/ synchronize_return \/ release_return
    \/ throw

Call ==
    \/ \E s \in Streams, n \in Requests, p \in MempoolIds \cup {NoPool} : malloc(s, n, p)
    \/ \E b \in active_blocks : free(b) \/ \E s \in Streams : recordStream(b, s)
    \/ \E p \in MempoolIds \cup {NoPool} : emptyCache(p)
    \/ \E f \in Fractions : setMemoryFraction(f)
    \/ \E p \in MempoolIds :
          \/ createOrIncrefPool(p) \/ endAllocateToPool(p) \/ releasePool(p)
          \/ \E filter \in SUBSET Streams \ {{}} : beginAllocateToPool(p, filter)

Device ==
    \/ \E b \in active_blocks, s \in Streams : launch(b, s)
    \/ \E k \in kernels : retire(k)

Next == Step \/ Call \/ (\E b \in active_blocks : callback_free(b)) \/ Device

Spec == Init /\ [][Next]_vars

\* A thread inside a method keeps running, and each piece of queued work (of
\* the set K of possible ones) is retired.
Fairness(K) == WF_vars(Step) /\ \A k \in K : WF_vars(k \in kernels /\ retire(k))

-----------------------------------------------------------------------------
(* Properties.                                                             *)

\* malloc's locals; the segment it may ask for covers the block it needs.
MallocOp ==
    {o \in [kind : {"malloc"}, stream : Streams, size : Nat, alloc_size : Nat,
            pool : Pools, id : MempoolIds \cup {NoPool}, attempt : 0 .. 3,
            amount : Int, todo : SUBSET Streams] :
        0 < o.size /\ o.size <= o.alloc_size}

EmptyOp == [kind : {"empty"}, id : MempoolIds \cup {NoPool}]

PrivatePool == [exists : BOOLEAN, use_count : Int, supaMalloc_count : Int]

Ref == Segments \X Nat

\* The phases of malloc only, and the ones it shares with emptyCache
MallocPhases == {"query", "search", "search_again", "callback", "gc", "gc_loop",
                 "alloc", "available", "cached", "oom"}
SharedPhases == {"deferred", "sync", "release", "assert_no_capture"}

LocalsOK ==
    \/ pc = "idle" /\ op = NoOp
    \/ pc \in MallocPhases \cup SharedPhases /\ op \in MallocOp
    \/ pc \in SharedPhases /\ op \in EmptyOp

\* Every variable of DeviceCachingAllocator has its type, and the mutex holder's
\* locals are those of the method it runs: a segment is never asked for that is
\* smaller than the block it is for (get_allocation_size).
TypeOK ==
    /\ segments \in [Segments -> Nat]
    /\ active_blocks \subseteq Block /\ cached_blocks \subseteq Block
    /\ total_allocated_memory \in Int
    /\ supa_events \in [Streams -> Seq(Ref)]
    /\ deferred \in Seq(Ref)
    /\ captures_underway \in Seq(Capture)
    /\ graph_pools \in [MempoolIds -> PrivatePool]
    /\ graph_pools_freeable \subseteq MempoolIds
    /\ holders \in [MempoolIds -> Nat]
    /\ set_fraction \in BOOLEAN
    /\ allowed_memory_maximum \in Nat
    /\ set_fraction => allowed_memory_maximum \in Fractions
    /\ stats \in [StatName -> Int]
    /\ kernels \subseteq Kernel
    /\ LocalsOK

\* The blocks of a segment do not overlap and lie inside it, and none is in
\* active_blocks and in a free list.
BlocksDisjoint ==
    /\ active_blocks \cap cached_blocks = {}
    /\ \A b \in AllBlocks : b.size > 0 /\ b.off + b.size <= segments[b.seg]
    /\ \A b, c \in AllBlocks : b # c => ~Overlap(b, c)

\* The blocks of a segment the driver has handed out tile it: they do not
\* overlap, and every unit belongs to one; no block is left in a segment that
\* was given back.  Splitting, merging and releasing keep it.
SegmentsTiled ==
    /\ BlocksDisjoint
    /\ \A g \in Segments : \A u \in 0 .. (segments[g] - 1) :
          \E b \in AllBlocks : b.seg = g /\ b.off <= u /\ u < b.off + b.size

\* An oversize block in the cache is a whole segment: release_available_cached_blocks
\* gives it to supaFree without asking whether it is split.
OversizeUnsplit == \A b \in cached_blocks : b.size >= MaxSplitSize => ~is_split(b)

\* Memory in the free lists can only be touched by queued work of the stream
\* it will be handed out to, whose order protects it: no work of another
\* stream outlives the block's stay in active_blocks.
FreeMemoryQuiescent ==
    \A b \in cached_blocks : \A k \in kernels :
        Overlap(k, b) => k.stream = b.stream

WaitsFor(s, b) == \E i \in DOMAIN supa_events[s] : supa_events[s][i] = RefOf(b)

Waiters(b) == {s \in Streams : WaitsFor(s, b)}

Deferred(b) == \E i \in DOMAIN deferred : deferred[i] = RefOf(b)

NoRepeats(q) == \A i, j \in DOMAIN q : q[i] = q[j] => i = j

\* q only names blocks that were freed and are still in active_blocks.
NamesFreed(q) == \A i \in DOMAIN q :
                    \E b \in active_blocks : RefOf(b) = q[i] /\ ~b.allocated

\* The queues of end-of-life events and event_count agree: every entry of a
\* queue is a freed block that waits, once per stream, and event_count counts
\* its entries; a deferred block waits with its stream_uses; a freed block in
\* active_blocks waits for something.
EventsAccounted ==
    /\ \A s \in Streams : NamesFreed(supa_events[s]) /\ NoRepeats(supa_events[s])
    /\ NamesFreed(deferred) /\ NoRepeats(deferred)
    /\ \A b \in active_blocks : b.event_count = Cardinality(Waiters(b))
    /\ \A b \in active_blocks : ~b.allocated =>
          IF Deferred(b) THEN b.stream_uses # {} /\ b.event_count = 0
                         ELSE b.stream_uses = {} /\ b.event_count > 0

\* Cached neighbours are always merged: fragmentation never outlives the
\* blocks in between (a cached block has no cached neighbour).
FullyCoalesced ==
    \A b, c \in cached_blocks : b.seg = c.seg => b.off + b.size # c.off

\* The units of memory that ranges of segments take up; blocks do not overlap,
\* so each unit is counted once.
Span(x) == {x.seg} \X (x.off .. (x.off + x.size - 1))

Units(S) == Cardinality(UNION {Span(x) : x \in S})

Large(S) == {x \in S : x.size >= MaxSplitSize}

LiveBlocks == {b \in active_blocks : b.allocated}

SplitBlocks == {b \in cached_blocks : is_split(b)}

\* What the driver has handed out
Ranges == {[seg |-> g, off |-> 0, size |-> segments[g]] :
              g \in {h \in Segments : segments[h] > 0}}

\* The incrementally maintained statistics equal what a walk over the blocks
\* would count, at every step of every method; inactive_split in particular,
\* whose updates in free_block and alloc_found_block cancel out pairwise.
StatsExact ==
    /\ total_allocated_memory = Units(Ranges)
    /\ stats = [allocation |-> Cardinality(LiveBlocks),
                allocated_bytes |-> Units(LiveBlocks),
                active |-> Cardinality(active_blocks),
                active_bytes |-> Units(active_blocks),
                segment |-> Cardinality(Ranges),
                reserved_bytes |-> Units(Ranges),
                inactive_split |-> Cardinality(SplitBlocks),
                inactive_split_bytes |-> Units(SplitBlocks),
                oversize_allocations |-> Cardinality(Large(LiveBlocks)),
                oversize_segments |-> Cardinality(Large(Ranges))]

\* A private pool exists as long as it is held or owns memory, its
\* supaMalloc_count is the number of segments its blocks live in, and it is
\* freeable exactly when its last reference is gone.
PrivatePoolsAccounted ==
    \A p \in MempoolIds :
        LET segs == {b.seg : b \in {x \in AllBlocks : x.pool.id = p}}
        IN  /\ graph_pools[p].supaMalloc_count = Cardinality(segs)
            /\ segs # {} => graph_pools[p].exists
            /\ (p \in graph_pools_freeable) <=>
                  (graph_pools[p].exists /\ graph_pools[p].use_count = 0)
            /\ Recording(p) => graph_pools[p].use_count > 0
            /\ holders[p] <= graph_pools[p].use_count

\* No end-of-life event is recorded, queried or waited for while a capture is
\* underway, which the driver forbids.
NoEventsDuringCapture ==
    [][captures_underway # <<>> => UNCHANGED supa_events]_vars

\* The memory a graph's pool was given stays with the pool while a graph or
\* a MemPool still holds it: replays use its addresses.
GraphMemoryRetained ==
    [][\A b \in cached_blocks :
          b.pool.id # NoPool /\ graph_pools[b.pool.id].use_count > 0
             => segments'[b.seg] # 0]_vars

\* When malloc gives up outside any capture and any MemPoolContext, every
\* cached block that is a whole segment of a default or freeable pool has been
\* returned to the driver, and no freed block waits for an event.
OomOnlyWhenExhausted ==
    pc = "oom" /\ captures_underway = <<>> /\ op.id = NoPool =>
        /\ \A b \in cached_blocks :
              b.pool.id \in graph_pools_freeable \cup {NoPool} => is_split(b)
        /\ deferred = <<>> /\ \A s \in Streams : supa_events[s] = <<>>

\* A method that has the mutex gives it back, whatever has to be waited for,
\* released and retried.
MutexReleased == pc # "idle" ~> pc = "idle"

\* What malloc says when it gives up: all possible cached memory has been
\* returned to the driver, what remains is split from larger blocks that are
\* partially in use.  (Stated of the default pools, outside captures.)
CacheReturnedAtOom ==
    pc = "oom" /\ captures_underway = <<>> =>
        \A b \in cached_blocks : b.pool.id = NoPool => is_split(b)

\* What PrivatePool's declaration says of use_count: it is the number of live
\* graphs (and MemPools) that use the pool.
UseCountIsHolders == \A p \in MempoolIds : graph_pools[p].use_count = holders[p]

\* What synchronize_and_free_events says and asserts: it is not reached while a
\* capture is underway.
SyncOutsideCapture == pc # "assert_no_capture"

-----------------------------------------------------------------------------
(* The inductive invariant behind FreeMemoryQuiescent and EventsAccounted. *)

CachedIdle == \A b \in cached_blocks : Mergeable(b)

\* A segment belongs to one stream and one pool.
OneOwner == \A b, c \in AllBlocks :
               b.seg = c.seg => b.stream = c.stream /\ b.pool = c.pool

\* How large the blocks of a split segment can be
BlockShapes ==
    \A b \in AllBlocks :
        /\ b.pool.small => segments[b.seg] < MaxSplitSize
        /\ ~b.pool.small => b.size > kSmallSize
        /\ b.size < segments[b.seg] => segments[b.seg] <= MaxSplitSize + kSmallSize

\* What malloc computed before it looked for a block
LocalsFit ==
    op.kind = "malloc" => /\ op.alloc_size = get_allocation_size(op.size)
                          /\ op.pool.small = (op.size <= kSmallSize)

KernelsMapped == \A k \in kernels : segments[k.seg] # 0 /\ k.size > 0

\* Work of another stream on a freed block is waited for, or will be.
FreedProtected ==
    \A b \in active_blocks : ~b.allocated =>
        \A k \in kernels : Overlap(k, b) /\ k.stream # b.stream =>
            k.stream \in b.stream_uses \/ WaitsFor(k.stream, b)

\* Why memory is safe to reuse: the parts that imply each other from step to
\* step.
SafetyInv ==
    /\ SegmentsTiled /\ OneOwner /\ BlockShapes /\ LocalsFit /\ CachedIdle
    /\ KernelsMapped /\ FreeMemoryQuiescent /\ FreedProtected /\ EventsAccounted

RangeOf(b) == [seg |-> b.seg, off |-> b.off, size |-> b.size, stream |-> b.stream]

Memory == INSTANCE StreamOrderedMemory WITH
    live <- {RangeOf(b) : b \in {x \in active_blocks : x.allocated}},
    held <- {RangeOf(b) : b \in {x \in active_blocks : ~x.allocated}},
    work <- kernels

\* The allocator implements stream-ordered memory: a block malloc returns
\* meets no allocated block and no freed block that waits, and no work of
\* another stream; active_blocks without allocated is exactly what is held.
ImplementsMemory == Memory!Spec

=============================================================================
