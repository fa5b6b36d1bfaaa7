-------------------------- MODULE CustomAllocators --------------------------
(* A SUPAPluggableAllocator: two user functions, alloc_fn and free_fn, and    *)
(* the table of sizes kept for them; and a MemPool that gets its segments    *)
(* from one.  Memory is reached in three ways: as a DataPtr, whose deleter    *)
(* calls free_fn, by raw_alloc and raw_delete, and as a block of the pool.    *)
EXTENDS Integers, FiniteSets, Functions

CONSTANTS
    Threads, Addrs, Sizes,
    Null,
    Kinds,              \* how the program gets memory outside of the pool
    MaxAllocs,          \* bound on the calls of alloc_fn
    Outlive,            \* blocks of the pool may outlive the MemPool
    Reenter             \* use_mem_pool may be entered while it is in use

CustomAssumption == MaxAllocs \in Nat /\ Sizes \subseteq Nat \ {0} /\ Null \notin Addrs

VARIABLES
    heap,                   \* the size of what alloc_fn handed out, 0: nothing
    allocation_metadata_,
    held,                   \* who has an address: "no", "data", "raw", or the pool's "live", "cached"
    lastFree,               \* the last call of free_fn
    misfreed,               \* memory of alloc_fn given to supaFree, and when: [late, closing]
    late,                   \* blocks that were freed after the MemPool was gone
    allocs, pc,
    mempool, exists, use_count, freeable, supaMalloc_count, capture,
    active                  \* the thread has a MemPoolContext

memory == <<heap, allocation_metadata_, held, lastFree, misfreed, late, allocs>>
pool == <<mempool, exists, use_count, freeable, supaMalloc_count, capture, active>>
vars == <<memory, pc, pool>>

Idle == [op |-> "idle"]
InPool == {a \in Addrs : held[a] \in {"live", "cached"}}
\* The mutex of the device's allocator is held through raw_alloc and releases.
PoolUnlocked == \A t \in Threads : pc[t].op \in {"idle", "emptyCache"} \/ (pc[t].op \in {"emplace", "free_fn"} /\ ~pc[t].pooled)

Init ==
    /\ heap = [a \in Addrs |-> 0] /\ allocation_metadata_ = <<>> /\ held = [a \in Addrs |-> "no"]
    /\ lastFree = [size |-> 0, was |-> 0] /\ misfreed = {} /\ late = {} /\ allocs = 0
    /\ pc = [t \in Threads |-> Idle] /\ mempool = "none" /\ exists = FALSE /\ use_count = 0
    /\ freeable = FALSE /\ supaMalloc_count = 0 /\ capture = FALSE /\ active = [t \in Threads |-> FALSE]

-----------------------------------------------------------------------------
\* malloc calls alloc_fn without a lock and enters the size under its own.
alloc_fn(t, size, kind) ==
    /\ allocs < MaxAllocs /\ allocs' = allocs + 1
    /\ \E a \in IF \E b \in Addrs : heap[b] = 0 THEN {b \in Addrs : heap[b] = 0} ELSE {Null} :
         /\ heap' = IF a = Null THEN heap ELSE [heap EXCEPT ![a] = size]
         /\ pc' = [pc EXCEPT ![t] = [op |-> "emplace", addr |-> a, size |-> size,
                                     kind |-> kind, pooled |-> kind = "live"]]
    /\ UNCHANGED <<allocation_metadata_, held, lastFree, misfreed, late>>

\* emplace leaves an entry that is already there.
emplace(table, a, size) == IF a \in DOMAIN table THEN table ELSE [x \in DOMAIN table \cup {a} |-> IF x = a THEN size ELSE table[x]]

malloc(t) ==
    /\ pc[t].op = "emplace"
    /\ allocation_metadata_' = emplace(allocation_metadata_, pc[t].addr, pc[t].size)
    /\ held' = IF pc[t].addr = Null THEN held ELSE [held EXCEPT ![pc[t].addr] = pc[t].kind]
    /\ supaMalloc_count' = IF pc[t].pooled /\ pc[t].addr # Null THEN supaMalloc_count + 1 ELSE supaMalloc_count
    /\ pc' = [pc EXCEPT ![t] = Idle]
    /\ UNCHANGED <<heap, lastFree, misfreed, late, allocs, mempool, exists, use_count, freeable, capture, active>>

\* allocate, raw_alloc
Allocate(t, size, kind) == pc[t] = Idle /\ alloc_fn(t, size, kind) /\ UNCHANGED pool

CallFree(a, size) ==
    /\ lastFree' = [size |-> size, was |-> heap[a]]
    /\ heap' = [heap EXCEPT ![a] = 0]

\* The deleter of a DataPtr: its context has the size.
custom_raw_deleter(t, a) ==
    /\ pc[t] = Idle /\ held[a] = "data" /\ CallFree(a, heap[a])
    /\ held' = [held EXCEPT ![a] = "no"]
    /\ UNCHANGED <<allocation_metadata_, misfreed, late, allocs, pc, pool>>

\* raw_delete takes the entry out of the table and then, unlocked, calls free_fn.
\* rest: the blocks a release still has to return.
Erase(table, a) == Restrict(table, DOMAIN table \ {a})

raw_delete(t, a, rest, pooled) ==
    /\ a \in DOMAIN allocation_metadata_
    /\ allocation_metadata_' = Erase(allocation_metadata_, a)
    /\ held' = [held EXCEPT ![a] = "no"]
    /\ pc' = [pc EXCEPT ![t] = [op |-> "free_fn", addr |-> a, size |-> allocation_metadata_[a],
                                rest |-> rest, pooled |-> pooled]]
    /\ UNCHANGED <<heap, lastFree, misfreed, late, allocs>>

Delete(t, a) == pc[t] = Idle /\ held[a] = "raw" /\ raw_delete(t, a, {}, FALSE) /\ UNCHANGED pool

free_fn(t) ==
    /\ pc[t].op = "free_fn" /\ CallFree(pc[t].addr, pc[t].size)
    /\ pc' = [pc EXCEPT ![t] = IF pc[t].pooled THEN [op |-> "release", rest |-> pc[t].rest] ELSE Idle]
    /\ UNCHANGED <<allocation_metadata_, held, misfreed, late, allocs, pool>>

-----------------------------------------------------------------------------
\* The MemPool.
MemPool(t) ==
    /\ pc[t] = Idle /\ PoolUnlocked /\ mempool = "none"
    /\ mempool' = "alive" /\ exists' = TRUE /\ use_count' = 1
    /\ UNCHANGED <<memory, pc, freeable, supaMalloc_count, capture, active>>

\* use_mem_pool: beginAllocateToPool counts the use before it finds that the
\* pool is being recorded to.
enter(t) ==
    /\ pc[t] = Idle /\ PoolUnlocked /\ mempool = "alive" /\ use_count < 3
    /\ IF capture
       THEN Reenter /\ UNCHANGED <<capture, active>>
       ELSE capture' = TRUE /\ active' = [active EXCEPT ![t] = TRUE]
    /\ use_count' = use_count + 1
    /\ UNCHANGED <<memory, pc, mempool, exists, freeable, supaMalloc_count>>

Released(n) == n - 1

releasePool == use_count' = Released(use_count) /\ freeable' = (freeable \/ Released(use_count) = 0)

exit(t) ==
    /\ pc[t] = Idle /\ PoolUnlocked /\ active[t]
    /\ capture' = FALSE /\ releasePool /\ active' = [active EXCEPT ![t] = FALSE]
    /\ UNCHANGED <<memory, pc, mempool, exists, supaMalloc_count>>

\* While the pool is recorded to every thread allocates from it.
poolMalloc(t, size) ==
    /\ pc[t] = Idle /\ PoolUnlocked /\ capture
    /\ IF \E a \in Addrs : held[a] = "cached" /\ heap[a] = size
       THEN /\ \E a \in Addrs : held[a] = "cached" /\ heap[a] = size /\ held' = [held EXCEPT ![a] = "live"]
            /\ UNCHANGED <<heap, allocation_metadata_, lastFree, misfreed, late, allocs, pc>>
       ELSE alloc_fn(t, size, "live")
    /\ UNCHANGED pool

poolFree(t, a) ==
    /\ pc[t] = Idle /\ PoolUnlocked /\ held[a] = "live"
    /\ held' = [held EXCEPT ![a] = "cached"]
    /\ late' = IF mempool = "gone" THEN late \cup {a} ELSE late
    /\ UNCHANGED <<heap, allocation_metadata_, lastFree, misfreed, allocs, pc, pool>>

\* emptyCache: release_cached_blocks.
emptyCache(t) ==
    /\ pc[t] = Idle \/ pc[t].op = "emptyCache"
    /\ PoolUnlocked
    /\ pc' = [pc EXCEPT ![t] = [op |-> "release",
                                rest |-> IF freeable THEN {a \in Addrs : held[a] = "cached"} ELSE {}]]
    /\ UNCHANGED <<memory, pool>>

\* ~MemPool has released the pool and not yet made it active in its thread.
Closing == \E u \in Threads : pc[u].op = "emptyCache"

release_block(t, a) ==
    /\ pc[t].op = "release" /\ a \in pc[t].rest
    /\ supaMalloc_count' = supaMalloc_count - 1
    /\ IF active[t]
       THEN raw_delete(t, a, pc[t].rest \ {a}, TRUE)
       ELSE /\ misfreed' = misfreed \cup {[late |-> a \in late, closing |-> Closing]}
            /\ held' = [held EXCEPT ![a] = "no"]
            /\ pc' = [pc EXCEPT ![t].rest = @ \ {a}]
            /\ UNCHANGED <<heap, allocation_metadata_, lastFree, late, allocs>>
    /\ UNCHANGED <<mempool, exists, use_count, freeable, capture, active>>

ErasesPool(n) == n = 0

released(t) ==
    /\ pc[t].op = "release" /\ pc[t].rest = {}
    /\ exists' = (exists /\ ~(freeable /\ ErasesPool(supaMalloc_count)))
    /\ freeable' = (freeable /\ ~ErasesPool(supaMalloc_count))
    /\ active' = [active EXCEPT ![t] = IF mempool = "gone" THEN FALSE ELSE @]
    /\ pc' = [pc EXCEPT ![t] = Idle]
    /\ UNCHANGED <<memory, mempool, use_count, supaMalloc_count, capture>>

\* ~MemPool: releasePool, then emptyCache with the pool made active.
\* Mutant: the cache is emptied outside of the pool's context.
DtorContext_None == FALSE
DtorContext == TRUE

destroy(t) ==
    /\ pc[t] = Idle /\ PoolUnlocked /\ mempool = "alive" /\ \A u \in Threads : ~active[u]
    /\ Outlive \/ \A a \in Addrs : held[a] # "live"
    /\ mempool' = "gone" /\ releasePool /\ active' = [active EXCEPT ![t] = DtorContext]
    /\ pc' = [pc EXCEPT ![t] = [op |-> "emptyCache"]]
    /\ UNCHANGED <<memory, exists, supaMalloc_count, capture>>

Next ==
    \E t \in Threads :
        \/ \E s \in Sizes, k \in Kinds : Allocate(t, s, k)
        \/ \E a \in Addrs : custom_raw_deleter(t, a) \/ Delete(t, a) \/ poolFree(t, a) \/ release_block(t, a)
        \/ \E s \in Sizes : poolMalloc(t, s)
        \/ malloc(t) \/ free_fn(t) \/ MemPool(t) \/ enter(t) \/ exit(t)
        \/ emptyCache(t) \/ released(t) \/ destroy(t)

Spec == Init /\ [][Next]_vars

-----------------------------------------------------------------------------
\* free_fn is given the size its memory was allocated with, and memory that
\* is still allocated (SUPAPluggableAllocator::raw_delete).
FreedWithOwnSize == lastFree.size = lastFree.was

\* Memory that alloc_fn handed out is never returned with supaFree: "If there
\* is an active mempool with a given allocator, we use the given allocator's
\* delete function" (release_block). Broken where ForeignFrees says.
OwnerFrees == misfreed = {}

\* Memory that alloc_fn handed out goes to supaFree only in two ways: another
\* thread empties the cache while ~MemPool is between releasePool and making
\* the pool active, or the block was freed after the MemPool was gone
\* (release_block, MemPool::~MemPool).
ForeignFrees == \A m \in misfreed : m.late \/ m.closing

\* The pool is used by its MemPool and the contexts that route to it, and it
\* can be freed when neither is left (create_or_incref_pool, releasePool).
UseCountExact ==
    /\ use_count = Cardinality({t \in Threads : active[t] /\ mempool = "alive"}) + (IF mempool = "alive" THEN 1 ELSE 0)
    /\ freeable => use_count = 0

\* A pool with segments stays, and so does the allocator it holds for them
\* (release_cached_blocks).
PoolKeptForSegments ==
    /\ InPool # {} => exists
    /\ supaMalloc_count = Cardinality(InPool)

\* Once ~MemPool has returned, of its pool's memory only what was freed later
\* is cached, and the next emptyCache finds it (MemPool::~MemPool).
NothingLeft ==
    mempool = "gone" /\ (\A t \in Threads : pc[t] = Idle) =>
        \A a \in Addrs : held[a] = "cached" => a \in late /\ freeable
=============================================================================
