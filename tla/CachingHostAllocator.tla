------------------------ MODULE CachingHostAllocator ------------------------
(* The pinned host memory allocator, SUPAHostAllocator, called by several   *)
(* threads.  It has three mutexes and one per block, and no lock spans a    *)
(* method: an action is what a thread does between an unlock and the next   *)
(* lock.  Memory is named by its address.                                    *)
EXTENDS Integers, FiniteSets, FiniteSetsExt, SequencesExt

CONSTANTS
    Threads, Streams,
    MaxPtr,         \* addresses are 1 .. MaxPtr
    Sizes,          \* sizes asked for
    HostRegister,   \* values pinned_use_supa_host_register may be set to
    MayFail         \* whether the calls on events may report a device error

Ptrs == 1 .. MaxPtr

HostAssumption ==
    /\ MaxPtr \in Nat /\ Sizes \subseteq Nat \ {0} /\ IsFiniteSet(Streams)
    /\ HostRegister \subseteq BOOLEAN /\ HostRegister # {} /\ MayFail \in BOOLEAN

VARIABLES
    memory,         \* how each address was obtained from the system, or "none"
    block,          \* the Block of an address
    blocks_,        \* addresses in blocks_ and ptr_to_block_
    free_list_,
    supa_events_,   \* the deque: events are added at the front, taken at the back
    cached_events,  \* events kept by the pool create_event_internal uses
    host_register,  \* pinned_use_supa_host_register
    failed,         \* a device error has been reported
    work,           \* external: streams with queued work on an address
    pc, local       \* of each thread

ghost == <<work, failed>>
lists == <<blocks_, free_list_, supa_events_, cached_events>>
vars == <<memory, block, lists, host_register, ghost, pc, local>>

NewBlock(size) ==
    [size |-> size, allocated |-> TRUE, event_count |-> 0, streams |-> {}]

\* What a thread holds: the method it runs, the size it wants, the block and
\* the streams or events in its hands.
Idle == [op |-> "none", size |-> 0, ptr |-> 0, streams |-> {}, events |-> <<>>]

Init ==
    /\ memory = [p \in Ptrs |-> "none"]
    /\ block = [p \in Ptrs |-> NewBlock(0)]
    /\ blocks_ = {} /\ free_list_ = {} /\ supa_events_ = <<>> /\ cached_events = 0
    /\ host_register \in HostRegister
    /\ work = [p \in Ptrs |-> {}] /\ failed = FALSE
    /\ pc = [t \in Threads |-> "idle"]
    /\ local = [t \in Threads |-> Idle]

At(t, l) == pc[t] = l
Goto(t, l) == pc' = [pc EXCEPT ![t] = l]
Return(t) == Goto(t, "idle") /\ local' = [local EXCEPT ![t] = Idle]

PowerOf2Ceil(n) == CHOOSE p \in {2^k : k \in 0 .. n} :
                      p >= n /\ \A k \in 0 .. n : 2^k >= n => p <= 2^k

-----------------------------------------------------------------------------
\* allocate and empty_cache begin with process_events.
allocate(t, n) ==
    /\ At(t, "idle") /\ Goto(t, "process")
    /\ local' = [local EXCEPT ![t].op = "allocate", ![t].size = n]
    /\ UNCHANGED <<memory, block, lists, host_register, ghost>>

empty_cache(t) ==
    /\ At(t, "idle") /\ Goto(t, "process")
    /\ local' = [local EXCEPT ![t].op = "empty"]
    /\ UNCHANGED <<memory, block, lists, host_register, ghost>>

AfterEvents(t) == IF local[t].op = "allocate" THEN "search" ELSE "empty_events"

\* process_events takes the oldest event off the deque.
pop_event(t) ==
    /\ At(t, "process")
    /\ IF supa_events_ = <<>>
       THEN Goto(t, AfterEvents(t)) /\ UNCHANGED <<supa_events_, local>>
       ELSE /\ Goto(t, "query")
            /\ local' = [local EXCEPT ![t].ptr = Last(supa_events_).ptr,
                                      ![t].streams = {Last(supa_events_).stream}]
            /\ supa_events_' = Front(supa_events_)
    /\ UNCHANGED <<memory, block, blocks_, free_list_, cached_events, host_register, ghost>>

\* External: the event is ready when the work queued before it is done.
Ready(t) == local[t].streams \cap work[local[t].ptr] = {}

Drop(t) == local' = [local EXCEPT ![t].ptr = 0, ![t].streams = {}]

\* An event that is not ready goes back to the old end, and ends the loop.
query_event(t) ==
    /\ At(t, "query")
    /\ IF Ready(t)
       THEN Goto(t, "complete") /\ UNCHANGED <<supa_events_, local>>
       ELSE /\ supa_events_' = Append(supa_events_,
                 [ptr |-> local[t].ptr, stream |-> CHOOSE s \in local[t].streams : TRUE])
            /\ Goto(t, AfterEvents(t)) /\ Drop(t)
    /\ UNCHANGED <<memory, block, blocks_, free_list_, cached_events, host_register, ghost>>

\* A device error throws; the event in hand is given back to its pool.
query_event_fails(t) ==
    /\ At(t, "query") /\ MayFail
    /\ failed' = TRUE /\ cached_events' = cached_events + 1 /\ Return(t)
    /\ UNCHANGED <<memory, block, blocks_, free_list_, supa_events_, host_register, work>>

\* Mutant: the block is available as soon as one event is complete.
complete_event_First(t) ==
    /\ At(t, "complete")
    /\ block' = [block EXCEPT ![local[t].ptr].event_count = @ - 1]
    /\ Goto(t, "insert")
    /\ UNCHANGED <<memory, lists, host_register, ghost, local>>

\* Under the block's mutex: one event less.  The last one makes the block
\* available; the thread adds it to the free list after it has unlocked.
complete_event(t) ==
    /\ At(t, "complete")
    /\ block' = [block EXCEPT ![local[t].ptr].event_count = @ - 1]
    /\ IF block[local[t].ptr].event_count = 1
       THEN Goto(t, "insert") /\ UNCHANGED <<cached_events, local>>
       ELSE Goto(t, "process") /\ Drop(t) /\ cached_events' = cached_events + 1
    /\ UNCHANGED <<memory, blocks_, free_list_, supa_events_, host_register, ghost>>

insert_available(t) ==
    /\ At(t, "insert")
    /\ free_list_' = free_list_ \cup {local[t].ptr}
    /\ cached_events' = cached_events + 1
    /\ Goto(t, "process") /\ Drop(t)
    /\ UNCHANGED <<memory, block, blocks_, supa_events_, host_register, ghost>>

\* BlockComparator: by size, then by address.
Before(p, q) == \/ block[p].size < block[q].size
                \/ block[p].size = block[q].size /\ p < q

Fitting(n) == {p \in free_list_ : block[p].size >= n}

\* The lower_bound of the size in the free list, if there is one.
take_free_block(t) ==
    /\ At(t, "search")
    /\ \E p \in Fitting(local[t].size) :
          /\ \A q \in Fitting(local[t].size) \ {p} : Before(p, q)
          /\ block' = [block EXCEPT ![p].allocated = TRUE]
          /\ free_list_' = free_list_ \ {p}
    /\ Return(t)
    /\ UNCHANGED <<memory, blocks_, supa_events_, cached_events, host_register, ghost>>

no_free_block(t) ==
    /\ At(t, "search") /\ Fitting(local[t].size) = {}
    /\ Goto(t, "create")
    /\ UNCHANGED <<memory, block, lists, host_register, ghost, local>>

\* New memory, from supaHostAlloc or from malloc and supaHostRegister
create_block(t) ==
    /\ At(t, "create")
    /\ \E p \in Ptrs :
          /\ memory[p] = "none"
          /\ memory' = [memory EXCEPT ![p] =
                IF host_register THEN "registered" ELSE "host_alloc"]
          /\ block' = [block EXCEPT ![p] = NewBlock(PowerOf2Ceil(local[t].size))]
          /\ local' = [local EXCEPT ![t].ptr = p]
    /\ Goto(t, "publish")
    /\ UNCHANGED <<lists, host_register, ghost>>

\* The driver refuses, and the exception leaves allocate; memory that could not
\* be registered is not given back to malloc.
create_block_fails(t) ==
    /\ At(t, "create") /\ Return(t)
    /\ \/ UNCHANGED memory
       \/ \E p \in Ptrs : host_register /\ memory[p] = "none"
                         /\ memory' = [memory EXCEPT ![p] = "lost"]
    /\ UNCHANGED <<block, lists, host_register, ghost>>

publish_block(t) ==
    /\ At(t, "publish")
    /\ blocks_' = blocks_ \cup {local[t].ptr} /\ Return(t)
    /\ UNCHANGED <<memory, block, free_list_, supa_events_, cached_events, host_register, ghost>>

-----------------------------------------------------------------------------
\* Memory the program holds: allocated, and no longer in the hands of allocate.
Held(p) == /\ p \in blocks_ /\ block[p].allocated

\* free, under the block's mutex: the streams are taken over and counted.  The
\* program has called record_event for every stream that uses the memory.
free(t, p) ==
    /\ At(t, "idle") /\ Held(p) /\ work[p] \subseteq block[p].streams
    /\ block' = [block EXCEPT ![p].allocated = FALSE, ![p].streams = {},
                    ![p].event_count = @ + Cardinality(block[p].streams)]
    /\ local' = [local EXCEPT ![t].ptr = p, ![t].streams = block[p].streams]
    /\ Goto(t, IF block[p].streams = {} THEN "free_insert" ELSE "record")
    /\ UNCHANGED <<memory, lists, host_register, ghost>>

free_insert(t) ==
    /\ At(t, "free_insert")
    /\ free_list_' = free_list_ \cup {local[t].ptr} /\ Return(t)
    /\ UNCHANGED <<memory, block, blocks_, supa_events_, cached_events, host_register, ghost>>

\* One event per stream, from the pool while it has some, outside every mutex;
\* the set of streams has no order.
record_streams(t) ==
    /\ At(t, "record")
    /\ \E order \in SetToSeqs(local[t].streams) :
          local' = [local EXCEPT ![t].events =
              [i \in DOMAIN order |-> [ptr |-> local[t].ptr, stream |-> order[i]]]]
    /\ cached_events' = Max({0, cached_events - Cardinality(local[t].streams)})
    /\ Goto(t, "enqueue")
    /\ UNCHANGED <<memory, block, blocks_, free_list_, supa_events_, host_register, ghost>>

\* An event cannot be created or recorded: the exception leaves free, the events
\* made so far go to the pool, and event_count stays raised.
record_streams_fails(t) ==
    /\ At(t, "record") /\ MayFail
    /\ \E made \in 0 .. Cardinality(local[t].streams) : cached_events' = Max({made, cached_events})
    /\ failed' = TRUE /\ Return(t)
    /\ UNCHANGED <<memory, block, blocks_, free_list_, supa_events_, host_register, work>>

enqueue_events(t) ==
    /\ At(t, "enqueue")
    /\ supa_events_' = Reverse(local[t].events) \o supa_events_
    /\ Return(t)
    /\ UNCHANGED <<memory, block, blocks_, free_list_, cached_events, host_register, ghost>>

record_event(t, p, s) ==
    /\ At(t, "idle") /\ Held(p)
    /\ block' = [block EXCEPT ![p].streams = @ \cup {s}]
    /\ UNCHANGED <<memory, lists, host_register, ghost, pc, local>>

-----------------------------------------------------------------------------
\* empty_cache clears event_pool_, which is not the pool events come from.
empty_events(t) ==
    /\ At(t, "empty_events") /\ Goto(t, "release")
    /\ UNCHANGED <<memory, block, lists, host_register, ghost, local>>

\* How the present setting gives memory back
Releasable(p) == memory[p] = IF host_register THEN "registered" ELSE "host_alloc"

\* With the free list's mutex and blocks_mutex_: the cached blocks are dropped
\* in their order; an error of the driver leaves the loop.
release_blocks(t) ==
    /\ At(t, "release")
    /\ LET bad  == {p \in free_list_ : ~Releasable(p)}
           done == {p \in free_list_ : \A q \in bad : Before(p, q)}
           gone == {p \in free_list_ : \A q \in bad \ {p} : Before(p, q)}
       IN  /\ memory' = [p \in Ptrs |-> IF p \in done THEN "none" ELSE memory[p]]
           /\ blocks_' = blocks_ \ gone
    /\ free_list_' = {}
    /\ Return(t)
    /\ UNCHANGED <<block, supa_events_, cached_events, host_register, ghost>>

\* setAllocatorSettings may change the setting at any time.
setAllocatorSettings(r) ==
    /\ host_register' = r
    /\ UNCHANGED <<memory, block, lists, ghost, pc, local>>

\* External: work on memory the program holds is queued and done.
launch(p, s) ==
    /\ Held(p) /\ work' = [work EXCEPT ![p] = @ \cup {s}]
    /\ UNCHANGED <<memory, block, lists, host_register, failed, pc, local>>

retire(p, s) ==
    /\ s \in work[p] /\ work' = [work EXCEPT ![p] = @ \ {s}]
    /\ UNCHANGED <<memory, block, lists, host_register, failed, pc, local>>

Step(t) ==
    \/ pop_event(t) \/ query_event(t) \/ query_event_fails(t) \/ complete_event(t)
    \/ insert_available(t) \/ take_free_block(t) \/ no_free_block(t)
    \/ create_block(t) \/ create_block_fails(t) \/ publish_block(t)
    \/ free_insert(t) \/ record_streams(t) \/ record_streams_fails(t) \/ enqueue_events(t)
    \/ empty_events(t) \/ release_blocks(t)

Call(t) ==
    \/ \E n \in Sizes : allocate(t, n)
    \/ empty_cache(t)
    \/ \E p \in Ptrs : free(t, p) \/ \E s \in Streams : record_event(t, p, s)

Next ==
    \/ \E t \in Threads : Step(t) \/ Call(t)
    \/ \E r \in HostRegister : setAllocatorSettings(r)
    \/ \E p \in Ptrs, s \in Streams : launch(p, s) \/ retire(p, s)

Spec == Init /\ [][Next]_vars

\* Threads and streams are interchangeable.
Symmetry == Permutations(Threads) \cup Permutations(Streams)

-----------------------------------------------------------------------------
(* Properties.                                                             *)

\* Memory in the free list is used by nobody: no stream has work on it, no
\* event is outstanding, and the program does not hold it, whatever the threads
\* do between the mutexes of free and process_events.
HostMemoryQuiescent ==
    \A p \in free_list_ :
        /\ work[p] = {} /\ memory[p] # "none"
        /\ ~block[p].allocated /\ block[p].event_count = 0 /\ block[p].streams = {}

QueuedFor(p) == Cardinality({i \in DOMAIN supa_events_ : supa_events_[i].ptr = p})

InHand(p) == Cardinality({t \in Threads : pc[t] \in {"query", "complete"} /\ local[t].ptr = p})

BeingFreed(p) == {t \in Threads : pc[t] \in {"record", "enqueue"} /\ local[t].ptr = p}

Unqueued(p) ==
    Cardinality({e \in BeingFreed(p) \X Streams : e[2] \in local[e[1]].streams})

\* event_count of a block is the number of its events: in the deque, in the
\* hands of a thread that queries them, or still to be queued by free.
EventsCounted ==
    ~failed => \A p \in blocks_ :
        block[p].event_count = QueuedFor(p) + InHand(p) + Unqueued(p)

\* No freed block is forgotten: it is in the free list, or its events will
\* bring it there, or a thread is about to put it there; and it is nowhere twice.
NoBlockForgotten ==
    ~failed => \A p \in blocks_ :
        LET carriers == {t \in Threads : pc[t] \in {"insert", "free_insert"} /\ local[t].ptr = p}
        IN  Cardinality(carriers) + (IF p \in free_list_ THEN 1 ELSE 0)
               + (IF block[p].event_count > 0 THEN 1 ELSE 0)
            = IF block[p].allocated THEN 0 ELSE 1

\* "Release cached events from the event pool": empty_cache leaves no event cached.
EventPoolReleased ==
    [][\A t \in Threads : pc[t] = "empty_events" /\ pc'[t] = "release" => cached_events' = 0]_vars

\* empty_cache "frees all cached pinned memory and returns it to the system".
CachedMemoryReturned ==
    [][\A t \in Threads : pc[t] = "release" /\ pc'[t] = "idle" =>
          \A p \in free_list_ : memory'[p] = "none"]_vars

=============================================================================
