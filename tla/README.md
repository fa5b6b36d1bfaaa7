# Verification of torch_supa

`torch_supa` is the PyTorch backend for the SUPA accelerator.  Its own logic, as
opposed to the numerical kernels it forwards to libraries, is the runtime under
`torch_supa/csrc`: who owns which piece of device or host memory and when it may
be reused, what happens to that while graphs are captured, how processes share
memory, how collective operations are watched and torn down, what the recorders
and the profiler tell about all of it, and how kernels find their elements.  This
directory models that runtime in TLA+, checks it with TLC and proves parts of it
with TLAPS.

## 1. Inventory

| Component | State it keeps | Operations | What is hard | What makes it correct |
|---|---|---|---|---|
| Device caching allocator, `core/supa/SUPACachingAllocator.cpp` | blocks (active, cached), segments, end-of-life events, blocks deferred during capture, private pools, limit, statistics | `malloc`, `free`, `recordStream`, `emptyCache`, `setMemoryFraction`, pool calls | blocks used by several streams, captures, a chain of retries, callbacks that re-enter | no reuse while another stream's work is queued; segments stay tiled; counts agree; OOM only when nothing is left |
| Expandable segments, checkpoints, history (same file) | mapped pages, saved pools, ring of trace entries | map, unmap, checkpoint, restore, record, snapshot | pages under several blocks; deleters of storages that outlive a restore | blocks are backed; a restore reproduces; the trace is what happened |
| Memory pools and custom allocators, `MemPool.cpp`, `SUPAPluggableAllocator.cpp` | references, sizes, the active pool of a thread | construct, destruct, allocate, delete | destruction while others allocate | memory is freed by the allocator it came from |
| Allocator configuration, `SUPAAllocatorConfig.cpp` | settings | parse, lookup | a parse that fails half-way | the settings are those of the string |
| Pinned host allocator, `CachingHostAllocator.cpp` | blocks with their own mutex, free list, event queue | `allocate`, `free`, `record_event`, `empty_cache` | four mutexes, events recorded outside them | same promise as the device allocator, under real concurrency |
| IPC, `csrc/ipc`, and the cache of opened handles | counter files, limbo of sent blocks, weak pointers | share, receive, release, collect | several processes, counters read while they change | memory is freed only when no receiver uses it |
| Collectives, `ProcessGroupBCCL.cpp` | work list, communicators, watchdog / hook / heartbeat threads, stashes | enqueue, watchdog pass, abort, shutdown, dump | termination racing with enqueue and time-outs | works are settled once, hooks run, memory outlives its kernels, shutdown ends |
| Flight recorder, `FlightRecorder.cpp` | ring of entries | record, retire, dump | overwriting an entry that is still referred to | a dump tells the state of each operation |
| Symmetric memory, `distributed/symm_mem` | signal pads, imported blocks, multicast objects | kernels, rendezvous, all-reduce | ranks at different places of the same program | ranks meet; all agree on the outcome |
| Streams, contexts, events, copies, `core/supa`, `aten/common/Copy.cpp` | pools, current device and stream, target device | get, guard, record, copy | lazy creation, nested guards, streams of several devices | what was current is restored; copies are ordered |
| Graph capture and generator, `SUPAGraph.cpp`, `SUPAGeneratorImpl.cpp` | phase, registered generators, offsets | capture, replay, seed, reset | kernels that read the offset when they run | a replay draws what an eager run would |
| Loggers, `utils/logger` | rings, queues, files | log, pop, dump | several producers over atomics, signal handlers | messages are not lost, doubled or reordered |
| Library handles, device assertions | pools per device, per-thread windows; ring of launches | reserve, release; launch, check | threads that end, failing calls | a handle is with one thread; a report names its launch |
| Profiler, `csrc/profiler` | subqueues, correlation stack, tree of events | record, replay, build | threads and profilers that come and go | events belong to their profiler, thread and parent |
| Reductions and elementwise kernels, `aten/ops/kernels` | shapes, offsets, semaphores | configure, dispatch, load, store | sizes at the edges of vectors, tiles and blocks | every element exactly once, with the right type and alignment |
| Operators, bindings, code generation, gradient scaler | none of their own, or formatting only | | | not modelled |

How they interact.  Operators call `malloc` and `free` through tensors and
`recordStream` when a tensor is used on another stream.  `SUPAGraph` and `MemPool`
divert allocations to private pools with `beginAllocateToPool` and hold a
reference on the pool until `releasePool`.  The IPC collector registers a
free-memory callback that `malloc` runs while it has the mutex.  The collectives
record streams and events of their own and register the allocator's segments on
their communicators through its trace hooks; their watchdog queries events and
signals the monitors, which dump the flight recorder.

`PROJECT.json` lists every component with its status, every hazard with the line
where it bites, and the correspondence between definitions and source lines.

## 2. Modules

A module keeps the names of the members and methods it models.  Actions are what
happens between two points where another actor may intervene: under a mutex a
whole method, otherwise a step per lock, atomic operation or call of a library.

| Module | Models | State and actions |
|---|---|---|
| DeviceCachingAllocator | the allocator of one device, see below | one action per method or per step of its loops |
| StreamOrderedMemory | abstract: what callers may rely on, with no cache, event or pool | allocations, held ranges, queued work |
| CachingHostAllocator, CachingHostAllocatorProofs | `SUPAHostAllocator`; theorems | a program counter per thread; a step is what a thread does between an unlock and the next lock |
| AllocatorConfig | `parseArgs` and the settings; theorem in DeviceServices | tokens of the string; each setting is assigned when it is read |
| ExpandableSegments | address space reserved per stream, pages mapped and unmapped | the blocks of a segment are a sequence; map, unmap, share, release |
| PoolCheckpoint | `getCheckpointState`, `setCheckpointPoolState` and the binding that moves deleters | pool, checkpoint, storages |
| MemoryHistory | `record_trace`, `recordHistory`, `snapshot` | ring of entries and its index, recorder, snapshots in progress |
| CustomAllocators | pluggable allocator, and a MemPool over one | table of sizes, pool, active pools of threads |
| SupaIPC | `SupaIPCTypes.cpp`, `StorageSharing.cpp` | counters and their files, limbo, threads of the producer, consumers that may die |
| IpcHandleCache | `getIpcDevPtr` and the cache of opened handles | weak pointers, shared pointers, deleters that still have to run |
| TensorCopy | `copy_`, `copy_device_to_device` | work queued on streams, waits, values of tensors as versions |
| DeviceContexts | `SUPAFunctions.cpp`, `SUPAGuardImpl.cpp`, `SUPAEvent.cpp`; theorem in DeviceServices | current and target device, streams, stack of guards |
| StreamPool | `SUPAStream.cpp`; theorems | once-flags, counters, ids packed in a number |
| GraphCapture | `SUPAGraph.cpp`, `SUPAGeneratorImpl.cpp` | phase of a graph, offsets and seeds, queue of a stream |
| HandlePool | `DeviceThreadHandles.h`, `SublasHandlePool.cpp`; theorems | pool, windows, map of workspaces with its data races |
| KernelLaunchRegistry | `SUPADeviceAssertionHost.cpp`; theorems | ring of launches, buffers, failing kernels |
| ProcessGroupWatchdog | works, watchdog, hook thread, monitor of one group on one rank; theorems | program counter per thread, list of works, timeouts and their extensions |
| DumpSignal | how one failure makes every rank dump | store, monitors of all groups of all ranks, the asynchronous dump |
| CommunicatorCache | communicators, registration of segments, abort; theorems | maps without their locks where the code takes none |
| CollectiveMemory | what keeps a tensor alive while a collective runs | user's and BCCL stream, stashes, groups |
| FlightRecorder | ring of operations, event cache | entries, borrowed events, a retire in progress |
| LogRing, RealtimeLog | the two loggers | one atomic operation per step; slots, queue, file |
| SignalPads | kernels that meet at signal pads | threads of a block per rank, words of the pads, sums as sets of inputs |
| SymmetricRendezvous | allocator, store exchange, descriptor channel, multicast | a program of calls per process |
| IntraNodeComm | handshake and link detection | views of the ranks |
| PythonTracer, EventTree, RecordQueue, ForwardBackwardLinks, TransferEvents | the profiler from recording to the tree | stacks and queues of threads; the algorithms are evaluated on every small input |
| ReduceShapes, GlobalReduce | launch configuration of a reduction; the reduction across blocks | every shape at the edges; blocks, staging buffer, semaphore, fences |
| OffsetCalculators, ElementwiseDispatch, ElementwiseKernels, PermuteCopy, CopyTypes | elementwise operations and permuted copies | index arithmetic in words of few bits; threads in any order |
| MCDeviceCachingAllocator | instances of the allocator | |
| DeviceServices | pinned memory, settings, guards, stream pools, handles and device assertions side by side; theorems | the variables of each, of which a behaviour uses one set |
| MCDeviceRuntime, MCComponents, MCProgress | instances of all the other components, section 3 | |
| DeviceCachingAllocatorProofs | theorems, section 4 | |

### The caching allocator: steps and atomicity

The doubly linked list of a segment's blocks is their address order; the free
lists are the set `cached_blocks`, whose members carry their pool; `deferred` is
`needs_events_deferred_until_no_capture`.  Two variables are not in the code:
`segments` (what the driver has handed out) and `kernels` (work queued on streams,
as the range it touches); `holders` counts the graphs and MemPools that will call
`releasePool`.

All public methods take one recursive mutex, so a method runs to its end before
the next begins: `pc` names where the running method is, and is also the lock.
Methods without a loop are one action.  `malloc` and `emptyCache` are sequences of
steps, one per block or event they handle, because the device (work is queued and
retired), the limit (`setMemoryFraction` takes no mutex) and, through the
callbacks, frees are interleaved with them:

    idle -> deferred -> query -> search -> callback -> search_again
         -> gc -> gc_loop -> alloc -> available -> alloc -> cached
         -> deferred -> sync -> release -> alloc -> oom -> idle

| Action | Code |
|---|---|
| `malloc` | the head of `malloc`: sizes, pool, first phase |
| `insert_events_deferred` | `insert_events_deferred_until_no_capture`, one block |
| `query_event`, `leave_stream` | `process_events`, one queue entry / leaving a queue |
| `get_free_block`, `no_free_block` | `get_free_block` with `alloc_found_block` |
| `callback_free`, `callback_return` | `trigger_free_memory_callbacks` |
| `garbage_collect`, `gc_release`, `gc_return` | `garbage_collect_cached_blocks` |
| `alloc_block`, `alloc_block_fails` | `alloc_block`, with `alloc_found_block` on success |
| `release_available`, `release_available_return` | `release_available_cached_blocks` |
| `retry_release`, `emptyCache` | the two callers of `release_cached_blocks` |
| `synchronize_event`, `synchronize_return` | `synchronize_and_free_events` |
| `release_cached`, `release_return` | `release_blocks`, and the erasure of pools |
| `throw` | leaving with an exception |
| `free`, `recordStream`, `setMemoryFraction` | the methods of these names |
| `createOrIncrefPool`, `beginAllocateToPool`, `endAllocateToPool`, `releasePool` | the methods of these names |
| `launch`, `retire` | external: work is queued and done |

What is assumed of the outside.  A caller launches work on memory it has
allocated, and frees it only after `recordStream` for every other stream whose
queued work touches it; that is the documented contract.  Work of one stream runs
in order.  `supaMalloc` hands out disjoint ranges and may fail at any time;
`supaFree` waits for work on the range, as the driver does.  An event is ready
when the work of its stream on the block is done; later work of the stream cannot
touch a freed block, so this is what the event records.

Kept and left out.  `release_lock_on_supamalloc` is read with a comparison that
never holds for the parsed token, so `alloc_block` keeps the lock.  The age
threshold of the garbage collector is a free choice among the blocks it may
release.  `use_on_oom_pools` and `no_split_pools` are only ever inserted into and
have no effect.  Peak statistics and the small/large statistics columns are left
out (the aggregate column is modelled).

## 3. What the runs check

### The caching allocator

| Run | Instance | Shows |
|---|---|---|
| `allocator_streams` | 3 streams, 1 segment of two blocks, 2 pieces of work, small and oversize requests | `FreeMemoryQuiescent`: cached memory is touched by its own stream only; `OomOnlyWhenExhausted`: an allocation fails only when nothing is left to free; `ImplementsMemory`: refinement of StreamOrderedMemory; `MutexReleased` under fairness: every method returns |
| `allocator_cache` | small, large and oversize requests, 2 segments, limit and garbage collector | `TypeOK`, `SegmentsTiled`, `FullyCoalesced`, `StatsExact`; `OversizeUnsplit`: an oversize cached block is a whole segment |
| `allocator_captures` | 2 streams, 1 private pool, captures with every filter | deferral: no event is recorded or queried during a capture (`NoEventsDuringCapture`), and queues, `event_count` and the deferred blocks agree (`EventsAccounted`) |
| `allocator_pools` | 2 private pools with up to 2 references, 2 segments | `PrivatePoolsAccounted`, `GraphMemoryRetained` |

Bounds.  One segment with room for two blocks is enough for a block, a neighbour
and the merge of both; three streams give a block two foreign users whose events
complete in either order.  Two segments are needed only where segments compete
(the limit, the collector, the retry chain).  `MaxUse` and `MaxKernels` bound the
references on a pool and the queued work; the thresholds are scaled so that every
branch of the size arithmetic is taken.  Segments, and streams where captures
accept every subset, are symmetric.

Five more runs are expected to fail; each checks what a comment says of the program.

- `graph_memory_freed`: with a `max_split_size`, an oversize block of a live graph's
  pool is given back to the driver by `release_available_cached_blocks`, although
  "we never supaFree those addresses before replay" (line 793).
- `cache_at_oom`: under a MemPoolContext the last retry looks at the active pool
  only, although the error comment (line 1077) says that all cached memory has been
  returned.
- `pool_reference_leak`: `beginAllocateToPool` takes its reference before it
  refuses, so `use_count` is not the "number of live graphs" (line 672).
- `sync_during_capture`: destroying a MemPool while another pool is captured reaches
  the assertion "capture should not be underway" (line 2790).
- `graph_replay_streams` (module GraphCapture): a graph that is captured on one
  stream and replayed on another draws other numbers than an eager run, although
  `SUPAGeneratorImpl.h:66-69` promises the same "even if RNG ops and graphs
  containing RNG ops are enqueued and run simultaneously on multiple streams": the
  generator has one `offset_extragraph_`, and a fill that is queued on the first
  stream may run between the second's fill and its launch.

### The other components

Their models do not share variables, so three runs check all of them: `Init` of
MCDeviceRuntime, MCComponents and MCProgress chooses one instance of one component
(`at`), whose variables are the shared `x1`, `x2`, ...  A behaviour is a behaviour
of that instance, and the reachable states are the disjoint union of the reachable
states of the instances.  A component appears with several instances when one set
of bounds does not reach everything: threads in one, devices, blocks or ring
entries in the other.  The parameters of each are in the `INSTANCE` that makes it,
and its module says what each bound is.  They were chosen so that rings wrap,
caches and pools run out, counters reach their limits, every vector, tile and
block has a partial last one, and two threads are at every pair of places; a third
actor is there only where two cannot disagree.  The services that section 4 proves
things about together are the instances of DeviceServices, which MCDeviceRuntime
extends; their constants are one record each, given by the `...Constants`
definitions of MCDeviceRuntime.

`device_runtime` checks:

- `HostMemorySafe` (CachingHostAllocator; 2 instances): Pinned memory in the free
  lists is touched by no queued work, in whatever order threads free, record and
  process events, a block that waits for events never drops out of their queue, and
  event_count is the number of its events wherever they are
  (SUPAHostAllocator::free, process_events).
- `SettingsFollow` (AllocatorConfig; one instance): The split size and the threshold
  of garbage collection are those of the last string, the other settings those of
  the last string that named them, also when a string was refused half-way; only
  release_lock_on_supamalloc is never set. Whatever the strings, the allocator can
  work with the settings (SUPAAllocatorConfig::parseArgs).
- `IpcMemorySafe` (SupaIPC, IpcHandleCache; 4 instances): Memory shared with other
  processes is freed only when no consumer has it any more, whoever dies or releases
  in whatever order, and the limit on events holds (SupaIPCTypes.cpp,
  StorageSharing.cpp). A consumer has a handle open at most once, while it is used,
  two storages never share bytes, and the cache is found in disorder only by a
  thread that looks a handle up while another one closes it (getIpcDevPtr).
- `SegmentsSound` (ExpandableSegments; 2 instances): Every byte of a block of an
  expandable segment has a page behind it, which every peer reaches, memory runs out
  only when no page can be freed, and an allocation passes the limit by less than a
  page, which map_block adds to the size the limit was checked for (map_block,
  unmap_block, addPeer, alloc_block).
- `DeletersValid` (PoolCheckpoint; 2 instances): A storage that will free its
  pointer owns an allocated block, and no two own the same: no deleter frees what
  the restore already freed (removeStorageDeleterFns, addStorageDeleterFns).
  (PoolCheckpoint)
- `SnapshotsTrue` (MemoryHistory; 2 instances): The trace is the end of what
  happened, in its order, also when the ring wraps, as long as the size of the ring
  is not changed while history is on (record_trace, trace). Of each device, the
  segments of a snapshot are those its trace leads to once what other threads did
  between the two is added: snapshot gives the mutex back in between, so it is of
  one moment only if nobody else allocates.
- `CustomMemorySafe` (CustomAllocators; 2 instances): Of one thread that uses its
  pool's memory no longer than the pool, memory goes back to the allocator it came
  from. With two threads and blocks that outlive the MemPool, supaFree gets it only
  from another thread's emptyCache in the middle of ~MemPool, or if it was freed
  after it; ~MemPool leaves nothing else; references and segments of the pool are
  counted, also while free_fn runs outside of the mutex; and free_fn is given the
  size its memory was allocated with, where no DataPtr owned the address before.
  Nobody enters a pool that is being used: run pool_reference_leak is about that
  (SUPAPluggableAllocator.cpp, MemPool.cpp).
- `CopiesOrdered` (TensorCopy; 2 instances): A tensor has the value it would have if
  every call had been finished before the next, and the host reads a copy only when
  it is complete, as long as no copy between host and device is on the stream of
  another device than the tensor's, beside work there: copy_ takes the stream of the
  current device. The temporaries of a copy need none of their own (copy_,
  copy_device_to_device).
- `ScopesRestored` (DeviceContexts, StreamPool; 3 instances): After every scope the
  device and the streams are those from before it, and work is launched on the
  device that is current for the program (SUPAGuardImpl.cpp, SUPAFunctions.cpp). A
  stream is handed out only when its pool is complete, the pool gives every stream
  its turn, and a stream's number leads back to it (SUPAStream.cpp).
- `RandomAsEager` (GraphCapture; 4 instances): The kernels of a replayed graph draw
  the numbers they would draw in an eager run, as long as the replays and captures
  that use a generator are on one stream, or on another one when the device has done
  what was queued (GraphedAsEager breaks otherwise); and no number is drawn twice.
  Generators are registered before a graph is captured (SUPAGraph::replay,
  capture_epilogue, philox_supa_state).
- `HandlesSafe` (HandlePool; 3 instances): A library handle is with one thread or in
  the pool, and when an operation starts it still has the stream, the workspace and
  the math mode of the call; a workspace is used on one stream only, and no more
  handles are made than threads were active at a time (DeviceThreadHandles.h,
  getCurrentSuBlasHandle).
- `AssertionsReported` (KernelLaunchRegistry; 2 instances): A report is right about
  every failure that was counted when its pause began, and names for a written entry
  only the launch that failed; what the device takes during the pause and has not
  written at its end is the exception. Every kernel that may fail has a buffer the
  host reads (SUPADeviceAssertionHost.cpp).
- `Reproduced` (PoolCheckpoint; 2 instances): Setting a checkpoint gives the
  segments it knows the blocks they had ("return it to its current state"), and
  frees every other block. (PoolCheckpoint)

`components` checks:

- `FailuresSettled` (ProcessGroupWatchdog, DumpSignal; 4 instances): A work has one
  result, settled once, and its hook runs once before it is forgotten, while other
  works are enqueued and fail (watchdogHandler, runHookLoop). What the works in
  flight own together are the extensions of the timeout in use
  (assignTimeoutToWork). In a group that tears down only an error of the
  communicator that begins between two looks at it is left without taking the
  process down. A watchdog throws after the dump, unless its wait ends first or the
  store fails, and unless that it leaves no failure without a dump
  (broadcastDumpSignal).
- `CommunicatorsSound` (CommunicatorCache; 4 instances): Threads that look up the
  same key work with the same communicator, and an aborted one holds no
  registration. Every segment is registered on every communicator of the map, with
  several threads as long as no segment comes or goes while a thread works through a
  snapshot of them, and no pool is registered before the communicator is in the map
  (getBCCLComm, initBCCLComm, abortComms).
- `CollectivesSafe` (CollectiveMemory; 4 instances): Memory a collective works on is
  not reused before its kernel has run, whatever the user drops and when, but for
  the outputs of four operations and what is given up inside a group; when
  TORCH_NCCL_AVOID_RECORD_STREAMS is set, all of it is if the user keeps the outputs
  and the Work until it has waited. The end event of a Work covers its kernels, also
  in blocks, but not those of a group the user opened, or of a block in which
  another group ends (collective, endCoalescing, pointToPoint).
- `RecorderTruthful` (FlightRecorder; 3 instances): The last operations can be
  found, a duration belongs to the operation of its entry, an entry never asks the
  events of another Work, and a dump tells the state of every operation that was
  launched; the last two but for operations whose Work went without the watchdog, by
  an exception or with its caller (FlightRecorder.cpp).
- `LogsFaithful` (RealtimeLog, LogRing; 4 instances): The file of the realtime
  logger has whole messages without gaps, whenever it is written, if no message has
  a digit where it is cut; else it is only divided in the wrong places
  (RealtimeLogger.cpp). The ring of the asynchronous logger, as long as it has room,
  loses no message and keeps the order of a thread, but for messages whose push
  overlaps the one of another thread (RingBuffer.h).
- `ProfileFaithful` (PythonTracer, EventTree, RecordQueue, ForwardBackwardLinks,
  TransferEvents; 8 instances): Every event of a profile belongs to the profiler,
  thread, call and launch that caused it: calls end at their return
  (profiler_python.cpp), events are those of the own profiler, and an operation
  leaves its correlation id behind only if its thread has no profiler when it ends
  (RecordQueue); the tree is the nesting of the events, to which adjusted times fit
  while every event has an end and their sums fit an int (build_tree); a kernel is
  below its launch (TransferEvents), an arrow starts at the operation that caused
  the backward one and has one end.
- `PadsMeet` (SignalPads; 2 instances): Kernels that meet at signal pads compute the
  sum of all inputs of their round, one_shot_all_reduce_copy only where the thread
  that copied an input is the one that signals; no rank leaves a barrier that
  another one has not entered, and no signal is left over for the next kernel
  (sync_remote_blocks, one_shot_all_reduce_kernel, two_shot_all_reduce_kernel).
- `RanksAgree` (SymmetricRendezvous, IntraNodeComm; 4 instances): All ranks of a
  rendezvous come to the same outcome, with the memory of the rank they asked for,
  and use multicast all or none (rendezvous, init_multicast_for_block); all ranks of
  an IntraNodeComm become ready, or none, and ready ranks are linked.
- `ReductionsRight` (ReduceShapes, GlobalReduce; 4 instances): Every input is
  reduced exactly once, no thread combines a value it did not set, vectors are
  aligned, each result has one thread and place to be stored by, shared memory is
  large enough (setReduceConfig, ReduceOp::run), and the block that counts last sees
  the partial results of all others, so that no output shows a part of them
  (global_reduce).
- `ElementsRight` (OffsetCalculators, ElementwiseDispatch, ElementwiseKernels,
  PermuteCopy, CopyTypes; 7 instances): Every element of an elementwise operation,
  or of a permuted copy between tensors of one type, is read from and written to its
  place (IntegerDivider, OffsetCalculator, the kernels of CUDALoops.cuh and
  copy.cu), except that a copy with a short last dimension writes places twice.
  Inputs are read with the type they are stored with, and outputs written so except
  by the kernels with fixed types (gpu_kernel_impl). The vectorized kernel and the
  bursts of copy.cu are aligned, and the hybrid kernel is if the storage offsets
  are; nothing is said of the full tiles of copy.cu.

`progress` checks, under fairness:

- `DroppedMemoryFreed` (SupaIPC; one instance): Memory that was dropped comes back
  once the consumers have released it, whatever order the releases and the
  collections come in (SupaIPCCollect). The blocks are interchangeable: b1 stands
  for each of them.
- `WorksProgress` (ProcessGroupWatchdog; 2 instances): Shutdown and abort end unless
  the process is taken down: the watchdog and the hook thread always come to be
  joined, be it that the hook throws now and then, or that works fail or time out in
  a group that cleans up, and are shut down or aborted meanwhile
  (ProcessGroupBCCL::shutdown, abort, runHookLoop). A hook that throws over and over
  is never joined, which its fairness excludes. An extension of the timeout is
  "reset after that work completes" or fails, as long as the group is in use and its
  waits do not block, which the watchdog serves (addEphemeralTimeout,
  watchdogHandler).
- `FailuresHandled` (DumpSignal; one instance): Once a watchdog has signalled a
  failure every process dumps, whichever group and rank saw it, unless it is taken
  down before, its dump hangs or the store goes away (broadcastDumpSignal,
  heartbeatMonitor). The process of a hung watchdog is ended in the end: always when
  its monitor is not the one that dumps, else unless the dump hangs, whose future
  the monitor waits for, or the store goes away (heartbeatMonitor).
- `CallsReturn` (LogRing, HandlePool, SignalPads, SymmetricRendezvous,
  IntraNodeComm; 6 instances): What a thread or a process waits for comes:
  RingBuffer::push also when the ring is full and others move both ends of it; the
  writing of all that one thread queued, unless the logger is destroyed; a handle of
  a library, as "we explicitly choose not to cap the number of handles"; the kernels
  that meet at signal pads; the rendezvous of symmetric memory between processes
  that are in one group only, and make the same calls in the same order;
  IntraNodeComm's on ranks that see no usable links, and on all if they see the
  same.

Fairness.  `MutexReleased` assumes that a thread inside a method keeps running and
that each piece of queued work is retired: the scheduler and the device guarantee
both.  `progress` assumes the same of threads inside a call (weak fairness of each
thread's steps: a thread that can go on does), of the watchdog and hook loops,
which run until they are told to leave, of the log thread, and of the threads of
kernels that were launched together.  Strong fairness is assumed of what has to
get a mutex that others keep taking and giving back (`hookErase`, `hookWake`,
`watchdogWake`, `watchdogStatus`, `workEnqueue`), and of the user's completion hook
(`hookReturn`): it may throw, and is then called again, but not every time.  The
code does not enforce that: a hook that throws over and over keeps its work in the
list and is never joined (ProcessGroupBCCL.cpp:2303, 2326).  Each monitor of each
process is a thread with its own weak fairness.  Nothing is assumed of callers:
when threads start, ask, log or end is up to them; nor that a library call
succeeds, that a dump returns, or that a peer process lives, except where a
property says so.

## 4. What is proved

`DeviceCachingAllocatorProofs` proves `TypeCorrect`, `Spec => []TypeOK`, for
every value of the constants (from `SizeAssumption`, `AllocatorAssumption`).
`TypeOK` is inductive: it ties the locals to the phase, and a malloc's size to
its segment's (`SizesFit`), which is what keeps the remainder of a split a
natural number.  The proof has one lemma per operator that changes blocks
(`FreeBlockEffect`, `InsertEventsEffect`, `DoFreeEffect`, `ReleaseBlockEffect`,
`AllocFoundEffect`) and one step per action.

The same module proves, for every value of the constants and from `SizeAssumption`,
`SplitAssumption` and `AllocatorAssumption`:

- `SafetyCorrect`, `Spec => []SafetyInv`.  `SafetyInv` contains the three
  promises the runs check by name, `SegmentsTiled`, `EventsAccounted` and
  `FreeMemoryQuiescent`, with what makes them inductive.
- `OversizeCorrect`, `Spec => []OversizeUnsplit`.

The invariant of the proof is `TypeOK /\ SafeAll`; `SafeAll` restates
`SafetyInv` over the sets of queue entries instead of the queues.  Its parts
need each other:

- *Geometry*: the blocks of a segment tile it, have one owner and one stream and
  pool per segment.  A merge keeps this only if the neighbour it absorbs is in
  the free lists; `try_merge_blocks` tests `allocated`, `event_count` and
  `stream_uses`, so one has to know that a freed block in `active_blocks` always
  has a use or an event left.
- *Accounts*: that is the second part.  `event_count` is the number of queues
  that name the block, a queue names freed blocks only, and a freed block is
  either deferred (with uses, without events) or has events (and no uses).
- *Work*: queued work of another stream on a freed block is in `stream_uses` or
  has an event.  When the last event is completed `event_count` is zero, so by
  Accounts no queue names the block, so no other stream's work touches it, and
  it may be cached.  Memory fresh from the driver has no work on it because work
  is only on segments that are mapped, and `supaFree` waits for it.
- *Locals and shapes*: a malloc's sizes fit its pool; only a request below
  `MaxSplitSize` splits a block, so by `SplitAssumption` (max_split_size is a
  whole number of megabytes above `kLargeBuffer`, see `parseMaxSplitSize`) a
  split segment has at most `MaxSplitSize + kSmallSize`.  Every block of a large
  pool is above `kSmallSize`, so no part of a split segment reaches
  `MaxSplitSize`.

There is one lemma per operator that changes blocks (`FreeBlockSafe`,
`CompleteEventSafe`, `InsertEventsSafe`, `DoFreeSafe`, `ReleaseSafe`,
`AllocFoundSafe`), and one step per action.

`TilingCorrect`, `EventsCorrect` and `QuiescenceCorrect` state the parts of
`SafetyInv` that the runs check.

What the allocator promises beyond it builds on `TypeOK /\ SafeAll`:

- `RefinementCorrect`, `Spec => ImplementsMemory`: the initial state maps to the
  abstract one, and every step maps to one of `StreamOrderedMemory` or to a
  stutter.  `do_free`, `complete_event` and `alloc_found_block` have a lemma
  each that names the abstract step (`DoFreeStep`, `CompleteStep`,
  `AllocFoundStep`).  The hard one is a merge: the range that becomes free is
  the freed block's, but the abstract memory wants the whole free range to be
  quiet, which the absorbed neighbour was already (`PartQuiet`,
  `ReturnedQuiet`).
- `CaptureCorrect`, `Spec => NoEventsDuringCapture`.  The test for a capture is
  made when a method starts and the events are touched phases later; the
  invariant `EventPhases` says that none of those phases is reached while a
  capture is underway (captures start and end only when the mutex is free).
- `CoalescedCorrect`, `Spec => []FullyCoalesced`.  Inductive with `SafeAll`: the
  neighbours of a merged block are not mergeable, hence not cached, because
  every cached block is mergeable; and the rest of a split block follows an
  allocated one.
- `ExhaustionCorrect`, `Spec => []OomOnlyWhenExhausted`.  `Retries` records what
  each phase of the retries has achieved (`Attempts`: which try a phase belongs
  to; `Achieved`: no event left from "release" on, nothing to release from the
  last "alloc" on) and that nothing undoes it before the error is thrown.
- `PoolsCorrect`, `Spec => []PrivatePoolsAccounted`.  `PoolsInv` adds that the
  pool a running malloc allocates to is being recorded to (`RecordsTo`), so that
  it exists when it is given a segment, and that the set of segments is finite.
  Splits and merges keep every pool's set of segments (`FreeBlockSegs`,
  `AllocFoundSegs`); a released block was alone in its segment (`NoBlockThere`,
  `ReleasePools`).
- `RetainedCorrect`, `Spec => GraphMemoryRetained`, if no request needs an
  oversize segment.  With `max_split_size` unlimited, its default, none does.
  Then no segment is oversize (`BelowSplit`) and
  `release_available_cached_blocks` finds nothing; the other two releases take
  segments of default and freeable pools.  Without the condition the property
  fails, as run `graph_memory_freed` shows.
- `StatsCorrect`, `Spec => []StatsExact`.  Every method that moves a block adjusts
  the entries of `DeviceStats` by hand; the theorem says that they, and
  `total_allocated_memory`, are always what the blocks and segments add up to.
  A byte sum is the number of units of memory that the ranges cover (`Units`), so
  that it needs no induction over the set: ranges that do not overlap cover the
  sum of their sizes (`AddRange`).  `StatsInv` therefore carries, next to one
  equation per entry, that the blocks are finitely many and apart (`Measured`).
  A step is followed by what it adds to a set of ranges (`Grows`: how many, how
  many units; `Enlarges`: how many oversize).  The hard part is
  `inactive_split`: a merge or a split could change whether the blocks *next* to it
  count as split, and the code adjusts the entry without looking at them.  It is
  right because what touched a part touches the merged block (`MergeTallies`), and
  a split leaves its two parts touching each other (`TakePart`).  A block released
  to the driver is the whole of its segment (`AloneWhole`), so it has no neighbour.

Only model-checked, of this component: `MutexReleased` (liveness under fairness).

`CachingHostAllocatorProofs` proves three promises of the pinned host allocator,
for every number of threads, streams and addresses (from `HostAssumption`, of
which only the finiteness of `Streams` is used):

- `HostQuiescenceCorrect`, `Spec => []HostMemoryQuiescent`.  The invariant `Inv`
  follows an event on its way: `Pending(p)` is the set of streams whose event for
  `p` is in the deque, in the hands of a thread that queries it, or still to be
  queued by `free`.  `Hands` says that each is in one of these places only, and that
  an event found complete stays complete: `launch` needs memory that is allocated,
  and that waits for no event.  `Counted` says `event_count >=
  Cardinality(Pending(p))`, and that with equality the pending events cover the
  queued work.  It is an inequality because a device error loses an event, be it
  that it is not recorded or that it cannot be queried, and leaves the count: such a
  block is never freed, which is safe.  `Listed` says who may have a free block.
- `HostNotForgottenCorrect`, `Spec => []NoBlockForgotten`, if `HostRegister` has
  one element: `pinned_use_supa_host_register` keeps its value.  `FInv` adds
  that a free block of `blocks_` is in the free list or carried there (`Found`),
  and that all memory was obtained in one way (`Steady`), so that
  `release_blocks` is not stopped half-way by a block it cannot give back.  When
  the setting changes, it is (see `CachedMemoryReturned` in section 5), and the
  blocks behind it are in no list.
- `EventsCountedCorrect`, `Spec => []EventsCounted`: until a device error,
  `event_count` is the number of events in the deque, in the hands of a thread and
  still to be queued.  `Counted` has the equality with `Cardinality(Pending(p))`,
  and by `Hands` the pending events are in these three places, each in one
  (`InvCounted`).

`CommunicatorCache` proves, at its end and from `CacheAssumption`, two promises
of the communicators of a process group for every number of threads, keys, pools
and segments:

- `SameCommunicatorCorrect`, `Spec => []SameCommunicator`.  `getBCCLComm` gives
  up its mutex between the look-up, the creation and the publication, so two
  threads may create a communicator for one key.  `EntryKept` says what a thread
  may rely on meanwhile: an entry goes from `inInitializationCommMap_` to
  `devBCCLCommMap_` and is never taken out of the latter, so from "cache" on the
  key has an entry in one of them, and the thread returns with that entry and
  not with the one it made.
- `AbortedCleanCorrect`, `Spec => []AbortedClean`.  `CommsClean` adds that only
  an aborted communicator is null, which is why `registerSegment` refuses it
  afterwards.  One lemma per method of `BCCLComm` shows that it keeps a
  communicator clean (`RegisterClean`, `DeregisterClean`, `AbortClean`,
  `UseClean`).

`StreamPool` proves, from `PoolAssumption`:

- `HandedOutReadyCorrect`, `Spec => []HandedOutReady`.  `CreatedOnce` is the
  invariant: what `std::call_once` promises (one creator per device, and nobody
  passes before it is done) and that a device that is done has no stream missing,
  also after creators that threw.
- `TurnsCorrect`, `Spec => [](RoundRobin /\ IdsDecode)`.  `TurnsTaken` says that a
  counter is the number of requests its pool has served, up to whole rounds, and
  that each request got the stream of its turn.  The counter wraps at
  `2 ^ CounterBits`, which the size of a pool divides, so the wrap skips no turn
  (`TurnsDraw`); two requests fewer than a pool apart then have places that differ
  (`TurnsSplit`, `ModDiffer`), and places that differ have numbers that differ
  because a number decodes (`IdFact`).

`PoolAssumption` says of the powers of two that they are positive, that the smaller
divides the larger and that one more bit doubles, which the provers cannot know
without induction.

`HandlePool` proves `HandlesCorrect` from `HandlesAssumption` (finitely many
threads, and `None` is no handle): the four properties of the pool,
`HandlesExclusive`, `CreatedIsHighWater`, `LaunchAsAsked` and
`WorkspacesPerStream`.  Its invariant `HandleInv` has these parts:

- *Exclusive*: the stack has no handle twice, no handle a thread has, and no two
  threads have the same; with *Numbered* (no handle has a number above how many
  there are) this gives the counts of `HandlesExclusive` (`HoldersCounted`,
  `CountsFollow`).
- *CreatedIsHighWater* is inductive with these: a handle is created only when
  the stack is empty, so when every handle is held.
- *CallsKept*: from the moment a call has configured its handle until it
  launches, the handle belongs to its thread, so no other thread can give it
  another stream, workspace or mode.
- *StreamOfWork*: a workspace, once it was in the map, is used on the stream of
  its key.

`KernelLaunchRegistry` proves `LaunchesReportedCorrect` from `LaunchAssumption`,
with the count of an entry raised in one step of the device and the entry written in
a later one: the two properties `KernelsReportToHost` and `LaunchesNamedRight`.  The
second says what a report is worth although it is taken while kernels fail: a
failure whose place was taken before the pause of one second began is in the report
as it was written, and a written entry names the launch that failed or none.  What
it leaves is an entry that is taken during the pause and not written at its end: it
has caller 0, and names what slot 0 holds (`NoFalseLaunch`, section 5).  The pause
itself is an assumption on time: it is over when the entries that were counted at
its beginning are written (`PauseOver`).  The invariant `LaunchInv` has these parts:

- *AllocLocked* and *PtrCurrent*: a device without a buffer is given one by the
  thread that holds `gpu_alloc_mutex`, and never another one, so a pointer taken
  without the lock stays the one the host reads.
- *EntriesGenuine*: kernels and written entries carry the caller number of their
  launch, and the slot of that launch holds it or a later one; an entry that is
  not written has the values of the initialisation and, if its place is taken, a
  kernel that is about to write it (`EntryRight`).  `caller` has 32 bits, so it may
  be smaller than the launch; but the ring's size divides its range, so it leads to
  the launch's slot (`CallerSlot`).  The slot holds at least the launch and caller
  is at most the launch, so the comparison of `Available` succeeds only when all
  three are equal.

`DeviceServices` puts six components side by side, as MCDeviceRuntime
checks them, and proves the five groups of properties of `device_runtime` that are
about them, for every value of the constants of every instance
(`ServicesAssumption`): `HostMemoryCorrect`, `SettingsCorrect`, `ScopesCorrect`,
`HandlesSafeCorrect` and `AssertionsCorrect`.  `ServicesInv` is: the component a
behaviour is of keeps its invariant.  The invariants of four modules come from their
own theorems' lemmas; those of the other two are proved here:

- *Config*, `ConfigInv` of AllocatorConfig: at every moment, also after an error in
  the middle of a string, each setting is the one in effect (`InEffect`): of the
  split size and the garbage collection threshold what the present string says so
  far, or the default; of the others what the last string that named them said.
  Only `release_lock_on_supamalloc` stays FALSE.  All settings are usable.
- *Guards*, `ContextInv` of DeviceContexts: the guards of a thread are chained, each
  entered on the device of the one before it (`Chained`), and what the outermost
  guard that touched a device saved is what the program had set (`SavedStreams`), so
  after the last guard everything is as before. `MaybeExchangeDevice`, which ends a
  `_DeviceGuard`, leaves `k_device` alone when the runtime is on the device already,
  so it would be wrong if another device were the target; but the device that the
  guard entered has a context, so it does not become the target
  (`Entered`). `Follows` is what every function of `SUPAFunctions.cpp` does to the
  thread's device: contexts stay, and a device becomes a target only while it has
  none.

`ProcessGroupWatchdog` proves, from `WatchdogAssumption` (the users are none of
the group's own threads), two promises about works for every number of users and
works:

- `PendingHooksCorrect`, `Spec => []PendingHooksRun`.  `WatchdogInv` says where
  a work is between `workEnqueue` and the end of its hook: in the hands of one
  user (`InHands`), once in one of the two lists (`OneList`), or in none with
  its hook run once (`HooksCounted`).  `HookTurn` is what makes the unlocked
  hook harmless: the work it runs for stays the first of its list, because
  others only append, so `hookErase` erases that one.  `StaysQuiet` says that
  nothing comes into the lists once `waitForPendingWorks` has returned.
- `ResultSettledCorrect`, `Spec => []ResultSettled`, with `Settled`: a work with
  an exception has a result, and one that was not enqueued has none.

TLC checks these with one user and up to two works; the theorems are for every
number of both.

The other properties of `CommunicatorCache` and `ProcessGroupWatchdog`, and those
of the other modules that MCComponents composes, are model-checked.

The properties of the other components are model-checked.  Liveness (`MutexReleased`
of `allocator_streams`, and `progress`) is out of the prover's reach.  So is what a
recursive definition computes for every input, which the index arithmetic of the
kernels is about, and `EventTree`, `ExpandableSegments`, `PoolCheckpoint` and
`TransferEvents`, which use recursive operators, as a whole.

## 5. Disagreements between the code and what is said of it

The modules also state what comments, messages and documents say of the program
where the code does not keep it.  Five of these are runs that are expected to fail
(section 3): four of the allocator, and `GraphedAsEager`.  The others are stated in
their modules and are not part of a run: their counterexamples are found by taking
one as the invariant or property of its module, with the constants that let the case
in (for instance `Synchronises`, `MayStraddle`, `DumpMayHang`, `BrmlMayFail`,
`BlockingWait`, `UserGroups`, or a second thread). Where the passing runs check a
property of the same subject, its comment says which cases it leaves to the list
below.  By module, with the line of the code:

- **CachingHostAllocator**
  - `EventPoolReleased`, `core/supa/CachingHostAllocator.cpp:253`: empty_cache calls
    event_pool_.empty_cache() on the member pool, but create_event_internal
    (core/supa/CachingHostAllocator.cpp:415-420) takes events from, and returns them
    to, a static pool of its own; the comment at
    core/supa/CachingHostAllocator.cpp:252 says "Release cached events from the
    event pool." After empty_cache the events of the static pool are still cached.
  - `CachedMemoryReturned`, `core/supa/CachingHostAllocator.cpp:268`: empty_cache
    decides how to release a block by the present value of
    pinned_use_supa_host_register, not by how the block was obtained; the comment at
    core/supa/CachingHostAllocator.h:17-18 says "Frees all cached pinned memory and
    returns it to the system". After setAllocatorSettings changed the option the
    driver rejects the address, the exception leaves the loop with the free list
    already cleared, and the memory is lost.
- **AllocatorConfig**
  - `EmptyMeansDefault`, `core/supa/SUPAAllocatorConfig.cpp:102`: parseArgs resets
    max_split_size, the divisions and the garbage collection threshold only; the
    comment at core/supa/SUPAAllocatorConfig.cpp:101 says "If empty, set the default
    values". After expandable_segments:True an empty string leaves expandable
    segments on, and likewise the rounding size, the lock and the pinned memory
    settings.
  - `LockSettingApplied`, `core/supa/SUPAAllocatorConfig.cpp:144`: parseArgs stores
    config_item_view == "True", but config_item_view is the option's name, so the
    setting is always false; the check at core/supa/SUPAAllocatorConfig.cpp:140-143
    says "Expected a single True/False argument for release_lock_on_supamalloc" and
    accepts True.
- **SupaIPC**
  - `CounterMapped`, `ipc/SupaIPCTypes.cpp:220`: GetNewRefCountedSentData releases
    ref_counters_mutex_ before it uses next_available_ref_counters_file_, which an
    allocating thread may reset through SupaIPCCollect and safe_clean_current_file;
    the member comment at ipc/SupaIPCTypes.h:25 says counter_ptr_ is the "Reference
    counter shared memory block", but the file is gone (or the pointer null) when
    the counter is set.
- **ProcessGroupWatchdog**
  - `EnqueuedWorkChecked`, `distributed/ProcessGroupBCCL.cpp:2102`: The loop ends on
    a value of done computed before the last works were enqueued, so a work enqueued
    after the scan is dropped when abort comes before the test; the comment at
    distributed/ProcessGroupBCCL.cpp:2157-2159 says "watchdog needs to finish the
    check for the works that have already been enqueued to workMetaList_".
  - `ExtensionReset`, `distributed/ProcessGroupBCCL.cpp:2231`: Only the watchdog
    gives an extension back, and with blocking wait no work reaches it, so every
    later work keeps the longer timeout; the comment at
    distributed/ProcessGroupBCCL.hpp:391-392 says "Ephemeral timeouts are owned by
    exactly one work, and reset after that work completes".
  - `HookHoldsLock`, `distributed/ProcessGroupBCCL.cpp:2330`: When the hook throws,
    the lock released at line 2284 is not taken again before the list is read (and
    the work is not erased, so its hook runs again); the comment at
    distributed/ProcessGroupBCCL.cpp:2329 says "Lock is still acquired at this
    point".
  - `NoFalseAlarm`, `distributed/ProcessGroupBCCL.cpp:1543`: shutdown joins the hook
    thread before it retires the monitor: while a hook runs long after the watchdog
    has left, the heartbeat stands still and the monitor ends the process; the
    comment at distributed/ProcessGroupBCCL.cpp:1545-1546 says "retire heartbeat
    monitoring thread now to avoid false alarm".
  - `FailedWorkTornDown`, `distributed/ProcessGroupBCCL.cpp:2221`: isCompleted calls
    checkAndSetException again; an error that appears between the head of the
    iteration and this call takes the work off the list with no broadcast, abort or
    exception, although the mode tears down: distributed/ProcessGroupBCCL.cpp:673
    says "To avoid data inconsistency, we are taking the entire process down.".
- **DumpSignal**
  - `HangEndsProcess`, `distributed/ProcessGroupBCCL.cpp:1812`: The future of
    std::async waits for its task in its destructor at the end of the loop body,
    after waitForFutureOrTimeout gave up: a dump that hangs keeps the monitor there
    and the hung process is never terminated; the comment at
    distributed/ProcessGroupBCCL.cpp:1800-1801 says the dump has a "timeout after
    waitTimeoutDumpInMilSec_, which is one minute" and that at
    distributed/ProcessGroupBCCL.cpp:1875-1877 "we don't want to block the monitor
    thread".
  - `LocalFailureDumps`, `distributed/ProcessGroupBCCL.cpp:2069`: globalStore_->set
    throws before shouldDump_ is stored, so a local failure is not dumped when the
    store is unreachable; the comment at distributed/ProcessGroupBCCL.hpp:1156-1159
    says "monitor thread would dump debug info under any one of the three
    conditions: 1: watchdog thread of any PG detects a collective timeout".
  - `WatchdogToldOfDump`, `distributed/ProcessGroupBCCL.cpp:1834`:
    promiseFlightRecorderDump_ belongs to one group and only the monitor of group 0
    sets its own: the watchdog of any other group waits out 2 *
    waitTimeoutDumpInMilSec_; the comment at distributed/ProcessGroupBCCL.cpp:1833
    says "Indicate to watchdog thread that we have finished dumping.".
- **CommunicatorCache**
  - `HookAccepted`, `distributed/ProcessGroupBCCL.cpp:1556`: shutdown destroys the
    communicators and leaves them in bcclCommMemPoolMap: the register hook then
    calls registerSegment on a destroyed one, which throws inside malloc; the
    comment at distributed/ProcessGroupBCCL.cpp:2682-2683 says "NOTE: we need remove
    the communicator from this map when it is destroyed, otherwise may register onto
    an invalid communicator.".
  - `RegisteredUsable`, `distributed/ProcessGroupBCCL.cpp:2686`: initBCCLComm enters
    the communicator in the map after an abort that came since it was published; the
    comment at distributed/ProcessGroupBCCL.cpp:1459-1461 says "Remove record from
    global bcclCommMemPoolMapMutex before aboarting, so that a new cache segment
    would not register to already aborded communicators.".
  - `NoUseAfterAbort`, `distributed/ProcessGroupBCCL.cpp:3068`: The raw communicator
    is taken under the lock of BCCLComm and used after it is released, while the
    watchdog may abort (free) it in between; the comment at
    distributed/BCCLUtils.hpp:396 says "Set an appropriate error so that we avoid
    using the communicator.".
  - `AbortedOnce`, `distributed/BCCLUtils.hpp:367`: The early return needs
    initialized_ to be false, which no path sets back: work.abort() followed by
    abortComms() (ProcessGroupBCCL.cpp:2198-2201) calls bcclCommAbort twice on it;
    the comment at distributed/BCCLUtils.hpp:368 says "Should not abort twice.".
  - `PoolRegistered`, `distributed/ProcessGroupBCCL.cpp:1068`: The hooks are
    attached only when TORCH_NCCL_USE_TENSOR_REGISTER_ALLOCATOR_HOOK is set, so
    later segments of a registered pool are not registered; the comment at
    distributed/ProcessGroupBCCL.cpp:279-281 says "If a MemPool is explicitly
    registered with a ProcessGroup, then all its segments (current and future) will
    be registered with the NCCL communicator".
  - `HookAccepted`, `distributed/ProcessGroupBCCL.cpp:2671`: Segments allocated by
    another thread after the snapshot and before the entry in bcclCommMemPoolMap are
    missed, and deregisterSegment throws when they are released; the comment at
    distributed/ProcessGroupBCCL.cpp:2668-2669 says "Register all active SUPA memory
    segments in cache allocator to the new BCCL communicators".
  - `HookAccepted`, `distributed/ProcessGroupBCCL.cpp:1225`: deregisterMemPool
    deregisters the pool's segments although every segment is to stay registered, so
    the hook of their release finds them missing and throws; the comment at
    distributed/ProcessGroupBCCL.cpp:276-277 says "*ALL* segments will be registered
    with *ALL* NCCL communicators (for the same device)".
  - `RightCall`, `distributed/ProcessGroupBCCL.cpp:349`: The mode is looked up by
    pool when a segment is released, but a segment registered plainly before
    registerMemPool(symm=true) kept its plain handle; the comment at
    distributed/ProcessGroupBCCL.cpp:290-291 says the set holds "whether they were
    registered with window APIs or not".
- **CollectiveMemory**
  - `NoEarlyReuse`, `distributed/ProcessGroupBCCL.cpp:4160`: The function of
    allgather_into_tensor_coalesced (and of alltoall, _broadcast_oop and
    _reduce_oop) does not record its output, so an output dropped before the wait is
    reused while the kernel writes it; the comment at
    distributed/ProcessGroupBCCL.cpp:3267-3272 says "both must record the bcclStream
    to prevent being freed before the collective finishes" and "leave recording
    `outputs' to `fn' for operations where `inputs' and `outputs' are not the same".
  - `NoEarlyReuse`, `distributed/ProcessGroupBCCL.cpp:483`: The copy of a Work in
    the watchdog's list has neither the stash nor the outputs, so dropping the
    handle drops the stash; distributed/ProcessGroupBCCL.hpp:247-248 says "it
    stashes live references to those tensors until after user-facing streams are
    synced with comm streams".
  - `NoEarlyReuse`, `distributed/ProcessGroupBCCL.cpp:2968`: endCoalescing gives its
    Work an empty stash and the Works of the single operations, which hold the
    stashes, are dropped; distributed/ProcessGroupBCCL.hpp:447-449 says "By keeping
    these refs (as well as outputs_) alive until after the collective's work rejoins
    the user-facing streams, we achieve caching allocator safety without any
    recordStream calls".
  - `NoEarlyReuse`, `distributed/ProcessGroupBCCL.cpp:3873`: With asyncOp = false
    the tensors are stashed instead of recorded, but inside a block the end event
    was never recorded, so the wait that follows does not block and clears the
    stash; the comment at distributed/ProcessGroupBCCL.cpp:4308-4310 says "we know
    that the BCCL stream will join back to the \"current\" stream right after this
    op".
  - `NoEarlyReuse`, `distributed/ProcessGroupBCCL.cpp:3086`: Inside a group the
    kernel is only launched by the end of the group; the event the allocator records
    when the tensor is dropped before that does not wait for it; the comment at
    distributed/ProcessGroupBCCL.cpp:3075-3076 says recording is there "to prevent
    being freed before the collective finishes".
  - `NoEarlyReuse`, `distributed/ProcessGroupBCCL.cpp:4063`: Inside a block the Work
    of an allgather is dropped with the only reference to outputFlattened, whose
    kernel is not launched yet; the comment at
    distributed/ProcessGroupBCCL.cpp:4088-4090 says "all participating tensors are
    accounted for, and won't be released back to their allocation streams until
    after work_ is waited on".
  - `EndEventCovers`, `distributed/ProcessGroupBCCL.cpp:2980`: The inner
    endCoalescing clears coalescing_state_ and coalescedComm_ of the outer block,
    whose end then returns no Work; the comment at
    distributed/ProcessGroupBCCL.cpp:2924 says of that case "There is no actual work
    being coalesced, return here".
  - `EndEventCovers`, `distributed/ProcessGroupBCCL.cpp:3558`: pointToPoint looks at
    coalescing_state_ and not at the open group when it records the end event; the
    comment at distributed/ProcessGroupBCCL.cpp:3557 says "End event should only be
    recorded after the bcclGroupEnd()".
  - `EndEventCovers`, `distributed/ProcessGroupBCCL.cpp:4112`: _broadcast_oop may
    throw between startCoalescing and endCoalescing; nothing ends the group, so
    coalescing_state_ and the group counter stay raised and the end event of later
    collectives is never recorded; distributed/ProcessGroupBCCL.hpp:1206 says "Flag
    to denote if a coalescing groupStart/groupEnd block is active".
  - `SeqDistinct`, `distributed/ProcessGroupBCCL.cpp:3193`: collectiveCoalesced is
    enqueued with the number that endCoalescing then uses again; the comment at
    distributed/ProcessGroupBCCL.cpp:2905-2907 says of such reuse "they will collide
    with (reuse) the seq_ of the last non-coalesced collective", which bumping early
    is there to avoid.
- **FlightRecorder**
  - `DumpTruthful`, `core/supa/SUPAEvent.cpp:58`: An event that was not recorded yet
    answers query() with true, so a dump taken while the operation is being launched
    (or hangs in the launch) lists it as completed;
    distributed/FlightRecorder.hpp:161 says of the completion time "will always be
    _after_ it actually complated".
  - `EventsBorrowedAlive`, `distributed/ProcessGroupBCCL.cpp:2882`: workEnqueue
    drops the Work under blockingWait_ or once the group terminates, and
    pointToPoint and collectiveCoalesced record it during a capture too, so the
    entry keeps pointers to events nobody owns; the comment at
    distributed/ProcessGroupBCCL.cpp:2812-2815 says "it is unsafe to steal refs to
    start/end supa events from Works that may go out of scope before flight recorder
    has retired them, so we must ensure that any work that is initialized via
    initWork will be enqueued".
  - `EventsBorrowedAlive`, `distributed/ProcessGroupBCCL.cpp:3103`: The Work is
    recorded by initWork and destroyed by the exception of the BCCL call before it
    is enqueued; the comment at distributed/ProcessGroupBCCL.cpp:2814-2815 says "we
    must ensure that any work that is initialized via initWork will be enqueued".
  - `MapsNotTorn`, `distributed/FlightRecorder.cpp:197`: record inserts into
    all_pg_status_ before it takes the mutex, and dump reads it and
    pg_name_to_ranks_ without it; the comment at
    distributed/FlightRecorder.cpp:332-333 says "we need to acquire the lock before
    we can dump()".
- **LogRing**
  - `NoMessageLost`, `utils/logger/RingBuffer.h:54`: A thread whose exchange of the
    tail fails retries with the next index of its first load, after both wrote the
    same slot, so the second message replaces the first or the tail is put back; the
    comment at utils/logger/RingBuffer.h:55 says "The tail has been changed by
    another producer, retry".
  - `NewestKept`, `utils/logger/RingBuffer.h:75`: pop retries with the new head of
    its first load, so a head that a producer moved by two goes back and can meet
    the tail: the newest messages are lost; the comment at
    utils/logger/RingBuffer.h:39 says "Force write by moving the head forward".
  - `ExitWrites`, `utils/logger/DefaultLogger.cpp:153`: The thread ends at the next
    look at stop_ and leaves what the ring holds;
    docs/user_guide/source/chapter06_torch_supa_envconfig.rst:219 says
    "异步日志系统会将日志消息放入队列，由后台线程写入文件。" (messages put in the queue are written to the file
    by the background thread).
- **RealtimeLog**
  - `FileHasLogs`, `utils/logger/RealtimeLogger.cpp:138`: A continuation slot that
    starts with a digit is taken for a new log and loses its first five characters;
    the comment at utils/logger/RealtimeLogger.cpp:137 says "check if it is new log
    (start with index)".
  - `ExitSaves`, `utils/logger/RealtimeLogger.cpp:74`: The thread stops before
    log_msgs_ is empty and flushLogsToDisk only reads the ring; the comment at
    utils/logger/RealtimeLogger.cpp:76 says "save logs to disk".
- **DeviceContexts**
  - `ExchangeInitializes`, `core/supa/SUPAFunctions.cpp:257`: ExchangeDevice returns
    before supaSetDevice when the device is the runtime's current one, whose context
    may not exist; the comment at core/supa/SUPAFunctions.cpp:248-249 says "This
    function always initializes the SUPA context on to_device".
  - `ReturnCreatesNone`, `core/supa/impl/SUPAGuardImpl.cpp:234`: The pair ends with
    SetDevice(orig_device), which makes the runtime create a context there; the
    comment at core/supa/impl/SUPAGuardImpl.cpp:223-225 gives as its reason to
    change the device that "if the current device is not initialized, it will create
    a new supa context, which will consume a lot of memory.".
  - `DefaultIsDefault`, `core/supa/impl/SUPAGuardImpl.cpp:56`: getDefaultStream
    returns getCurrentSUPAStream(d.index()); core/supa/SUPAStream.h:143-146 says
    "The default stream is where most computation occurs when you aren't explicitly
    using streams." and declares getDefaultSUPAStream for it.
- **GraphCapture**
  - `GraphedAsEager`, `aten/SUPAGeneratorImpl.cpp:384`: replay_prologue fills the
    one offset_extragraph_ of the state on the current stream, which is not ordered
    with a launch on another stream that still has to read it;
    aten/SUPAGeneratorImpl.h:66-69 says "graphed execution is bitwise identical to
    eager execution as long as RNG ops are enqueued from a single thread, even if
    RNG ops and graphs containing RNG ops are enqueued and run simultaneously on
    multiple streams.".
  - `NumbersGivenOnce`, `core/supa/SUPAGraph.cpp:76`: register_generator_state
    overwrites the recorded increment with 0, also after the capture;
    aten/SUPAGeneratorImpl.h:48-50 says "When the graph reruns, the logic that
    reruns it increments this device's SUPA generator's offset by that total.".
  - `IncrementCoversKernels`, `aten/SUPAGeneratorImpl.cpp:362`: capture_prologue
    sets offset_intragraph_ of the shared default state to 0 while another capture
    uses it; aten/SUPAGeneratorImpl.h:43-46 says that "During graph capture, logic
    below records the total of all offset increments that occur in the graphed
    region, and records the final total as the offset for the entire graph.".
  - `RegistrationsMatch`, `aten/SUPAGeneratorImpl.cpp:344`: register_graph enters
    the state in the map of the graph before the state refuses the registration, and
    ~SUPAGraph then runs unregister_graph, whose TORCH_CHECK throws from a
    destructor; core/supa/SUPAGraph.cpp:246-247 says "Calling reset() in the C++
    destructor, with warnings instead of exceptions if calls fail, is the compromise
    we chose.".
- **ExpandableSegments**
  - `LimitRespected`, `core/supa/SUPACachingAllocator.cpp:2413`: alloc_block
    compares the requested size with the allowed maximum and map_block then adds
    whole pages of segment_size_ to total_allocated_memory; supa/memory.py:143-146
    says "The fraction is used to limit an caching allocator to allocated memory on
    a SUPA device. The allowed value equals the total visible memory multiplied
    fraction. If trying to allocate more than the allowed value in a process, will
    raise an out of memory error in allocator.".
  - `SharedIsRestored`, `core/supa/SUPACachingAllocator.cpp:412`: fromShared passes
    header.num_handles * header.segment_size as the segment size of the new segment,
    so mapAndSetAccess maps each handle, of segment_size bytes, with a size of all
    handles together; the comment at core/supa/SUPACachingAllocator.cpp:382-384 says
    "Serializes data to std::ostream that can be passed to the other process, and
    then restored as an exapandable segment via
    ExpandableSegment::fromShared(istream);".
- **PoolCheckpoint**
  - `StatsOfDevice`, `core/supa/SUPACachingAllocator.cpp:700`: BlockState's
    constructor does not copy the device, so setSegmentStateToCheckpoint allocates
    the blocks of the checkpoint with device 0 and NativeCachingAllocator::free
    hands them to device_allocator[0], without the lock or the statistics of the
    pool's allocator; core/supa/SUPACachingAllocator.cpp:572-574 says "BlockState,
    BlockPoolState, and PrivatePoolState contain the information needed to
    reconstruct a private pool to a previous state.".
  - `FrontMatches`, `core/supa/SUPACachingAllocator.cpp:1680`: free only records
    events for a block with stream_uses, so the block is not in the pool's set when
    the segments are looked up, the lookup throws and allocated_blocks keeps
    pointers whose blocks were freed; the comment there,
    core/supa/SUPACachingAllocator.cpp:1668-1669, says "at this point, all of the
    blocks should be free, so they will all be in the block set".
- **MemoryHistory**
  - `WrittenInside`, `core/supa/SUPACachingAllocator.cpp:2963`: recordHistory sets
    alloc_trace_max_entries_ and leaves alloc_trace_next, which record_trace resets
    only when it equals the maximum; above it, it grows and entries are written
    outside of alloc_trace. supa/memory.py:719-720 says "Keep a maximum of
    `max_entries` alloc/free events in the recorded history recorded.".
  - `HistoryOrdered`, `core/supa/SUPACachingAllocator.cpp:2961`: After the ring has
    wrapped, a larger maximum lets record_trace append while alloc_trace_next stays,
    so trace returns the appended entry before older ones; supa/memory.py:690-691
    says "In addition too keeping stack traces with each current allocation and
    free, this will also enable recording of a history of all alloc/free events.".
  - `SnapshotConsistent`, `core/supa/SUPACachingAllocator.cpp:3203`: snapshot takes
    the trace and the segments of a device under two acquisitions of its lock;
    supa/memory.py:742 says "Save a snapshot of SUPA memory state at the time it was
    called.".
  - `RecorderCallable`, `core/supa/SUPACachingAllocator.cpp:953`: maybeGatherContext
    reads record_context_ without the lock and then calls what context_recorder_
    holds, which recordHistory may have set to nullptr in between; its check at
    core/supa/SUPACachingAllocator.cpp:901 is "TORCH_CHECK(when ==
    RecordContext::NEVER || context_recorder)".
  - `StatesDocumented`, `supa/memory_snapshot.cpp:249`: The state of a block that is
    active but not allocated is "active_pending_free"; supa/memory.py:775 says
    "'active_awaiting_free', # waiting for another stream to finish using".
- **CustomAllocators**
  - `FreedWithOwnSize`, `supa/SUPAPluggableAllocator.cpp:109`: The deleter of a
    DataPtr calls free_fn and leaves its entry in allocation_metadata_, and emplace
    keeps that entry when alloc_fn returns the address again, so raw_delete passes
    the old size, device and stream; supa/SUPAPluggableAllocator.h:161 says "We do
    the bookeeping here in order to simplify custom allocators".
  - `OwnerFrees`, `core/supa/SUPACachingAllocator.cpp:2635`: release_block uses the
    pool's own allocator only while a MemPoolContext of it is active, which after
    ~MemPool nothing is; core/supa/MemPool.h:15-16 says "An allocator pointer can be
    passed to the MemPool to define how the allocations should be done in the
    pool.".
  - `OwnerFrees`, `core/supa/MemPool.cpp:48`: releasePool makes the pool freeable
    and only then is the pool made active in the destroying thread, so a thread that
    calls emptyCache in between returns the segments with supaFree;
    core/supa/SUPACachingAllocator.cpp:2640-2641 says "If there is an active mempool
    with a given allocator, we use the given allocator's delete function.".
  - `UseCountExact`, `core/supa/SUPACachingAllocator.cpp:1850`:
    create_or_incref_pool runs before the check that throws, and use_mem_pool calls
    it outside of its try; core/supa/SUPACachingAllocator.cpp:1878-1879 says "When
    the count reaches 0, we tell free_cached_blocks it may now supaFree blocks from
    this graph's pool when it discovers they're unused".
- **TensorCopy**
  - `InOrder`, `aten/common/Copy.cpp:242`: Copies to and from the host run on the
    current stream of the current device, which is not ordered with the stream the
    source was written on; test/test_supa.py:276-281 copies a tensor a stream still
    works on to the host and says "self.assertEqual(src, dst)".
  - `ConvertsOnDevice`, `aten/common/Copy.cpp:183`: src.device() ==
    conversion_device compares a device that has an index with kPrivateUse1, which
    has none, and is false for every SUPA tensor; aten/common/Copy.cpp:178 says "If
    non_blocking is true - type conversions are performed on the GPU".
- **IpcHandleCache**
  - `LookupsSucceed`, `core/supa/SUPACachingAllocator.cpp:3526`: The count of a
    shared_ptr reaches zero before its deleter takes IpcMutex, so getIpcDevPtr can
    find an entry whose weak_ptr has expired;
    core/supa/SUPACachingAllocator.cpp:3523-3525 says "the weak_ptr should always be
    valid because we delete the entry from the cache when the shared_ptr is
    destructed, so we should never get here.".
- **SignalPads**
  - `ResultRight`, `distributed/symm_mem/SUPASymmetricMemoryOps.su:381`:
    one_shot_all_reduce_kernel copies the input into the symmetric buffer and calls
    sync_remote_blocks without a __syncthreads between, so the first warp signals
    before the other threads have copied;
    distributed/symm_mem/SUPASymmetricMemory-inl.h:101-106 says "Pattern 1: Ensures
    that all writes to symm_mem buffers from the current block are visible to all
    remote blocks with matching blockIdx: __syncthreads(); sync_remote_blocks<true,
    true>(...); __syncthreads();".
- **SymmetricRendezvous**
  - `CallsReturn`, `distributed/symm_mem/SUPASymmetricMemory.su:33`: The sequence
    number of the keys belongs to one static StoreExchange of the process, not to a
    group's store (distributed/symm_mem/SUPASymmetricMemoryUtils.hpp:65-68), so a
    process that has been in another group waits for "<prefix>/<its own
    number>/<rank>" which its peers write under another number;
    distributed/symm_mem/SUPASymmetricMemory.hpp:94-96 says "One `SUPAPeerAllocInfo`
    object can be shared by multiple `SUPASymmetricMemory` objects when latter
    reside on the same allocation and rendezvous over the same group": rendezvous is
    per group and block->symm_mems is keyed by the group.
  - `PadsAgree`, `distributed/symm_mem/SUPASymmetricMemory.su:570`:
    make_peer_alloc_info takes the caller's pointer, not the block's base, for the
    rank's own buffer and signal pad, while the peers map the base;
    distributed/symm_mem/SUPASymmetricMemory.su:85-87 says "This is mostly a shallow
    copy that shares the pointer to `SUPAPeerAllocInfo` which corresponds to the
    base Block. The SUPASymmetricMemory handle is specified by the offset to the
    base ptr.".
- **IntraNodeComm**
  - `RendezvousReturns`, `distributed/symm_mem/IntraNodeComm.cpp:274`: Each rank
    decides from its own view of the links, and a rank that sees none returns false
    without telling the others, who wait in the allocator's rendezvous; the exchange
    of the views, with the message at distributed/symm_mem/IntraNodeComm.cpp:308-310
    "Aborting IntraNodeComm::rendezvous because some participants are observing
    different topologies", is compiled only for older versions.
  - `AllReduceSums`, `distributed/symm_mem/IntraNodeComm.su:152`: oneShotAllReduce
    and twoShotAllReduce only warn and return the input, and allreduce returns a
    finished work for them; distributed/symm_mem/IntraNodeComm.hpp:66-67 says
    "Selects a AllReduceAlgo that we think will outperform bccl. Returns
    AllReduceAlgo::NONE if we don't think we can outperform bccl.".
- **ElementwiseDispatch**
  - `HybridAligned`, `aten/ops/kernels/elementwise/CUDALoops.cuh:364`:
    launch_hybrid_vectorized_kernel fixes vec_size to 4 and never asks
    can_vectorize_up_to, so a view with an odd storage offset is read and written
    with misaligned vectors; aten/ops/kernels/elementwise/MemoryAccess.cuh:191-193
    says "aligned vector generates vectorized load/store on CUDA" of a struct
    declared "alignas(sizeof(scalar_t) * vec_size)".
  - `OutputWrittenAsStored`, `aten/ops/kernels/elementwise/CUDALoops.cuh:729`:
    try_launch_static_binary_kernel compares dtypes[0] with OutputType but stores
    the functor's result_type (the hybrid store, and "arg0_t* out" at 775), also for
    a bf16 functor with a float output (a bf16 tensor and a float tensor without
    dimensions, out= float) or a float functor with a bf16 output; the contiguous
    variant has the condition it lacks,
    aten/ops/kernels/elementwise/CUDALoops.cuh:692-694 "if constexpr (traits::arity
    == 2 && std::is_same_v<OutputType, typename traits::result_type>)".
- **PermuteCopy**
  - `WrittenOnce`, `aten/ops/kernels/elementwise/copy.cu:549`: The prologue runs to
    align_elems, which is not limited by tail_len: with a last dimension of fewer
    than eight elements and planes that are equally misaligned it writes into the
    next plane, and after the last one outside the tensor;
    aten/ops/kernels/elementwise/copy.cu:482-483 says "threads copy tail_len
    elements along dim 2".
  - `TilesAligned`, `aten/ops/kernels/elementwise/copy.cu:634`: Full tiles are read
    and written through __uint128_t pointers when the axes are contiguous, whatever
    the strides and the base address; only the other kernel looks at them,
    aten/ops/kernels/elementwise/copy.cu:482-484 "burst4x2 vector loads when
    16B-aligned. Misaligned plane bases skip burst and use scalar prologue/epilogue
    only.".
  - `OtherTypesFallBack`, `aten/ops/kernels/elementwise/copy.cu:832`: Only the
    destination's type is looked at before permute_3d_transpose_copy, which raises
    an error when the source has another one;
    aten/ops/kernels/elementwise/copy.cu:229-233 says "dtype is Half or BFloat16
    (same on dst)" and "otherwise generic elementwise_kernel handles the copy".
- **HandlePool**
  - `MapNotRaced`, `core/supa/SublasHandlePool.cpp:118`: getCurrentSuBlasHandle
    looks up and inserts into a std::map that all threads share, without a mutex,
    and clearSublasWorkspaces empties it; the threads come here concurrently,
    core/supa/DeviceThreadHandles.h:159-161 "this function will be called by
    multiple threads and there is no mutex guarding the call of this function, so
    make sure your implementation is thread-safe".
- **KernelLaunchRegistry**
  - `NoFalseLaunch`, `core/supa/SUPADeviceAssertionHost.cpp:115`: The pause gives
    time to the failures before it; the count is read after it, so an assertion that
    fails at its end is counted while its entry is still zero, and caller 0 names
    launch 0 if the ring has it; core/supa/SUPADeviceAssertionHost.h:89-91 says the
    numbers "ensure that circular queue doesn't provide false information",
    core/supa/SUPADeviceAssertionHost.cpp:113-114 "A short pause gives it time to
    finish.".
  - `RecentLaunchesNamed`, `core/supa/SUPADeviceAssertionHost.cpp:157`: insert
    returns the 64-bit generation_number in 32 bits and the report compares the two,
    so it prints that "the circular queue wrapped around" for launches that are in
    the ring; core/supa/SUPADeviceAssertionHost.h:37 calls caller a "Number uniquely
    identifying the kernel launch that triggered the assertion".
  - `TraceShownWhenGathered`, `core/supa/SUPADeviceAssertionHost.cpp:165`: The two
    branches are swapped: with gather_launch_stacktrace the report prints "Launch
    stacktracing disabled.", without it an empty trace;
    core/supa/SUPADeviceAssertionHost.h:133 says it is "Whether or not to gather
    stack traces when launching kernels" and
    core/supa/SUPADeviceAssertionHost.h:68-69 that the trace is "only populated if
    SUPAKernelLaunchRegistry::gather_launch_stacktrace is True".
- **PythonTracer**
  - `ReplayStackNonEmpty`, `profiler/profiler_python.cpp:770`: The walk over the
    prior frames stops at 128, so a return from a frame below that has no call to
    pop and hits the assertion profiler/profiler_python.cpp:1024 "Python replay
    stack is empty."; profiler/profiler_python.cpp:759-761 says "To ensure a
    complete trace, we must push calls to all the prior frames onto our event
    stack.".
  - `OneActiveTracer`, `profiler/profiler_python.cpp:736`: active_lock_ is a member
    of each tracer (profiler/profiler_python.cpp:678), so the exchange always
    succeeds and the second tracer takes the profile functions of the first;
    profiler/profiler_python.cpp:737-740 says "There is already an active Python
    tracer. Refusing to register profile functions.".
  - `DisableIsChecked`, `profiler/profiler_kineto.cpp:873`: state_ptr->config() is
    read through the pointer before the check that it is not null;
    profiler/profiler_kineto.cpp:874-884 promises the error "Can't disable Kineto
    profiler when it's not running".
- **EventTree**
  - `AdjustedFits`, `profiler/collection.cpp:917`: std::accumulate starts with the
    int 0, so the sum of the children's durations is cut to 32 bits, 2.1 seconds;
    profiler/collection.cpp:987-992 says "Parent event timelines fully contain their
    child timelines".
  - `FinalTreeFits`, `profiler/collection.cpp:1148`: An adjusted event starts when
    its sibling ends, and build_tree pops only ends that are strictly before a start
    (profiler/collection.cpp:897), so the tree that is returned puts it under the
    sibling, which does not contain it; profiler/collection.cpp:990 says "Parent
    event timelines fully contain their child timelines".
- **RecordQueue**
  - `CorrelationBalanced`, `profiler/profiler_kineto.cpp:430`: onFunctionExit
    returns without popping when the profiler has been disabled since the operation
    began, so the id stays on Kineto's stack for whatever runs next;
    profiler/collection.cpp:551-552 says "The profiler pushes a unique integer at
    the start of an op and pops it at the end.".
  - `EndsInOwnProfiler`, `profiler/profiler_kineto.cpp:436`: onFunctionExit asks
    whether the thread has a profiler, not whether it is the one the operation began
    under: an operation that spans the end of one profiler and the start of another
    writes its end to an event that went with the first one's queue; the comment at
    profiler/collection.cpp:551-552 has one profiler see the start and the end.
  - `ToggleSafe`, `profiler/profiler_kineto.cpp:778`: profiler_state_info_ptr is one
    for the process while profilers belong to threads; disableProfiler of any thread
    clears it (profiler/profiler_kineto.cpp:870), and toggling then reads scopes
    through a null pointer; profiler/profiler.py:234 says "Toggle collection of
    activities on/off at any point of collection.".

## 6. What is not modelled

- Operators (`aten/ops` outside the kernels above) call libraries and keep no state;
  the scalar functions of elementwise kernels and of reductions are not looked at.
- Bindings convert arguments around the components above.  Code generation and build
  files run before the program.
- The table of `NativeCachingAllocator` that maps a pointer to its block, peer
  access between devices, the parallel mapping of pinned pages, the registration of
  the flight recorder's writer, the reductions inside one block, and the gradient
  scaler.
- Time is an order of events, except where a length matters (timeouts, time stamps
  of the profiler).  Numbers are not bounded where no overflow is near; where the
  code relies on a width it is modelled (`KernelLaunchRegistry`,
  `OffsetCalculators`, `EventTree`).
- Driver calls that fail in the middle of a method of the caching allocator, which
  then throws half-way: `supaEventRecord` after some of a block's streams have their
  event (SUPACachingAllocator.cpp:2847-2857), and with it the deferred list that is
  not cleared (2872); an error of `supaEventQuery` other than not-ready, whose queue
  entry is left with an empty event (2890-2903); `supaEventSynchronize` (2808);
  `supaFree` (2644), before which only `num_device_free` and the trace were written,
  and which leaves the block in its pool.  The theorems about the allocator are of
  runs without such errors, `supaMalloc` excepted.  In the pinned host allocator the
  corresponding failures are modelled (`record_streams_fails`, `query_event_fails`).
- Symmetric memory: the size of a payload in the store is right
  (SUPASymmetricMemoryUtils.hpp:84), the store does not time out, ranks are on
  different devices, and importing a peer's handle (SUPASymmetricMemory.su:575-581)
  and mapping the multicast object after all agreed (494) do not fail on one rank
  alone.  In IntraNodeComm the handshake of all ranks is one step (`AllJoined`), and
  `TEST_INTRA_NODE_COMM` (IntraNodeComm.cpp:127), which skips the detection, is off.
- Reductions: one reduced dimension (with more, Reduce.cuh:1107 turns the
  vectorization off) and at least one dimension (1085-1090).  In GlobalReduce a
  thread reads what memory has, so the fence after the semaphore (820-822), which
  is against stale reads, is not needed in the model; the fences and barriers before
  it are.  Threads with `threadIdx.y` > 0 (838-864) are left out.
- Accesses to the maps of communicators that take no lock (ProcessGroupBCCL.cpp:2660
  ff.) are one step each: what a torn `unordered_map` does is not modelled.
- Crashes of the own process are modelled where something outlives it: consumers and
  producers of IPC, ranks of a group.
