-------------------------- MODULE MCDeviceRuntime --------------------------
(*****************************************************************************)
(* Small instances of the components of the device runtime: the services of  *)
(* DeviceServices, memory shared between processes, expandable segments,     *)
(* checkpoints of pools, the history of the allocator, custom allocators,    *)
(* copies and graphs.                                                        *)
(*                                                                           *)
(* The components do not interact in these models, so one run explores the   *)
(* disjoint union of their behaviours: "at" names the instance a behaviour   *)
(* belongs to, chosen by Init and never changed, and x1, x2, ... are its     *)
(* variables, in the order in which its module declares them. An instance    *)
(* with fewer variables leaves the others at 0: Idle<k> says so of x<k> and  *)
(* those after it, and Keep<k> that a step does not change them, nor "at". A *)
(* property of a component is stated of the instances whose bounds reach     *)
(* what it is about.                                                         *)
(*****************************************************************************)
EXTENDS DeviceServices, TLC

CONSTANTS Max, Nil, No, Word, Yes, a1, a2, a3, b1, b2, c1, c2, d1, d2, g1, g2, r1, r2, s0, s1,
          s2, t1, t2     \* model values
VARIABLES x12, x13, x14, x15, x16, x17, x18   \* the further variables of a component
vars == <<servicesVars, x12, x13, x14, x15, x16, x17, x18>>

\* The constants of the services. Of the two threads of Guards only one enters
\* guards: the other one shares the contexts and selects devices and streams.
HostAddressesConstants ==
    [Threads |-> {t1, t2}, Streams |-> {s1}, MaxPtr |-> 2, Sizes |-> {3},
     HostRegister |-> {TRUE}, MayFail |-> TRUE]
HostStreamsConstants ==
    [Threads |-> {t1, t2}, Streams |-> {s1, s2}, MaxPtr |-> 1, Sizes |-> {3},
     HostRegister |-> {TRUE}, MayFail |-> TRUE]
ConfigConstants ==
    [kLargeBufferMb |-> 20, Numbers |-> {4, 21}, True |-> Yes, False |-> No, Word |-> Word,
     MaxSize |-> Max, Unset |-> Nil, pinned_max_register_threads |-> 128]
GuardsConstants ==
    [Threads |-> {t1, t2}, NumDevices |-> 2, MaxDepth |-> (t1 :> 2 @@ t2 :> 0)]
PoolDrawsConstants ==
    [Threads |-> {t1}, NumDevices |-> 2, StreamsPerPoolBits |-> 2, StreamTypeBits |-> 2,
     Priorities |-> 2, CounterBits |-> 2, MaxDraws |-> 5]
PoolThreadsConstants ==
    [Threads |-> {t1, t2}, NumDevices |-> 2, StreamsPerPoolBits |-> 1, StreamTypeBits |-> 2,
     Priorities |-> 2, CounterBits |-> 2, MaxDraws |-> 3]
LibraryHandlesConstants ==
    [Threads |-> {t1, t2}, Devices |-> {d1, d2}, StreamIds |-> {1}, Modes |-> {"default"},
     Sublas |-> FALSE, MayFail |-> TRUE, MaxHandles |-> 4, None |-> Nil]
WorkspacesConstants ==
    [Threads |-> {t1, t2}, Devices |-> {d1}, StreamIds |-> {1, 2}, Modes |-> {"tf32"},
     Sublas |-> TRUE, MayFail |-> FALSE, MaxHandles |-> 2, None |-> Nil]
MathModesConstants ==
    [Threads |-> {t1, t2}, Devices |-> {d1}, StreamIds |-> {1}, Modes |-> {"tf32", "default"},
     Sublas |-> TRUE, MayFail |-> FALSE, MaxHandles |-> 2, None |-> Nil]
LaunchRingConstants ==
    [Threads |-> {t1, t2}, Devices |-> {d1}, enabled_at_runtime |-> TRUE,
     gather_launch_stacktrace |-> FALSE, max_kernel_launches |-> 2, AssertionCount |-> 2,
     CallerMod |-> 2, MaxLaunches |-> 3, MaxFailures |-> 2,
     MaxMallocs |-> 2, None |-> Nil]
LaunchBuffersConstants ==
    [Threads |-> {t1, t2}, Devices |-> {d1, d2}, enabled_at_runtime |-> TRUE,
     gather_launch_stacktrace |-> FALSE, max_kernel_launches |-> 2, AssertionCount |-> 1,
     CallerMod |-> 8, MaxLaunches |-> 2, MaxFailures |-> 1,
     MaxMallocs |-> 2, None |-> Nil]

IpcConsumers == INSTANCE SupaIPC WITH
    Threads <- {t1}, Consumers <- {c1, c2}, Blocks <- {b1, b2}, FileSize <- 2, MaxEvents <- 2,
    MaxSent <- 2, MayDie <- TRUE, MayFail <- FALSE,
    storage <- x1, stale <- x2, chain <- x3, sent <- x4, counter <- x5, files <- x6,
    ref_counters_files_ <- x7, next_available_ref_counters_file_ <- x8, limbo <- x9,
    sync_events_used_ <- x10, leaked <- x11, alive <- x12, crashed <- x13, pc <- x14,
    local <- x15, queue <- x16, open <- x17, closing <- x18
IpcThreads == INSTANCE SupaIPC WITH
    Threads <- {t1, t2}, Consumers <- {c1}, Blocks <- {b1}, FileSize <- 2, MaxEvents <- 1,
    MaxSent <- 2, MayDie <- TRUE, MayFail <- TRUE,
    storage <- x1, stale <- x2, chain <- x3, sent <- x4, counter <- x5, files <- x6,
    ref_counters_files_ <- x7, next_available_ref_counters_file_ <- x8, limbo <- x9,
    sync_events_used_ <- x10, leaked <- x11, alive <- x12, crashed <- x13, pc <- x14,
    local <- x15, queue <- x16, open <- x17, closing <- x18
SegmentStreams == INSTANCE ExpandableSegments WITH
    Streams <- {s1, s2}, Sizes <- {1}, Page <- 2, MaxHandles <- 3, DevicePages <- 2,
    Limits <- {}, Peers <- {d1}, MaxShares <- 0,
    segs <- x1, total <- x2, limit <- x3, peers <- x4, oom <- x5, excess <- x6,
    imported <- x7
SegmentSizes == INSTANCE ExpandableSegments WITH
    Streams <- {s1}, Sizes <- {1, 3}, Page <- 2, MaxHandles <- 3, DevicePages <- 2,
    Limits <- {3}, Peers <- {d1}, MaxShares <- 1,
    segs <- x1, total <- x2, limit <- x3, peers <- x4, oom <- x5, excess <- x6,
    imported <- x7
CheckpointBlocks == INSTANCE PoolCheckpoint WITH
    Device <- 0, Sizes <- {1, 2}, SegmentSize <- 2, MaxSegments <- 1, MaxCheckpoints <- 1,
    Careless <- FALSE,
    segs <- x1, stats <- x2, front <- x3, storages <- x4, points <- x5, capturing <- x6,
    thrown <- x7
CheckpointSegments == INSTANCE PoolCheckpoint WITH
    Device <- 0, Sizes <- {1}, SegmentSize <- 1, MaxSegments <- 2, MaxCheckpoints <- 2,
    Careless <- FALSE,
    segs <- x1, stats <- x2, front <- x3, storages <- x4, points <- x5, capturing <- x6,
    thrown <- x7
HistoryRing == INSTANCE MemoryHistory WITH
    Threads <- {t1}, Blocks <- {1, 2}, Maxes <- {2, 3}, Reconfigure <- FALSE, MaxEvents <- 4,
    enabled <- x1, recorder <- x2, level <- x3, max <- x4, ring <- x5, state <- x6, pc <- x7,
    shot <- x8, log <- x9
HistoryThreads == INSTANCE MemoryHistory WITH
    Threads <- {t1, t2}, Blocks <- {1}, Maxes <- {2}, Reconfigure <- FALSE, MaxEvents <- 4,
    enabled <- x1, recorder <- x2, level <- x3, max <- x4, ring <- x5, state <- x6, pc <- x7,
    shot <- x8, log <- x9
CustomPool == INSTANCE CustomAllocators WITH
    Threads <- {t1}, Addrs <- {a1, a2, a3}, Sizes <- {1, 2}, Null <- Nil,
    Kinds <- {"data", "raw"}, MaxAllocs <- 3, Outlive <- FALSE, Reenter <- FALSE,
    heap <- x1, allocation_metadata_ <- x2, held <- x3, lastFree <- x4, misfreed <- x5,
    late <- x6, allocs <- x7, pc <- x8, mempool <- x9, exists <- x10, use_count <- x11,
    freeable <- x12, supaMalloc_count <- x13, capture <- x14, active <- x15
CustomThreads == INSTANCE CustomAllocators WITH
    Threads <- {t1, t2}, Addrs <- {a1, a2}, Sizes <- {1, 2}, Null <- Nil, Kinds <- {"raw"},
    MaxAllocs <- 3, Outlive <- TRUE, Reenter <- FALSE,
    heap <- x1, allocation_metadata_ <- x2, held <- x3, lastFree <- x4, misfreed <- x5,
    late <- x6, allocs <- x7, pc <- x8, mempool <- x9, exists <- x10, use_count <- x11,
    freeable <- x12, supaMalloc_count <- x13, capture <- x14, active <- x15
IpcHandles == INSTANCE IpcHandleCache WITH
    Threads <- {t1}, Segments <- {g1, g2}, Sizes <- {1, 2}, MaxBlocks <- 3, MaxRefs <- 2,
    layout <- x1, ipcMemHandle_to_devptr <- x2, refs <- x3, opened <- x4, views <- x5, pc <- x6,
    asserted <- x7
IpcHandleThreads == INSTANCE IpcHandleCache WITH
    Threads <- {t1, t2}, Segments <- {g1, g2}, Sizes <- {1, 2}, MaxBlocks <- 2, MaxRefs <- 2,
    layout <- x1, ipcMemHandle_to_devptr <- x2, refs <- x3, opened <- x4, views <- x5, pc <- x6,
    asserted <- x7
CopyDevices == INSTANCE TensorCopy WITH
    Dsts <- {"g0", "g1"}, Srcs <- {"g0", "g1"}, CurrentDevices <- {0, 1}, Types <- {1},
    Float <- 1, Double <- 2, Demotes <- FALSE, P2P <- {TRUE, FALSE}, MaxCalls <- 3,
    p2p_enabled <- x1, current <- x2, queue <- x3, events <- x4, done <- x5, actual <- x6,
    expected <- x7, todo <- x8, calls <- x9, last <- x10, stray <- x11
CopyHost == INSTANCE TensorCopy WITH
    Dsts <- {"g0", "h"}, Srcs <- {"g0", "h"}, CurrentDevices <- {0, 1}, Types <- {1, 2},
    Float <- 1, Double <- 2, Demotes <- TRUE, P2P <- {FALSE}, MaxCalls <- 3,
    p2p_enabled <- x1, current <- x2, queue <- x3, events <- x4, done <- x5, actual <- x6,
    expected <- x7, todo <- x8, calls <- x9, last <- x10, stray <- x11
Graph == INSTANCE GraphCapture WITH
    Impls <- {r1, r2}, DefaultGen <- r1, Graphs <- {g1}, None <- Nil, Streams <- {s0, s1},
    DefaultStream <- s0, default_rng_seed_val <- 7, Seeds <- {7}, Draws <- {3}, Offsets <- {},
    MaxIntra <- 4, MaxOffset <- 8, MaxQueue <- 2, MaxKernels <- 2, Synchronises <- TRUE,
    RegistersLate <- FALSE, Nested <- FALSE, Faults <- FALSE,
    impl <- x1, state <- x2, tensors <- x3, high <- x4, graph <- x5, debug <- x6, cur <- x7,
    capture <- x8, queue <- x9, crossed <- x10
GraphFaults == INSTANCE GraphCapture WITH
    Impls <- {r1}, DefaultGen <- r1, Graphs <- {g1}, None <- Nil, Streams <- {s0, s1},
    DefaultStream <- s0, default_rng_seed_val <- 7, Seeds <- {8}, Draws <- {3},
    Offsets <- {4, 6}, MaxIntra <- 8, MaxOffset <- 8, MaxQueue <- 2, MaxKernels <- 2,
    Synchronises <- TRUE, RegistersLate <- FALSE, Nested <- FALSE, Faults <- TRUE,
    impl <- x1, state <- x2, tensors <- x3, high <- x4, graph <- x5, debug <- x6, cur <- x7,
    capture <- x8, queue <- x9, crossed <- x10
GraphStreams == INSTANCE GraphCapture WITH
    Impls <- {r1}, DefaultGen <- r1, Graphs <- {g1}, None <- Nil, Streams <- {s0, s1},
    DefaultStream <- s0, default_rng_seed_val <- 7, Seeds <- {8}, Draws <- {3}, Offsets <- {},
    MaxIntra <- 4, MaxOffset <- 8, MaxQueue <- 2, MaxKernels <- 1, Synchronises <- FALSE,
    RegistersLate <- FALSE, Nested <- FALSE, Faults <- FALSE,
    impl <- x1, state <- x2, tensors <- x3, high <- x4, graph <- x5, debug <- x6, cur <- x7,
    capture <- x8, queue <- x9, crossed <- x10
GraphRefused == INSTANCE GraphCapture WITH
    Impls <- {r1}, DefaultGen <- r1, Graphs <- {g1, g2}, None <- Nil, Streams <- {s0, s1},
    DefaultStream <- s0, default_rng_seed_val <- 7, Seeds <- {8}, Draws <- {3}, Offsets <- {},
    MaxIntra <- 8, MaxOffset <- 8, MaxQueue <- 2, MaxKernels <- 1, Synchronises <- TRUE,
    RegistersLate <- FALSE, Nested <- TRUE, Faults <- FALSE,
    impl <- x1, state <- x2, tensors <- x3, high <- x4, graph <- x5, debug <- x6, cur <- x7,
    capture <- x8, queue <- x9, crossed <- x10

ASSUME MCDeviceRuntimeAssumption ==
    /\ ServicesAssumption
    /\ IpcConsumers!IPCAssumption
    /\ IpcThreads!IPCAssumption
    /\ SegmentStreams!SegmentsAssumption
    /\ SegmentSizes!SegmentsAssumption
    /\ CheckpointBlocks!CheckpointAssumption
    /\ CheckpointSegments!CheckpointAssumption
    /\ HistoryRing!HistoryAssumption
    /\ HistoryThreads!HistoryAssumption
    /\ CustomPool!CustomAssumption
    /\ CustomThreads!CustomAssumption
    /\ CopyDevices!CopyAssumption
    /\ CopyHost!CopyAssumption
    /\ Graph!GraphAssumption
    /\ GraphFaults!GraphAssumption
    /\ GraphStreams!GraphAssumption
    /\ GraphRefused!GraphAssumption

\* Idle<k>, Keep<k>: the variables from x<k> on are not used, and stay so
Idle16 == x16 = 0 /\ x17 = 0 /\ x18 = 0
Idle12 == x12 = 0 /\ x13 = 0 /\ x14 = 0 /\ x15 = 0 /\ Idle16
Idle11 == x11 = 0 /\ Idle12
Idle10 == x10 = 0 /\ Idle11
Idle8 == x8 = 0 /\ x9 = 0 /\ Idle10
Keep19 == UNCHANGED <<at>>
Keep16 == UNCHANGED <<x16, x17, x18>> /\ Keep19
Keep12 == UNCHANGED <<x12, x13, x14, x15>> /\ Keep16
Keep11 == UNCHANGED <<x11>> /\ Keep12
Keep10 == UNCHANGED <<x10>> /\ Keep11
Keep8 == UNCHANGED <<x8, x9>> /\ Keep10

Init ==
    \/ ServicesInit /\ Idle12
    \/ /\ NoSettings /\ NoContexts
       /\ \/ at = "IpcConsumers" /\ IpcConsumers!Init
          \/ at = "IpcThreads" /\ IpcThreads!Init
          \/ at = "SegmentStreams" /\ SegmentStreams!Init /\ Idle8
          \/ at = "SegmentSizes" /\ SegmentSizes!Init /\ Idle8
          \/ at = "CheckpointBlocks" /\ CheckpointBlocks!Init /\ Idle8
          \/ at = "CheckpointSegments" /\ CheckpointSegments!Init /\ Idle8
          \/ at = "HistoryRing" /\ HistoryRing!Init /\ Idle10
          \/ at = "HistoryThreads" /\ HistoryThreads!Init /\ Idle10
          \/ at = "CustomPool" /\ CustomPool!Init /\ Idle16
          \/ at = "CustomThreads" /\ CustomThreads!Init /\ Idle16
          \/ at = "IpcHandles" /\ IpcHandles!Init /\ Idle8
          \/ at = "IpcHandleThreads" /\ IpcHandleThreads!Init /\ Idle8
          \/ at = "CopyDevices" /\ CopyDevices!Init /\ Idle12
          \/ at = "CopyHost" /\ CopyHost!Init /\ Idle12
          \/ at = "Graph" /\ Graph!Init /\ Idle11
          \/ at = "GraphFaults" /\ GraphFaults!Init /\ Idle11
          \/ at = "GraphStreams" /\ GraphStreams!Init /\ Idle11
          \/ at = "GraphRefused" /\ GraphRefused!Init /\ Idle11

Next ==
    \/ ServicesNext /\ Keep12
    \/ /\ KeepSettings /\ KeepContexts
       /\ \/ at = "IpcConsumers" /\ IpcConsumers!Next /\ Keep19
          \/ at = "IpcThreads" /\ IpcThreads!Next /\ Keep19
          \/ at = "SegmentStreams" /\ SegmentStreams!Next /\ Keep8
          \/ at = "SegmentSizes" /\ SegmentSizes!Next /\ Keep8
          \/ at = "CheckpointBlocks" /\ CheckpointBlocks!Next /\ Keep8
          \/ at = "CheckpointSegments" /\ CheckpointSegments!Next /\ Keep8
          \/ at = "HistoryRing" /\ HistoryRing!Next /\ Keep10
          \/ at = "HistoryThreads" /\ HistoryThreads!Next /\ Keep10
          \/ at = "CustomPool" /\ CustomPool!Next /\ Keep16
          \/ at = "CustomThreads" /\ CustomThreads!Next /\ Keep16
          \/ at = "IpcHandles" /\ IpcHandles!Next /\ Keep8
          \/ at = "IpcHandleThreads" /\ IpcHandleThreads!Next /\ Keep8
          \/ at = "CopyDevices" /\ CopyDevices!Next /\ Keep12
          \/ at = "CopyHost" /\ CopyHost!Next /\ Keep12
          \/ at = "Graph" /\ Graph!Next /\ Keep11
          \/ at = "GraphFaults" /\ GraphFaults!Next /\ Keep11
          \/ at = "GraphStreams" /\ GraphStreams!Next /\ Keep11
          \/ at = "GraphRefused" /\ GraphRefused!Next /\ Keep11

Spec == Init /\ [][Next]_vars

-----------------------------------------------------------------------------
\* Memory shared with other processes is freed only when no consumer has it
\* any more, whoever dies or releases in whatever order, and the limit on
\* events holds (SupaIPCTypes.cpp, StorageSharing.cpp). A consumer has a
\* handle open at most once, while it is used, two storages never share bytes,
\* and the cache is found in disorder only by a thread that looks a handle up
\* while another one closes it (getIpcDevPtr).
IpcMemorySafe ==
    /\ at = "IpcConsumers" => IpcConsumers!SharedMemoryKept
    /\ at = "IpcThreads" => IpcThreads!EventsBounded
    /\ at = "IpcHandles" => IpcHandles!OpenedOnce /\ IpcHandles!ViewsDisjoint
                            /\ IpcHandles!LookupsSucceed
    /\ at = "IpcHandleThreads" => IpcHandleThreads!OpenedOnce /\ IpcHandleThreads!LookupsFailRaced

\* Every byte of a block of an expandable segment has a page behind it, which
\* every peer reaches, memory runs out only when no page can be freed, and an
\* allocation passes the limit by less than a page, which map_block adds to the
\* size the limit was checked for (map_block, unmap_block, addPeer,
\* alloc_block).
SegmentsSound ==
    /\ at = "SegmentStreams" => /\ SegmentStreams!BlocksBacked
                                /\ SegmentStreams!OomWhenExhausted
                                /\ SegmentStreams!PeersReachAll
    /\ at = "SegmentSizes" => /\ SegmentSizes!BlocksBacked
                              /\ SegmentSizes!OomWhenExhausted
                              /\ SegmentSizes!ExcessWithinPage

\* A storage that will free its pointer owns an allocated block, and no two own
\* the same: no deleter frees what the restore already freed
\* (removeStorageDeleterFns, addStorageDeleterFns).
\* (PoolCheckpoint)
DeletersValid ==
    /\ at = "CheckpointBlocks" => CheckpointBlocks!DeletersValid
    /\ at = "CheckpointSegments" => CheckpointSegments!DeletersValid

\* Setting a checkpoint gives the segments it knows the blocks they had
\* ("return it to its current state"), and frees every other block.
\* (PoolCheckpoint)
Reproduced ==
    [][
       /\ at = "CheckpointBlocks" => CheckpointBlocks!ReproducedStep
       /\ at = "CheckpointSegments" => CheckpointSegments!ReproducedStep]_vars

\* The trace is the end of what happened, in its order, also when the ring
\* wraps, as long as the size of the ring is not changed while history is on
\* (record_trace, trace). Of each device, the segments of a snapshot are those
\* its trace leads to once what other threads did between the two is added:
\* snapshot gives the mutex back in between, so it is of one moment only if
\* nobody else allocates.
SnapshotsTrue ==
    /\ at = "HistoryRing" => HistoryRing!TraceIsHistory /\ HistoryRing!SnapshotExplained
    /\ at = "HistoryThreads" => HistoryThreads!TraceIsHistory /\ HistoryThreads!SnapshotExplained

\* Of one thread that uses its pool's memory no longer than the pool, memory
\* goes back to the allocator it came from. With two threads and blocks that
\* outlive the MemPool, supaFree gets it only from another thread's emptyCache
\* in the middle of ~MemPool, or if it was freed after it; ~MemPool leaves
\* nothing else; references and segments of the pool are counted, also while
\* free_fn runs outside of the mutex; and free_fn is given the size its memory
\* was allocated with, where no DataPtr owned the address before. Nobody
\* enters a pool that is being used: run pool_reference_leak is about that
\* (SUPAPluggableAllocator.cpp, MemPool.cpp).
CustomMemorySafe ==
    /\ at = "CustomPool" => /\ CustomPool!OwnerFrees
                            /\ CustomPool!UseCountExact
                            /\ CustomPool!PoolKeptForSegments
                            /\ CustomPool!NothingLeft
    /\ at = "CustomThreads" => /\ CustomThreads!ForeignFrees
                               /\ CustomThreads!FreedWithOwnSize
                               /\ CustomThreads!UseCountExact
                               /\ CustomThreads!PoolKeptForSegments
                               /\ CustomThreads!NothingLeft

\* A tensor has the value it would have if every call had been finished
\* before the next, and the host reads a copy only when it is complete, as
\* long as no copy between host and device is on the stream of another device
\* than the tensor's, beside work there: copy_ takes the stream of the current
\* device. The temporaries of a copy need none of their own (copy_,
\* copy_device_to_device).
CopiesOrdered ==
    /\ at = "CopyDevices" => CopyDevices!InOrder /\ CopyDevices!NoRecursion
    /\ at = "CopyHost" => CopyHost!InOrderUnlessStray /\ CopyHost!NoRecursion

\* The kernels of a replayed graph draw the numbers they would draw in an
\* eager run, as long as the replays and captures that use a generator are on
\* one stream, or on another one when the device has done what was queued
\* (GraphedAsEager breaks otherwise); and no number is drawn twice. Generators
\* are registered before a graph is captured (SUPAGraph::replay,
\* capture_epilogue, philox_supa_state).
RandomAsEager ==
    /\ at = "Graph" => Graph!GraphedAsEagerInStream /\ Graph!NumbersGivenOnce
    /\ at = "GraphFaults" => GraphFaults!GraphedAsEagerInStream /\ GraphFaults!NumbersGivenOnce
    /\ at = "GraphStreams" => GraphStreams!GraphedAsEagerInStream /\ GraphStreams!NumbersGivenOnce
    /\ at = "GraphRefused" => GraphRefused!GraphedAsEagerInStream

==============================================================================
