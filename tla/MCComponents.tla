-------------------------- MODULE MCComponents --------------------------
(*****************************************************************************)
(* Small instances of the collectives, the symmetric memory, the recorders   *)
(* and the profiler, and of the index arithmetic of the kernels.             *)
(*                                                                           *)
(* The components do not interact in these models, so one run explores the   *)
(* disjoint union of their behaviours: "at" names the instance a behaviour   *)
(* belongs to, chosen by Init and never changed, and x1, x2, ... are its     *)
(* variables, in the order in which its module declares them. An instance    *)
(* with fewer variables leaves the others at 0: Idle<k> says so of x<k> and  *)
(* those after it, and Keep<k> that a step does not change them, nor "at". A *)
(* property of a component is stated of the instances whose bounds reach     *)
(* what it is about.                                                         *)
(*****************************************************************************)
EXTENDS Integers

CONSTANTS Nil, a1, a2, h1, h2, k1, k2, p1, p2, t1, t2, t3, u1     \* model values
VARIABLES at,   \* the component this behaviour is of
          x1, x2, x3, x4, x5, x6, x7, x8, x9, x10, x11, x12, x13, x14, x15, x16, x17, x18, x19,
          x20, x21, x22, x23, x24   \* its variables
vars == <<at, x1, x2, x3, x4, x5, x6, x7, x8, x9, x10, x11, x12, x13, x14, x15, x16, x17, x18, x19, x20, x21, x22, x23, x24>>

Watchdog == INSTANCE ProcessGroupWatchdog WITH
    Users <- {u1}, MaxWork <- 1, MaxEphemeral <- 1, Mode <- "CleanUpOnly",
    BlockingWait <- FALSE, HookOn <- TRUE, HookThrows <- TRUE, MonitorOn <- TRUE,
    Failures <- TRUE, LateUsers <- TRUE,
    issued <- x1, device <- x2, commError <- x3, commAborted <- x4, exception <- x5,
    futureWorkResult_ <- x6, owned <- x7, enqueued <- x8, workMetaList_ <- x9,
    completedWorkList_ <- x10, workMetaListMutex_ <- x11, completedWorkListMutex_ <- x12,
    ephemeralTimeoutActive_ <- x13, ephemeralTimeoutInflight_ <- x14,
    terminateProcessGroup_ <- x15, terminateHeartbeatMonitorThread_ <- x16, heartbeat <- x17,
    hooked <- x18, pc <- x19, holding <- x20, iter <- x21, done <- x22, quiet <- x23,
    killed <- x24
Hooks == INSTANCE ProcessGroupWatchdog WITH
    Users <- {u1}, MaxWork <- 2, MaxEphemeral <- 0, Mode <- "CleanUpOnly",
    BlockingWait <- FALSE, HookOn <- TRUE, HookThrows <- TRUE, MonitorOn <- FALSE,
    Failures <- FALSE, LateUsers <- TRUE,
    issued <- x1, device <- x2, commError <- x3, commAborted <- x4, exception <- x5,
    futureWorkResult_ <- x6, owned <- x7, enqueued <- x8, workMetaList_ <- x9,
    completedWorkList_ <- x10, workMetaListMutex_ <- x11, completedWorkListMutex_ <- x12,
    ephemeralTimeoutActive_ <- x13, ephemeralTimeoutInflight_ <- x14,
    terminateProcessGroup_ <- x15, terminateHeartbeatMonitorThread_ <- x16, heartbeat <- x17,
    hooked <- x18, pc <- x19, holding <- x20, iter <- x21, done <- x22, quiet <- x23,
    killed <- x24
TearDown == INSTANCE ProcessGroupWatchdog WITH
    Users <- {u1}, MaxWork <- 2, MaxEphemeral <- 1, Mode <- "TearDown",
    BlockingWait <- FALSE, HookOn <- FALSE, HookThrows <- FALSE, MonitorOn <- TRUE,
    Failures <- TRUE, LateUsers <- TRUE,
    issued <- x1, device <- x2, commError <- x3, commAborted <- x4, exception <- x5,
    futureWorkResult_ <- x6, owned <- x7, enqueued <- x8, workMetaList_ <- x9,
    completedWorkList_ <- x10, workMetaListMutex_ <- x11, completedWorkListMutex_ <- x12,
    ephemeralTimeoutActive_ <- x13, ephemeralTimeoutInflight_ <- x14,
    terminateProcessGroup_ <- x15, terminateHeartbeatMonitorThread_ <- x16, heartbeat <- x17,
    hooked <- x18, pc <- x19, holding <- x20, iter <- x21, done <- x22, quiet <- x23,
    killed <- x24
DumpOrder == INSTANCE DumpSignal WITH
    Ranks <- {0, 1}, Groups <- {0, 1}, StoreMayFail <- TRUE, DumpMayHang <- TRUE,
    MaxFailures <- 1,
    dumpKey <- x1, storeUp <- x2, shouldDump_ <- x3, watchdog <- x4, promise <- x5,
    monitor <- x6, task <- x7, attempt <- x8, dumped <- x9, dead <- x10, failures <- x11
CommAborts == INSTANCE CommunicatorCache WITH
    Threads <- {t1, t2}, Keys <- {k1}, Addrs <- {a1}, Pools <- {0}, RegisterAll <- TRUE,
    NonBlocking <- FALSE, Ops <- {"deregister", "abort", "shutdown"}, MaxComm <- 1,
    comm <- x1, dev <- x2, inInit <- x3, memPoolMap <- x4, seg <- x5, thr <- x6, aborter <- x7,
    incidents <- x8
CommRace == INSTANCE CommunicatorCache WITH
    Threads <- {t1, t2}, Keys <- {k1}, Addrs <- {a1}, Pools <- {0}, RegisterAll <- TRUE,
    NonBlocking <- FALSE, Ops <- {"deregister"}, MaxComm <- 2,
    comm <- x1, dev <- x2, inInit <- x3, memPoolMap <- x4, seg <- x5, thr <- x6, aborter <- x7,
    incidents <- x8
CommPools == INSTANCE CommunicatorCache WITH
    Threads <- {t1}, Keys <- {k1, k2}, Addrs <- {a1, a2}, Pools <- {0, 1}, RegisterAll <- TRUE,
    NonBlocking <- FALSE, Ops <- {"register"}, MaxComm <- 2,
    comm <- x1, dev <- x2, inInit <- x3, memPoolMap <- x4, seg <- x5, thr <- x6, aborter <- x7,
    incidents <- x8
CommPairs == INSTANCE CommunicatorCache WITH
    Threads <- {t1, t2}, Keys <- {k1, k2}, Addrs <- {a1}, Pools <- {0}, RegisterAll <- TRUE,
    NonBlocking <- FALSE, Ops <- {"register"}, MaxComm <- 2,
    comm <- x1, dev <- x2, inInit <- x3, memPoolMap <- x4, seg <- x5, thr <- x6, aborter <- x7,
    incidents <- x8
CollOps == INSTANCE CollectiveMemory WITH
    Ops <- {"allreduce", "allreduce_coalesced", "broadcast", "reduce", "barrier", "allgather", "allgather_into_tensor_coalesced", "reduce_scatter", "_reduce_scatter_base", "reduce_scatter_tensor_coalesced", "alltoall_base", "alltoall", "gather", "scatter", "_allgather_base", "send", "recv", "allgather_uneven", "reduce_scatter_uneven"},
    AvoidModes <- {FALSE}, MaxCalls <- 2, IsRoot <- TRUE, HoldOutputs <- FALSE,
    KeepWork <- FALSE, HoldInBlock <- FALSE, UserBlocks <- FALSE, UserGroups <- FALSE,
    MayThrow <- FALSE,
    avoidRecordStreams_ <- x1, held <- x2, rec <- x3, calls <- x4, uses <- x5, pos <- x6,
    launches <- x7, finished <- x8, joined <- x9, works <- x10, block <- x11, coal <- x12,
    groups <- x13, seqCollective_ <- x14, seqP2P_ <- x15, workMetaList_ <- x16,
    how <- x17, early <- x18
CollAvoid == INSTANCE CollectiveMemory WITH
    Ops <- {"allreduce", "allreduce_coalesced", "broadcast", "reduce", "barrier", "allgather", "allgather_into_tensor_coalesced", "reduce_scatter", "_reduce_scatter_base", "reduce_scatter_tensor_coalesced", "alltoall_base", "alltoall", "gather", "scatter", "_allgather_base", "send", "recv"},
    AvoidModes <- {TRUE}, MaxCalls <- 2, IsRoot <- FALSE, HoldOutputs <- TRUE, KeepWork <- TRUE,
    HoldInBlock <- FALSE, UserBlocks <- FALSE, UserGroups <- FALSE, MayThrow <- FALSE,
    avoidRecordStreams_ <- x1, held <- x2, rec <- x3, calls <- x4, uses <- x5, pos <- x6,
    launches <- x7, finished <- x8, joined <- x9, works <- x10, block <- x11, coal <- x12,
    groups <- x13, seqCollective_ <- x14, seqP2P_ <- x15, workMetaList_ <- x16,
    how <- x17, early <- x18
CollBlocks == INSTANCE CollectiveMemory WITH
    Ops <- {"allreduce", "send"}, AvoidModes <- {FALSE}, MaxCalls <- 2, IsRoot <- TRUE,
    HoldOutputs <- FALSE, KeepWork <- FALSE, HoldInBlock <- FALSE, UserBlocks <- TRUE,
    UserGroups <- FALSE, MayThrow <- FALSE,
    avoidRecordStreams_ <- x1, held <- x2, rec <- x3, calls <- x4, uses <- x5, pos <- x6,
    launches <- x7, finished <- x8, joined <- x9, works <- x10, block <- x11, coal <- x12,
    groups <- x13, seqCollective_ <- x14, seqP2P_ <- x15, workMetaList_ <- x16,
    how <- x17, early <- x18
CollGroups == INSTANCE CollectiveMemory WITH
    Ops <- {"allreduce", "allgather_uneven", "send"}, AvoidModes <- {FALSE}, MaxCalls <- 2,
    IsRoot <- TRUE, HoldOutputs <- FALSE, KeepWork <- TRUE, HoldInBlock <- FALSE,
    UserBlocks <- TRUE, UserGroups <- TRUE, MayThrow <- TRUE,
    avoidRecordStreams_ <- x1, held <- x2, rec <- x3, calls <- x4, uses <- x5, pos <- x6,
    launches <- x7, finished <- x8, joined <- x9, works <- x10, block <- x11, coal <- x12,
    groups <- x13, seqCollective_ <- x14, seqP2P_ <- x15, workMetaList_ <- x16,
    how <- x17, early <- x18
Recorder == INSTANCE FlightRecorder WITH
    Threads <- {t1}, MaxEntries <- 2, MaxOps <- 3, enableTiming_ <- TRUE,
    supaEventCacheEnabled_ <- TRUE, Unqueued <- TRUE, MayThrow <- TRUE, DumpAnywhere <- TRUE,
    entries_ <- x1, next_ <- x2, id_ <- x3, all_pg_status_ <- x4, writing <- x5, thread <- x6,
    work <- x7, events <- x8, owner <- x9, cache <- x10, kernel <- x11, watchdog <- x12,
    report <- x13, dumper <- x14
RecorderThreads == INSTANCE FlightRecorder WITH
    Threads <- {t1, t2}, MaxEntries <- 1, MaxOps <- 2, enableTiming_ <- TRUE,
    supaEventCacheEnabled_ <- TRUE, Unqueued <- TRUE, MayThrow <- TRUE, DumpAnywhere <- TRUE,
    entries_ <- x1, next_ <- x2, id_ <- x3, all_pg_status_ <- x4, writing <- x5, thread <- x6,
    work <- x7, events <- x8, owner <- x9, cache <- x10, kernel <- x11, watchdog <- x12,
    report <- x13, dumper <- x14
RecorderDrops == INSTANCE FlightRecorder WITH
    Threads <- {t1}, MaxEntries <- 1, MaxOps <- 3, enableTiming_ <- TRUE,
    supaEventCacheEnabled_ <- FALSE, Unqueued <- TRUE, MayThrow <- TRUE, DumpAnywhere <- TRUE,
    entries_ <- x1, next_ <- x2, id_ <- x3, all_pg_status_ <- x4, writing <- x5, thread <- x6,
    work <- x7, events <- x8, owner <- x9, cache <- x10, kernel <- x11, watchdog <- x12,
    report <- x13, dumper <- x14
RealtimeFile == INSTANCE RealtimeLog WITH
    MaxLogs <- 3, MaxSlots <- 3, N <- 7, DigitCuts <- FALSE, Signals <- TRUE, Paced <- TRUE,
    msgs <- x1, work <- x2, sizes <- x3, head <- x4, tail <- x5, buffer <- x6, dump <- x7,
    stop <- x8, ended <- x9
RealtimeWrap == INSTANCE RealtimeLog WITH
    MaxLogs <- 4, MaxSlots <- 3, N <- 4, DigitCuts <- FALSE, Signals <- FALSE, Paced <- FALSE,
    msgs <- x1, work <- x2, sizes <- x3, head <- x4, tail <- x5, buffer <- x6, dump <- x7,
    stop <- x8, ended <- x9
RealtimeDigits == INSTANCE RealtimeLog WITH
    MaxLogs <- 3, MaxSlots <- 3, N <- 5, DigitCuts <- TRUE, Signals <- TRUE, Paced <- TRUE,
    msgs <- x1, work <- x2, sizes <- x3, head <- x4, tail <- x5, buffer <- x6, dump <- x7,
    stop <- x8, ended <- x9
LogPaced == INSTANCE LogRing WITH
    Producers <- {p1, p2}, N <- 3, MaxLogs <- 2, Paced <- TRUE,
    head <- x1, tail <- x2, buffer <- x3, push <- x4, pop <- x5, logged <- x6, written <- x7,
    stop <- x8, overlapped <- x9
Tracer == INSTANCE PythonTracer WITH
    Threads <- {1, 2}, Profilers <- {p1}, MaxStartDepth <- 3, InitialDepth <- 1, MaxDepth <- 3,
    MaxTime <- 6, None <- Nil,
    clock <- x1, stack <- x2, profile <- x3, session <- x4, tracers <- x5, out <- x6,
    returned <- x7, crashed <- x8
Tree == INSTANCE EventTree WITH
    N <- 3, Threads <- {1, 2}, Fwd <- {0, 1}, MaxTime <- 2, MayLackEnd <- TRUE, Adjust <- FALSE,
    IntMod <- 64,
    ev <- x1, order <- x2, next <- x3, stacks <- x4, endq <- x5, finished <- x6, parent <- x7,
    children <- x8, phase <- x9, failed <- x10, tree <- x11
TreeDeep == INSTANCE EventTree WITH
    N <- 4, Threads <- {1}, Fwd <- {0}, MaxTime <- 3, MayLackEnd <- TRUE, Adjust <- FALSE,
    IntMod <- 64,
    ev <- x1, order <- x2, next <- x3, stacks <- x4, endq <- x5, finished <- x6, parent <- x7,
    children <- x8, phase <- x9, failed <- x10, tree <- x11
TreeAdjust == INSTANCE EventTree WITH
    N <- 3, Threads <- {1, 2}, Fwd <- {0}, MaxTime <- 3, MayLackEnd <- FALSE, Adjust <- TRUE,
    IntMod <- 64,
    ev <- x1, order <- x2, next <- x3, stacks <- x4, endq <- x5, finished <- x6, parent <- x7,
    children <- x8, phase <- x9, failed <- x10, tree <- x11
Queue == INSTANCE RecordQueue WITH
    Threads <- {t1, t2}, Worker <- t3, MaxQueues <- 3, MaxOps <- 2, MayStraddle <- TRUE,
    queue_id_ <- x1, session <- x2, callback <- x3, sub_queues_ <- x4, sub_queue_cache_ <- x5,
    info <- x6, open <- x7, correlation <- x8, out <- x9, helps <- x10, ops <- x11,
    crashed <- x12, unpopped <- x13
Arrows == INSTANCE ForwardBackwardLinks WITH
    N <- 3, Threads <- {1}, Seqs <- {1}, MaxTime <- 2,
    op <- x1, visited <- x2, tidSeq2activity <- x3, flow <- x4, fwd_bwd_link_id <- x5
ArrowThreads == INSTANCE ForwardBackwardLinks WITH
    N <- 3, Threads <- {1, 2}, Seqs <- {1}, MaxTime <- 1,
    op <- x1, visited <- x2, tidSeq2activity <- x3, flow <- x4, fwd_bwd_link_id <- x5
Transfer == INSTANCE TransferEvents WITH
    Ops <- {1, 2}, Kineto <- {3, 4, 5}, Flows <- {0, 1}, CurrentTid <- 3,
    act <- x1, tid <- x2, trace <- x3, results <- x4, kineto_activity_ <- x5, flow_map <- x6,
    parent <- x7, children <- x8, finished <- x9, phase <- x10, todo <- x11, failed <- x12,
    order <- x13
BlockRows == INSTANCE GlobalReduce WITH
    GridX <- 1, CtasPerOutput <- 3, Width <- 2, Launches <- 1,
    alongX <- x1, accMode <- x2, launch <- x3, pc <- x4, pending <- x5, staging <- x6,
    semaphores <- x7, isLast <- x8, value <- x9, out <- x10, acc <- x11
BlockColumns == INSTANCE GlobalReduce WITH
    GridX <- 2, CtasPerOutput <- 2, Width <- 1, Launches <- 1,
    alongX <- x1, accMode <- x2, launch <- x3, pc <- x4, pending <- x5, staging <- x6,
    semaphores <- x7, isLast <- x8, value <- x9, out <- x10, acc <- x11
BlockLaunches == INSTANCE GlobalReduce WITH
    GridX <- 1, CtasPerOutput <- 2, Width <- 2, Launches <- 2,
    alongX <- x1, accMode <- x2, launch <- x3, pc <- x4, pending <- x5, staging <- x6,
    semaphores <- x7, isLast <- x8, value <- x9, out <- x10, acc <- x11
OffsetCalculator == INSTANCE OffsetCalculators WITH
    W <- 6, Sizes <- {1, 2, 3, 5, 7, 8, 9, 13, 16, 17, 31}, Strides <- {0, 1, 5},
    BackStrides <- {1, 2}, MaxDims <- 2,
    iter <- x1, calc <- x2, linear_idx <- x3, asked <- x4, dim <- x5, coords <- x6,
    offsets <- x7
SymmPads == INSTANCE SignalPads WITH
    WorldSize <- 2, NumThreads <- 2, Rounds <- 2,
    Kernels <- {"one_shot", "one_shot_copy", "two_shot", "two_shot_inplace", "reduce_scatter"},
    TimeoutSet <- FALSE,
    program <- x1, round <- x2, phase <- x3, waiting <- x4, pads <- x5, buf <- x6, out <- x7,
    trapped <- x8
PadTimeouts == INSTANCE SignalPads WITH
    WorldSize <- 2, NumThreads <- 3, Rounds <- 2,
    Kernels <- {"barrier", "put_wait", "reduce_scatter"}, TimeoutSet <- TRUE,
    program <- x1, round <- x2, phase <- x3, waiting <- x4, pads <- x5, buf <- x6, out <- x7,
    trapped <- x8
Rendezvous == INSTANCE SymmetricRendezvous WITH
    GroupSets <- {{0, 1, 2}, {0, 1}}, NumCalls <- 2, FreshOffsets <- {0}, Fabric <- FALSE,
    Sizes <- {1}, None <- Nil,
    calls <- x1, multicast <- x2, size <- x3, call <- x4, pc <- x5, seq <- x6, store <- x7,
    bound <- x8, mail <- x9, carry <- x10, step <- x11, fds <- x12, mcfd <- x13, pai <- x14
RendezvousFabric == INSTANCE SymmetricRendezvous WITH
    GroupSets <- {{0, 1}}, NumCalls <- 2, FreshOffsets <- {0}, Fabric <- TRUE, Sizes <- {1, 2},
    None <- Nil,
    calls <- x1, multicast <- x2, size <- x3, call <- x4, pc <- x5, seq <- x6, store <- x7,
    bound <- x8, mail <- x9, carry <- x10, step <- x11, fds <- x12, mcfd <- x13, pai <- x14
RendezvousFd == INSTANCE SymmetricRendezvous WITH
    GroupSets <- {{0, 1}}, NumCalls <- 2, FreshOffsets <- {0}, Fabric <- FALSE, Sizes <- {1, 2},
    None <- Nil,
    calls <- x1, multicast <- x2, size <- x3, call <- x4, pc <- x5, seq <- x6, store <- x7,
    bound <- x8, mail <- x9, carry <- x10, step <- x11, fds <- x12, mcfd <- x13, pai <- x14
IntraNode == INSTANCE IntraNodeComm WITH
    WorldSize <- 2, Hosts <- {h1, h2}, NumDevices <- 2,
    Links <- {"d0", "d1", "switch", "other"}, MaxLinks <- 2, BrmlMayFail <- TRUE,
    SizesInBytes <- {1, 3, 5, 7}, OneShotBytes <- 2, TwoShotBytes <- 6, BufferBytes <- 4,
    host <- x1, device <- x2, links <- x3, brmlFails <- x4, shared <- x5, pc <- x6,
    joined <- x7, tensor <- x8
Shapes == INSTANCE ReduceShapes WITH
    MaxThreads <- 8, WarpSize <- 4, Vec <- 4, MaxOutputVec <- 4, VectorizeFrom <- 16,
    MinValues <- 2, MaxValues <- 8, NumMp <- 2, ThreadsPerMp <- 16,
    InputCounts <- {1, 3, 4, 8, 16, 17, 35, 64, 130}, OutputCounts <- {1, 2, 4, 9},
    OuterCounts <- {1, 2}, Bases <- {0, 1, 2, 3}, RowPads <- {0, 1, 2},
    iter <- x1, config <- x2
Dispatch == INSTANCE ElementwiseDispatch WITH
    Functors <- {"binary", "compare", "fill", "unary", "nullary"},
    Types <- {"bool", "bf16", "f32", "f64"}, Layouts <- {"dense", "row", "scalar", "far"},
    Offsets <- {0}, Tunings <- {0}, Capabilities <- {80},
    iter <- x1, plan <- x2
DispatchVectors == INSTANCE ElementwiseDispatch WITH
    Functors <- {"binary", "unary"}, Types <- {"bool", "bf16", "f64"}, Layouts <- {"dense"},
    Offsets <- {0, 1, 2}, Tunings <- {0, 24}, Capabilities <- {80, 90},
    iter <- x1, plan <- x2
DispatchOffsets == INSTANCE ElementwiseDispatch WITH
    Functors <- {"binary"}, Types <- {"bf16", "f32", "f64"}, Layouts <- {"dense", "row"},
    Offsets <- {0, 1, 4}, Tunings <- {0}, Capabilities <- {80},
    iter <- x1, plan <- x2
Elementwise == INSTANCE ElementwiseKernels WITH
    NT <- 2, Kernels <- {"vectorized", "hybrid", "unrolled", "legacy", "multi"}, Rows <- {2},
    Cols <- {1, 4, 5}, Works <- {4}, Vecs <- {1, 2},
    launch <- x1, out <- x2, pc <- x3, args <- x4, results <- x5
Permute == INSTANCE PermuteCopy WITH
    Tile <- 4, Burst <- 4, WG <- 4, PlaneSizes <- {1, 5}, TailSizes <- {1, 3, 9}, Bases <- {0},
    Pads <- {0, 1}, SameTypes <- {TRUE},
    src <- x1, route <- x2, block <- x3, pc <- x4, sa <- x5, dst <- x6, written <- x7,
    wrong <- x8
CastTypes == INSTANCE CopyTypes WITH
    Float8 <- {"e4m3fn", "e5m2", "e4m3fnuz", "e5m2fnuz"}, QInt <- {"qint8"},
    Bits <- {"bits8", "bits16"}, Others <- {"f64", "bool"},
    dtype <- x1, other <- x2, new <- x3, call <- x4

ASSUME MCComponentsAssumption ==
    /\ Watchdog!WatchdogAssumption
    /\ Hooks!WatchdogAssumption
    /\ TearDown!WatchdogAssumption
    /\ DumpOrder!DumpAssumption
    /\ CommAborts!CacheAssumption
    /\ CommRace!CacheAssumption
    /\ CommPools!CacheAssumption
    /\ CommPairs!CacheAssumption
    /\ CollOps!MemoryAssumption
    /\ CollAvoid!MemoryAssumption
    /\ CollBlocks!MemoryAssumption
    /\ CollGroups!MemoryAssumption
    /\ Recorder!RecorderAssumption
    /\ RecorderThreads!RecorderAssumption
    /\ RecorderDrops!RecorderAssumption
    /\ RealtimeFile!RealtimeAssumption
    /\ RealtimeWrap!RealtimeAssumption
    /\ RealtimeDigits!RealtimeAssumption
    /\ LogPaced!RingAssumption
    /\ Queue!WorkerAssumption
    /\ OffsetCalculator!ConstantsAssumption
    /\ SymmPads!ShapeAssumption
    /\ PadTimeouts!ShapeAssumption
    /\ Rendezvous!GroupAssumption
    /\ RendezvousFabric!GroupAssumption
    /\ RendezvousFd!GroupAssumption
    /\ IntraNode!SizesAssumption
    /\ Shapes!ConstantsAssumption
    /\ Elementwise!ConstantsAssumption
    /\ Permute!ConstantsAssumption

\* Idle<k>, Keep<k>: the variables from x<k> on are not used, and stay so
Idle19 == x19 = 0 /\ x20 = 0 /\ x21 = 0 /\ x22 = 0 /\ x23 = 0 /\ x24 = 0
Idle15 == x15 = 0 /\ x16 = 0 /\ x17 = 0 /\ x18 = 0 /\ Idle19
Idle14 == x14 = 0 /\ Idle15
Idle13 == x13 = 0 /\ Idle14
Idle12 == x12 = 0 /\ Idle13
Idle10 == x10 = 0 /\ x11 = 0 /\ Idle12
Idle9 == x9 = 0 /\ Idle10
Idle8 == x8 = 0 /\ Idle9
Idle6 == x6 = 0 /\ x7 = 0 /\ Idle8
Idle5 == x5 = 0 /\ Idle6
Idle3 == x3 = 0 /\ x4 = 0 /\ Idle5
Keep25 == UNCHANGED <<at>>
Keep19 == UNCHANGED <<x19, x20, x21, x22, x23, x24>> /\ Keep25
Keep15 == UNCHANGED <<x15, x16, x17, x18>> /\ Keep19
Keep14 == UNCHANGED <<x14>> /\ Keep15
Keep13 == UNCHANGED <<x13>> /\ Keep14
Keep12 == UNCHANGED <<x12>> /\ Keep13
Keep10 == UNCHANGED <<x10, x11>> /\ Keep12
Keep9 == UNCHANGED <<x9>> /\ Keep10
Keep8 == UNCHANGED <<x8>> /\ Keep9
Keep6 == UNCHANGED <<x6, x7>> /\ Keep8
Keep5 == UNCHANGED <<x5>> /\ Keep6
Keep3 == UNCHANGED <<x3, x4>> /\ Keep5

Init ==
    \/ at = "Watchdog" /\ Watchdog!Init
    \/ at = "Hooks" /\ Hooks!Init
    \/ at = "TearDown" /\ TearDown!Init
    \/ at = "DumpOrder" /\ DumpOrder!Init /\ Idle12
    \/ at = "CommAborts" /\ CommAborts!Init /\ Idle9
    \/ at = "CommRace" /\ CommRace!Init /\ Idle9
    \/ at = "CommPools" /\ CommPools!Init /\ Idle9
    \/ at = "CommPairs" /\ CommPairs!Init /\ Idle9
    \/ at = "CollOps" /\ CollOps!Init /\ Idle19
    \/ at = "CollAvoid" /\ CollAvoid!Init /\ Idle19
    \/ at = "CollBlocks" /\ CollBlocks!Init /\ Idle19
    \/ at = "CollGroups" /\ CollGroups!Init /\ Idle19
    \/ at = "Recorder" /\ Recorder!Init /\ Idle15
    \/ at = "RecorderThreads" /\ RecorderThreads!Init /\ Idle15
    \/ at = "RecorderDrops" /\ RecorderDrops!Init /\ Idle15
    \/ at = "RealtimeFile" /\ RealtimeFile!Init /\ Idle10
    \/ at = "RealtimeWrap" /\ RealtimeWrap!Init /\ Idle10
    \/ at = "RealtimeDigits" /\ RealtimeDigits!Init /\ Idle10
    \/ at = "LogPaced" /\ LogPaced!Init /\ Idle10
    \/ at = "Tracer" /\ Tracer!Init /\ Idle9
    \/ at = "Tree" /\ Tree!Init /\ Idle12
    \/ at = "TreeDeep" /\ TreeDeep!Init /\ Idle12
    \/ at = "TreeAdjust" /\ TreeAdjust!Init /\ Idle12
    \/ at = "Queue" /\ Queue!Init /\ Idle14
    \/ at = "Arrows" /\ Arrows!Init /\ Idle6
    \/ at = "ArrowThreads" /\ ArrowThreads!Init /\ Idle6
    \/ at = "Transfer" /\ Transfer!Init /\ Idle14
    \/ at = "BlockRows" /\ BlockRows!Init /\ Idle12
    \/ at = "BlockColumns" /\ BlockColumns!Init /\ Idle12
    \/ at = "BlockLaunches" /\ BlockLaunches!Init /\ Idle12
    \/ at = "OffsetCalculator" /\ OffsetCalculator!Init /\ Idle8
    \/ at = "SymmPads" /\ SymmPads!Init /\ Idle9
    \/ at = "PadTimeouts" /\ PadTimeouts!Init /\ Idle9
    \/ at = "Rendezvous" /\ Rendezvous!Init /\ Idle15
    \/ at = "RendezvousFabric" /\ RendezvousFabric!Init /\ Idle15
    \/ at = "RendezvousFd" /\ RendezvousFd!Init /\ Idle15
    \/ at = "IntraNode" /\ IntraNode!Init /\ Idle9
    \/ at = "Shapes" /\ Shapes!Init /\ Idle3
    \/ at = "Dispatch" /\ Dispatch!Init /\ Idle3
    \/ at = "DispatchVectors" /\ DispatchVectors!Init /\ Idle3
    \/ at = "DispatchOffsets" /\ DispatchOffsets!Init /\ Idle3
    \/ at = "Elementwise" /\ Elementwise!Init /\ Idle6
    \/ at = "Permute" /\ Permute!Init /\ Idle9
    \/ at = "CastTypes" /\ CastTypes!Init /\ Idle5

Next ==
    \/ at = "Watchdog" /\ Watchdog!Next /\ Keep25
    \/ at = "Hooks" /\ Hooks!Next /\ Keep25
    \/ at = "TearDown" /\ TearDown!Next /\ Keep25
    \/ at = "DumpOrder" /\ DumpOrder!Next /\ Keep12
    \/ at = "CommAborts" /\ CommAborts!Next /\ Keep9
    \/ at = "CommRace" /\ CommRace!Next /\ Keep9
    \/ at = "CommPools" /\ CommPools!Next /\ Keep9
    \/ at = "CommPairs" /\ CommPairs!Next /\ Keep9
    \/ at = "CollOps" /\ CollOps!Next /\ Keep19
    \/ at = "CollAvoid" /\ CollAvoid!Next /\ Keep19
    \/ at = "CollBlocks" /\ CollBlocks!Next /\ Keep19
    \/ at = "CollGroups" /\ CollGroups!Next /\ Keep19
    \/ at = "Recorder" /\ Recorder!Next /\ Keep15
    \/ at = "RecorderThreads" /\ RecorderThreads!Next /\ Keep15
    \/ at = "RecorderDrops" /\ RecorderDrops!Next /\ Keep15
    \/ at = "RealtimeFile" /\ RealtimeFile!Next /\ Keep10
    \/ at = "RealtimeWrap" /\ RealtimeWrap!Next /\ Keep10
    \/ at = "RealtimeDigits" /\ RealtimeDigits!Next /\ Keep10
    \/ at = "LogPaced" /\ LogPaced!Next /\ Keep10
    \/ at = "Tracer" /\ Tracer!Next /\ Keep9
    \/ at = "Tree" /\ Tree!Next /\ Keep12
    \/ at = "TreeDeep" /\ TreeDeep!Next /\ Keep12
    \/ at = "TreeAdjust" /\ TreeAdjust!Next /\ Keep12
    \/ at = "Queue" /\ Queue!Next /\ Keep14
    \/ at = "Arrows" /\ Arrows!Next /\ Keep6
    \/ at = "ArrowThreads" /\ ArrowThreads!Next /\ Keep6
    \/ at = "Transfer" /\ Transfer!Next /\ Keep14
    \/ at = "BlockRows" /\ BlockRows!Next /\ Keep12
    \/ at = "BlockColumns" /\ BlockColumns!Next /\ Keep12
    \/ at = "BlockLaunches" /\ BlockLaunches!Next /\ Keep12
    \/ at = "OffsetCalculator" /\ OffsetCalculator!Next /\ Keep8
    \/ at = "SymmPads" /\ SymmPads!Next /\ Keep9
    \/ at = "PadTimeouts" /\ PadTimeouts!Next /\ Keep9
    \/ at = "Rendezvous" /\ Rendezvous!Next /\ Keep15
    \/ at = "RendezvousFabric" /\ RendezvousFabric!Next /\ Keep15
    \/ at = "RendezvousFd" /\ RendezvousFd!Next /\ Keep15
    \/ at = "IntraNode" /\ IntraNode!Next /\ Keep9
    \/ at = "Shapes" /\ Shapes!Next /\ Keep3
    \/ at = "Dispatch" /\ Dispatch!Next /\ Keep3
    \/ at = "DispatchVectors" /\ DispatchVectors!Next /\ Keep3
    \/ at = "DispatchOffsets" /\ DispatchOffsets!Next /\ Keep3
    \/ at = "Elementwise" /\ Elementwise!Next /\ Keep6
    \/ at = "Permute" /\ Permute!Next /\ Keep9
    \/ at = "CastTypes" /\ CastTypes!Next /\ Keep5

Spec == Init /\ [][Next]_vars

-----------------------------------------------------------------------------
\* A work has one result, settled once, and its hook runs once before it is
\* forgotten, while other works are enqueued and fail (watchdogHandler, runHookLoop).
\* What the works in flight own together are the extensions of the timeout in use
\* (assignTimeoutToWork). In a group that tears down only an error of the communicator
\* that begins between two looks at it is left without taking the process down. A
\* watchdog throws after the dump, unless its wait ends first or the store fails, and
\* unless that it leaves no failure without a dump (broadcastDumpSignal).
FailuresSettled ==
    /\ at = "Watchdog" => /\ Watchdog!PendingHooksRun
                          /\ Watchdog!ResultSettled
                          /\ Watchdog!EphemeralOwned
    /\ at = "Hooks" => Hooks!PendingHooksRun /\ Hooks!ResultSettled
    /\ at = "TearDown" => /\ TearDown!ResultSettled
                          /\ TearDown!EphemeralOwned
                          /\ TearDown!TornDownUnlessLate
    /\ at = "DumpOrder" => DumpOrder!DumpBeforeThrow /\ DumpOrder!FailureHeard

\* Threads that look up the same key work with the same communicator, and an
\* aborted one holds no registration. Every segment is registered on every
\* communicator of the map, with several threads as long as no segment comes or goes
\* while a thread works through a snapshot of them, and no pool is registered before
\* the communicator is in the map (getBCCLComm, initBCCLComm, abortComms).
CommunicatorsSound ==
    /\ at = "CommAborts" => CommAborts!SameCommunicator /\ CommAborts!AbortedClean
    /\ at = "CommRace" => CommRace!SameCommunicator /\ CommRace!AbortedClean
    /\ at = "CommPools" => CommPools!AllRegistered
    /\ at = "CommPairs" => CommPairs!SameCommunicator /\ CommPairs!AllRegisteredUnlessRaced

\* Memory a collective works on is not reused before its kernel has run, whatever the
\* user drops and when, but for the outputs of four operations and what is given up
\* inside a group; when TORCH_NCCL_AVOID_RECORD_STREAMS is set, all of it is if the
\* user keeps the outputs and the Work until it has waited. The end event of a Work
\* covers its kernels, also in blocks, but not those of a group the user opened, or of
\* a block in which another group ends (collective, endCoalescing, pointToPoint).
CollectivesSafe ==
    /\ at = "CollOps" => CollOps!EarlyReuseKnown /\ CollOps!EndEventCovers
    /\ at = "CollAvoid" => CollAvoid!NoEarlyReuse
    /\ at = "CollBlocks" => CollBlocks!EarlyReuseKnown /\ CollBlocks!EndEventCovers
    /\ at = "CollGroups" => CollGroups!EarlyReuseKnown /\ CollGroups!UngroupedCovered

\* The last operations can be found, a duration belongs to the operation of its
\* entry, an entry never asks the events of another Work, and a dump tells the state of
\* every operation that was launched; the last two but for operations whose Work went
\* without the watchdog, by an exception or with its caller (FlightRecorder.cpp).
RecorderTruthful ==
    /\ at = "Recorder" => /\ Recorder!EventsBorrowedUnlessLost
                          /\ Recorder!DumpTruthfulWhereSure
                          /\ Recorder!DurationOwn
    /\ at = "RecorderThreads" => /\ RecorderThreads!EventsBorrowedUnlessLost
                                 /\ RecorderThreads!DumpTruthfulWhereSure
                                 /\ RecorderThreads!DurationOwn
    /\ at = "RecorderDrops" => /\ RecorderDrops!RecentFindable
                               /\ RecorderDrops!EventsBorrowedUnlessLost
                               /\ RecorderDrops!DumpTruthfulWhereSure

\* The file of the realtime logger has whole messages without gaps, whenever it is
\* written, if no message has a digit where it is cut; else it is only divided in the
\* wrong places (RealtimeLogger.cpp). The ring of the asynchronous logger, as long as
\* it has room, loses no message and keeps the order of a thread, but for messages
\* whose push overlaps the one of another thread (RingBuffer.h).
LogsFaithful ==
    /\ at = "RealtimeFile" => RealtimeFile!FileHasLogs /\ RealtimeFile!FileContiguous
    /\ at = "RealtimeWrap" => RealtimeWrap!FileHasLogs /\ RealtimeWrap!FileContiguous
    /\ at = "RealtimeDigits" => RealtimeDigits!FileHasSlots
    /\ at = "LogPaced" => LogPaced!LostOnlyOverlapped /\ LogPaced!InOrderUntilOverlap

\* Every event of a profile belongs to the profiler, thread, call and launch
\* that caused it: calls end at their return (profiler_python.cpp), events are those of
\* the own profiler, and an operation leaves its correlation id behind only if its
\* thread has no profiler when it ends (RecordQueue); the tree is the nesting of the
\* events, to which adjusted times fit while every event has an end and their sums fit
\* an int (build_tree); a kernel is below its launch (TransferEvents), an arrow starts
\* at the operation that caused the backward one and has one end.
ProfileFaithful ==
    /\ at = "Tracer" => Tracer!CallsEndAtReturn /\ Tracer!StartFramesOnOwnThread
    /\ at = "Tree" => Tree!TreeIsNesting
    /\ at = "TreeDeep" => TreeDeep!TreeIsNesting
    /\ at = "TreeAdjust" => TreeAdjust!AdjustedFits
    /\ at = "Queue" => Queue!EventsOfOwnProfiler /\ Queue!CorrelationBalancedUnlessLeft
    /\ at = "Arrows" => Arrows!ArrowFromLauncher /\ Arrows!ArrowsPaired
    /\ at = "ArrowThreads" => ArrowThreads!ArrowFromLauncher /\ ArrowThreads!ArrowsPaired
    /\ at = "Transfer" => Transfer!KernelsUnderLaunch /\ Transfer!ThreadOfCause

\* Kernels that meet at signal pads compute the sum of all inputs of their
\* round, one_shot_all_reduce_copy only where the thread that copied an input is the one
\* that signals; no rank leaves a barrier that another one has not entered, and no
\* signal is left over for the next kernel (sync_remote_blocks,
\* one_shot_all_reduce_kernel, two_shot_all_reduce_kernel).
PadsMeet ==
    /\ at = "SymmPads" => SymmPads!ResultRightUnlessCopied /\ SymmPads!PadsClean
    /\ at = "PadTimeouts" => PadTimeouts!RanksTogether /\ PadTimeouts!PadsClean

\* All ranks of a rendezvous come to the same outcome, with the memory of the
\* rank they asked for, and use multicast all or none (rendezvous,
\* init_multicast_for_block); all ranks of an IntraNodeComm become ready, or
\* none, and ready ranks are linked.
RanksAgree ==
    /\ at = "Rendezvous" => Rendezvous!HandlesMatch /\ Rendezvous!MulticastAllOrNone
    /\ at = "RendezvousFabric" => /\ RendezvousFabric!AgreeOnOutcome
                                  /\ RendezvousFabric!MulticastAllOrNone
    /\ at = "RendezvousFd" => RendezvousFd!AgreeOnOutcome
    /\ at = "IntraNode" => IntraNode!ReadyTogether /\ IntraNode!ReadyConnected

\* Every input is reduced exactly once, no thread combines a value it did not
\* set, vectors are aligned, each result has one thread and place to be stored
\* by, shared memory is large enough (setReduceConfig, ReduceOp::run), and
\* the block that counts last sees the partial results of all others, so that
\* no output shows a part of them (global_reduce).
ReductionsRight ==
    /\ at = "Shapes" => /\ Shapes!InputsPartitioned
                        /\ Shapes!ValuesInitialized
                        /\ Shapes!SharedMemoryFits
                        /\ Shapes!OneStorer
                        /\ Shapes!VectorsAligned
    /\ at = "BlockRows" => BlockRows!ResultComplete /\ BlockRows!NoPartialResult
    /\ at = "BlockColumns" => BlockColumns!ResultComplete /\ BlockColumns!NoPartialResult
    /\ at = "BlockLaunches" => BlockLaunches!ResultComplete /\ BlockLaunches!NoPartialResult

\* Every element of an elementwise operation, or of a permuted copy between tensors
\* of one type, is read from and written to its place (IntegerDivider, OffsetCalculator,
\* the kernels of CUDALoops.cuh and copy.cu), except that a copy with a short last
\* dimension writes places twice. Inputs are read with the type they are stored with,
\* and outputs written so except by the kernels with fixed types (gpu_kernel_impl). The
\* vectorized kernel and the bursts of copy.cu are aligned, and the hybrid kernel is if
\* the storage offsets are; nothing is said of the full tiles of copy.cu.
ElementsRight ==
    /\ at = "OffsetCalculator" => /\ OffsetCalculator!OffsetsRight
                                  /\ OffsetCalculator!CoordinatesExact
                                  /\ OffsetCalculator!DividerAsserts
    /\ at = "Dispatch" => /\ Dispatch!InputsReadAsStored
                          /\ Dispatch!OutputWrittenUnlessStatic
                          /\ Dispatch!HybridDense
    /\ at = "DispatchVectors" => /\ DispatchVectors!VectorizedAligned
                                 /\ DispatchVectors!Vec8OnlyWhereCompiled
    /\ at = "DispatchOffsets" => /\ DispatchOffsets!VectorizedAligned
                                 /\ DispatchOffsets!HybridAlignedIfOffsets
                                 /\ DispatchOffsets!OutputWrittenUnlessStatic
    /\ at = "Elementwise" => Elementwise!ResultsRight /\ Elementwise!InBounds
    /\ at = "Permute" => /\ Permute!CopiedRight
                         /\ Permute!WrittenOnceUnlessShort
                         /\ Permute!BurstsAligned
    /\ at = "CastTypes" => CastTypes!NocastTypesAgree
==============================================================================
