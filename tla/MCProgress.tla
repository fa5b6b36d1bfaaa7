-------------------------- MODULE MCProgress --------------------------
(*****************************************************************************)
(* What eventually happens: the components with threads or processes that    *)
(* wait for one another, under the fairness of their schedulers.             *)
(*                                                                           *)
(* The components do not interact in these models, so one run explores the   *)
(* disjoint union of their behaviours: "at" names the instance a behaviour   *)
(* belongs to, chosen by Init and never changed, and x1, x2, ... are its     *)
(* variables, in the order in which its module declares them. An instance    *)
(* with fewer variables leaves the others at 0: Idle<k> says so of x<k> and  *)
(* those after it, and Keep<k> that a step does not change them, nor "at". A *)
(* property of a component is stated of the instances whose bounds reach     *)
(* what it is about.                                                         *)
(*****************************************************************************)
EXTENDS Integers

CONSTANTS Nil, b1, b2, c1, d1, h1, p1, p2, t1, t2, t3, u1     \* model values
VARIABLES at,   \* the component this behaviour is of
          x1, x2, x3, x4, x5, x6, x7, x8, x9, x10, x11, x12, x13, x14, x15, x16, x17, x18, x19,
          x20, x21, x22, x23, x24   \* its variables
vars == <<at, x1, x2, x3, x4, x5, x6, x7, x8, x9, x10, x11, x12, x13, x14, x15, x16, x17, x18, x19, x20, x21, x22, x23, x24>>

Ipc == INSTANCE SupaIPC WITH
    Threads <- {t1}, Consumers <- {c1}, Blocks <- {b1, b2}, FileSize <- 2, MaxEvents <- 1,
    MaxSent <- 2, MayDie <- FALSE, MayFail <- FALSE,
    storage <- x1, stale <- x2, chain <- x3, sent <- x4, counter <- x5, files <- x6,
    ref_counters_files_ <- x7, next_available_ref_counters_file_ <- x8, limbo <- x9,
    sync_events_used_ <- x10, leaked <- x11, alive <- x12, crashed <- x13, pc <- x14,
    local <- x15, queue <- x16, open <- x17, closing <- x18
Watchdog == INSTANCE ProcessGroupWatchdog WITH
    Users <- {u1}, MaxWork <- 1, MaxEphemeral <- 0, Mode <- "CleanUpOnly",
    BlockingWait <- FALSE, HookOn <- TRUE, HookThrows <- TRUE, MonitorOn <- FALSE,
    Failures <- FALSE, LateUsers <- FALSE,
    issued <- x1, device <- x2, commError <- x3, commAborted <- x4, exception <- x5,
    futureWorkResult_ <- x6, owned <- x7, enqueued <- x8, workMetaList_ <- x9,
    completedWorkList_ <- x10, workMetaListMutex_ <- x11, completedWorkListMutex_ <- x12,
    ephemeralTimeoutActive_ <- x13, ephemeralTimeoutInflight_ <- x14,
    terminateProcessGroup_ <- x15, terminateHeartbeatMonitorThread_ <- x16, heartbeat <- x17,
    hooked <- x18, pc <- x19, holding <- x20, iter <- x21, done <- x22, quiet <- x23,
    killed <- x24
Extensions == INSTANCE ProcessGroupWatchdog WITH
    Users <- {u1}, MaxWork <- 1, MaxEphemeral <- 1, Mode <- "CleanUpOnly",
    BlockingWait <- FALSE, HookOn <- FALSE, HookThrows <- FALSE, MonitorOn <- TRUE,
    Failures <- TRUE, LateUsers <- TRUE,
    issued <- x1, device <- x2, commError <- x3, commAborted <- x4, exception <- x5,
    futureWorkResult_ <- x6, owned <- x7, enqueued <- x8, workMetaList_ <- x9,
    completedWorkList_ <- x10, workMetaListMutex_ <- x11, completedWorkListMutex_ <- x12,
    ephemeralTimeoutActive_ <- x13, ephemeralTimeoutInflight_ <- x14,
    terminateProcessGroup_ <- x15, terminateHeartbeatMonitorThread_ <- x16, heartbeat <- x17,
    hooked <- x18, pc <- x19, holding <- x20, iter <- x21, done <- x22, quiet <- x23,
    killed <- x24
Dump == INSTANCE DumpSignal WITH
    Ranks <- {0, 1}, Groups <- {0, 1}, StoreMayFail <- TRUE, DumpMayHang <- TRUE,
    MaxFailures <- 1,
    dumpKey <- x1, storeUp <- x2, shouldDump_ <- x3, watchdog <- x4, promise <- x5,
    monitor <- x6, task <- x7, attempt <- x8, dumped <- x9, dead <- x10, failures <- x11
LogPaced == INSTANCE LogRing WITH
    Producers <- {p1}, N <- 3, MaxLogs <- 4, Paced <- TRUE,
    head <- x1, tail <- x2, buffer <- x3, push <- x4, pop <- x5, logged <- x6, written <- x7,
    stop <- x8, overlapped <- x9
LogThreads == INSTANCE LogRing WITH
    Producers <- {p1, p2}, N <- 2, MaxLogs <- 1, Paced <- FALSE,
    head <- x1, tail <- x2, buffer <- x3, push <- x4, pop <- x5, logged <- x6, written <- x7,
    stop <- x8, overlapped <- x9
LibraryHandles == INSTANCE HandlePool WITH
    Threads <- {t1, t2, t3}, Devices <- {d1}, StreamIds <- {1}, Modes <- {"default"},
    Sublas <- FALSE, MayFail <- FALSE, MaxHandles <- 4, None <- Nil,
    created_handles <- x1, available_handles <- x2, my_handles <- x3, alive <- x4,
    poolAlive <- x5, lib <- x6, call <- x7, map <- x8, inMap <- x9, crashed <- x10,
    highWater <- x11
Barriers == INSTANCE SignalPads WITH
    WorldSize <- 2, NumThreads <- 2, Rounds <- 2, Kernels <- {"put_wait", "one_shot"},
    TimeoutSet <- FALSE,
    program <- x1, round <- x2, phase <- x3, waiting <- x4, pads <- x5, buf <- x6, out <- x7,
    trapped <- x8
RendezvousFd == INSTANCE SymmetricRendezvous WITH
    GroupSets <- {{0, 1}}, NumCalls <- 2, FreshOffsets <- {0}, Fabric <- FALSE, Sizes <- {1, 2},
    None <- Nil,
    calls <- x1, multicast <- x2, size <- x3, call <- x4, pc <- x5, seq <- x6, store <- x7,
    bound <- x8, mail <- x9, carry <- x10, step <- x11, fds <- x12, mcfd <- x13, pai <- x14
IntraNode == INSTANCE IntraNodeComm WITH
    WorldSize <- 2, Hosts <- {h1}, NumDevices <- 2, Links <- {"d0", "d1"}, MaxLinks <- 2,
    BrmlMayFail <- TRUE, SizesInBytes <- {1, 3, 5, 7}, OneShotBytes <- 2, TwoShotBytes <- 6,
    BufferBytes <- 4,
    host <- x1, device <- x2, links <- x3, brmlFails <- x4, shared <- x5, pc <- x6,
    joined <- x7, tensor <- x8

ASSUME MCProgressAssumption ==
    /\ Ipc!IPCAssumption
    /\ Watchdog!WatchdogAssumption
    /\ Extensions!WatchdogAssumption
    /\ Dump!DumpAssumption
    /\ LogPaced!RingAssumption
    /\ LogThreads!RingAssumption
    /\ Barriers!ShapeAssumption
    /\ RendezvousFd!GroupAssumption
    /\ IntraNode!SizesAssumption

\* Idle<k>, Keep<k>: the variables from x<k> on are not used, and stay so
Idle19 == x19 = 0 /\ x20 = 0 /\ x21 = 0 /\ x22 = 0 /\ x23 = 0 /\ x24 = 0
Idle15 == x15 = 0 /\ x16 = 0 /\ x17 = 0 /\ x18 = 0 /\ Idle19
Idle12 == x12 = 0 /\ x13 = 0 /\ x14 = 0 /\ Idle15
Idle10 == x10 = 0 /\ x11 = 0 /\ Idle12
Idle9 == x9 = 0 /\ Idle10
Keep25 == UNCHANGED <<at>>
Keep19 == UNCHANGED <<x19, x20, x21, x22, x23, x24>> /\ Keep25
Keep15 == UNCHANGED <<x15, x16, x17, x18>> /\ Keep19
Keep12 == UNCHANGED <<x12, x13, x14>> /\ Keep15
Keep10 == UNCHANGED <<x10, x11>> /\ Keep12
Keep9 == UNCHANGED <<x9>> /\ Keep10

Init ==
    \/ at = "Ipc" /\ Ipc!Init /\ Idle19
    \/ at = "Watchdog" /\ Watchdog!Init
    \/ at = "Extensions" /\ Extensions!Init
    \/ at = "Dump" /\ Dump!Init /\ Idle12
    \/ at = "LogPaced" /\ LogPaced!Init /\ Idle10
    \/ at = "LogThreads" /\ LogThreads!Init /\ Idle10
    \/ at = "LibraryHandles" /\ LibraryHandles!Init /\ Idle12
    \/ at = "Barriers" /\ Barriers!Init /\ Idle9
    \/ at = "RendezvousFd" /\ RendezvousFd!Init /\ Idle15
    \/ at = "IntraNode" /\ IntraNode!Init /\ Idle9

Next ==
    \/ at = "Ipc" /\ Ipc!Next /\ Keep19
    \/ at = "Watchdog" /\ Watchdog!Next /\ Keep25
    \/ at = "Extensions" /\ Extensions!Next /\ Keep25
    \/ at = "Dump" /\ Dump!Next /\ Keep12
    \/ at = "LogPaced" /\ LogPaced!Next /\ Keep10
    \/ at = "LogThreads" /\ LogThreads!Next /\ Keep10
    \/ at = "LibraryHandles" /\ LibraryHandles!Next /\ Keep12
    \/ at = "Barriers" /\ Barriers!Next /\ Keep9
    \/ at = "RendezvousFd" /\ RendezvousFd!Next /\ Keep15
    \/ at = "IntraNode" /\ IntraNode!Next /\ Keep9

\* Actions of a component, as steps of the union. As at never changes, an action
\* that is an action of one component or of another one is fair if both are.
InIpc(A) == at = "Ipc" /\ A /\ Keep19
InWatchdog(A, B) == ((at = "Watchdog" /\ A) \/ (at = "Extensions" /\ B)) /\ Keep25
InDump(A) == at = "Dump" /\ A /\ Keep12
InLogPaced(A) == at = "LogPaced" /\ A /\ Keep10
InLogThreads(A) == at = "LogThreads" /\ A /\ Keep10
InHandles(A) == at = "LibraryHandles" /\ A /\ Keep12
InBarriers(A) == at = "Barriers" /\ A /\ Keep9
InFd(A) == at = "RendezvousFd" /\ A /\ Keep15
InIntraNode(A) == at = "IntraNode" /\ A /\ Keep9

\* The fairness of each component, see its module for what justifies it.
Fairness ==
    \* SupaIPC
    /\ WF_vars(InIpc(\/ Ipc!SupaIPCCollect(t1) \/ Ipc!ResetBlocks(t1)
                     \/ Ipc!safe_clean_current_file(t1) \/ Ipc!NewSentData(t1)
                     \/ Ipc!rotate_offset(t1) \/ Ipc!ShareDone(t1)))
    /\ WF_vars(InIpc(Ipc!Consumer(c1)))
    \* ProcessGroupWatchdog
    /\ WF_vars(InWatchdog(Watchdog!Watchdog, Extensions!Watchdog))
    /\ WF_vars(InWatchdog(Watchdog!Hook, Extensions!Hook))
    /\ WF_vars(InWatchdog(Watchdog!monitorExit, Extensions!monitorExit))
    /\ SF_vars(InWatchdog(Watchdog!hookErase, Extensions!hookErase))
    /\ SF_vars(InWatchdog(Watchdog!hookReturn, Extensions!hookReturn))
    /\ SF_vars(InWatchdog(Watchdog!hookWake, Extensions!hookWake))
    /\ SF_vars(InWatchdog(Watchdog!watchdogWake, Extensions!watchdogWake))
    /\ SF_vars(InWatchdog(Watchdog!watchdogStatus, Extensions!watchdogStatus))
    /\ SF_vars(InWatchdog(Watchdog!workEnqueue(u1), Extensions!workEnqueue(u1)))
    /\ WF_vars(InWatchdog(Watchdog!shutdownJoined \/ Watchdog!abortComms \/ Watchdog!destroy,
                          Extensions!shutdownJoined \/ Extensions!abortComms \/ Extensions!destroy))
    /\ WF_vars(InWatchdog(Watchdog!Aborted(1), Extensions!Aborted(1)))
    \* DumpSignal
    /\ \A r \in {0, 1} :
          /\ WF_vars(InDump(Dump!dumpDebuggingInfo(r)))
          /\ \A g \in {0, 1} :
                WF_vars(InDump(Dump!Monitor(r, g))) /\ WF_vars(InDump(Dump!DumpAwaited(r, g)))
    \* LogRing
    /\ WF_vars(InLogPaced(LogPaced!Pop)) /\ WF_vars(InLogPaced(LogPaced!Log(p1)))
    /\ WF_vars(InLogThreads(LogThreads!Pop))
    /\ \A p \in {p1, p2} : WF_vars(InLogThreads(LogThreads!Log(p)))
    \* HandlePool
    /\ \A t \in {t1, t2, t3} : WF_vars(InHandles(LibraryHandles!HandleReturns(t)))
    \* SignalPads, SymmetricRendezvous, IntraNodeComm
    /\ \A r, t \in {0, 1} : WF_vars(InBarriers(Barriers!Step(r, t)))
    /\ \A r \in {0, 1} : WF_vars(\/ InBarriers(Barriers!KernelEnd(r))
                                \/ InFd(RendezvousFd!Step(r))
                                \/ InIntraNode(IntraNode!Step(r)))

Spec == Init /\ [][Next]_vars /\ Fairness

-----------------------------------------------------------------------------
\* A state of a component.
State(component, P) == at = component /\ P

\* Memory that was dropped comes back once the consumers have released it,
\* whatever order the releases and the collections come in (SupaIPCCollect).
\* The blocks are interchangeable: b1 stands for each of them.
DroppedMemoryFreed == State("Ipc", Ipc!Dropped(b1)) ~> State("Ipc", Ipc!Free(b1))

\* A state of either instance of ProcessGroupWatchdog.
WatchdogState(P, Q) == State("Watchdog", P) \/ State("Extensions", Q)

\* Shutdown and abort end unless the process is taken down: the watchdog and the
\* hook thread always come to be joined, be it that the hook throws now and then, or
\* that works fail or time out in a group that cleans up, and are shut down or
\* aborted meanwhile (ProcessGroupBCCL::shutdown, abort, runHookLoop). A hook that
\* throws over and over is never joined, which its fairness excludes.
\* An extension of the timeout is "reset after that work completes" or fails, as long
\* as the group is in use and its waits do not block, which the watchdog serves
\* (addEphemeralTimeout, watchdogHandler).
WorksProgress ==
    /\ WatchdogState(Watchdog!ShuttingDown, Extensions!ShuttingDown)
          ~> WatchdogState(Watchdog!Down, Extensions!Down)
    /\ State("Extensions", Extensions!Extends(1))
          ~> State("Extensions", Extensions!ExtensionOver(1))

\* Once a watchdog has signalled a failure every process dumps, whichever group
\* and rank saw it, unless it is taken down before, its dump hangs or the store goes
\* away (broadcastDumpSignal, heartbeatMonitor).
\* The process of a hung watchdog is ended in the end: always when its monitor is not
\* the one that dumps, else unless the dump hangs, whose future the monitor waits for,
\* or the store goes away (heartbeatMonitor).
FailuresHandled ==
    /\ State("Dump", Dump!FailureSignalled) ~> State("Dump", Dump!EveryoneDumpedIfAble)
    /\ State("Dump", Dump!Hangs(1, 1)) ~> State("Dump", Dump!Ended(1))
    /\ State("Dump", Dump!Hangs(0, 0)) ~> State("Dump", Dump!Ended(0) \/ Dump!Unable(0))

\* What a thread or a process waits for comes:
\* RingBuffer::push also when the ring is full and others move both ends of it;
\* the writing of all that one thread queued, unless the logger is destroyed;
\* a handle of a library, as "we explicitly choose not to cap the number of
\* handles"; the kernels that meet at signal pads; the rendezvous of symmetric
\* memory between processes that are in one group only, and make the same calls in
\* the same order; IntraNodeComm's on ranks that see no usable links, and on all if
\* they see the same.
InCall ==
    CASE at = "LogThreads" -> LogThreads!InPush(p1)
      [] at = "LogPaced" -> LogPaced!Backlog
      [] at = "LibraryHandles" -> LibraryHandles!Waits(t1)
      [] at = "Barriers" -> ~Barriers!AllEnded
      [] at = "RendezvousFd" -> \E p \in {0, 1} : ~RendezvousFd!Returned(p)
      [] at = "IntraNode" -> \E r \in {0, 1} : IntraNode!ReturnsIfSame(r) /\ ~IntraNode!Returned(r)
      [] OTHER -> FALSE
CallsReturn == InCall ~> ~InCall
==============================================================================
