----------------------------- MODULE DumpSignal -----------------------------
(* How a failure seen by one watchdog makes every rank dump its flight       *)
(* recorder: the signal in the global store, shouldDump_ of each process,    *)
(* the heartbeat monitors of its process groups, of which only that of group *)
(* 0 dumps, and the dump itself, a task started with std::async, whose       *)
(* future waits for the task when it goes out of scope.                       *)
EXTENDS Integers, FiniteSets

CONSTANTS
    Ranks, Groups,      \* each process has a watchdog and a monitor per group
    StoreMayFail,       \* whether the global store may go away
    DumpMayHang,        \* whether a dump may never end
    MaxFailures         \* bound: watchdogs that see a failure or hang

DumpAssumption ==
    0 \in Groups /\ StoreMayFail \in BOOLEAN /\ DumpMayHang \in BOOLEAN /\ MaxFailures \in Nat

VARIABLES
    dumpKey, storeUp,   \* EXCEPTION_DUMP in the global store
    shouldDump_,        \* of each process
    watchdog, promise,  \* of each process and group; promiseFlightRecorderDump_
                        \* (a watchdog goes on to throw once it was told of the
                        \* dump, "late" or "unheard")
    monitor,
    task, attempt,      \* the dump of each process
    dumped,             \* how many dumps each process has written
    dead,               \* processes that were ended
    failures

store == <<dumpKey, storeUp>>
dump == <<task, attempt, dumped>>
vars == <<store, shouldDump_, watchdog, promise, monitor, dump, dead, failures>>

Alive == Ranks \ dead
Set(f, r, g, v) == [f EXCEPT ![r][g] = v]

Init ==
    /\ dumpKey = FALSE /\ storeUp = TRUE
    /\ shouldDump_ = [r \in Ranks |-> FALSE]
    /\ watchdog = [r \in Ranks |-> [g \in Groups |-> "run"]]
    /\ promise = [r \in Ranks |-> [g \in Groups |-> FALSE]]
    /\ monitor = [r \in Ranks |-> [g \in Groups |-> "poll"]]
    /\ task = [r \in Ranks |-> "none"] /\ attempt = [r \in Ranks |-> 0]
    /\ dumped = [r \in Ranks |-> 0] /\ dead = {} /\ failures = 0

StoreFails ==
    /\ StoreMayFail /\ storeUp /\ storeUp' = FALSE
    /\ UNCHANGED <<dumpKey, shouldDump_, watchdog, promise, monitor, dump, dead, failures>>

-----------------------------------------------------------------------------
\* Mutant: the other ranks are not told.
broadcastDumpSignal_Local(r, g) ==
    /\ storeUp /\ shouldDump_' = [shouldDump_ EXCEPT ![r] = TRUE]
    /\ watchdog' = Set(watchdog, r, g, "waiting") /\ UNCHANGED dumpKey

\* The flag of this process is set after the store; a store that fails ends
\* the method.
broadcastDumpSignal(r, g) ==
    IF storeUp
    THEN /\ dumpKey' = TRUE /\ shouldDump_' = [shouldDump_ EXCEPT ![r] = TRUE]
         /\ watchdog' = Set(watchdog, r, g, "waiting")
    ELSE watchdog' = Set(watchdog, r, g, "unheard") /\ UNCHANGED <<dumpKey, shouldDump_>>

\* A watchdog meets a failed work or a timeout.
FailureDetected(r, g) ==
    /\ r \in Alive /\ watchdog[r][g] = "run" /\ failures < MaxFailures /\ failures' = failures + 1
    /\ broadcastDumpSignal(r, g)
    /\ UNCHANGED <<storeUp, promise, monitor, dump, dead>>

\* A watchdog hangs, in a call of the driver.
WatchdogHangs(r, g) ==
    /\ r \in Alive /\ watchdog[r][g] = "run" /\ failures < MaxFailures /\ failures' = failures + 1
    /\ watchdog' = Set(watchdog, r, g, "stuck")
    /\ UNCHANGED <<store, shouldDump_, promise, monitor, dump, dead>>

\* The wait for the promise ends, or runs into its time limit.
DumpAwaited(r, g) ==
    /\ r \in Alive /\ watchdog[r][g] = "waiting" /\ promise[r][g]
    /\ watchdog' = Set(watchdog, r, g, "throw")
    /\ UNCHANGED <<store, shouldDump_, promise, monitor, dump, dead, failures>>

DumpWaitTimesOut(r, g) ==
    /\ r \in Alive /\ watchdog[r][g] = "waiting" /\ ~promise[r][g]
    /\ watchdog' = Set(watchdog, r, g, "late")
    /\ UNCHANGED <<store, shouldDump_, promise, monitor, dump, dead, failures>>

Throws(r, g) == watchdog[r][g] \in {"throw", "late", "unheard"}

\* handleException: the process goes down.
WatchdogThrows(r, g) ==
    /\ r \in Alive /\ Throws(r, g) /\ dead' = dead \union {r}
    /\ UNCHANGED <<store, shouldDump_, watchdog, promise, monitor, dump, failures>>

-----------------------------------------------------------------------------
\* heartbeatMonitor, group 0: the flag of this process
LocalSignal(r) ==
    /\ r \in Alive /\ monitor[r][0] = "poll" /\ shouldDump_[r]
    /\ monitor' = Set(monitor, r, 0, "dump")
    /\ UNCHANGED <<store, shouldDump_, watchdog, promise, dump, dead, failures>>

\* Group 0: the store, when no work came or went lately
PollStore(r) ==
    /\ r \in Alive /\ monitor[r][0] = "poll" /\ ~shouldDump_[r]
    /\ IF storeUp
       THEN /\ dumpKey /\ shouldDump_' = [shouldDump_ EXCEPT ![r] = TRUE]
            /\ monitor' = Set(monitor, r, 0, "dump")
       ELSE monitor' = Set(monitor, r, 0, "gone") /\ UNCHANGED shouldDump_
    /\ UNCHANGED <<store, watchdog, promise, dump, dead, failures>>

\* Any group: no heartbeat for a period
NoHeartbeat(r, g) ==
    /\ r \in Alive /\ monitor[r][g] = "poll" /\ watchdog[r][g] # "run"
    /\ shouldDump_' = [shouldDump_ EXCEPT ![r] = TRUE]
    /\ monitor' = Set(monitor, r, g, IF g = 0 THEN "dump" ELSE "sleep")
    /\ UNCHANGED <<store, watchdog, promise, dump, dead, failures>>

\* Up to two dumps are tried, the second without stack traces.
LaunchDump(r) ==
    /\ r \in Alive /\ monitor[r][0] = "dump" /\ attempt[r] < 2
    /\ attempt' = [attempt EXCEPT ![r] = @ + 1] /\ task' = [task EXCEPT ![r] = "running"]
    /\ monitor' = Set(monitor, r, 0, "await")
    /\ UNCHANGED <<store, shouldDump_, watchdog, promise, dumped, dead, failures>>

\* The task: dumpDebuggingInfo writes the dump.
dumpDebuggingInfo(r) ==
    /\ r \in Alive /\ task[r] = "running" /\ task' = [task EXCEPT ![r] = "ended"]
    /\ dumped' = [dumped EXCEPT ![r] = @ + 1]
    /\ UNCHANGED <<store, shouldDump_, watchdog, promise, monitor, attempt, dead, failures>>

DumpHangs(r) ==
    /\ DumpMayHang /\ r \in Alive /\ task[r] = "running" /\ task' = [task EXCEPT ![r] = "hung"]
    /\ UNCHANGED <<store, shouldDump_, watchdog, promise, monitor, attempt, dumped, dead, failures>>

\* waitForFutureOrTimeout returns; the future goes out of scope in "left" (done)
\* or "retry" (it timed out).
waitForFutureOrTimeout(r) ==
    /\ r \in Alive /\ monitor[r][0] = "await"
    /\ monitor' = Set(monitor, r, 0, IF task[r] = "ended" THEN "left" ELSE "retry")
    /\ UNCHANGED <<store, shouldDump_, watchdog, promise, dump, dead, failures>>

\* ~future waits for the task; after the loop the promise of group 0 is set.
DumpScopeLeft(r) ==
    /\ r \in Alive /\ monitor[r][0] \in {"left", "retry"} /\ task[r] = "ended"
    /\ LET again == monitor[r][0] = "retry" /\ attempt[r] < 2
       IN /\ monitor' = Set(monitor, r, 0, IF again THEN "dump" ELSE "sleep")
          /\ promise' = IF again THEN promise ELSE Set(promise, r, 0, TRUE)
    /\ UNCHANGED <<store, shouldDump_, watchdog, dump, dead, failures>>

terminateProcess(r) == dead' = dead \union {r}

\* After another period the process is ended.
MonitorKills(r, g) ==
    /\ r \in Alive /\ monitor[r][g] = "sleep" /\ monitor' = Set(monitor, r, g, "gone")
    /\ terminateProcess(r)
    /\ UNCHANGED <<store, shouldDump_, watchdog, promise, dump, failures>>

Watchdog(r, g) ==
    FailureDetected(r, g) \/ WatchdogHangs(r, g) \/ DumpAwaited(r, g)
    \/ DumpWaitTimesOut(r, g) \/ WatchdogThrows(r, g)

\* The heartbeat monitor thread of a group
Monitor(r, g) ==
    \/ /\ g = 0
       /\ \/ LocalSignal(r) \/ PollStore(r) \/ LaunchDump(r) \/ waitForFutureOrTimeout(r)
          \/ DumpScopeLeft(r)
    \/ NoHeartbeat(r, g)
    \/ MonitorKills(r, g)

Next ==
    \/ StoreFails
    \/ \E r \in Ranks : \/ dumpDebuggingInfo(r) \/ DumpHangs(r)
                        \/ \E g \in Groups : Monitor(r, g) \/ Watchdog(r, g)

\* Monitors run, and a dump that does not hang ends.
Fairness ==
    \A r \in Ranks :
       /\ WF_vars(dumpDebuggingInfo(r))
       /\ \A g \in Groups : WF_vars(Monitor(r, g)) /\ WF_vars(DumpAwaited(r, g))

Spec == Init /\ [][Next]_vars /\ Fairness

-----------------------------------------------------------------------------
\* Once a watchdog has signalled a failure every process dumps, whichever group
\* and rank saw it, unless it is taken down before (broadcastDumpSignal,
\* heartbeatMonitor).
FailureSignalled == \E r \in Ranks, g \in Groups : watchdog[r][g] = "waiting"
EveryoneDumped == \A r \in Ranks : dumped[r] > 0 \/ r \in dead

\* What holds of it: so does each whose dump does not hang, while there is a store.
Unable(r) == task[r] = "hung" \/ ~storeUp
EveryoneDumpedIfAble == \A r \in Ranks : dumped[r] > 0 \/ r \in dead \/ Unable(r)

\* A hung watchdog does not survive: its process is ended in the end, by the monitor of
\* the group, unless that is the one that dumps and it is Unable to.
Hangs(r, g) == watchdog[r][g] = "stuck"
Ended(r) == r \in dead
HangEndsProcess == \A r \in Ranks, g \in Groups : Hangs(r, g) ~> Ended(r)

\* "Give time for dumping before throwing exception": before a watchdog takes the
\* process down it was told that the dump is over, and one was written, or its
\* wait ran into the limit, or the store did not take the signal. The first is
\* so of group 0 only, whose monitor dumps.
DumpBeforeThrow ==
    \A r \in Ranks, g \in Groups : watchdog[r][g] = "throw" => g = 0 /\ dumped[r] > 0

\* "Indicate to watchdog thread that we have finished dumping": the watchdog
\* that waits for the dump of its process is told when it is over.
WatchdogToldOfDump ==
    \A r \in Ranks, g \in Groups :
       monitor[r][0] = "sleep" /\ watchdog[r][g] = "waiting" => promise[r][g]

\* "watchdog thread of any PG detects a collective timeout": a failure makes the
\* process dump.
LocalFailureDumps ==
    \A r \in Ranks, g \in Groups : Throws(r, g) => shouldDump_[r]

\* What holds of it: a failure does not make its process dump only when the
\* store did not take the signal.
FailureHeard ==
    \A r \in Ranks, g \in Groups :
       Throws(r, g) /\ ~shouldDump_[r] => watchdog[r][g] = "unheard" /\ ~storeUp

=============================================================================
