------------------------ MODULE ProcessGroupWatchdog ------------------------
(* The life of the works of one ProcessGroupBCCL on one rank, and its        *)
(* threads: user threads that issue collectives, the main thread that waits  *)
(* for them, shuts the group down or aborts it, the watchdog, the thread of  *)
(* the completion hook and the heartbeat monitor.                             *)
EXTENDS Integers, SequencesExt, TLAPS

CONSTANTS
    Users,          \* threads that issue collectives
    MaxWork,        \* bound: works issued
    MaxEphemeral,   \* bound: calls of addEphemeralTimeout
    Mode,           \* asyncErrorHandling_
    BlockingWait,   \* blockingWait_
    HookOn,         \* onCompletionHook_ is registered
    HookThrows,     \* whether the hook may throw
    MonitorOn,      \* monitorThreadEnabled_
    Failures,       \* whether works may time out and the communicator fail
    LateUsers       \* whether users may be issuing works during shutdown

WatchdogAssumption ==
    /\ MaxWork \in Nat /\ MaxEphemeral \in Nat
    /\ Mode \in {"NoHandling", "TearDown", "CleanUpOnly", "SkipCleanUp"}
    /\ {BlockingWait, HookOn, HookThrows, MonitorOn, Failures, LateUsers} \subseteq BOOLEAN
    /\ Users \intersect {"main", "watchdog", "hook", "monitor"} = {}

Works == 1 .. MaxWork
Free == "free"

VARIABLES
    issued,       \* works initWork made
    device,       \* external: works whose kernels have ended
    commError, commAborted,
    exception,    \* of the watchdog's copy of a work
    futureWorkResult_, owned,   \* of each work; owned is ownedEphermeralTimeout_
    enqueued,     \* works workEnqueue put in the list
    workMetaList_, completedWorkList_,
    workMetaListMutex_, completedWorkListMutex_,
    ephemeralTimeoutActive_, ephemeralTimeoutInflight_,
    terminateProcessGroup_, terminateHeartbeatMonitorThread_,
    heartbeat,    \* whether heartbeat_ rose since the monitor last read it
    hooked,       \* how often the hook returned for a work
    pc, holding,  \* of each thread, and the work in its hands
    iter, done,   \* of the scan of the watchdog, and of the two loops
    quiet,        \* waitForPendingWorks has returned
    killed        \* how the process died: "no", "watchdog" or "monitor"

timeouts == <<ephemeralTimeoutActive_, ephemeralTimeoutInflight_>>
works == <<issued, exception, futureWorkResult_, owned, enqueued>>
lists == <<workMetaList_, completedWorkList_, workMetaListMutex_, completedWorkListMutex_>>
comm == <<device, commError, commAborted>>
flags == <<terminateProcessGroup_, terminateHeartbeatMonitorThread_>>
scan == <<iter, done, holding>>
vars == <<works, comm, lists, timeouts, flags, heartbeat, hooked, pc, scan, quiet, killed>>

Threads == Users \union {"main", "watchdog", "hook", "monitor"}

Init ==
    /\ issued = 0 /\ device = {} /\ commError = FALSE /\ commAborted = FALSE
    /\ exception = {} /\ enqueued = {}
    /\ futureWorkResult_ = [w \in Works |-> "none"] /\ owned = [w \in Works |-> 0]
    /\ workMetaList_ = <<>> /\ completedWorkList_ = <<>>
    /\ workMetaListMutex_ = Free /\ completedWorkListMutex_ = Free
    /\ ephemeralTimeoutActive_ = 0 /\ ephemeralTimeoutInflight_ = 0
    /\ terminateProcessGroup_ = FALSE /\ terminateHeartbeatMonitorThread_ = FALSE
    /\ heartbeat = TRUE /\ hooked = [w \in Works |-> 0]
    /\ pc = [t \in Threads |-> IF \/ t \in {"watchdog", "monitor"} /\ BlockingWait
                                  \/ t = "hook" /\ ~HookOn
                               THEN "exited" ELSE "loop"]
    /\ iter = 1 /\ done = [t \in {"watchdog", "hook"} |-> FALSE]
    /\ holding = [t \in Users \union {"hook"} |-> 0]
    /\ quiet = FALSE /\ killed = "no"

At(t, l) == killed = "no" /\ pc[t] = l
Goto(t, l) == pc' = [pc EXCEPT ![t] = l]
UsersDone == LateUsers \/ \A u \in Users : pc[u] = "loop"
Hold(t, w) == holding' = [holding EXCEPT ![t] = w]

-----------------------------------------------------------------------------
\* external: the kernels of a work end, also because they were aborted
Finish(w) ==
    /\ w \in 1 .. issued /\ w \notin device /\ killed = "no"
    /\ device' = device \union {w}
    /\ UNCHANGED <<works, commError, commAborted, lists, timeouts, flags, heartbeat, hooked, pc, scan, quiet, killed>>

\* external: bcclCommGetAsyncError begins to report an error
CommFails ==
    /\ Failures /\ ~commError /\ killed = "no" /\ commError' = TRUE
    /\ UNCHANGED <<works, device, commAborted, lists, timeouts, flags, heartbeat, hooked, pc, scan, quiet, killed>>

addEphemeralTimeout(u) ==
    /\ At(u, "loop") /\ ephemeralTimeoutActive_ < MaxEphemeral
    /\ ephemeralTimeoutActive_' = ephemeralTimeoutActive_ + 1
    /\ UNCHANGED <<works, comm, lists, ephemeralTimeoutInflight_, flags, heartbeat, hooked, pc, scan, quiet, killed>>

\* assignTimeoutToWork: what no earlier work owns
Owns == ephemeralTimeoutActive_ - ephemeralTimeoutInflight_

\* A collective: initWork, assignTimeoutToWork and the test at the head of
\* workEnqueue, before its lock.
collective(u) ==
    /\ At(u, "loop") /\ issued < MaxWork /\ ~commAborted /\ ~quiet
    /\ LateUsers \/ pc["main"] = "loop"
    /\ issued' = issued + 1
    /\ owned' = [owned EXCEPT ![issued + 1] = Owns]
    /\ ephemeralTimeoutInflight_' = ephemeralTimeoutActive_
    /\ IF terminateProcessGroup_ \/ BlockingWait
       THEN UNCHANGED <<pc, holding>> ELSE Goto(u, "enqueue") /\ Hold(u, issued + 1)
    /\ UNCHANGED <<exception, futureWorkResult_, enqueued, comm, lists, ephemeralTimeoutActive_,
                   flags, heartbeat, hooked, iter, done, quiet, killed>>

workEnqueue(u) ==
    /\ At(u, "enqueue") /\ workMetaListMutex_ = Free
    /\ workMetaList_' = Append(workMetaList_, holding[u])
    /\ enqueued' = enqueued \union {holding[u]}
    /\ Goto(u, "loop")
    /\ UNCHANGED <<issued, exception, futureWorkResult_, owned, comm, completedWorkList_,
                   workMetaListMutex_, completedWorkListMutex_, timeouts, flags, heartbeat, hooked, scan, quiet, killed>>

-----------------------------------------------------------------------------
\* Mutant: a thread stays while its list is empty.
loopTest_WhileEmpty(t) ==
    /\ At(t, "loop")
    /\ Goto(t, IF ~done[t] /\ terminateProcessGroup_ THEN "exited" ELSE "wait")
    /\ UNCHANGED <<works, comm, lists, timeouts, flags, heartbeat, hooked, scan, quiet, killed>>

\* The condition of the loop of watchdogHandler or runHookLoop
loopTest(t) ==
    /\ At(t, "loop")
    /\ Goto(t, IF done[t] /\ terminateProcessGroup_ THEN "exited" ELSE "wait")
    /\ UNCHANGED <<works, comm, lists, timeouts, flags, heartbeat, hooked, scan, quiet, killed>>

\* watchdogHandler: the wait on the condition variable gives the lock away and
\* ends by itself after kWatchdogThreadSleepMillis.
watchdogWake ==
    /\ At("watchdog", "wait")
    /\ workMetaListMutex_ = Free /\ workMetaListMutex_' = "watchdog"
    /\ heartbeat' = TRUE /\ iter' = 1 /\ Goto("watchdog", "check")
    /\ UNCHANGED <<works, comm, workMetaList_, completedWorkList_, completedWorkListMutex_, timeouts,
                   flags, hooked, done, holding, quiet, killed>>

\* checkAndSetException or checkTimeout gave work w an exception; the result of
\* the future is set unless it was set before.
Raise(w, result) ==
    /\ exception' = exception \union {w}
    /\ futureWorkResult_' = IF futureWorkResult_[w] = "none"
                            THEN [futureWorkResult_ EXCEPT ![w] = result] ELSE futureWorkResult_

\* The error checkForBCCLErrorsInternal would find
checkForBCCLErrors(w) == w \notin exception /\ commError /\ ~commAborted
checkAndSetException(w) == Raise(w, "COMM_ERROR")
checkTimeout(w) == Failures /\ w \notin exception /\ Raise(w, "TIMEOUT")

\* A work in the list: errors of the communicator, then the timeout
watchdogCheck ==
    /\ At("watchdog", "check") /\ iter <= Len(workMetaList_)
    /\ LET w == workMetaList_[iter]
           error == checkForBCCLErrors(w) /\ ~terminateProcessGroup_
       IN \/ error /\ checkAndSetException(w) /\ Goto("watchdog", "failed")
          \/ ~error /\ checkTimeout(w) /\ Goto("watchdog", "failed")
          \/ ~error /\ Goto("watchdog", "status") /\ UNCHANGED <<exception, futureWorkResult_>>
    /\ UNCHANGED <<issued, owned, enqueued, comm, lists, timeouts, flags, heartbeat, hooked, scan, quiet, killed>>

CleansUp == Mode \in {"TearDown", "CleanUpOnly"}
TearsDown == Mode \in {"TearDown", "SkipCleanUp"}

\* handleException throws in a mode that tears down, and the exception of the
\* watchdog ends the process.
handleException == killed' = IF TearsDown THEN "watchdog" ELSE "no"

\* An exception: abort the communicators, then throw, as the mode says
watchdogFailed ==
    /\ At("watchdog", "failed") /\ Goto("watchdog", "status")
    /\ commAborted' = (commAborted \/ CleansUp) /\ handleException
    /\ UNCHANGED <<works, device, commError, lists, timeouts, flags, heartbeat, hooked, scan, quiet>>

isCompleted(w) == w \in device \/ w \in exception

\* The rest of the iteration: a completed work releases its extension of the
\* timeout and leaves the list, for the hook if there is one.
watchdogStatus ==
    /\ At("watchdog", "status")
    /\ LET w == workMetaList_[iter]
           fails == checkForBCCLErrors(w)    \* isCompleted looks again
       IN \/ /\ fails /\ checkAndSetException(w)
             /\ UNCHANGED <<owned, lists, timeouts, iter, pc>>
          \/ /\ ~fails /\ ~isCompleted(w) /\ iter' = iter + 1 /\ Goto("watchdog", "check")
             /\ UNCHANGED <<owned, lists, timeouts, exception, futureWorkResult_>>
          \/ /\ ~fails /\ isCompleted(w) /\ (HookOn => completedWorkListMutex_ = Free)
             /\ futureWorkResult_' = IF w \in device /\ futureWorkResult_[w] = "none"
                                     THEN [futureWorkResult_ EXCEPT ![w] = "SUCCESS"] ELSE futureWorkResult_
             /\ ephemeralTimeoutActive_' = ephemeralTimeoutActive_ - owned[w]
             /\ ephemeralTimeoutInflight_' = ephemeralTimeoutInflight_ - owned[w]
             /\ owned' = [owned EXCEPT ![w] = 0]
             /\ workMetaList_' = RemoveAt(workMetaList_, iter)
             /\ completedWorkList_' = IF HookOn THEN Append(completedWorkList_, w) ELSE completedWorkList_
             /\ Goto("watchdog", "check")
             /\ UNCHANGED <<workMetaListMutex_, completedWorkListMutex_, iter, exception>>
    /\ heartbeat' = TRUE
    /\ UNCHANGED <<issued, enqueued, comm, flags, hooked, done, holding, quiet, killed>>

watchdogSleep ==
    /\ At("watchdog", "check") /\ iter > Len(workMetaList_)
    /\ done' = [done EXCEPT !["watchdog"] = workMetaList_ = <<>>]
    /\ workMetaListMutex_' = Free /\ Goto("watchdog", "loop")
    /\ UNCHANGED <<works, comm, workMetaList_, completedWorkList_, completedWorkListMutex_, timeouts, flags, heartbeat, hooked, iter, holding, quiet, killed>>

-----------------------------------------------------------------------------
\* runHookLoop
hookWake ==
    /\ At("hook", "wait")
    /\ completedWorkListMutex_ = Free /\ completedWorkListMutex_' = "hook"
    /\ Goto("hook", "iterate")
    /\ UNCHANGED <<works, comm, workMetaList_, completedWorkList_, workMetaListMutex_, timeouts, flags,
                   heartbeat, hooked, scan, quiet, killed>>

\* Mutant: the work is erased before its hook runs.
hookCall_EraseFirst ==
    /\ At("hook", "iterate") /\ completedWorkList_ # <<>>
    /\ completedWorkListMutex_' = Free /\ Goto("hook", "hook")
    /\ completedWorkList_' = Tail(completedWorkList_) /\ Hold("hook", Head(completedWorkList_))
    /\ UNCHANGED <<works, comm, workMetaList_, workMetaListMutex_, timeouts, flags, heartbeat, hooked, iter, done, quiet, killed>>

\* "Hook might grab GIL, unlock first to prevent deadlock"
hookCall ==
    /\ At("hook", "iterate") /\ completedWorkList_ # <<>>
    /\ completedWorkListMutex_' = Free /\ Goto("hook", "hook")
    /\ Hold("hook", Head(completedWorkList_))
    /\ UNCHANGED <<works, comm, workMetaList_, completedWorkList_, workMetaListMutex_, timeouts, flags, heartbeat, hooked, iter, done, quiet, killed>>

hookReturn ==
    /\ At("hook", "hook") /\ Goto("hook", "erase")
    /\ hooked' = [hooked EXCEPT ![holding["hook"]] = @ + 1]
    /\ UNCHANGED <<works, comm, lists, timeouts, flags, heartbeat, scan, quiet, killed>>

hookErase ==
    /\ At("hook", "erase") /\ completedWorkListMutex_ = Free
    /\ completedWorkListMutex_' = "hook" /\ completedWorkList_' = Tail(completedWorkList_)
    /\ Goto("hook", "iterate")
    /\ UNCHANGED <<works, comm, workMetaList_, workMetaListMutex_, timeouts, flags, heartbeat, hooked, scan, quiet, killed>>

\* The hook throws: the work stays in the list and the lock is not held.
hookThrows ==
    /\ HookThrows /\ At("hook", "hook") /\ Goto("hook", "done") /\ commAborted' = TRUE
    /\ UNCHANGED <<works, device, commError, lists, timeouts, flags, heartbeat, hooked, scan, quiet, killed>>

hookEnd ==
    /\ At("hook", "iterate") /\ completedWorkList_ = <<>> /\ Goto("hook", "done")
    /\ UNCHANGED <<works, comm, lists, timeouts, flags, heartbeat, hooked, scan, quiet, killed>>

\* done is computed; the lock goes when it is held.
hookDone ==
    /\ At("hook", "done") /\ Goto("hook", "loop")
    /\ done' = [done EXCEPT !["hook"] = completedWorkList_ = <<>>]
    /\ completedWorkListMutex_' = IF completedWorkListMutex_ = "hook" THEN Free ELSE completedWorkListMutex_
    /\ UNCHANGED <<works, comm, workMetaList_, completedWorkList_, workMetaListMutex_, timeouts, flags, heartbeat, hooked, iter, holding, quiet, killed>>

-----------------------------------------------------------------------------
\* heartbeatMonitor: a period passes
monitorCheck ==
    /\ At("monitor", "loop") /\ ~terminateHeartbeatMonitorThread_
    /\ IF heartbeat THEN heartbeat' = FALSE /\ UNCHANGED pc
                    ELSE Goto("monitor", "sleep") /\ UNCHANGED heartbeat
    /\ UNCHANGED <<works, comm, lists, timeouts, flags, hooked, scan, quiet, killed>>

\* It dumps, leaves the group more time, and ends the process.
monitorKill ==
    /\ At("monitor", "sleep") /\ ~terminateHeartbeatMonitorThread_
    /\ Goto("monitor", "exited") /\ killed' = IF MonitorOn THEN "monitor" ELSE "no"
    /\ UNCHANGED <<works, comm, lists, timeouts, flags, heartbeat, hooked, scan, quiet>>

monitorExit ==
    /\ pc["monitor"] \in {"loop", "sleep"} /\ killed = "no" /\ terminateHeartbeatMonitorThread_
    /\ Goto("monitor", "exited")
    /\ UNCHANGED <<works, comm, lists, timeouts, flags, heartbeat, hooked, scan, quiet, killed>>

-----------------------------------------------------------------------------
\* waitForPendingWorks takes both locks; the users have issued all they will.
waitForPendingWorks ==
    /\ At("main", "loop") /\ \A u \in Users : pc[u] = "loop"
    /\ workMetaListMutex_ = Free /\ completedWorkListMutex_ = Free
    /\ workMetaList_ = <<>> /\ completedWorkList_ = <<>>
    /\ quiet' = TRUE
    /\ UNCHANGED <<works, comm, lists, timeouts, flags, heartbeat, hooked, pc, scan, killed>>

\* shutdown: finalize and waitReady flush what is on the device, then the
\* threads are told and joined.
shutdown ==
    /\ At("main", "loop") /\ UsersDone /\ \A w \in 1 .. issued : w \in device
    /\ terminateProcessGroup_' = TRUE /\ Goto("main", "join")
    /\ UNCHANGED <<works, comm, lists, timeouts, terminateHeartbeatMonitorThread_, heartbeat, hooked, scan, quiet, killed>>

shutdownJoined ==
    /\ At("main", "join") /\ pc["watchdog"] = "exited" /\ pc["hook"] = "exited"
    /\ terminateHeartbeatMonitorThread_' = TRUE /\ Goto("main", "down")
    /\ UNCHANGED <<works, comm, lists, timeouts, terminateProcessGroup_, heartbeat, hooked, scan, quiet, killed>>

\* abort: the communicators are aborted by a task that is waited for.
abort ==
    /\ At("main", "loop") /\ UsersDone /\ terminateProcessGroup_' = TRUE /\ Goto("main", "abort")
    /\ UNCHANGED <<works, comm, lists, timeouts, terminateHeartbeatMonitorThread_, heartbeat, hooked, scan, quiet, killed>>

abortComms ==
    /\ At("main", "abort") /\ commAborted' = TRUE
    /\ terminateHeartbeatMonitorThread_' = TRUE /\ Goto("main", "destroy")
    /\ UNCHANGED <<works, device, commError, lists, timeouts, terminateProcessGroup_, heartbeat, hooked, scan, quiet, killed>>

\* ~ProcessGroupBCCL joins every thread.
destroy ==
    /\ At("main", "destroy") /\ \A t \in {"watchdog", "hook", "monitor"} : pc[t] = "exited"
    /\ Goto("main", "down")
    /\ UNCHANGED <<works, comm, lists, timeouts, flags, heartbeat, hooked, scan, quiet, killed>>

Watchdog ==
    \/ loopTest("watchdog") \/ watchdogWake \/ watchdogCheck \/ watchdogFailed
    \/ watchdogStatus \/ watchdogSleep

Hook ==
    \/ loopTest("hook") \/ hookWake \/ hookCall \/ hookReturn \/ hookThrows \/ hookErase
    \/ hookEnd \/ hookDone

Main ==
    \/ waitForPendingWorks \/ shutdown \/ shutdownJoined \/ abort \/ abortComms \/ destroy

Monitor == monitorCheck \/ monitorKill \/ monitorExit

Next ==
    \/ \E w \in Works : Finish(w)
    \/ CommFails
    \/ \E u \in Users : addEphemeralTimeout(u) \/ collective(u) \/ workEnqueue(u)
    \/ Watchdog \/ Hook \/ Main \/ Monitor

\* Every thread is scheduled; nothing makes a user issue works, a kernel end, or
\* the main thread shut the group down, but aborted kernels end. A hook that throws over and over
\* is called over and over, for its work stays in the list, and the thread that calls it is never
\* joined (ProcessGroupBCCL.cpp:2303, 2326): a hook is taken to return in the end.
Aborted(w) == commAborted /\ Finish(w)
Fairness ==
    /\ WF_vars(Watchdog) /\ WF_vars(Hook) /\ WF_vars(monitorExit)
    /\ SF_vars(hookErase) /\ SF_vars(hookReturn) /\ SF_vars(hookWake)
    /\ SF_vars(watchdogWake) /\ SF_vars(watchdogStatus)
    /\ \A u \in Users : SF_vars(workEnqueue(u))
    /\ WF_vars(shutdownJoined \/ abortComms \/ destroy)
    /\ \A w \in Works : WF_vars(Aborted(w))

Spec == Init /\ [][Next]_vars /\ Fairness

Listed == Range(workMetaList_)

\* When waitForPendingWorks has returned, the hook has returned exactly once for
\* every work there is: a work is always in one of the two lists until then.
PendingHooksRun == quiet /\ HookOn => \A w \in enqueued : hooked[w] = 1

\* A work leaves the watchdog's list only with its result settled, and is never
\* reported as a success before its kernels have ended.
ResultSettled ==
    \A w \in enqueued :
       /\ w \notin Listed => futureWorkResult_[w] # "none"
       /\ futureWorkResult_[w] = "SUCCESS" => w \in device

\* "Ephemeral timeouts are owned by exactly one work": what is applied is what
\* the works that have not completed own together.
EphemeralOwned ==
    /\ ephemeralTimeoutInflight_ = MapThenSumSet(LAMBDA w : owned[w], Works)
    /\ ephemeralTimeoutInflight_ <= ephemeralTimeoutActive_

\* Shutdown and abort end, unless the process is taken down: the watchdog and
\* the hook thread always come to be joined.
ShuttingDown == pc["main"] \in {"join", "abort", "destroy"}
Down == pc["main"] = "down" \/ killed # "no"

\* A work that was enqueued and has ended leaves the list: "watchdog needs to
\* finish the check for the works that have already been enqueued".
EnqueuedWorkChecked ==
    \A w \in Works : w \in enqueued \intersect device ~> w \notin Listed \/ killed # "no"

\* An extension of the timeout is "reset after that work completes", as long as
\* the group is in use.
Extends(w) == w \in device /\ owned[w] > 0
ExtensionOver(w) == owned[w] = 0 \/ killed # "no" \/ terminateProcessGroup_
ExtensionReset == \A w \in Works : Extends(w) ~> ExtensionOver(w)

\* "Lock is still acquired at this point", where runHookLoop looks at its list.
HookHoldsLock == pc["hook"] = "done" => completedWorkListMutex_ = "hook"

\* The monitor does not end the process because the watchdog has left on
\* shutdown's order ("retire heartbeat monitoring thread now to avoid false
\* alarm").
NoFalseAlarm ==
    killed = "monitor" => ~(pc["main"] = "join" /\ pc["watchdog"] = "exited")

\* "we are taking the entire process down": in a mode that tears down, a work
\* does not leave the list with an error while the process lives on.
FailedWorkTornDown ==
    killed = "no" => \A w \in enqueued \ Listed : w \notin exception

\* What holds of it: the error was one of the communicator, which began after
\* the first look and which isCompleted found; a timeout tears down always.
TornDownUnlessLate ==
    TearsDown /\ killed = "no" =>
        \A w \in enqueued \ Listed :
           w \in exception => commError /\ futureWorkResult_[w] = "COMM_ERROR"

-----------------------------------------------------------------------------
(* Where a work is between workEnqueue and the end of its hook, for every    *)
(* number of users and works and for every setting.                          *)

NoRepeats(q) == \A i, j \in DOMAIN q : q[i] = q[j] => i = j

Results == {"none", "COMM_ERROR", "TIMEOUT", "SUCCESS"}
Labels == {"loop", "enqueue", "wait", "check", "failed", "status", "iterate", "hook", "erase",
           "done", "sleep", "join", "abort", "destroy", "down", "exited"}
WatchdogTypes ==
    /\ issued \in 0 .. MaxWork /\ enqueued \in SUBSET (1 .. issued)
    /\ futureWorkResult_ \in [Works -> Results] /\ hooked \in [Works -> Nat]
    /\ workMetaList_ \in Seq(Works) /\ completedWorkList_ \in Seq(Works)
    /\ pc \in [Threads -> Labels] /\ iter \in Nat \ {0}
    /\ holding \in [Users \union {"hook"} -> 0 .. MaxWork]

\* A work that a user is about to enqueue is in no other hands and in no list.
InHands ==
    /\ \A u \in Users : pc[u] = "enqueue" => holding[u] \in (1 .. issued) \ enqueued
    /\ \A u, v \in Users : pc[u] = "enqueue" /\ pc[v] = "enqueue" /\ holding[u] = holding[v] => u = v

\* An enqueued work is in one list at most, and there once.
OneList ==
    /\ NoRepeats(workMetaList_) /\ NoRepeats(completedWorkList_)
    /\ Listed \subseteq enqueued /\ Range(completedWorkList_) \subseteq enqueued
    /\ Listed \intersect Range(completedWorkList_) = {}

\* The work under the iterator of the watchdog stays there, and the work whose hook runs
\* stays the first of its list although the lock is not held.
Scanned == pc["watchdog"] \in {"failed", "status"} => iter \in 1 .. Len(workMetaList_)
HookTurn ==
    pc["hook"] \in {"hook", "erase"} =>
        completedWorkList_ # <<>> /\ holding["hook"] = Head(completedWorkList_)

\* The hook has returned once for the works that have left both lists and for the one that
\* is about to, and for no other.
HookOver(w) ==
    /\ w \in enqueued \ Listed
    /\ w \in Range(completedWorkList_) => pc["hook"] = "erase" /\ w = holding["hook"]
HooksCounted == HookOn => \A w \in Works : hooked[w] = IF HookOver(w) THEN 1 ELSE 0

\* Once waitForPendingWorks has returned, nothing is or comes into the lists.
StaysQuiet ==
    quiet => /\ workMetaList_ = <<>> /\ completedWorkList_ = <<>>
             /\ \A u \in Users : pc[u] # "enqueue"

\* A work with an exception has a result, and one that was not enqueued has none.
Settled ==
    /\ \A w \in exception \intersect Works : futureWorkResult_[w] # "none"
    /\ \A w \in Works \ enqueued : futureWorkResult_[w] = "none"
    /\ ResultSettled

WatchdogInv ==
    WatchdogTypes /\ InHands /\ OneList /\ Scanned /\ HookTurn /\ HooksCounted /\ StaysQuiet /\ Settled

\* A work is appended to a list.
LEMMA AppendRange ==
    ASSUME NEW S, NEW q \in Seq(S), NEW e \in S
    PROVE  /\ Append(q, e) \in Seq(S) /\ Range(Append(q, e)) = Range(q) \union {e}
           /\ NoRepeats(q) /\ e \notin Range(q) => NoRepeats(Append(q, e))
           /\ Append(q, e) # <<>> /\ (q # <<>> => Head(Append(q, e)) = Head(q))
           /\ Len(Append(q, e)) = Len(q) + 1 /\ Len(q) \in Nat
<1> DEFINE n == Len(q)
           a == Append(q, e)
<1>1. /\ n \in Nat /\ DOMAIN q = 1 .. n /\ a \in Seq(S) /\ DOMAIN a = 1 .. (n + 1)
      /\ a[n + 1] = e /\ (\A i \in 1 .. n : a[i] = q[i]) /\ Len(a) = n + 1
    OBVIOUS
<1>2. (q # <<>> => Head(a) = Head(q)) /\ a # <<>>
  <2>1. Len(a) # 0
    BY <1>1
  <2>2. ASSUME q # <<>> PROVE Head(a) = Head(q)
    <3>1. Len(q) \in Nat \ {0} /\ Head(q) = q[1]
        BY <2>2
    <3>2. Head(a) = a[1]
        BY <1>1, <2>1
    <3>3. 1 \in 1 .. n
        BY <3>1
    <3> QED BY <1>1, <3>1, <3>2, <3>3
  <2> QED BY <1>1, <2>1, <2>2
<1> HIDE DEF n, a
<1>3. \A i \in 1 .. (n + 1) : i \in 1 .. n \/ i = n + 1
    BY <1>1
<1>4. /\ \A i \in 1 .. n : i \in 1 .. (n + 1) /\ i # n + 1
      /\ n + 1 \in 1 .. (n + 1)
    BY <1>1
<1>5. Range(a) = Range(q) \union {e}
  <2>1. ASSUME NEW x \in Range(a) PROVE x \in Range(q) \union {e}
    BY <1>1, <1>3 DEF Range
  <2>2. ASSUME NEW x \in Range(q) \union {e} PROVE x \in Range(a)
    BY <1>1, <1>4 DEF Range
  <2> QED BY <2>1, <2>2
<1>6. NoRepeats(q) /\ e \notin Range(q) => NoRepeats(a)
    BY <1>1, <1>3 DEF NoRepeats, Range
<1> QED BY <1>1, <1>2, <1>5, <1>6 DEF a, n

\* The work at position i leaves a list (RemoveAt; Tail is the case i = 1).
Removed(q, r, i) ==
    /\ DOMAIN r = 1 .. (Len(q) - 1)
    /\ \A j \in 1 .. (Len(q) - 1) : r[j] = q[IF j < i THEN j ELSE j + 1]
LEMMA RemoveRange ==
    ASSUME NEW S, NEW q \in Seq(S), NEW r \in Seq(S), NEW i \in 1 .. Len(q), Removed(q, r, i),
           NoRepeats(q)
    PROVE  NoRepeats(r) /\ Range(r) = Range(q) \ {q[i]} /\ q[i] \in Range(q) /\ q[i] \in S
<1> DEFINE n == Len(q)
<1>1. n \in Nat /\ DOMAIN q = 1 .. n /\ i \in Nat /\ i \in 1 .. n /\ i \in DOMAIN q
    OBVIOUS
<1> HIDE DEF n
<1>2. DOMAIN r = 1 .. (n - 1) /\ \A j \in 1 .. (n - 1) : r[j] = q[IF j < i THEN j ELSE j + 1]
    BY DEF Removed, n
<1>3. \A j \in 1 .. (n - 1) : (IF j < i THEN j ELSE j + 1) \in 1 .. n \ {i}
    BY <1>1
<1>4. \A k \in 1 .. n \ {i} : \E j \in 1 .. (n - 1) : k = IF j < i THEN j ELSE j + 1
  <2> TAKE k \in 1 .. n \ {i}
  <2>1. CASE k < i
    BY <1>1, <2>1
  <2>2. CASE k > i
    <3>1. k - 1 \in 1 .. (n - 1) /\ ~(k - 1 < i) /\ k = (k - 1) + 1
        BY <1>1, <2>2
    <3> QED BY <3>1
  <2> QED BY <1>1, <2>1, <2>2
<1>5. \A j, k \in 1 .. (n - 1) :
         (IF j < i THEN j ELSE j + 1) = (IF k < i THEN k ELSE k + 1) => j = k
    BY <1>1
<1>6. NoRepeats(r)
    BY <1>1, <1>2, <1>3, <1>5 DEF NoRepeats
<1>7. ASSUME NEW x \in Range(r) PROVE x \in Range(q) \ {q[i]}
  <2>1. PICK j \in 1 .. (n - 1) : x = r[j]
    BY <1>2 DEF Range
  <2> DEFINE k == IF j < i THEN j ELSE j + 1
  <2>2. x = q[k] /\ k \in 1 .. n \ {i}
    BY <1>2, <1>3, <2>1
  <2> QED BY <1>1, <2>2 DEF NoRepeats, Range
<1>8. ASSUME NEW x \in Range(q) \ {q[i]} PROVE x \in Range(r)
  <2>1. PICK k \in 1 .. n \ {i} : x = q[k]
    BY <1>1, <1>8 DEF Range
  <2>2. PICK j \in 1 .. (n - 1) : k = IF j < i THEN j ELSE j + 1
    BY <1>4
  <2> QED BY <1>2, <2>1, <2>2 DEF Range
<1>9. q[i] \in S /\ q[i] \in Range(q)
    BY <1>1 DEF Range
<1> QED BY <1>6, <1>7, <1>8, <1>9

\* RemoveAt removes one position.
LEMMA RemoveAtRemoves ==
    ASSUME NEW S, NEW q \in Seq(S), NEW i \in 1 .. Len(q)
    PROVE  RemoveAt(q, i) \in Seq(S) /\ Removed(q, RemoveAt(q, i), i)
<1> DEFINE n == Len(q)
           a == SubSeq(q, 1, i - 1)
           b == SubSeq(q, i + 1, n)
<1>1. n \in Nat /\ i \in Nat \ {0} /\ i <= n
    OBVIOUS
<1>2. a \in Seq(S) /\ Len(a) = i - 1 /\ \A j \in 1 .. (i - 1) : a[j] = q[j]
    BY <1>1
<1>3. b \in Seq(S) /\ Len(b) = n - i /\ \A j \in 1 .. (n - i) : b[j] = q[i + j]
    BY <1>1
<1>4. RemoveAt(q, i) = a \o b
    BY DEF RemoveAt
<1> HIDE DEF n, a, b
<1>5. a \o b \in Seq(S) /\ Len(a \o b) = n - 1
  <2>1. a \in Seq(S) /\ b \in Seq(S) /\ Len(a) = i - 1 /\ Len(b) = n - i
    BY <1>2, <1>3
  <2>2. a \o b \in Seq(S) /\ Len(a \o b) = Len(a) + Len(b)
    BY <2>1
  <2> QED BY <1>1, <2>1, <2>2
<1>6. ASSUME NEW j \in 1 .. (n - 1) PROVE (a \o b)[j] = q[IF j < i THEN j ELSE j + 1]
  <2>1. CASE j < i
    BY <1>1, <1>2, <1>3, <2>1
  <2>2. CASE ~(j < i)
    <3>1. j - (i - 1) \in 1 .. (n - i) /\ i + (j - (i - 1)) = j + 1 /\ j > Len(a)
        BY <1>1, <1>2, <2>2
    <3>2. (a \o b)[j] = b[j - Len(a)]
        BY <1>1, <1>2, <1>3, <3>1
    <3> QED BY <1>2, <1>3, <2>2, <3>1, <3>2
  <2> QED BY <2>1, <2>2
<1> QED BY <1>4, <1>5, <1>6 DEF Removed, n

\* Tail removes the first position.
LEMMA TailRemoves ==
    ASSUME NEW S, NEW q \in Seq(S), q # <<>>
    PROVE  /\ 1 \in 1 .. Len(q) /\ q[1] = Head(q) /\ Head(q) \in Range(q)
           /\ Tail(q) \in Seq(S) /\ Removed(q, Tail(q), 1)
<1>1. Len(q) \in Nat \ {0} /\ Tail(q) \in Seq(S) /\ Len(Tail(q)) = Len(q) - 1 /\ q[1] = Head(q)
    OBVIOUS
<1>2. \A j \in 1 .. (Len(q) - 1) : Tail(q)[j] = q[j + 1]
    OBVIOUS
<1>3. Head(q) \in Range(q)
  <2>1. 1 \in DOMAIN q
    BY <1>1
  <2> QED BY <1>1, <2>1 DEF Range
<1> QED BY <1>1, <1>2, <1>3 DEF Removed

\* A step that touches neither the works nor the lists.
LEMMA Aside ==
    ASSUME WatchdogInv,
           UNCHANGED <<issued, exception, futureWorkResult_, enqueued, workMetaList_,
                       completedWorkList_, hooked, quiet>>,
           device \subseteq device',
           pc' \in [Threads -> Labels], iter' \in Nat \ {0},
           holding' \in [Users \union {"hook"} -> 0 .. MaxWork],
           \A u \in Users : pc'[u] = pc[u] /\ holding'[u] = holding[u],
           Scanned', HookTurn',
           (pc'["hook"] = "erase") <=> (pc["hook"] = "erase"),
           pc["hook"] = "erase" => holding'["hook"] = holding["hook"]
    PROVE  WatchdogInv'
<1>1. WatchdogTypes'
    BY DEF WatchdogInv, WatchdogTypes
<1>2. InHands' /\ StaysQuiet'
    BY DEF WatchdogInv, InHands, StaysQuiet
<1>3. OneList'
    BY DEF WatchdogInv, OneList, Listed
<1>4. HooksCounted'
  <2>1. \A w : HookOver(w)' <=> HookOver(w)
    BY DEF HookOver, Listed
  <2> QED BY <2>1 DEF WatchdogInv, HooksCounted
<1>5. Settled'
    BY DEF WatchdogInv, Settled, ResultSettled, Listed
<1> QED BY <1>1, <1>2, <1>3, <1>4, <1>5 DEF WatchdogInv

\* The usual one: a thread that is no user, or an external event, moves on.
LEMMA MovesOn ==
    ASSUME WatchdogAssumption, WatchdogInv,
           UNCHANGED <<issued, exception, futureWorkResult_, enqueued, workMetaList_,
                       completedWorkList_, hooked, holding, quiet>>,
           device \subseteq device', iter' \in {1, iter},
           NEW t \in {"main", "watchdog", "hook", "monitor"},
           NEW l \in Labels \ {"failed", "hook", "erase"},
           Goto(t, l), t = "hook" => pc["hook"] # "erase",
           l = "status" => pc["watchdog"] = "failed" /\ iter' = iter,
           t # "watchdog" => iter' = iter
    PROVE  WatchdogInv'
<1>1. pc \in [Threads -> Labels] /\ iter \in Nat \ {0} /\ holding \in [Users \union {"hook"} -> 0 .. MaxWork]
    BY DEF WatchdogInv, WatchdogTypes
<1>2. pc' = [pc EXCEPT ![t] = l]
    BY DEF Goto
<1>3. t \in Threads /\ t \notin Users /\ {"hook", "watchdog"} \subseteq Threads
    BY DEF Threads, WatchdogAssumption
<1>4. pc' \in [Threads -> Labels] /\ \A u \in Users : pc'[u] = pc[u]
    BY <1>1, <1>2, <1>3 DEF Threads
<1>5. pc'["hook"] = IF t = "hook" THEN l ELSE pc["hook"]
    BY <1>1, <1>2, <1>3
<1>6. pc'["watchdog"] = IF t = "watchdog" THEN l ELSE pc["watchdog"]
    BY <1>1, <1>2, <1>3
<1>7. Scanned'
    BY <1>6 DEF WatchdogInv, Scanned
<1>8. HookTurn'
    BY <1>5 DEF WatchdogInv, HookTurn
<1> QED BY <1>1, <1>4, <1>5, <1>7, <1>8, Aside

\* The threads stay where they are.
LEMMA StandsStill ==
    ASSUME WatchdogInv,
           UNCHANGED <<issued, exception, futureWorkResult_, enqueued, workMetaList_,
                       completedWorkList_, hooked, quiet, pc, holding, iter>>,
           device \subseteq device'
    PROVE  WatchdogInv'
<1>1. pc' \in [Threads -> Labels] /\ iter' \in Nat \ {0} /\ holding' \in [Users \union {"hook"} -> 0 .. MaxWork]
    BY DEF WatchdogInv, WatchdogTypes
<1>2. Scanned' /\ HookTurn'
    BY DEF WatchdogInv, Scanned, HookTurn
<1> QED BY <1>1, <1>2, Aside

\* The invariant holds when the process group is created.
LEMMA WatchdogInvInit == WatchdogAssumption /\ Init => WatchdogInv
<1> SUFFICES ASSUME WatchdogAssumption, Init PROVE WatchdogInv
    OBVIOUS
<1>1. Range(<<>>) = {} /\ NoRepeats(<<>>) /\ <<>> \in Seq(Works)
    BY DEF Range, NoRepeats
<1>2. \A t \in Threads : pc[t] \in {"loop", "exited"}
    BY DEF Init
<1>3. {"hook", "watchdog"} \subseteq Threads /\ Users \subseteq Threads
    BY DEF Threads
<1>4. pc \in [Threads -> Labels]
    BY DEF Init, Labels
<1>5. WatchdogTypes
    BY <1>1, <1>4 DEF Init, WatchdogTypes, WatchdogAssumption, Results
<1>6. InHands /\ StaysQuiet /\ Scanned /\ HookTurn
    BY <1>2, <1>3 DEF Init, InHands, StaysQuiet, Scanned, HookTurn
<1>7. OneList
    BY <1>1 DEF Init, OneList, Listed
<1>8. HooksCounted
    BY DEF Init, HooksCounted, HookOver
<1>9. Settled
    BY DEF Init, Settled, ResultSettled
<1> QED BY <1>5, <1>6, <1>7, <1>8, <1>9 DEF WatchdogInv

\* A user issues a work, and may be about to enqueue it.
LEMMA CollectiveKeeps ==
    ASSUME WatchdogAssumption, WatchdogInv, NEW u \in Users, collective(u)
    PROVE  WatchdogInv'
<1>1. /\ issued' = issued + 1 /\ issued < MaxWork /\ ~quiet /\ issued \in Nat /\ MaxWork \in Nat
      /\ UNCHANGED <<exception, futureWorkResult_, enqueued, device, workMetaList_,
                     completedWorkList_, hooked, quiet, iter>>
    BY DEF collective, comm, lists, WatchdogInv, WatchdogTypes, WatchdogAssumption
<1>2. /\ pc \in [Threads -> Labels] /\ holding \in [Users \union {"hook"} -> 0 .. MaxWork]
      /\ {"hook", "watchdog"} \subseteq Threads \ Users /\ Users \subseteq Threads
      /\ enqueued \subseteq 1 .. issued
    BY DEF WatchdogInv, WatchdogTypes, Threads, WatchdogAssumption
<1>3. \/ UNCHANGED <<pc, holding>>
      \/ pc' = [pc EXCEPT ![u] = "enqueue"] /\ holding' = [holding EXCEPT ![u] = issued + 1]
    BY DEF collective, Goto, Hold
<1>4. /\ pc' \in [Threads -> Labels] /\ holding' \in [Users \union {"hook"} -> 0 .. MaxWork]
      /\ pc'["hook"] = pc["hook"] /\ pc'["watchdog"] = pc["watchdog"]
      /\ holding'["hook"] = holding["hook"]
      /\ \A v \in Users : \/ pc'[v] = pc[v] /\ holding'[v] = holding[v]
                          \/ v = u /\ pc'[v] = "enqueue" /\ holding'[v] = issued + 1
    BY <1>1, <1>2, <1>3 DEF Labels
<1>5. \A w \in 1 .. issued : w \in 1 .. issued' /\ w # issued + 1
    BY <1>1
<1>6. issued + 1 \in 1 .. issued' /\ issued + 1 \notin enqueued
    BY <1>1, <1>2
<1>7. WatchdogTypes'
    BY <1>1, <1>2, <1>4, <1>5 DEF WatchdogInv, WatchdogTypes
<1>8. InHands'
    BY <1>1, <1>4, <1>5, <1>6 DEF WatchdogInv, InHands
<1>9. OneList' /\ Scanned' /\ HookTurn' /\ StaysQuiet'
    BY <1>1, <1>4 DEF WatchdogInv, OneList, Listed, Scanned, HookTurn, StaysQuiet
<1>10. HooksCounted'
  <2>1. \A w : HookOver(w)' <=> HookOver(w)
    BY <1>1, <1>4 DEF HookOver, Listed
  <2> QED BY <1>1, <2>1 DEF WatchdogInv, HooksCounted
<1>11. Settled'
    BY <1>1 DEF WatchdogInv, Settled, ResultSettled, Listed
<1> QED BY <1>7, <1>8, <1>9, <1>10, <1>11 DEF WatchdogInv

\* It is enqueued once.
LEMMA EnqueueKeeps ==
    ASSUME WatchdogAssumption, WatchdogInv, NEW u \in Users, workEnqueue(u)
    PROVE  WatchdogInv'
<1> DEFINE x == holding[u]
<1>1. /\ workMetaList_' = Append(workMetaList_, x) /\ enqueued' = enqueued \union {x}
      /\ pc[u] = "enqueue" /\ pc' = [pc EXCEPT ![u] = "loop"]
      /\ UNCHANGED <<issued, exception, futureWorkResult_, device, completedWorkList_, hooked,
                     holding, iter, quiet>>
    BY DEF workEnqueue, comm, scan, Goto, At
<1>2. /\ pc \in [Threads -> Labels] /\ holding \in [Users \union {"hook"} -> 0 .. MaxWork]
      /\ {"hook", "watchdog"} \subseteq Threads \ Users /\ Users \subseteq Threads
      /\ enqueued \subseteq 1 .. issued /\ 1 .. issued \subseteq Works
    BY DEF WatchdogInv, WatchdogTypes, Threads, Works, WatchdogAssumption
<1>3. x \in 1 .. issued /\ x \notin enqueued /\ x \in Works
    BY <1>1, <1>2 DEF WatchdogInv, InHands
<1>4. ~quiet
    BY <1>1 DEF WatchdogInv, StaysQuiet
<1>5. /\ pc' \in [Threads -> Labels]
      /\ pc'["hook"] = pc["hook"] /\ pc'["watchdog"] = pc["watchdog"]
      /\ \A v \in Users : pc'[v] = IF v = u THEN "loop" ELSE pc[v]
    BY <1>1, <1>2 DEF Labels
<1>6. /\ workMetaList_' \in Seq(Works) /\ Listed' = Listed \union {x}
      /\ x \notin Listed /\ x \notin Range(completedWorkList_) /\ NoRepeats(workMetaList_')
      /\ Len(workMetaList_') = Len(workMetaList_) + 1 /\ Len(workMetaList_) \in Nat
  <2>1. workMetaList_ \in Seq(Works) /\ NoRepeats(workMetaList_)
    BY DEF WatchdogInv, WatchdogTypes, OneList
  <2>2. x \notin Listed /\ x \notin Range(completedWorkList_)
    BY <1>3 DEF WatchdogInv, OneList
  <2> HIDE DEF x
  <2> QED BY <1>1, <1>3, <2>1, <2>2, AppendRange DEF Listed
<1> HIDE DEF x
<1>7. WatchdogTypes'
    BY <1>1, <1>2, <1>3, <1>5, <1>6 DEF WatchdogInv, WatchdogTypes
<1>8. InHands'
    BY <1>1, <1>5 DEF WatchdogInv, InHands, x
<1>9. OneList'
    BY <1>1, <1>6 DEF WatchdogInv, OneList
<1>10. Scanned'
  <2>1. \A i \in 1 .. Len(workMetaList_) : i \in 1 .. Len(workMetaList_')
    BY <1>6
  <2> QED BY <1>1, <1>5, <2>1 DEF WatchdogInv, Scanned
<1>11. HookTurn' /\ StaysQuiet'
    BY <1>1, <1>4, <1>5 DEF WatchdogInv, HookTurn, StaysQuiet
<1>12. HooksCounted'
  <2>1. \A w : HookOver(w)' <=> HookOver(w)
    BY <1>1, <1>3, <1>5, <1>6 DEF HookOver
  <2> QED BY <1>1, <2>1 DEF WatchdogInv, HooksCounted
<1>13. Settled'
    BY <1>1, <1>3, <1>6 DEF WatchdogInv, Settled, ResultSettled
<1> QED BY <1>7, <1>8, <1>9, <1>10, <1>11, <1>12, <1>13 DEF WatchdogInv

\* An error gives a work its result, unless it has one.
LEMMA RaiseKeeps ==
    ASSUME WatchdogAssumption, WatchdogInv, NEW w \in enqueued, NEW r \in {"COMM_ERROR", "TIMEOUT"}, Raise(w, r),
           UNCHANGED <<enqueued, workMetaList_, device>>
    PROVE  futureWorkResult_' \in [Works -> Results] /\ Settled'
<1>1. futureWorkResult_ \in [Works -> Results] /\ enqueued \subseteq Works
    BY DEF WatchdogInv, WatchdogTypes, WatchdogAssumption, Works
<1>2. /\ exception' = exception \union {w} /\ futureWorkResult_' \in [Works -> Results]
      /\ futureWorkResult_'[w] # "none"
      /\ \A v \in Works : \/ futureWorkResult_'[v] = futureWorkResult_[v]
                          \/ v = w /\ futureWorkResult_'[v] \in {"COMM_ERROR", "TIMEOUT"}
    BY <1>1 DEF Raise, Results
<1> QED BY <1>1, <1>2 DEF WatchdogInv, Settled, ResultSettled, Listed

\* The watchdog looks at a work: an error, a timeout, or nothing yet.
LEMMA CheckKeeps ==
    ASSUME WatchdogAssumption, WatchdogInv, watchdogCheck
    PROVE  WatchdogInv'
<1> DEFINE w == workMetaList_[iter]
<1>1. /\ UNCHANGED <<issued, device, enqueued, workMetaList_, completedWorkList_, hooked, holding,
                     iter, quiet>>
      /\ iter <= Len(workMetaList_)
      /\ \/ UNCHANGED <<exception, futureWorkResult_>>
         \/ Raise(w, "COMM_ERROR")
         \/ Raise(w, "TIMEOUT")
      /\ \E l \in {"failed", "status"} : pc' = [pc EXCEPT !["watchdog"] = l]
    BY DEF watchdogCheck, comm, lists, scan, Goto, checkAndSetException, checkTimeout
<1>2. /\ pc \in [Threads -> Labels] /\ {"hook", "watchdog"} \subseteq Threads \ Users
      /\ Users \subseteq Threads
    BY DEF WatchdogInv, WatchdogTypes, Threads, WatchdogAssumption
<1>3. /\ pc' \in [Threads -> Labels] /\ pc'["hook"] = pc["hook"]
      /\ \A u \in Users : pc'[u] = pc[u]
    BY <1>1, <1>2 DEF Labels
<1>4. iter \in 1 .. Len(workMetaList_) /\ w \in enqueued
  <2>1. workMetaList_ \in Seq(Works) /\ iter \in Nat \ {0} /\ Listed \subseteq enqueued
    BY DEF WatchdogInv, WatchdogTypes, OneList
  <2>2. iter \in 1 .. Len(workMetaList_) /\ iter \in DOMAIN workMetaList_
    BY <1>1, <2>1
  <2> QED BY <2>1, <2>2 DEF Listed, Range
<1> HIDE DEF w
<1>5. futureWorkResult_' \in [Works -> Results] /\ Settled'
  <2>1. CASE UNCHANGED <<exception, futureWorkResult_>>
    BY <1>1, <2>1 DEF WatchdogInv, WatchdogTypes, Settled, ResultSettled, Listed
  <2>2. CASE Raise(w, "COMM_ERROR")
    BY <1>1, <1>4, <2>2, RaiseKeeps
  <2>3. CASE Raise(w, "TIMEOUT")
    BY <1>1, <1>4, <2>3, RaiseKeeps
  <2> QED BY <1>1, <2>1, <2>2, <2>3
<1>6. WatchdogTypes'
    BY <1>1, <1>3, <1>5 DEF WatchdogInv, WatchdogTypes
<1>7. InHands' /\ OneList' /\ Scanned' /\ HookTurn' /\ StaysQuiet'
    BY <1>1, <1>3, <1>4 DEF WatchdogInv, InHands, OneList, Listed, Scanned, HookTurn, StaysQuiet
<1>8. HooksCounted'
  <2>1. \A v : HookOver(v)' <=> HookOver(v)
    BY <1>1, <1>3 DEF HookOver, Listed
  <2> QED BY <1>1, <2>1 DEF WatchdogInv, HooksCounted
<1> QED BY <1>5, <1>6, <1>7, <1>8 DEF WatchdogInv

\* It looks again, goes on, or takes the work out of the list, for the hook if there is one.
LEMMA StatusKeeps ==
    ASSUME WatchdogAssumption, WatchdogInv, watchdogStatus
    PROVE  WatchdogInv'
<1> DEFINE w == workMetaList_[iter]
<1>1. /\ UNCHANGED <<issued, device, enqueued, hooked, holding, quiet>>
      /\ pc["watchdog"] = "status"
    BY DEF watchdogStatus, comm, At
<1>2. \/ Raise(w, "COMM_ERROR") /\ UNCHANGED <<workMetaList_, completedWorkList_, iter, pc>>
      \/ /\ iter' = iter + 1 /\ pc' = [pc EXCEPT !["watchdog"] = "check"]
         /\ UNCHANGED <<workMetaList_, completedWorkList_, exception, futureWorkResult_>>
      \/ /\ w \in device \/ w \in exception
         /\ futureWorkResult_' = IF w \in device /\ futureWorkResult_[w] = "none"
                                 THEN [futureWorkResult_ EXCEPT ![w] = "SUCCESS"] ELSE futureWorkResult_
         /\ workMetaList_' = RemoveAt(workMetaList_, iter)
         /\ completedWorkList_' = IF HookOn THEN Append(completedWorkList_, w) ELSE completedWorkList_
         /\ pc' = [pc EXCEPT !["watchdog"] = "check"]
         /\ UNCHANGED <<iter, exception>>
    BY DEF watchdogStatus, checkAndSetException, isCompleted, Goto, lists
<1>3. /\ pc \in [Threads -> Labels] /\ {"hook", "watchdog"} \subseteq Threads \ Users
      /\ Users \subseteq Threads /\ iter \in Nat \ {0} /\ iter + 1 \in Nat \ {0}
      /\ workMetaList_ \in Seq(Works) /\ completedWorkList_ \in Seq(Works)
      /\ NoRepeats(workMetaList_) /\ NoRepeats(completedWorkList_)
      /\ Listed \subseteq enqueued /\ enqueued \subseteq Works
      /\ futureWorkResult_ \in [Works -> Results]
    BY DEF WatchdogInv, WatchdogTypes, OneList, Threads, WatchdogAssumption, Works
<1>4. iter \in 1 .. Len(workMetaList_) /\ w \in Listed /\ w \in enqueued /\ w \in Works
  <2>1. iter \in 1 .. Len(workMetaList_)
    BY <1>1 DEF WatchdogInv, Scanned
  <2>2. iter \in DOMAIN workMetaList_
    BY <1>3, <2>1
  <2> QED BY <1>3, <2>1, <2>2 DEF Listed, Range
<1> HIDE DEF w
<1>5. CASE Raise(w, "COMM_ERROR") /\ UNCHANGED <<workMetaList_, completedWorkList_, iter, pc>>
  <2>1. futureWorkResult_' \in [Works -> Results] /\ Settled'
    BY <1>1, <1>4, <1>5, RaiseKeeps
  <2>2. WatchdogTypes'
    BY <1>1, <1>5, <2>1 DEF WatchdogInv, WatchdogTypes
  <2>3. InHands' /\ OneList' /\ Scanned' /\ HookTurn' /\ StaysQuiet'
    BY <1>1, <1>5 DEF WatchdogInv, InHands, OneList, Listed, Scanned, HookTurn, StaysQuiet
  <2>4. HooksCounted'
    <3>1. \A v : HookOver(v)' <=> HookOver(v)
        BY <1>1, <1>5 DEF HookOver, Listed
    <3> QED BY <1>1, <3>1 DEF WatchdogInv, HooksCounted
  <2> QED BY <2>1, <2>2, <2>3, <2>4 DEF WatchdogInv
<1>6. ASSUME pc' = [pc EXCEPT !["watchdog"] = "check"]
      PROVE  /\ pc' \in [Threads -> Labels] /\ pc'["hook"] = pc["hook"] /\ pc'["watchdog"] = "check"
             /\ \A u \in Users : pc'[u] = pc[u]
    BY <1>3, <1>6 DEF Labels
<1>7. CASE /\ iter' = iter + 1 /\ pc' = [pc EXCEPT !["watchdog"] = "check"]
           /\ UNCHANGED <<workMetaList_, completedWorkList_, exception, futureWorkResult_>>
  <2>1. holding' \in [Users \union {"hook"} -> 0 .. MaxWork]
    BY <1>1 DEF WatchdogInv, WatchdogTypes
  <2>2. Scanned' /\ HookTurn'
    BY <1>1, <1>6, <1>7 DEF WatchdogInv, Scanned, HookTurn
  <2> QED BY <1>1, <1>3, <1>6, <1>7, <2>1, <2>2, Aside
<1>8. CASE /\ w \in device \/ w \in exception
           /\ futureWorkResult_' = IF w \in device /\ futureWorkResult_[w] = "none"
                                   THEN [futureWorkResult_ EXCEPT ![w] = "SUCCESS"] ELSE futureWorkResult_
           /\ workMetaList_' = RemoveAt(workMetaList_, iter)
           /\ completedWorkList_' = IF HookOn THEN Append(completedWorkList_, w) ELSE completedWorkList_
           /\ pc' = [pc EXCEPT !["watchdog"] = "check"]
           /\ UNCHANGED <<iter, exception>>
  <2>1. /\ workMetaList_' \in Seq(Works) /\ Listed' = Listed \ {w} /\ NoRepeats(workMetaList_')
    <3>1. workMetaList_' \in Seq(Works) /\ Removed(workMetaList_, workMetaList_', iter)
        BY <1>3, <1>4, <1>8, RemoveAtRemoves
    <3> QED BY <1>3, <1>4, <3>1, RemoveRange DEF Listed, w
  <2>2. w \notin Range(completedWorkList_)
    BY <1>4 DEF WatchdogInv, OneList
  <2>3. /\ completedWorkList_' \in Seq(Works) /\ NoRepeats(completedWorkList_')
        /\ Range(completedWorkList_') = IF HookOn THEN Range(completedWorkList_) \union {w}
                                        ELSE Range(completedWorkList_)
        /\ completedWorkList_ # <<>> => /\ completedWorkList_' # <<>>
                                        /\ Head(completedWorkList_') = Head(completedWorkList_)
    BY <1>3, <1>4, <1>8, <2>2, AppendRange
  <2>4. /\ futureWorkResult_' \in [Works -> Results] /\ futureWorkResult_'[w] # "none"
        /\ \A v \in Works : \/ futureWorkResult_'[v] = futureWorkResult_[v]
                            \/ v = w /\ w \in device
    BY <1>3, <1>4, <1>8 DEF Results, WatchdogInv, Settled
  <2>5. ~quiet
    <3>1. \A q : q = <<>> => Range(q) = {}
        BY DEF Range
    <3> QED BY <1>4, <3>1 DEF WatchdogInv, StaysQuiet, Listed
  <2>6. WatchdogTypes'
    BY <1>1, <1>6, <1>8, <2>1, <2>3, <2>4 DEF WatchdogInv, WatchdogTypes
  <2>7. InHands' /\ Scanned' /\ StaysQuiet'
    BY <1>1, <1>6, <1>8, <2>5 DEF WatchdogInv, InHands, Scanned, StaysQuiet
  <2>8. OneList'
    BY <1>1, <1>4, <2>1, <2>2, <2>3 DEF WatchdogInv, OneList
  <2>9. HookTurn'
    BY <1>1, <1>6, <1>8, <2>3 DEF WatchdogInv, HookTurn
  <2>10. HooksCounted'
    <3> SUFFICES ASSUME HookOn PROVE \A v \in Works : HookOver(v)' <=> HookOver(v)
        BY <1>1 DEF WatchdogInv, HooksCounted
    <3> TAKE v \in Works
    <3>1. CASE v = w
      <4>1. ~HookOver(v)
        BY <1>4, <3>1 DEF HookOver
      <4>2. ~HookOver(v)'
        <5>1. SUFFICES ~(pc["hook"] = "erase" /\ w = holding["hook"])
            BY <1>1, <1>6, <1>8, <2>3, <3>1 DEF HookOver
        <5>2. pc["hook"] = "erase" => Head(completedWorkList_) \in Range(completedWorkList_)
          <6>1. pc["hook"] = "erase" => completedWorkList_ # <<>>
            BY DEF WatchdogInv, HookTurn
          <6>2. completedWorkList_ # <<>> => Head(completedWorkList_) \in Range(completedWorkList_)
            BY <1>3, TailRemoves
          <6> QED BY <6>1, <6>2
        <5> QED BY <2>2, <5>2 DEF WatchdogInv, HookTurn
      <4> QED BY <4>1, <4>2
    <3>2. CASE v # w
        BY <1>1, <1>6, <1>8, <2>1, <2>3, <3>2 DEF HookOver
    <3> QED BY <3>1, <3>2
  <2>11. Settled'
    BY <1>1, <1>3, <1>4, <1>8, <2>1, <2>4 DEF WatchdogInv, Settled, ResultSettled
  <2> QED BY <2>6, <2>7, <2>8, <2>9, <2>10, <2>11 DEF WatchdogInv
<1> QED BY <1>2, <1>5, <1>7, <1>8

\* The hook returns: the work is still the first of its list.
LEMMA HookReturnKeeps ==
    ASSUME WatchdogAssumption, WatchdogInv, hookReturn
    PROVE  WatchdogInv'
<1> DEFINE w == holding["hook"]
<1>1. /\ pc["hook"] = "hook" /\ pc' = [pc EXCEPT !["hook"] = "erase"]
      /\ hooked' = [hooked EXCEPT ![w] = @ + 1]
      /\ UNCHANGED <<issued, exception, futureWorkResult_, enqueued, device, workMetaList_,
                     completedWorkList_, iter, holding, quiet>>
    BY DEF hookReturn, At, Goto, works, comm, lists, scan
<1>2. /\ pc \in [Threads -> Labels] /\ {"hook", "watchdog"} \subseteq Threads \ Users
      /\ Users \subseteq Threads /\ completedWorkList_ \in Seq(Works)
      /\ hooked \in [Works -> Nat]
    BY DEF WatchdogInv, WatchdogTypes, Threads, WatchdogAssumption
<1>3. /\ pc' \in [Threads -> Labels] /\ pc'["hook"] = "erase" /\ pc'["watchdog"] = pc["watchdog"]
      /\ \A u \in Users : pc'[u] = pc[u]
    BY <1>1, <1>2 DEF Labels
<1>4. completedWorkList_ # <<>> /\ w = Head(completedWorkList_)
    BY <1>1 DEF WatchdogInv, HookTurn
<1>5. w \in Range(completedWorkList_) /\ w \in Works
  <2>1. w \in Range(completedWorkList_)
    BY <1>2, <1>4, TailRemoves
  <2>2. Head(completedWorkList_) \in Works
    BY <1>2, <1>4
  <2> QED BY <1>4, <2>1, <2>2
<1>6. w \in enqueued /\ w \notin Listed
    BY <1>5 DEF WatchdogInv, OneList
<1> HIDE DEF w
<1>7. WatchdogTypes'
  <2>1. hooked' \in [Works -> Nat]
    BY <1>1, <1>2, <1>5
  <2> QED BY <1>1, <1>3, <2>1 DEF WatchdogInv, WatchdogTypes
<1>8. InHands' /\ OneList' /\ Scanned' /\ StaysQuiet'
    BY <1>1, <1>3 DEF WatchdogInv, InHands, OneList, Listed, Scanned, StaysQuiet
<1>9. HookTurn'
    BY <1>1, <1>3, <1>4 DEF HookTurn, w
<1>10. HooksCounted'
  <2> SUFFICES ASSUME HookOn, NEW v \in Works PROVE hooked'[v] = IF HookOver(v)' THEN 1 ELSE 0
    BY DEF HooksCounted
  <2>1. hooked[v] = IF HookOver(v) THEN 1 ELSE 0
    BY DEF WatchdogInv, HooksCounted
  <2>2. CASE v = w
    <3>1. ~HookOver(v)
        BY <1>1, <1>5, <2>2 DEF HookOver
    <3>2. HookOver(v)'
        BY <1>1, <1>3, <1>6, <2>2 DEF HookOver, Listed, w
    <3>3. hooked'[v] = hooked[v] + 1
        BY <1>1, <1>2, <2>2
    <3> QED BY <2>1, <3>1, <3>2, <3>3
  <2>3. CASE v # w
    <3>1. HookOver(v)' <=> HookOver(v)
        BY <1>1, <1>3, <2>3 DEF HookOver, Listed, w
    <3>2. hooked'[v] = hooked[v]
        BY <1>1, <1>2, <2>3
    <3> QED BY <2>1, <3>1, <3>2
  <2> QED BY <2>2, <2>3
<1>11. Settled'
    BY <1>1 DEF WatchdogInv, Settled, ResultSettled, Listed
<1> QED BY <1>7, <1>8, <1>9, <1>10, <1>11 DEF WatchdogInv

\* It is erased: nobody else has taken it away.
LEMMA HookEraseKeeps ==
    ASSUME WatchdogAssumption, WatchdogInv, hookErase
    PROVE  WatchdogInv'
<1> DEFINE w == holding["hook"]
<1>1. /\ pc["hook"] = "erase" /\ pc' = [pc EXCEPT !["hook"] = "iterate"]
      /\ completedWorkList_' = Tail(completedWorkList_)
      /\ UNCHANGED <<issued, exception, futureWorkResult_, enqueued, device, workMetaList_,
                     hooked, iter, holding, quiet>>
    BY DEF hookErase, At, Goto, works, comm, scan
<1>2. /\ pc \in [Threads -> Labels] /\ {"hook", "watchdog"} \subseteq Threads \ Users
      /\ Users \subseteq Threads /\ completedWorkList_ \in Seq(Works)
      /\ NoRepeats(completedWorkList_)
    BY DEF WatchdogInv, WatchdogTypes, OneList, Threads, WatchdogAssumption
<1>3. /\ pc' \in [Threads -> Labels] /\ pc'["hook"] = "iterate" /\ pc'["watchdog"] = pc["watchdog"]
      /\ \A u \in Users : pc'[u] = pc[u]
    BY <1>1, <1>2 DEF Labels
<1>4. completedWorkList_ # <<>> /\ w = Head(completedWorkList_)
    BY <1>1 DEF WatchdogInv, HookTurn
<1>5. /\ completedWorkList_' \in Seq(Works) /\ NoRepeats(completedWorkList_')
      /\ Range(completedWorkList_') = Range(completedWorkList_) \ {w}
      /\ w \in Range(completedWorkList_)
  <2>1. /\ 1 \in 1 .. Len(completedWorkList_) /\ completedWorkList_[1] = w
        /\ completedWorkList_' \in Seq(Works)
        /\ Removed(completedWorkList_, completedWorkList_', 1)
    BY <1>1, <1>2, <1>4, TailRemoves
  <2> HIDE DEF w
  <2> QED BY <1>2, <2>1, RemoveRange
<1>6. ~quiet
    BY <1>4 DEF WatchdogInv, StaysQuiet
<1> HIDE DEF w
<1>7. WatchdogTypes'
    BY <1>1, <1>3, <1>5 DEF WatchdogInv, WatchdogTypes
<1>8. InHands' /\ Scanned' /\ StaysQuiet' /\ HookTurn'
    BY <1>1, <1>3, <1>6 DEF WatchdogInv, InHands, Scanned, StaysQuiet, HookTurn
<1>9. OneList'
    BY <1>1, <1>5 DEF WatchdogInv, OneList, Listed
<1>10. HooksCounted'
  <2>1. \A v : HookOver(v)' <=> HookOver(v)
    <3> TAKE v
    <3>1. CASE v = w
        BY <1>1, <1>3, <1>5, <3>1 DEF HookOver, Listed, w
    <3>2. CASE v # w
        BY <1>1, <1>3, <1>5, <3>2 DEF HookOver, Listed, w
    <3> QED BY <3>1, <3>2
  <2> QED BY <1>1, <2>1 DEF WatchdogInv, HooksCounted
<1>11. Settled'
    BY <1>1 DEF WatchdogInv, Settled, ResultSettled, Listed
<1> QED BY <1>7, <1>8, <1>9, <1>10, <1>11 DEF WatchdogInv

\* Every step of every thread keeps the invariant.
LEMMA WatchdogInvNext ==
    ASSUME WatchdogAssumption, WatchdogInv, [Next]_vars
    PROVE  WatchdogInv'
<1> USE DEF works, comm, lists, scan
<1>0. /\ iter \in Nat \ {0}
      /\ pc \in [Threads -> Labels] /\ {"hook", "watchdog"} \subseteq Threads \ Users
      /\ holding \in [Users \union {"hook"} -> 0 .. MaxWork]
      /\ completedWorkList_ \in Seq(Works)
    BY DEF WatchdogInv, WatchdogTypes, Threads, WatchdogAssumption
<1>1. ASSUME NEW w \in Works, Finish(w) PROVE WatchdogInv'
    BY <1>1, StandsStill DEF Finish
<1>2. CASE CommFails
    BY <1>2, StandsStill DEF CommFails
<1>3. ASSUME NEW u \in Users, addEphemeralTimeout(u) PROVE WatchdogInv'
    BY <1>3, StandsStill DEF addEphemeralTimeout
<1>4. ASSUME NEW u \in Users, collective(u) PROVE WatchdogInv'
    BY <1>4, CollectiveKeeps
<1>5. ASSUME NEW u \in Users, workEnqueue(u) PROVE WatchdogInv'
    BY <1>5, EnqueueKeeps
<1>6. ASSUME NEW t \in {"watchdog", "hook"}, loopTest(t) PROVE WatchdogInv'
  <2>1. \E l \in {"exited", "wait"} : Goto(t, l)
    BY <1>6 DEF loopTest
  <2> QED BY <1>6, <2>1, MovesOn DEF loopTest, Labels, At
<1>7. CASE Watchdog
  <2>1. CASE watchdogWake
    BY <2>1, MovesOn DEF watchdogWake, Labels
  <2>2. CASE watchdogFailed
    BY <2>2, MovesOn DEF watchdogFailed, Labels, At
  <2>3. CASE watchdogSleep
    BY <2>3, MovesOn DEF watchdogSleep, Labels
  <2> QED BY <1>6, <1>7, <2>1, <2>2, <2>3, CheckKeeps, StatusKeeps DEF Watchdog
<1>8. CASE Hook
  <2>1. CASE hookWake
    BY <2>1, MovesOn DEF hookWake, Labels, At
  <2>2. CASE hookCall
    <3>1. /\ UNCHANGED <<issued, exception, futureWorkResult_, enqueued, device, workMetaList_,
                         completedWorkList_, hooked, iter, quiet>>
          /\ pc["hook"] = "iterate" /\ completedWorkList_ # <<>>
          /\ pc' = [pc EXCEPT !["hook"] = "hook"]
          /\ holding' = [holding EXCEPT !["hook"] = Head(completedWorkList_)]
        BY <2>2 DEF hookCall, Goto, Hold, At
    <3>2. Head(completedWorkList_) \in 0 .. MaxWork
      <4>1. Head(completedWorkList_) \in Works
        BY <1>0, <3>1
      <4> QED BY <4>1 DEF Works
    <3>3. /\ pc' \in [Threads -> Labels] /\ pc'["hook"] = "hook" /\ pc'["watchdog"] = pc["watchdog"]
          /\ holding' \in [Users \union {"hook"} -> 0 .. MaxWork]
          /\ holding'["hook"] = Head(completedWorkList_)
          /\ \A u \in Users : pc'[u] = pc[u] /\ holding'[u] = holding[u]
        BY <1>0, <3>1, <3>2 DEF Labels, Threads
    <3>4. Scanned' /\ HookTurn'
        BY <3>1, <3>3 DEF WatchdogInv, Scanned, HookTurn
    <3> QED BY <1>0, <3>1, <3>3, <3>4, Aside
  <2>3. CASE hookThrows
    BY <2>3, MovesOn DEF hookThrows, Labels, At
  <2>4. CASE hookEnd
    BY <2>4, MovesOn DEF hookEnd, Labels, At
  <2>5. CASE hookDone
    BY <2>5, MovesOn DEF hookDone, Labels, At
  <2> QED BY <1>6, <1>8, <2>1, <2>2, <2>3, <2>4, <2>5, HookReturnKeeps, HookEraseKeeps DEF Hook
<1>9. CASE Main
  <2>1. CASE waitForPendingWorks
    <3>1. /\ UNCHANGED <<issued, exception, futureWorkResult_, enqueued, device, workMetaList_,
                         completedWorkList_, hooked, pc, iter, holding>>
          /\ workMetaList_ = <<>> /\ completedWorkList_ = <<>> /\ \A u \in Users : pc[u] = "loop"
        BY <2>1 DEF waitForPendingWorks
    <3>2. WatchdogTypes'
        BY <3>1 DEF WatchdogInv, WatchdogTypes
    <3>3. InHands' /\ OneList' /\ Scanned' /\ HookTurn' /\ StaysQuiet'
        BY <3>1 DEF WatchdogInv, InHands, OneList, Listed, Scanned, HookTurn, StaysQuiet
    <3>4. HooksCounted' /\ Settled'
        BY <3>1 DEF WatchdogInv, HooksCounted, HookOver, Settled, ResultSettled, Listed
    <3> QED BY <3>2, <3>3, <3>4 DEF WatchdogInv
  <2>2. CASE shutdown
    BY <2>2, MovesOn DEF shutdown, Labels
  <2>3. CASE shutdownJoined
    BY <2>3, MovesOn DEF shutdownJoined, Labels
  <2>4. CASE abort
    BY <2>4, MovesOn DEF abort, Labels
  <2>5. CASE abortComms
    BY <2>5, MovesOn DEF abortComms, Labels
  <2>6. CASE destroy
    BY <2>6, MovesOn DEF destroy, Labels
  <2> QED BY <1>9, <2>1, <2>2, <2>3, <2>4, <2>5, <2>6 DEF Main
<1>10. CASE Monitor
  <2>1. CASE monitorCheck
    <3>1. CASE UNCHANGED pc
        BY <2>1, <3>1, StandsStill DEF monitorCheck
    <3>2. CASE Goto("monitor", "sleep")
        BY <2>1, <3>2, MovesOn DEF monitorCheck, Labels
    <3> QED BY <2>1, <3>1, <3>2 DEF monitorCheck
  <2>2. CASE monitorKill
    BY <2>2, MovesOn DEF monitorKill, Labels
  <2>3. CASE monitorExit
    BY <2>3, MovesOn DEF monitorExit, Labels
  <2> QED BY <1>10, <2>1, <2>2, <2>3 DEF Monitor
<1>11. CASE UNCHANGED vars
    BY <1>11, StandsStill DEF vars
<1> QED BY <1>1, <1>2, <1>3, <1>4, <1>5, <1>7, <1>8, <1>9, <1>10, <1>11 DEF Next

\* When waitForPendingWorks has returned, the hook has returned exactly once for every work
\* that was enqueued, although it runs without the lock of its list, may throw and be called
\* again, and the watchdog and the users go on meanwhile (runHookLoop, watchdogHandler,
\* workEnqueue).
THEOREM PendingHooksCorrect == WatchdogAssumption => (Spec => []PendingHooksRun)
<1> SUFFICES ASSUME WatchdogAssumption PROVE Spec => []PendingHooksRun
    OBVIOUS
<1>1. Init => WatchdogInv
    BY WatchdogInvInit
<1>2. WatchdogInv /\ [Next]_vars => WatchdogInv'
    BY WatchdogInvNext
<1>3. WatchdogInv => PendingHooksRun
  <2> SUFFICES ASSUME WatchdogInv, quiet, HookOn, NEW w \in enqueued PROVE hooked[w] = 1
    BY DEF PendingHooksRun
  <2>1. workMetaList_ = <<>> /\ completedWorkList_ = <<>>
    BY DEF WatchdogInv, StaysQuiet
  <2>2. w \notin Listed /\ w \notin Range(completedWorkList_)
    BY <2>1 DEF Listed, Range
  <2>3. w \in Works
    BY DEF WatchdogInv, WatchdogTypes, WatchdogAssumption, Works
  <2>4. HookOver(w)
    BY <2>2 DEF HookOver
  <2> QED BY <2>3, <2>4 DEF WatchdogInv, HooksCounted
<1> QED BY <1>1, <1>2, <1>3, PTL DEF Spec

\* A work leaves the list of the watchdog only with its result settled, whichever of an error
\* of the communicator, a timeout and the end of its kernels comes first, and it is reported
\* as a success only when its kernels have ended (watchdogHandler, checkAndSetException,
\* checkTimeout).
THEOREM ResultSettledCorrect == WatchdogAssumption => (Spec => []ResultSettled)
<1> SUFFICES ASSUME WatchdogAssumption PROVE Spec => []ResultSettled
    OBVIOUS
<1>1. Init => WatchdogInv
    BY WatchdogInvInit
<1>2. WatchdogInv /\ [Next]_vars => WatchdogInv'
    BY WatchdogInvNext
<1>3. WatchdogInv => ResultSettled
    BY DEF WatchdogInv, Settled
<1> QED BY <1>1, <1>2, <1>3, PTL DEF Spec
=============================================================================
