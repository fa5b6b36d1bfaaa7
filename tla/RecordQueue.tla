------------------------------ MODULE RecordQueue ------------------------------
(***************************************************************************)
(* How operations get into a profile (collection.cpp and                   *)
(* profiler_kineto.cpp).  A profiler belongs to the thread that enabled    *)
(* it, and to workers while they work for that thread.  Each thread writes *)
(* to a subqueue of its own, which it finds through a thread-local cache   *)
(* that is keyed by the number of the queue and never cleared.  While an   *)
(* operation runs, its correlation id is on the thread's stack in Kineto.  *)
(***************************************************************************)
EXTENDS Integers, Sequences, FiniteSets, SequencesExt

CONSTANTS Threads,      \* threads that may enable a profiler
          Worker,       \* a thread that helps them
          MaxQueues,    \* bound on the number of profilers
          MaxOps,       \* bound on the number of operations
          MayStraddle   \* profilers may come and go while an operation runs

WorkerAssumption == Worker \notin Threads

All == Threads \cup {Worker}
None == 0
Ids == 1..MaxQueues

VARIABLES
    queue_id_,
    session,      \* thread -> the profiler it has, by its queue's id
    callback,     \* thread -> whether its operations are observed
    sub_queues_,  \* queue -> thread -> its events, or NoSubqueue
    sub_queue_cache_, \* thread -> [key, ref]
    info,         \* profiler_state_info_ptr
    open,         \* thread -> the operations that run, innermost last
    correlation,  \* thread -> Kineto's stack of correlation ids
    out,          \* queue -> the events it returned, or None while it lives
    helps,        \* whom the worker works for, or None
    ops,          \* ghost: operation -> who ran it, under which profiler
    crashed,
    unpopped      \* ghost: the observed operations that ended without popping an id
vars == <<queue_id_, session, callback, sub_queues_, sub_queue_cache_, info,
          open, correlation, out, helps, ops, crashed, unpopped>>

NoThread == "none"
NoSubqueue == {}
\* A subqueue that exists holds a mark, so that it differs from none.
NewSubqueue == {0}

Init ==
    /\ queue_id_ = 0 /\ info = None /\ helps = NoThread /\ ops = <<>> /\ crashed = FALSE
    /\ unpopped = {}
    /\ session = [t \in All |-> None] /\ callback = [t \in All |-> FALSE]
    /\ sub_queues_ = [q \in Ids |-> [t \in All |-> NoSubqueue]]
    /\ sub_queue_cache_ = [t \in All |-> [key |-> 0, ref |-> <<None, NoThread>>]]
    /\ open = [t \in All |-> <<>>] /\ correlation = [t \in All |-> <<>>]
    /\ out = [q \in Ids |-> NoSubqueue]

\* A thread that has a worker waits for it.
Runs(t) == IF t = Worker THEN helps # NoThread ELSE helps # t

-----------------------------------------------------------------------------
(* Profilers                                                               *)

enableProfiler(t) ==
    /\ t # Worker /\ Runs(t)
    /\ session[t] = None /\ queue_id_ < MaxQueues
    /\ MayStraddle \/ open[t] = <<>>
    /\ queue_id_' = queue_id_ + 1
    /\ session' = [session EXCEPT ![t] = queue_id_']
    /\ callback' = [callback EXCEPT ![t] = TRUE]
    /\ info' = queue_id_'
    /\ UNCHANGED <<sub_queues_, sub_queue_cache_, open, correlation, out, helps, ops,
                   crashed, unpopped>>

\* getRecords takes what is in every subqueue; the queue goes with the profiler.
getRecords(q) == UNION {{[op |-> e, tid |-> t] : e \in sub_queues_[q][t] \ NewSubqueue} : t \in All}

disableProfiler(t) ==
    LET q == session[t] IN
    /\ t # Worker /\ Runs(t)
    /\ q # None
    /\ MayStraddle \/ open[t] = <<>>
    /\ info' = None
    /\ session' = [session EXCEPT ![t] = None]
    /\ callback' = [callback EXCEPT ![t] = FALSE]
    /\ out' = [out EXCEPT ![q] = getRecords(q)]
    /\ sub_queues_' = [sub_queues_ EXCEPT ![q] = [u \in All |-> NoSubqueue]]
    /\ UNCHANGED <<queue_id_, sub_queue_cache_, open, correlation, helps, ops,
                   crashed, unpopped>>

\* toggleTorchOpCollectionDynamic takes the scopes from the one pointer of the
\* process.
toggle_on(t) ==
    /\ t # Worker /\ Runs(t) /\ session[t] # None /\ ~callback[t]
    /\ IF info = None THEN crashed' = TRUE /\ UNCHANGED callback
       ELSE callback' = [callback EXCEPT ![t] = TRUE] /\ UNCHANGED crashed
    /\ UNCHANGED <<queue_id_, session, sub_queues_, sub_queue_cache_, info, open, correlation,
                   out, helps, ops, unpopped>>

toggle_off(t) ==
    /\ t # Worker /\ Runs(t) /\ session[t] # None /\ callback[t]
    /\ callback' = [callback EXCEPT ![t] = FALSE]
    /\ UNCHANGED <<queue_id_, session, sub_queues_, sub_queue_cache_, info, open, correlation, out, helps, ops,
                   crashed, unpopped>>

-----------------------------------------------------------------------------
(* Operations                                                              *)

Hit(t, q) == sub_queue_cache_[t].key = q

\* The subqueue that the caller writes to: the cached one, or the one of this
\* thread in the queue, made if need be.
getSubqueue(t, q) == IF Hit(t, q) THEN sub_queue_cache_[t].ref ELSE <<q, t>>

\* onFunctionEnter and begin_op.  Who is not observed leaves no trace.
onFunctionEnter(t) ==
    LET n == Len(ops) + 1
        q == session[t]
        r == getSubqueue(t, q)
    IN
    /\ Runs(t) /\ n <= MaxOps
    /\ ops' = Append(ops, [tid |-> t, q |-> IF callback[t] THEN q ELSE None])
    /\ open' = [open EXCEPT ![t] = Append(@, n)]
    /\ IF ~callback[t]
       THEN UNCHANGED <<sub_queues_, sub_queue_cache_, correlation>>
       ELSE /\ sub_queues_' = [sub_queues_ EXCEPT ![r[1]][r[2]] = @ \cup NewSubqueue \cup {n}]
            /\ sub_queue_cache_' = [sub_queue_cache_ EXCEPT ![t] = [key |-> q, ref |-> r]]
            /\ correlation' = [correlation EXCEPT ![t] = Append(@, n)]
    /\ UNCHANGED <<queue_id_, session, callback, info, out, helps, crashed, unpopped>>

\* onFunctionExit is called for an operation whose beginning was observed, also
\* when the callback has been removed since.  Without a profiler it returns.
PopsAtExit(t) == session[t] # None

onFunctionExit(t) ==
    LET n == Last(open[t]) IN
    /\ Runs(t) /\ open[t] # <<>>
    /\ open' = [open EXCEPT ![t] = Front(@)]
    /\ correlation' = IF ops[n].q = None \/ ~PopsAtExit(t) \/ correlation[t] = <<>> THEN correlation
                      ELSE [correlation EXCEPT ![t] = Front(@)]
    /\ unpopped' = IF ops[n].q # None /\ ~PopsAtExit(t) THEN unpopped \cup {n} ELSE unpopped
    /\ UNCHANGED <<queue_id_, session, callback, sub_queues_, sub_queue_cache_, info,
                   out, helps, ops, crashed>>

\* A worker has the state of the thread it works for, and none afterwards.
Help(t) ==
    /\ t # Worker /\ helps = NoThread
    /\ helps' = t
    /\ session' = [session EXCEPT ![Worker] = session[t]]
    /\ callback' = [callback EXCEPT ![Worker] = callback[t]]
    /\ UNCHANGED <<queue_id_, sub_queues_, sub_queue_cache_, info, open, correlation, out, ops,
                   crashed, unpopped>>

HelpDone ==
    /\ helps # NoThread /\ open[Worker] = <<>>
    /\ helps' = NoThread
    /\ session' = [session EXCEPT ![Worker] = None]
    /\ callback' = [callback EXCEPT ![Worker] = FALSE]
    /\ UNCHANGED <<queue_id_, sub_queues_, sub_queue_cache_, info, open, correlation, out, ops,
                   crashed, unpopped>>

Step(t) ==
    \/ enableProfiler(t) \/ disableProfiler(t) \/ toggle_on(t) \/ toggle_off(t)
    \/ onFunctionEnter(t) \/ onFunctionExit(t)
    \/ Help(t)
Next == ~crashed /\ ((\E t \in All : Step(t)) \/ HelpDone)

Spec == Init /\ [][Next]_vars

\* The threads that enable profilers are alike.
Symmetry == Permutations(Threads)

-----------------------------------------------------------------------------
Alive(q) == \E t \in All : session[t] = q

\* A profile holds exactly the operations that were observed under it, each on
\* the thread that ran it, whatever queues a worker wrote to in between; and
\* nothing is written to a queue that is gone.
EventsOfOwnProfiler ==
    /\ \A q \in Ids : ~Alive(q) /\ q <= queue_id_ =>
         /\ out[q] = {[op |-> n, tid |-> ops[n].tid] : n \in {m \in DOMAIN ops : ops[m].q = q}}
         /\ \A t \in All : sub_queues_[q][t] = NoSubqueue
    /\ \A q \in Ids, t \in All : \A n \in sub_queues_[q][t] \ NewSubqueue :
         ops[n] = [tid |-> t, q |-> q]

\* "The profiler pushes a unique integer at the start of an op and pops it at
\* the end": Kineto's stack is the observed operations that run.
Observed(t) == SelectSeq(open[t], LAMBDA n : ops[n].q # None)
CorrelationBalanced == \A t \in All : correlation[t] = Observed(t)

\* What holds of it when profilers come and go while operations run: an id is
\* left behind by each operation that ends while its thread has no profiler,
\* and by no other.
Left(t) == {n \in unpopped : ops[n].tid = t}
CorrelationBalancedUnlessLeft == \A t \in All :
    /\ Len(correlation[t]) = Len(Observed(t)) + Cardinality(Left(t))
    /\ Left(t) = {} => correlation[t] = Observed(t)

\* The end of an operation is written to its event (profiler_kineto.cpp:436),
\* which goes with the queue of the profiler it began under: no operation can
\* end under another one.
EndsInOwnProfiler ==
    \A t \in All : session[t] # None =>
        \A n \in ToSet(open[t]) : ops[n].q \in {None, session[t]}

\* A thread with a profiler can toggle what it collects.
ToggleSafe == ~crashed
===============================================================================
