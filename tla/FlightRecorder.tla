--------------------------- MODULE FlightRecorder ---------------------------
(* The flight recorder: a ring of the last operations, filled by the threads *)
(* that issue them, retired by the watchdog and dumped by the monitor.  An    *)
(* entry borrows the events of its Work, which the Work owns and the event    *)
(* cache gives to another Work when it is gone; retire_id releases the lock   *)
(* while it computes a duration.  Trace ids number the operations.            *)
EXTENDS Integers, Sequences, FiniteSets

CONSTANTS
    Threads,            \* threads that issue operations, each of a group of its own
    MaxEntries,         \* TORCH_NCCL_TRACE_BUFFER_SIZE
    MaxOps,             \* bound on the operations recorded
    enableTiming_,      \* whether works have a start event
    supaEventCacheEnabled_,
    Unqueued,           \* whether a recorded Work may stay out of the watchdog's list
    MayThrow,           \* whether the launch may fail
    DumpAnywhere        \* whether a dump may come before the events are recorded

RecorderAssumption == MaxEntries \in Nat \ {0} /\ MaxOps \in Nat

VARIABLES
    entries_, next_, id_,
    all_pg_status_, writing,    \* the map, and the threads inside an insertion
    thread,                     \* what each thread is at
    work,                       \* of each operation: its Work; "lost" if it went without
                                \* the watchdog
    events,                     \* the operation an event pair was last recorded for
    owner, cache,               \* the Work that owns a pair; the event cache
    kernel,
    watchdog, report, dumper

ring == <<entries_, next_, id_>>
maps == <<all_pg_status_, writing>>
evs == <<events, owner, cache>>
vars == <<ring, maps, thread, work, evs, kernel, watchdog, report, dumper>>

Ids == 0..(MaxOps - 1)
Pairs == 1..MaxOps
Null == 0           \* no event
None == -1          \* no operation
Idle == [at |-> "idle", op |-> None]

Init ==
    /\ entries_ = <<>> /\ next_ = 0 /\ id_ = 0
    /\ all_pg_status_ = {} /\ writing = {}
    /\ thread = [t \in Threads |-> Idle] /\ work = [i \in Ids |-> "none"]
    /\ events = [e \in Pairs |-> None] /\ owner = [e \in Pairs |-> None] /\ cache = <<>>
    /\ kernel = [i \in Ids |-> "none"]
    /\ watchdog = Idle /\ report = <<>> /\ dumper = "idle"

-----------------------------------------------------------------------------
\* An event that was never recorded answers that it is over.
query(e, over) == events[e] = None \/ kernel[events[e]] \in over
Started(e) == query(e, {"running", "done"})
Completed(e) == query(e, {"done"})

\* Takes a pair from the cache, or makes one.
create == IF cache # <<>> THEN Head(cache) ELSE CHOOSE e \in Pairs : owner[e] = None /\ events[e] = None

\* The last reference to a Work goes: its pair returns to the cache, with what
\* was recorded in it, or is destroyed.
Release(op) ==
    LET e == CHOOSE p \in Pairs : owner[p] = op
    IN /\ owner' = [owner EXCEPT ![e] = None]
       /\ IF supaEventCacheEnabled_ THEN cache' = Append(cache, e) /\ UNCHANGED events
          ELSE UNCHANGED <<cache, events>>

update_state(r) ==
    IF r.ev = Null THEN r
    ELSE [r EXCEPT !.started = r.started \/ (enableTiming_ /\ Started(r.ev)),
                   !.completed = r.completed \/ Completed(r.ev)]

\* The status of the group goes to the map before the lock is taken.
statusCheck(t) ==
    /\ thread[t].at = "idle" /\ id_ < MaxOps
    /\ thread' = [thread EXCEPT ![t].at = IF t \in all_pg_status_ THEN "record" ELSE "insert"]
    /\ writing' = IF t \in all_pg_status_ THEN writing ELSE writing \cup {t}
    /\ UNCHANGED <<ring, all_pg_status_, work, evs, kernel, watchdog, report, dumper>>

statusInsert(t) ==
    /\ thread[t].at = "insert" /\ thread' = [thread EXCEPT ![t].at = "record"]
    /\ all_pg_status_' = all_pg_status_ \cup {t} /\ writing' = writing \ {t}
    /\ UNCHANGED <<ring, work, evs, kernel, watchdog, report, dumper>>

Entry(i, e) == [id |-> i, ev |-> e, started |-> FALSE, completed |-> FALSE, retired |-> FALSE, duration |-> None]

\* next_++, back to 0 at the end of the ring.
Wrap == IF next_ + 1 = MaxEntries THEN 0 ELSE next_ + 1

Store(te) ==
    IF Len(entries_) < MaxEntries
    THEN entries_' = Append(entries_, te) /\ UNCHANGED next_
    ELSE entries_' = [entries_ EXCEPT ![next_ + 1] = te] /\ next_' = Wrap

\* initWork and record: an entry that borrows the events of the Work.
record(t) ==
    LET e == create
    IN /\ thread[t].at = "record" /\ id_ < MaxOps
       /\ Store(Entry(id_, e)) /\ id_' = id_ + 1
       /\ owner' = [owner EXCEPT ![e] = id_] /\ cache' = IF cache # <<>> THEN Tail(cache) ELSE cache
       /\ work' = [work EXCEPT ![id_] = "new"]
       /\ thread' = [thread EXCEPT ![t] = [at |-> "launch", op |-> id_]]
       /\ UNCHANGED <<maps, events, kernel, watchdog, report, dumper>>

\* One operation of a coalesced group: an entry without events or Work.
recordCoalesced(t) ==
    /\ thread[t].at = "record" /\ id_ < MaxOps
    /\ Store(Entry(id_, Null)) /\ id_' = id_ + 1
    /\ thread' = [thread EXCEPT ![t] = Idle]
    /\ UNCHANGED <<maps, work, evs, kernel, watchdog, report, dumper>>

\* The kernel goes to the stream between the two events.
Launch(t) ==
    LET op == thread[t].op
        e == CHOOSE p \in Pairs : owner[p] = op
    IN /\ thread[t].at = "launch" /\ thread' = [thread EXCEPT ![t].at = "enqueue"]
       /\ events' = [events EXCEPT ![e] = op] /\ kernel' = [kernel EXCEPT ![op] = "queued"]
       /\ UNCHANGED <<ring, maps, work, owner, cache, watchdog, report, dumper>>

LaunchThrows(t) ==
    /\ MayThrow /\ thread[t].at = "launch"
    /\ Release(thread[t].op) /\ work' = [work EXCEPT ![thread[t].op] = "lost"]
    /\ thread' = [thread EXCEPT ![t] = Idle]
    /\ UNCHANGED <<ring, maps, kernel, watchdog, report, dumper>>

workEnqueue(t) ==
    /\ thread[t].at = "enqueue" /\ thread' = [thread EXCEPT ![t] = Idle]
    /\ work' = [work EXCEPT ![thread[t].op] = "listed"]
    /\ UNCHANGED <<ring, maps, evs, kernel, watchdog, report, dumper>>

\* With a blocking wait, during a capture, or once the group shuts down, only
\* the caller has the Work.
workNotEnqueued(t) ==
    /\ Unqueued /\ thread[t].at = "enqueue" /\ thread' = [thread EXCEPT ![t] = Idle]
    /\ work' = [work EXCEPT ![thread[t].op] = "user"]
    /\ UNCHANGED <<ring, maps, evs, kernel, watchdog, report, dumper>>

UserDrops(op) ==
    /\ work[op] = "user" /\ work' = [work EXCEPT ![op] = "lost"] /\ Release(op)
    /\ UNCHANGED <<ring, maps, thread, kernel, watchdog, report, dumper>>

KernelSteps(op) ==
    /\ kernel[op] \in {"queued", "running"}
    /\ kernel' = [kernel EXCEPT ![op] = IF @ = "queued" THEN "running" ELSE "done"]
    /\ UNCHANGED <<ring, maps, thread, work, evs, watchdog, report, dumper>>

-----------------------------------------------------------------------------
Slot(i) == (i % MaxEntries) + 1
getEntry(i) == entries_[Slot(i)].id = i

Retired(r) == [update_state(r) EXCEPT !.retired = TRUE, !.ev = Null]

\* The watchdog meets a Work that is over; the first part of retire_id.
retire_id(op) ==
    LET r == entries_[Slot(op)]
    IN /\ watchdog.at = "idle" /\ work[op] = "listed"
       /\ \E e \in Pairs : owner[e] = op /\ Completed(e)
       /\ entries_' = IF getEntry(op) THEN [entries_ EXCEPT ![Slot(op)] = Retired(r)] ELSE entries_
       /\ watchdog' = [at |-> IF getEntry(op) /\ enableTiming_ /\ update_state(r).completed
                              THEN "duration" ELSE "erase", op |-> op]
       /\ UNCHANGED <<next_, id_, maps, thread, work, evs, kernel, report, dumper>>

\* Whether the entry is still the one it was before the lock was released.
Refreshed(op) == entries_[Slot(op)].id = op

\* The duration is computed without the lock, then stored.
setDuration ==
    /\ watchdog.at = "duration" /\ watchdog' = [watchdog EXCEPT !.at = "erase"]
    /\ entries_' = IF Refreshed(watchdog.op) THEN [entries_ EXCEPT ![Slot(watchdog.op)].duration = watchdog.op] ELSE entries_
    /\ UNCHANGED <<next_, id_, maps, thread, work, evs, kernel, report, dumper>>

eraseWork ==
    /\ watchdog.at = "erase" /\ watchdog' = Idle
    /\ work' = [work EXCEPT ![watchdog.op] = "gone"] /\ Release(watchdog.op)
    /\ UNCHANGED <<ring, maps, thread, kernel, report, dumper>>

\* The configuration and the status of the groups are read without the lock.
dumpMaps ==
    /\ dumper = "idle" /\ id_ > 0
    /\ DumpAnywhere \/ \A t \in Threads : thread[t].at # "launch"
    /\ dumper' = IF writing = {} THEN "entries" ELSE "torn"
    /\ UNCHANGED <<ring, maps, thread, work, evs, kernel, watchdog, report>>

\* Mutant: the ring is returned from its first slot.
Chronological_Unrotated == entries_
Chronological == SubSeq(entries_, next_ + 1, Len(entries_)) \o SubSeq(entries_, 1, next_)

dump_entries == [i \in 1..Len(entries_) |-> update_state(Chronological[i])]

StateOf(e) == IF e.completed THEN "completed" ELSE IF e.started THEN "started" ELSE "scheduled"

\* history: the events of the operation are its own and were recorded for it.
Sure(i) == kernel[i] # "none" /\ work[i] # "lost"

\* Both formats list the same.
getCollectiveTrace(result, onlyActive) ==
    LET all == [i \in 1..Len(result) |->
                  [id |-> result[i].id, state |-> StateOf(result[i]),
                   retired |-> result[i].retired, sure |-> Sure(result[i].id)]]
    IN IF onlyActive THEN SelectSeq(all, LAMBDA e : e.state # "completed") ELSE all

dump(onlyActive) ==
    /\ dumper = "entries" /\ dumper' = "idle"
    /\ DumpAnywhere \/ \A t \in Threads : thread[t].at # "launch"
    /\ report' = getCollectiveTrace(dump_entries, onlyActive)
    /\ UNCHANGED <<ring, maps, thread, work, evs, kernel, watchdog>>

Next ==
    \/ \E t \in Threads :
          \/ statusCheck(t) \/ statusInsert(t) \/ record(t) \/ recordCoalesced(t)
          \/ Launch(t) \/ LaunchThrows(t) \/ workEnqueue(t) \/ workNotEnqueued(t)
    \/ \E op \in Ids : UserDrops(op) \/ KernelSteps(op) \/ retire_id(op)
    \/ setDuration \/ eraseWork \/ dumpMaps
    \/ \E onlyActive \in BOOLEAN : dump(onlyActive)

Spec == Init /\ [][Next]_vars

-----------------------------------------------------------------------------
\* The last operations are all there, each in the slot its id names: getEntry
\* and retire_id find them. (record)
RecentFindable == \A i \in Ids : i < id_ /\ i >= id_ - MaxEntries => getEntry(i)

\* The events an entry borrows are those of its own Work, which is still alive:
\* nothing destroyed is queried and no other operation's state is shown.
\* (initWork, retire_id, SUPAEventCache::create)
BorrowedFrom(e) == owner[e.ev] = e.id
EventsBorrowedAlive == \A i \in 1..Len(entries_) : entries_[i].ev # Null => BorrowedFrom(entries_[i])

\* What holds of it: so it is of every operation whose Work the watchdog was given,
\* until it retires it; not of one that went with an exception or with its caller.
EventsBorrowedUnlessLost ==
    \A i \in 1..Len(entries_) :
       entries_[i].ev # Null => BorrowedFrom(entries_[i]) \/ work[entries_[i].id] = "lost"

\* A duration belongs to the operation of the entry that holds it, although
\* the ring may wrap while it is computed. (retire_id)
DurationOwn == \A i \in 1..Len(entries_) : entries_[i].duration \in {None, entries_[i].id}

\* A dump lists operations in the order they were recorded, and one that it
\* shows as completed or started is. (dump_entries, update_state)
ReportOrdered == \A i \in 1..(Len(report) - 1) : report[i].id < report[i + 1].id
StateTrue(e) ==
    /\ e.state = "completed" => kernel[e.id] = "done"
    /\ e.state = "started" => kernel[e.id] \in {"running", "done"}
DumpTruthful == ReportOrdered /\ \A i \in 1..Len(report) : StateTrue(report[i])

\* What holds of it: so it is of every operation that was launched when the dump
\* was made, and whose Work was not lost.
DumpTruthfulWhereSure ==
    ReportOrdered /\ \A i \in 1..Len(report) : report[i].sure => StateTrue(report[i])

\* No dump reads the maps while a thread changes them. (record, getPgStatus)
MapsNotTorn == dumper # "torn" /\ Cardinality(writing) <= 1
=============================================================================
