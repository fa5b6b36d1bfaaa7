--------------------------- MODULE MemoryHistory ---------------------------
(* The allocation history and the snapshots of the caching allocator:        *)
(* record_trace, recordHistory, trace, snapshot and maybeGatherContext of    *)
(* core/supa/SUPACachingAllocator.cpp and the functions of                   *)
(* supa/memory_snapshot.cpp on top of them.  One device (of several, each    *)
(* gives its trace and its segments at moments of its own); threads          *)
(* allocate, free and take snapshots.                                        *)
EXTENDS Integers, Sequences, FiniteSets, SequencesExt

CONSTANTS Threads, Blocks,
          Maxes,       \* max_entries that recordHistory is given
          Reconfigure, \* may recordHistory be called while history is enabled?
          MaxEvents    \* bound on the events since history was enabled
HistoryAssumption == Maxes \subseteq Nat \ {0} /\ Reconfigure \in BOOLEAN /\ MaxEvents \in Nat

\* RecordContext
CONTEXT_NEVER == 0
CONTEXT_STATE == 1
CONTEXT_ALL == 3

VARIABLES enabled,   \* record_history
          recorder,  \* context_recorder_ is not null
          level,     \* record_context_
          max,       \* alloc_trace_max_entries_
          ring,      \* [trace, next, oob]: alloc_trace, alloc_trace_next, and
                     \* whether an entry was written outside of alloc_trace
          state,     \* of every block
          pc,        \* of every thread: [at, op, b]
          shot,      \* the last snapshot: [trace, segs], whole if at is "whole"; from and
                     \* to are the length of log when each half was taken
          log        \* every event since history was enabled
vars == <<enabled, recorder, level, max, ring, state, pc, shot, log>>

Idle == [at |-> "idle", op |-> "none", b |-> 0]
NoShot == [at |-> "none", trace |-> <<>>, segs |-> [b \in Blocks |-> "inactive"],
           from |-> 0, to |-> 0]
Init ==
    /\ enabled = FALSE /\ recorder = FALSE /\ level = CONTEXT_NEVER /\ max = 1
    /\ ring = [trace |-> <<>>, next |-> 0, oob |-> FALSE]
    /\ state = [b \in Blocks |-> "inactive"]
    /\ pc = [t \in Threads |-> Idle] /\ shot = NoShot /\ log = <<>>

-----------------------------------------------------------------------------
(* The ring.                                                                 *)

Entry(act, b) == <<act, b>>
wrap(n) == IF n = max THEN 0 ELSE n
record_trace(r, e) ==
    IF Len(r.trace) < max THEN [r EXCEPT !.trace = Append(@, e)]
    ELSE IF r.next < Len(r.trace)
         THEN [r EXCEPT !.trace[r.next + 1] = e, !.next = wrap(@ + 1)]
         ELSE [r EXCEPT !.oob = TRUE, !.next = wrap(@ + 1)]
Recorded(es) ==
    /\ ring' = IF enabled THEN FoldLeft(record_trace, ring, es) ELSE ring
    /\ log' = IF enabled THEN log \o es ELSE log
    /\ Len(log') <= MaxEvents

\* trace: the entries from alloc_trace_next on come first.
trace(r) == SubSeq(r.trace, r.next + 1, Len(r.trace)) \o SubSeq(r.trace, 1, r.next)

\* recordHistory of the device's allocator.
KeepsRecorder(on) == on
recordHistory(t, on, m, when) ==
    /\ pc[t] = Idle
    /\ Reconfigure \/ ~on \/ ~enabled
    /\ enabled' = on /\ recorder' = KeepsRecorder(on) /\ max' = m
    /\ level' = IF on THEN when ELSE CONTEXT_NEVER
    /\ ring' = IF on THEN ring ELSE [ring EXCEPT !.trace = <<>>, !.next = 0]
    /\ log' = IF on THEN log ELSE <<>>
    /\ shot' = NoShot
    /\ UNCHANGED <<state, pc>>

\* _record_memory_history: the maximum counts for "all" only.
record_memory_history(t, what, m, when) ==
    recordHistory(t, what # "none", IF what = "all" THEN m ELSE 1, when)

-----------------------------------------------------------------------------
(* Threads.                                                                  *)

\* maybeGatherContext: the level is read without the lock, then the recorder is
\* called.  A free names its block, which the front end has given up by then.
Goto(t, at, op, b) == pc' = [pc EXCEPT ![t] = [at |-> at, op |-> op, b |-> b]]
Owned(b) == \E t \in Threads : pc[t].op = "free" /\ pc[t].b = b
begin(t, op, b) ==
    /\ pc[t] = Idle
    /\ op = "free" => state[b] = "allocated" /\ ~Owned(b)
    /\ Goto(t, IF level < (IF op = "free" THEN CONTEXT_ALL ELSE CONTEXT_STATE) THEN "run" ELSE "call", op, b)
    /\ UNCHANGED <<enabled, recorder, level, max, ring, state, shot, log>>
gather(t) ==
    /\ pc[t].at = "call" /\ recorder
    /\ Goto(t, "run", pc[t].op, pc[t].b)
    /\ UNCHANGED <<enabled, recorder, level, max, ring, state, shot, log>>

\* malloc, after process_events freed the blocks in done: a block or out of memory.
malloc(t, done, b) ==
    LET settled == [x \in Blocks |-> IF x \in done THEN "inactive" ELSE state[x]]
        completed == SetToSeq({Entry("free_completed", x) : x \in done})
        free == {x \in Blocks : settled[x] = "inactive"}
    IN
    /\ pc[t].at = "run" /\ pc[t].op = "malloc" /\ Goto(t, "idle", "none", 0)
    /\ IF free = {} THEN state' = settled /\ b \in Blocks /\ Recorded(completed \o <<Entry("oom", 0)>>)
       ELSE /\ b \in free /\ state' = [settled EXCEPT ![b] = "allocated"]
            /\ Recorded(completed \o <<Entry("alloc", b)>>)
    /\ UNCHANGED <<enabled, recorder, level, max, shot>>

\* free: a block that another stream used waits for its events.
FreeEntries_Requested(b, uses) == <<Entry("free_requested", b)>>
FreeEntries(b, uses) ==
    <<Entry("free_requested", b)>> \o (IF uses THEN <<>> ELSE <<Entry("free_completed", b)>>)
free(t, uses) ==
    /\ pc[t].at = "run" /\ pc[t].op = "free" /\ Goto(t, "idle", "none", 0)
    /\ state' = [state EXCEPT ![pc[t].b] = IF uses THEN "pending" ELSE "inactive"]
    /\ Recorded(FreeEntries(pc[t].b, uses))
    /\ UNCHANGED <<enabled, recorder, level, max, shot>>

\* segmentInfoToDict: what a snapshot calls the state of a block.
StateName(st) == CASE st = "allocated" -> "active_allocated" [] st = "pending" -> "active_pending_free"
                   [] OTHER -> "inactive"

\* snapshot of NativeCachingAllocator: the trace of the device, then its segments.
snapshotTrace(t) ==
    /\ pc[t] = Idle /\ ~\E u \in Threads : pc[u].op = "snapshot"
    /\ shot' = [NoShot EXCEPT !.trace = trace(ring), !.from = Len(log)]
    /\ Goto(t, "segments", "snapshot", 0)
    /\ UNCHANGED <<enabled, recorder, level, max, ring, state, log>>
snapshotSegments(t) ==
    /\ pc[t].at = "segments"
    /\ shot' = [shot EXCEPT !.at = "whole", !.segs = [b \in Blocks |-> StateName(state[b])],
                             !.to = Len(log)]
    /\ Recorded(<<Entry("snapshot", 0)>>) /\ Goto(t, "idle", "none", 0)
    /\ UNCHANGED <<enabled, recorder, level, max, state>>

Next ==
    \E t \in Threads :
          \/ \E what \in {"none", "state", "all"}, m \in Maxes, when \in {CONTEXT_NEVER, CONTEXT_STATE, CONTEXT_ALL} :
                record_memory_history(t, what, m, when)
          \/ begin(t, "malloc", 0) \/ gather(t)
          \/ \E b \in Blocks : begin(t, "free", b)
          \/ \E b \in Blocks, done \in SUBSET {x \in Blocks : state[x] = "pending"} : malloc(t, done, b)
          \/ \E uses \in BOOLEAN : free(t, uses)
          \/ snapshotTrace(t) \/ snapshotSegments(t)
Spec == Init /\ [][Next]_vars

-----------------------------------------------------------------------------
(* Properties.                                                               *)

\* The trace is the most recent events, oldest first, as many as were asked for
\* (record_trace, trace).
TraceIsHistory == enabled =>
    /\ ~ring.oob
    /\ trace(ring) = SubSeq(log, IF Len(log) > max THEN Len(log) - max + 1 ELSE 1, Len(log))

\* The trace lists events in the order they happened, also if its size was
\* changed in between (recordHistory, record_trace, trace).
HistoryOrdered == enabled => trace(ring) = SubSeq(log, Len(log) - Len(ring.trace) + 1, Len(log))

\* No entry is written outside of the vector (recordHistory, record_trace).
WrittenInside == ~ring.oob

\* The segments es leads to, if it starts with all blocks inactive.
LastAct(es, b) == LET is == {i \in DOMAIN es : es[i][2] = b} IN
    IF is = {} THEN "none" ELSE es[CHOOSE i \in is : \A j \in is : j <= i][1]
LeadsTo(es, segs) == \A b \in Blocks :
    LET last == LastAct(es, b) IN
    /\ last = "alloc" => segs[b] = "active_allocated"
    /\ last = "free_requested" => segs[b] = "active_pending_free"
    /\ last = "free_completed" => segs[b] = "inactive"

\* The segments of a snapshot are the ones its trace leads to, continued by what
\* was recorded between the two acquisitions of the mutex: the trace lacks the
\* events of that time and no others, and the segments show all of them
\* (snapshot, trace; the ring has not dropped anything).
SnapshotExplained == shot.at = "whole" /\ shot.from <= max =>
    LeadsTo(shot.trace \o SubSeq(log, shot.from + 1, shot.to), shot.segs)

\* A snapshot is the state "at the time it was called" (memory.py:742): its
\* trace leads to its segments.  The two acquisitions break it (snapshot).
SnapshotConsistent == shot.at = "whole" /\ shot.from <= max => LeadsTo(shot.trace, shot.segs)

\* A snapshot gives a block one of the states its format has (_memory_snapshot_pickled).
StatesDocumented == \A b \in Blocks : shot.segs[b] \in {"active_allocated", "active_awaiting_free", "inactive"}

\* A thread that found contexts to be recorded can call the recorder
\* (maybeGatherContext, recordHistory).
RecorderCallable == \A t \in Threads : pc[t].at = "call" => recorder

=============================================================================
