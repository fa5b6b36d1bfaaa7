----------------------------- MODULE PythonTracer -----------------------------
(***************************************************************************)
(* The profiler's record of Python calls (profiler_python.cpp).            *)
(* PythonTracer registers a profile function with every thread of the      *)
(* interpreter, enters the frames that are already there, and then notes   *)
(* each call and the time of each return.  Returns do not say what         *)
(* returned: PostProcess replays the times, one stack per thread, Python   *)
(* and C calls apart, to find out when each call ended.                    *)
(*                                                                         *)
(* A step holds the interpreter's lock.  The clock advances with every     *)
(* event, so that no two events have the same time.                        *)
(***************************************************************************)
EXTENDS Integers, Sequences, FiniteSets, SequencesExt

CONSTANTS Threads, Profilers,
          MaxStartDepth,   \* frames of a thread that are entered at the start (128)
          InitialDepth,    \* bound on the frames a thread has to begin with
          MaxDepth,        \* bound on the depth of a stack
          MaxTime,         \* bound on the clock
          None

VARIABLES
    clock,
    stack,       \* per thread: the frames of the interpreter
    profile,     \* per thread: c_profilefunc, the tracer it reports to
    session,     \* per thread: the profiler it has enabled (thread local)
    tracers,     \* per profiler: its state and what it has recorded
    out,         \* per profiler: the events that disableProfiler returns
    returned,    \* ghost: when frames really returned
    crashed
vars == <<clock, stack, profile, session, tracers, out, returned, crashed>>

NoTID == 0
Kinds == {"py", "c"}
NewTracer == [active |-> FALSE, enters |-> <<>>, exits |-> <<>>]

\* A frame is known by its thread and the time of its call.
Frame(t, n, kind, traced) == [tid |-> t, n |-> n, kind |-> kind, traced |-> traced]

\* The frames of a thread whose depth is n when the model begins.
InitialFrames(t, n) ==
    LET f[i \in 0..n] == IF i = 0 THEN <<>> ELSE Append(f[i - 1], Frame(t, i - MaxDepth - 1, "py", FALSE))
    IN f[n]

Init ==
    /\ clock = 0
    /\ \E d \in [Threads -> 0..InitialDepth] : stack = [t \in Threads |-> InitialFrames(t, d[t])]
    /\ profile = [t \in Threads |-> None] /\ session = [t \in Threads |-> None]
    /\ tracers = [p \in Profilers |-> NewTracer]
    /\ out = [p \in Profilers |-> None]
    /\ returned = {} /\ crashed = FALSE

Tick == clock < MaxTime /\ clock' = clock + 1

-----------------------------------------------------------------------------
(* Recording                                                               *)

Enter(f, sys, time) == [frame |-> f, tid |-> f.tid, sys |-> sys, t |-> time]

\* The frames of a thread, outermost first, no deeper than MaxStartDepth.
PyFrames(t) == SelectSeq(stack[t], LAMBDA f : f.kind = "py")
StartFrames(t, time) ==
    LET fs == PyFrames(t)
        from == IF Len(fs) > MaxStartDepth THEN Len(fs) - MaxStartDepth + 1 ELSE 1
    IN FoldLeft(LAMBDA s, f : Append(s, Enter(f, NoTID, time)), <<>>, SubSeq(fs, from, Len(fs)))

\* enableProfiler makes a tracer.  active_lock_ belongs to the tracer, so the
\* exchange always succeeds.
PythonTracer(t, p) ==
    /\ session[t] = None /\ ~tracers[p].active /\ out[p] = None
    /\ Tick
    /\ tracers' = [tracers EXCEPT ![p] =
           [active |-> TRUE, exits |-> <<>>,
            enters |-> FoldLeft(LAMBDA s, u : s \o StartFrames(u, clock'), <<>>,
                                SetToSeq(Threads))]]
    /\ profile' = [u \in Threads |-> p]
    /\ session' = [session EXCEPT ![t] = p]
    /\ UNCHANGED <<stack, out, returned, crashed>>

\* pyProfileFn: PyTrace_CALL, PyTrace_C_CALL.
recordCall(t, f, kind) ==
    [tracers EXCEPT ![profile[t]].enters = Append(@, Enter(f, t, clock + 1))]

Call(t, kind) ==
    LET f == Frame(t, clock + 1, kind, profile[t] # None) IN
    /\ Len(stack[t]) < MaxDepth
    /\ kind = "c" => stack[t] # <<>>
    /\ Tick
    /\ stack' = [stack EXCEPT ![t] = Append(@, f)]
    /\ tracers' = IF profile[t] = None THEN tracers ELSE recordCall(t, f, kind)
    /\ UNCHANGED <<profile, session, out, returned, crashed>>

\* PyTrace_RETURN, PyTrace_C_RETURN and the exceptions.  The interpreter
\* reports the return of a C function only if it has reported the call.
Reported(t, f) == profile[t] # None /\ (f.kind = "c" => f.traced)

Return(t) ==
    LET f == Last(stack[t]) IN
    /\ stack[t] # <<>>
    /\ Tick
    /\ stack' = [stack EXCEPT ![t] = Front(@)]
    /\ returned' = returned \cup {[frame |-> f, t |-> clock + 1]}
    /\ tracers' = IF ~Reported(t, f) THEN tracers
                  ELSE [tracers EXCEPT ![profile[t]].exits =
                           Append(@, [t |-> clock + 1, tid |-> t, kind |-> f.kind])]
    /\ UNCHANGED <<profile, session, out, crashed>>

-----------------------------------------------------------------------------
(* PostProcess                                                             *)

pop(r, exit) ==
    IF r.stacks[exit.tid] = <<>> THEN [r EXCEPT !.failed = TRUE]
    ELSE [r EXCEPT !.stacks[exit.tid] = Front(@),
                   !.ends = @ \cup {[enter |-> Last(r.stacks[exit.tid]), t |-> exit.t]}]

\* The returns before a call are popped, then the call is pushed.
Before(x, enter) == x.t < enter.t
PopUntil(r, enter) ==
    LET due == SelectSeq(r.exits, LAMBDA x : Before(x, enter))
    IN [FoldLeft(pop, r, due) EXCEPT !.exits = SelectSeq(r.exits, LAMBDA x : ~Before(x, enter))]
Push(r, enter) ==
    LET q == PopUntil(r, enter) IN [q EXCEPT !.stacks[enter.tid] = Append(@, enter)]

\* Who is still on a stack was running when profiling ended.
StillRunning(r, end) ==
    UNION {{[enter |-> r.stacks[t][i], t |-> end] : i \in DOMAIN r.stacks[t]} : t \in Threads}

\* A frame from before the start gets the system thread of the next event of
\* its Python thread.
NextOf(enters, i) == {j \in DOMAIN enters : /\ j > i /\ enters[j].sys # NoTID
                                            /\ enters[j].tid = enters[i].tid}
SystemTid(enters, i) ==
    IF enters[i].sys # NoTID THEN enters[i].sys
    ELSE LET next == NextOf(enters, i)
         IN IF next = {} THEN NoTID
            ELSE enters[CHOOSE j \in next : \A k \in next : j <= k].sys

\* addExits: C calls have returns of their own.
ExitsOf(p, kind) == SelectSeq(tracers[p].exits, LAMBDA x : x.kind = kind)

populate(p, kind, end) ==
    LET enters == SelectSeq(tracers[p].enters, LAMBDA e : e.frame.kind = kind)
        r == FoldLeft(Push, [stacks |-> [t \in Threads |-> <<>>], ends |-> {}, failed |-> FALSE,
                             exits |-> ExitsOf(p, kind)],
                      enters)
    IN [failed |-> r.failed, kind |-> kind, at |-> end,
        last |-> IF enters = <<>> THEN 0 ELSE Last(enters).t,
        ends |-> r.ends \cup StillRunning(r, end),
        tids |-> {[enter |-> enters[i], sys |-> SystemTid(enters, i)] : i \in DOMAIN enters}]

\* disableProfiler: stop, getEvents.  stop removes the profile function of
\* every thread that has one.
disableProfiler(t) ==
    LET p == session[t] IN
    /\ p # None
    /\ Tick
    /\ profile' = [u \in Threads |-> None]
    /\ session' = [session EXCEPT ![t] = None]
    /\ tracers' = [tracers EXCEPT ![p] = NewTracer]
    /\ out' = [out EXCEPT ![p] = [kind \in Kinds |-> populate(p, kind, clock + 1)]]
    /\ UNCHANGED <<stack, returned, crashed>>

\* Without a profiler its config() is read before the pointer is checked.
disableProfiler_idle(t) ==
    /\ session[t] = None /\ crashed' = TRUE
    /\ UNCHANGED <<clock, stack, profile, session, tracers, out, returned>>

Steps == \E t \in Threads :
    \/ \E p \in Profilers : PythonTracer(t, p)
    \/ \E kind \in Kinds : Call(t, kind)
    \/ Return(t) \/ disableProfiler(t) \/ disableProfiler_idle(t)
Next == ~crashed /\ Steps

Spec == Init /\ [][Next]_vars

-----------------------------------------------------------------------------
Finished == {p \in Profilers : out[p] # None}
Results == UNION {{out[p][k] : k \in Kinds} : p \in Finished}
ReturnOf(f) == {x \in returned : x.frame = f}

\* "Python replay stack is empty." never happens: there is a call on the stack
\* for every return that was noted.
ReplayStackNonEmpty == \A r \in Results : ~r.failed

\* The replay pairs calls and returns as the interpreter did, whatever other
\* threads do: a call that returned before the last call that was noted ends
\* when it returned, any other one at the end of the profile.
CallsEndAtReturn ==
    \A r \in Results : ~r.failed => \A e \in r.ends :
        LET x == {y \in ReturnOf(e.enter.frame) : y.t < r.last}
        IN e.t = IF x = {} THEN r.at ELSE (CHOOSE y \in x : TRUE).t

\* Frames from before the start are shown on their own thread or on none.
StartFramesOnOwnThread ==
    \A r \in Results : \A e \in r.tids : e.sys \in {e.enter.tid, NoTID}

\* "There is already an active Python tracer.  Refusing to register profile
\* functions.": at most one tracer is active.
OneActiveTracer == Cardinality({p \in Profilers : tracers[p].active}) <= 1

\* "Can't disable Kineto profiler when it's not running" is an error the caller
\* gets, not the end of the process.
DisableIsChecked == ~crashed
===============================================================================
