----------------------------- MODULE TransferEvents -----------------------------
(***************************************************************************)
(* TransferEvents (collection.cpp) merges what Kineto has collected into   *)
(* the profiler's own events.  Kineto returns a sequence of activities in  *)
(* any order: those the profiler passed to it, known by an index in their  *)
(* metadata, and its own: calls of the runtime and the device's work, with *)
(* the operation they are linked to and the flow that joins a launch and   *)
(* its kernel.                                                             *)
(***************************************************************************)
EXTENDS Integers, Sequences, FiniteSets, SequencesExt

CONSTANTS Ops,        \* operations of the profiler: numbers from 1
          Kineto,     \* Kineto's own activities: numbers after those
          Flows,      \* flow ids, 0 for no flow
          CurrentTid  \* at::RecordFunction::currentThreadId()

None == 0
noTID == -1
Acts == Ops \cup Kineto

\* A runtime call starts the flow of its kernels.
Activities == [link : {None} \cup Ops, flow : Flows, start : BOOLEAN]

VARIABLES
    act,       \* Kineto's activity -> what it says of itself
    tid,       \* event -> start_tid_
    trace,     \* trace_activities_, the part that is still to be visited
    results,   \* results_, in order
    kineto_activity_,  \* operation -> whether its activity was found
    flow_map,  \* flow id -> the event that starts it, or None
    parent, children, finished,
    phase,     \* "reassociate", "extract", "first", "second", "tids", "done"
    todo,      \* results that the present loop has still to visit
    failed,    \* an assertion failed
    order      \* ghost: the trace
vars == <<act, tid, trace, results, kineto_activity_, flow_map, parent, children,
          finished, phase, todo, failed, order>>

\* Launches have different flows; a flow may lack its launch.
WellFormed(a) ==
    /\ \A k \in Kineto : a[k].start => a[k].flow # 0
    /\ \A k, m \in Kineto : a[k].start /\ a[m].start /\ k # m => a[k].flow # a[m].flow

\* Operations run on threads of their own.  Where their activities are in the
\* trace matters only as before or after Kineto's.
OpsSeq == SetToSortSeq(Ops, LAMBDA a, b : a < b)

Init ==
    /\ act \in {a \in [Kineto -> Activities] : WellFormed(a)}
    /\ tid = [e \in Acts |-> IF e \in Ops THEN e ELSE noTID]
    /\ \E s \in SetToSeqs(Kineto) : order \in {OpsSeq \o s, s \o OpsSeq}
    /\ trace = order
    /\ results = OpsSeq
    /\ kineto_activity_ = {} /\ finished = {} /\ failed = FALSE
    /\ flow_map = [f \in Flows |-> None]
    /\ parent = [e \in Acts |-> None] /\ children = [e \in Acts |-> {}]
    /\ phase = "reassociate" /\ todo = <<>>

-----------------------------------------------------------------------------
\* lookup finds an operation by the index in its activity.
reassociate ==
    /\ phase = "reassociate" /\ trace # <<>>
    /\ failed' = (failed \/ Head(trace) \in kineto_activity_)
    /\ kineto_activity_' = IF Head(trace) \in Ops THEN kineto_activity_ \cup {Head(trace)} ELSE kineto_activity_
    /\ trace' = Tail(trace)
    /\ UNCHANGED <<act, tid, results, flow_map, parent, children, finished, phase, todo, order>>

\* toResult makes an event of an activity that is not the profiler's.
extractEventsFromTrace ==
    LET a == Head(trace) IN
    /\ phase = "extract" /\ trace # <<>>
    /\ results' = IF a \in Kineto THEN Append(results, a) ELSE results
    /\ trace' = Tail(trace)
    /\ UNCHANGED <<act, tid, kineto_activity_, flow_map, parent, children, finished, phase, todo, failed, order>>

\* First pass: the launches, and the linked operation as the parent.
setParents_first ==
    LET e == Head(todo) IN
    /\ phase = "first" /\ todo # <<>>
    /\ todo' = Tail(todo)
    /\ IF e \in Ops THEN UNCHANGED <<flow_map, parent, failed>>
       ELSE /\ IF act[e].start
               THEN /\ failed' = (failed \/ flow_map[act[e].flow] # None)
                    /\ flow_map' = [flow_map EXCEPT ![act[e].flow] = e]
               ELSE UNCHANGED <<failed, flow_map>>
            /\ parent' = [parent EXCEPT ![e] = act[e].link]
    /\ UNCHANGED <<act, tid, trace, results, kineto_activity_, children, finished, phase, order>>

\* "Flow takes priority over linked event."
FlowParent_Link(e) == parent[e]
FlowParent(e) == IF act[e].flow # 0 /\ flow_map[act[e].flow] # None /\ ~act[e].start
                 THEN flow_map[act[e].flow] ELSE parent[e]

setParents_second ==
    LET e == Head(todo) IN
    /\ phase = "second" /\ todo # <<>>
    /\ todo' = Tail(todo)
    /\ IF e \in Ops THEN UNCHANGED <<parent, children, finished, failed>>
       ELSE LET p == FlowParent(e) IN
            /\ parent' = [parent EXCEPT ![e] = p]
            /\ children' = IF p = None THEN children ELSE [children EXCEPT ![p] = @ \cup {e}]
            /\ finished' = IF p = None THEN finished ELSE finished \cup {e}
            /\ failed' = (failed \/ (p # None /\ e \in finished))
    /\ UNCHANGED <<act, tid, trace, results, kineto_activity_, flow_map, phase, order>>

\* setKinetoTID visits the tree under an event that has no parent: two levels
\* under an operation, the launch and the kernel.
Below(e) == children[e] \cup UNION {children[c] : c \in children[e]}
Inherited(e, root) == IF root \in Ops THEN tid[root] ELSE CurrentTid

Root(e) == parent[e] = None

setKinetoTID ==
    LET e == Head(todo)
        visited == ({e} \cup Below(e)) \ Ops
    IN
    /\ phase = "tids" /\ todo # <<>>
    /\ todo' = Tail(todo)
    /\ IF ~Root(e) THEN UNCHANGED <<tid, failed>>
       ELSE /\ failed' = (failed \/ \E x \in visited : tid[x] # noTID)
            /\ tid' = [x \in Acts |-> IF x \in visited THEN Inherited(x, e) ELSE tid[x]]
    /\ UNCHANGED <<act, trace, results, kineto_activity_, flow_map, parent, children, finished, phase, order>>

\* One loop after another.
Loops == <<"reassociate", "extract", "first", "second", "tids", "done">>
NextLoop ==
    LET i == CHOOSE j \in DOMAIN Loops : Loops[j] = phase IN
    /\ phase # "done" /\ ~failed
    /\ IF i <= 2 THEN trace = <<>> ELSE todo = <<>>
    /\ phase' = Loops[i + 1]
    /\ trace' = IF i = 1 THEN order ELSE <<>>
    /\ todo' = IF i \in 2..4 THEN results ELSE <<>>
    /\ UNCHANGED <<act, tid, results, kineto_activity_, flow_map, parent, children, finished, failed, order>>

Next == \/ reassociate \/ extractEventsFromTrace \/ setParents_first \/ setParents_second
        \/ setKinetoTID \/ NextLoop
Spec == Init /\ [][Next]_vars

-----------------------------------------------------------------------------
Launch(k) == {m \in Kineto : act[m].start /\ act[m].flow = act[k].flow /\ act[k].flow # 0}

\* The assertions hold: no event is finished twice or gets a thread twice.
AssertionsHold == ~failed

\* Whatever the order of the trace, a kernel is under its launch and the launch
\* under its operation, "at::add -> cudaLaunchKernel -> at::vectorized"; without
\* a launch it is under the operation it is linked to.
KernelsUnderLaunch ==
    phase = "done" => \A k \in Kineto :
        parent[k] = IF ~act[k].start /\ Launch(k) # {} THEN CHOOSE m \in Launch(k) : TRUE ELSE act[k].link

\* Every event of Kineto has the thread of the operation that it comes from, if
\* that is known, and nothing is left without a thread.
RECURSIVE RootOf(_)
RootOf(e) == IF parent[e] = None THEN e ELSE RootOf(parent[e])
ThreadOfCause ==
    phase = "done" => \A e \in Acts :
        tid[e] = IF RootOf(e) \in Ops THEN tid[RootOf(e)] ELSE CurrentTid
===============================================================================
