-------------------------- MODULE ForwardBackwardLinks --------------------------
(***************************************************************************)
(* generateForwardBackwardLinks (collection.cpp) draws an arrow from a     *)
(* forward operation to the backward operation that it caused.  They have  *)
(* the sequence number in common, and the backward one names the forward   *)
(* thread; but so do operations around them.  Operations are visited in    *)
(* the order of their ends.                                                *)
(***************************************************************************)
EXTENDS Integers, FiniteSets

CONSTANTS N,         \* number of operations
          Threads,   \* greater than 0; 0 stands for no forward thread
          Seqs,      \* sequence numbers
          MaxTime

Ops == 1..N
NoOp == 0
NoSeq == -1   \* the number of an operation that has none
\* Operations may overlap in any way, as those of asynchronous code do.
Spans == {s \in [tid : Threads, fwd : {0} \cup Threads, seq : Seqs \cup {NoSeq}, start : 0..MaxTime, end : 0..MaxTime] :
            s.start <= s.end}

VARIABLES op,       \* operation -> its span
          visited,
          tidSeq2activity,   \* <<thread, sequence number>> -> operation, or NoOp
          flow,     \* operation -> [id, start]; id 0 is no flow
          fwd_bwd_link_id
vars == <<op, visited, tidSeq2activity, flow, fwd_bwd_link_id>>

torch_events == {o \in Ops : op[o].seq >= 0}

Init ==
    /\ op \in {f \in [Ops -> Spans] : \A o \in 1..(N - 1) : f[o].start <= f[o + 1].start}
    /\ visited = {} /\ fwd_bwd_link_id = 1
    /\ tidSeq2activity = [k \in Threads \X Seqs |-> NoOp]
    /\ flow = [o \in Ops |-> [id |-> 0, start |-> FALSE]]

\* The thread and the number that a forward operation is filed under, and that
\* a backward one looks for.
getForwardThreadKey(o) == <<IF op[o].fwd > 0 THEN op[o].fwd ELSE op[o].tid, op[o].seq>>

Erased(key) == [tidSeq2activity EXCEPT ![key] = NoOp]

BackwardOp(o) ==
    LET key == getForwardThreadKey(o)
        fwd == tidSeq2activity[key]
    IN /\ op[o].fwd > 0
       /\ IF fwd = NoOp THEN UNCHANGED <<flow, tidSeq2activity, fwd_bwd_link_id>>
          ELSE /\ flow' = [flow EXCEPT ![fwd] = [id |-> fwd_bwd_link_id, start |-> TRUE],
                                       ![o].id = fwd_bwd_link_id]
               /\ fwd_bwd_link_id' = fwd_bwd_link_id + 1
               /\ tidSeq2activity' = Erased(key)

\* Of several forward operations the one that starts last is kept.
Later(o, old) == op[o].start >= op[old].start

ForwardOp(o) ==
    LET key == getForwardThreadKey(o)
        old == tidSeq2activity[key]
    IN /\ op[o].fwd = 0
       /\ tidSeq2activity' = IF old = NoOp \/ Later(o, old) THEN [tidSeq2activity EXCEPT ![key] = o]
                             ELSE tidSeq2activity
       /\ UNCHANGED <<flow, fwd_bwd_link_id>>

\* std::sort by the end leaves the order of equal ends open.
generateForwardBackwardLink ==
    \E o \in torch_events \ visited :
        /\ \A x \in torch_events \ visited : op[o].end <= op[x].end
        /\ BackwardOp(o) \/ ForwardOp(o)
        /\ visited' = visited \cup {o}
        /\ UNCHANGED op

Next == generateForwardBackwardLink
Spec == Init /\ [][Next]_vars

-----------------------------------------------------------------------------
Forward(o) == o \in torch_events /\ op[o].fwd = 0
Backward(o) == o \in torch_events /\ op[o].fwd > 0
Linked(f, b) == flow[f].id # 0 /\ flow[f].id = flow[b].id /\ flow[f].start /\ f # b

\* No "multiple 'end' flow events": an arrow has one start and one end, and they
\* agree in thread and number.
ArrowsPaired ==
    \A o \in Ops : flow[o].id # 0 =>
        \E p \in Ops \ {o} :
            /\ {x \in Ops : flow[x].id = flow[o].id} = {o, p}
            /\ flow[o].start # flow[p].start
            /\ Forward(o) # Forward(p)
            /\ getForwardThreadKey(o) = getForwardThreadKey(p)

\* In what a program does, the forward operations of a number have ended when
\* its first backward operation ends.
ForwardFirst == \A f, b \in Ops :
    Forward(f) /\ Backward(b) /\ getForwardThreadKey(f) = getForwardThreadKey(b) => op[f].end < op[b].end

\* "Among all ops with same sequence number, the one with biggest start time is
\* most likely launching backward op": the arrow begins there, and every
\* backward operation's number that has a forward operation gets one arrow.
ArrowFromLauncher ==
    visited = torch_events /\ ForwardFirst => \A b \in Ops : Backward(b) =>
        LET key == getForwardThreadKey(b)
            fwds == {f \in Ops : Forward(f) /\ getForwardThreadKey(f) = key}
        IN fwds # {} =>
             \E f \in fwds :
                /\ \A g \in fwds : op[g].start <= op[f].start
                /\ \E c \in Ops : Backward(c) /\ getForwardThreadKey(c) = key /\ Linked(f, c)
===============================================================================
