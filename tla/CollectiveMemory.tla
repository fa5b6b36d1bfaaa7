-------------------------- MODULE CollectiveMemory --------------------------
(* What keeps a tensor's memory from being reused while a collective still   *)
(* runs on the BCCL stream.  Kernels run on a stream of their own; memory    *)
(* that is dropped goes back to the user's stream at once unless the BCCL    *)
(* stream was recorded on it, a Work still refers to it, or the user's       *)
(* stream already waits for the kernel.  Calls made inside a group are only   *)
(* launched when the outermost group ends.                                   *)
EXTENDS Integers, FiniteSets

CONSTANTS
    Ops,                \* the operations the user calls
    AvoidModes,         \* values of TORCH_NCCL_AVOID_RECORD_STREAMS
    MaxCalls,           \* bound on the operations issued
    IsRoot,             \* whether this rank is the root of gather and scatter
    HoldOutputs,        \* the user holds the outputs until it has waited
    KeepWork,           \* the user holds the Work until it has waited
    HoldInBlock,        \* the user holds the tensors of a block until it ends
    UserBlocks,         \* the user opens coalescing blocks
    UserGroups,         \* the user calls _group_start and _group_end
    MayThrow            \* an operation inside a composite one may be refused

Composite == {"allgather_uneven", "reduce_scatter_uneven"}
Coalesced == {"allreduce_coalesced", "allgather_into_tensor_coalesced", "reduce_scatter_tensor_coalesced"}
PointToPoint == {"send", "recv"}
SyncOps == {"broadcast", "_allgather_base", "_reduce_scatter_base", "scatter"}

MemoryAssumption == MaxCalls \in Nat /\ AvoidModes \subseteq BOOLEAN

VARIABLES
    avoidRecordStreams_,
    held, rec,              \* tensors the user holds; with the BCCL stream recorded
    calls, uses, pos,       \* calls issued, the tensors and the launch of each (0: not launched)
    launches, finished,     \* the BCCL stream
    joined,                 \* launches the user's stream waits for
    works,
    block, coal, groups,    \* the user is in a block; coalescing_state_; bcclActiveGroupCounter_
    seqCollective_, seqP2P_,
    workMetaList_,          \* the works the watchdog was given
    how,                    \* history: the operation of a call, and whether a group besides
                            \* a block it was made in was open
    early                   \* history: given up while their kernels were not launched

alloc == <<held, rec>>
device == <<launches, finished, joined>>
state == <<block, coal, groups>>
seqs == <<seqCollective_, seqP2P_, workMetaList_>>
history == <<how, early>>
vars == <<avoidRecordStreams_, alloc, calls, uses, pos, device, works, state, seqs, history>>

In(c) == <<c, "in">>
Out(c) == <<c, "out">>
Flat(c) == <<c, "flat">>
Pending == {c \in 1..calls : pos[c] = 0}
NoCoal == [active |-> FALSE, coll |-> FALSE, p2p |-> FALSE, comm |-> FALSE]

Init ==
    /\ avoidRecordStreams_ \in AvoidModes
    /\ held = {} /\ rec = {} /\ calls = 0
    /\ uses = [c \in 1..MaxCalls |-> {}] /\ pos = [c \in 1..MaxCalls |-> 0]
    /\ launches = 0 /\ finished = 0 /\ joined = 0 /\ works = {}
    /\ block = FALSE /\ coal = NoCoal /\ groups = 0
    /\ seqCollective_ = 0 /\ seqP2P_ = 0 /\ workMetaList_ = {}
    /\ how = [c \in 1..MaxCalls |-> [op |-> "none", grouped |-> FALSE]] /\ early = {}

-----------------------------------------------------------------------------
\* What an operation hands to collective(): the inputs, the outputs, what its
\* function records besides the inputs, what its preprocessing stashes, and
\* what its kernels use.
Launch(ins, outs, recs, stash, used) ==
    [ins |-> ins, outs |-> outs, recs |-> recs, stash |-> stash, uses |-> used]

InPlace(c) == Launch({In(c)}, {In(c)}, {}, {}, {In(c)})
OutOfPlace(c) == Launch({In(c)}, {Out(c)}, {Out(c)}, {}, {In(c), Out(c)})

allreduce(c) == InPlace(c)
allreduce_coalesced(c) == InPlace(c)
broadcast(c) == InPlace(c)
reduce(c) == InPlace(c)
barrier(c) == InPlace(c)
_broadcast_oop(c) == Launch({In(c)}, {Out(c)}, {}, {}, {In(c), Out(c)})
_reduce_oop(c) == Launch({In(c)}, {Out(c)}, {}, {}, {In(c), Out(c)})
allgather(c) == Launch({In(c)}, {Flat(c)}, {Flat(c), Out(c)}, {}, {In(c), Out(c), Flat(c)})
allgather_into_tensor_coalesced(c) == Launch({In(c)}, {Out(c)}, {}, {}, {In(c), Out(c)})
reduce_scatter(c) == Launch({Flat(c)}, {Out(c)}, {Out(c), In(c)}, {In(c)}, {In(c), Out(c), Flat(c)})
_reduce_scatter_base(c) == OutOfPlace(c)
reduce_scatter_tensor_coalesced(c) == OutOfPlace(c)
alltoall_base(c) == OutOfPlace(c)
alltoall(c) == Launch({In(c)}, {Out(c)}, {}, {In(c), Out(c)}, {In(c), Out(c)})
gather(c) == IF IsRoot THEN OutOfPlace(c) ELSE Launch({In(c)}, {}, {}, {}, {In(c)})
\* The roles are swapped to fit the interface.
scatter(c) == IF IsRoot THEN Launch({Out(c)}, {In(c)}, {In(c)}, {}, {In(c), Out(c)})
                        ELSE Launch({Out(c)}, {}, {}, {}, {Out(c)})
_allgather_base(c) == OutOfPlace(c)
send(c) == Launch({In(c)}, {In(c)}, {}, {}, {In(c)})
recv(c) == Launch({Out(c)}, {Out(c)}, {}, {}, {Out(c)})

LaunchOf(op, c) ==
    CASE op = "allreduce" -> allreduce(c)
      [] op = "allreduce_coalesced" -> allreduce_coalesced(c)
      [] op = "broadcast" -> broadcast(c)
      [] op = "reduce" -> reduce(c)
      [] op = "barrier" -> barrier(c)
      [] op = "allgather" -> allgather(c)
      [] op = "allgather_uneven" -> _broadcast_oop(c)
      [] op = "allgather_into_tensor_coalesced" -> allgather_into_tensor_coalesced(c)
      [] op = "reduce_scatter" -> reduce_scatter(c)
      [] op = "reduce_scatter_uneven" -> _reduce_oop(c)
      [] op = "_reduce_scatter_base" -> _reduce_scatter_base(c)
      [] op = "reduce_scatter_tensor_coalesced" -> reduce_scatter_tensor_coalesced(c)
      [] op = "alltoall_base" -> alltoall_base(c)
      [] op = "alltoall" -> alltoall(c)
      [] op = "gather" -> gather(c)
      [] op = "scatter" -> scatter(c)
      [] op = "_allgather_base" -> _allgather_base(c)
      [] op = "send" -> send(c)
      [] op = "recv" -> recv(c)

\* The tensors the caller owns; the barrier's is internal.
UserTensors(op, l, c) == IF op = "barrier" THEN {} ELSE l.uses \cap {In(c), Out(c)}

-----------------------------------------------------------------------------
\* A Work: what it keeps alive, the launches its end event covers (0: never
\* recorded), whether the caller issued it outside a block and still has it.
Work(cs, l, avoid, end, own, seq, p2p) ==
    [calls |-> cs, stash |-> IF avoid THEN l.ins \cup l.stash ELSE {}, outs |-> l.outs,
     avoid |-> avoid, end |-> end, own |-> own, waited |-> FALSE, kept |-> TRUE,
     seq |-> seq, p2p |-> p2p]

\* The kernels of call c go to the stream, or wait for the end of the group.
LaunchKernels(c, l) ==
    /\ calls' = c /\ uses' = [uses EXCEPT ![c] = l.uses]
    /\ IF groups = 0 THEN pos' = [pos EXCEPT ![c] = launches + 1] /\ launches' = launches + 1
                     ELSE UNCHANGED <<pos, launches>>

\* Mutant: the inputs are not recorded.
Records_OutputsOnly(l, avoid) == IF avoid THEN {} ELSE l.recs
Records(l, avoid) == IF avoid THEN {} ELSE l.ins \cup l.recs

EndEvent == IF coal.active THEN 0 ELSE launches'

\* One number for a collective, and one for all collectives of a group.
BumpCollective == seqCollective_' = IF coal.active /\ coal.coll THEN seqCollective_ ELSE seqCollective_ + 1

\* The work goes to the watchdog, without what it keeps alive.
workEnqueue(w) == workMetaList_' = workMetaList_ \cup {[calls |-> w.calls, seq |-> w.seq, p2p |-> w.p2p]}

collective(c, l, avoid) ==
    LET w == Work({c}, l, avoid, EndEvent, ~block, seqCollective_', FALSE)
    IN /\ BumpCollective /\ LaunchKernels(c, l)
       /\ rec' = rec \cup Records(l, avoid)
       /\ coal' = IF coal.active THEN [coal EXCEPT !.coll = TRUE, !.comm = TRUE] ELSE coal
       /\ works' = works \cup {w}
       /\ IF coal.active THEN UNCHANGED workMetaList_ ELSE workEnqueue(w)
       /\ UNCHANGED seqP2P_

\* Records its end event and is enqueued inside a group too.
collectiveCoalesced(c, l, avoid) ==
    LET w == Work({c}, l, avoid, launches', ~block, seqCollective_', FALSE)
    IN /\ seqCollective_' = seqCollective_ + 1 /\ LaunchKernels(c, l)
       /\ rec' = rec \cup Records(l, avoid)
       /\ coal' = IF coal.active THEN [coal EXCEPT !.coll = TRUE, !.comm = TRUE] ELSE coal
       /\ works' = works \cup {w} /\ workEnqueue(w)
       /\ UNCHANGED seqP2P_

\* Always records, and has no Work inside a block.
pointToPoint(c, l) ==
    LET w == Work({c}, l, FALSE, launches', ~block, seqP2P_', TRUE)
    IN /\ seqP2P_' = IF coal.active THEN (IF coal.p2p THEN seqP2P_ ELSE seqP2P_ + 1)
                     ELSE IF groups = 0 THEN seqP2P_ + 1 ELSE seqP2P_
       /\ LaunchKernels(c, l) /\ rec' = rec \cup l.ins
       /\ coal' = IF coal.active THEN [coal EXCEPT !.p2p = TRUE, !.comm = TRUE] ELSE coal
       /\ IF coal.active THEN UNCHANGED <<works, workMetaList_>>
                         ELSE works' = works \cup {w} /\ workEnqueue(w)
       /\ UNCHANGED seqCollective_

\* A group is open besides that of the block; or what an operation left of
\* coalescing_state_ does not fit the block.
Grouped == groups > (IF block THEN 1 ELSE 0) \/ coal.active # block
Note(op, c) == how' = [how EXCEPT ![c] = [op |-> op, grouped |-> Grouped]]

\* A group inside of another one takes the state of that one away.
NoteNested(op, c, nested) ==
    how' = [x \in DOMAIN how |->
              IF x = c THEN [op |-> op, grouped |-> nested \/ Grouped]
              ELSE [how[x] EXCEPT !.grouped = @ \/ x \in Pending]]

\* The caller of a synchronous operation waits before it goes on.
Call(op, sync) ==
    LET c == calls + 1
        l == LaunchOf(op, c)
    IN /\ calls < MaxCalls /\ op \notin Composite /\ (sync => op \in SyncOps)
       /\ IF op \in PointToPoint THEN pointToPoint(c, l)
          ELSE IF op \in Coalesced THEN collectiveCoalesced(c, l, avoidRecordStreams_)
          ELSE collective(c, l, avoidRecordStreams_ \/ sync)
       /\ held' = held \cup UserTensors(op, l, c) /\ Note(op, c)
       /\ UNCHANGED <<avoidRecordStreams_, finished, joined, block, groups>>

-----------------------------------------------------------------------------
\* startCoalescing and groupStart.
Opened == [coal EXCEPT !.active = TRUE, !.comm = FALSE]

startCoalescing ==
    /\ UserBlocks /\ ~block /\ calls < MaxCalls /\ block' = TRUE
    /\ coal' = Opened /\ groups' = groups + 1
    /\ UNCHANGED <<avoidRecordStreams_, alloc, calls, uses, pos, device, works, seqs, how>>

\* What the end of the outermost group launches.
GroupEnd(depth, waiting) ==
    /\ groups' = depth
    /\ IF depth = 0 /\ waiting # {}
       THEN /\ pos' = [c \in DOMAIN pos |-> IF c \in waiting THEN launches + 1 ELSE pos[c]]
            /\ launches' = launches + 1
       ELSE UNCHANGED <<pos, launches>>

\* The Work of the group keeps nothing alive.
EmptyLaunch == Launch({}, {}, {}, {}, {})

endCoalescing ==
    /\ block /\ block' = FALSE /\ GroupEnd(groups - 1, Pending) /\ coal' = NoCoal
    /\ IF coal.comm
       THEN LET w == Work(Pending, EmptyLaunch, avoidRecordStreams_, launches', TRUE,
                          IF coal.p2p THEN seqP2P_ ELSE seqCollective_, coal.p2p)
            IN works' = works \cup {w} /\ workEnqueue(w)
       ELSE UNCHANGED <<works, workMetaList_>>
    /\ UNCHANGED <<avoidRecordStreams_, alloc, calls, uses, finished, joined, seqCollective_, seqP2P_, how>>

groupStart ==
    /\ UserGroups /\ groups = 0 /\ calls < MaxCalls /\ groups' = groups + 1
    /\ UNCHANGED <<avoidRecordStreams_, alloc, calls, uses, pos, device, works, block, coal, seqs, how>>

groupEnd ==
    /\ UserGroups /\ ~block /\ groups > 0 /\ GroupEnd(groups - 1, Pending)
    /\ UNCHANGED <<avoidRecordStreams_, alloc, calls, uses, finished, joined, works, block, coal, seqs, how>>

\* allgather and reduce_scatter of uneven sizes: a group with one operation per
\* rank, whose Works are dropped; only the own one has distinct tensors.
UnevenGroup(op) ==
    LET c == calls + 1
        l == LaunchOf(op, c)
        first == ~(coal.active /\ coal.coll)
        w == Work(Pending \cup {c}, EmptyLaunch, avoidRecordStreams_, launches', ~block, seqCollective_', FALSE)
    IN /\ op \in Ops \cap Composite /\ calls < MaxCalls
       /\ calls' = c /\ uses' = [uses EXCEPT ![c] = l.uses]
       /\ rec' = rec \cup Records(l, avoidRecordStreams_)
       /\ held' = held \cup l.uses /\ NoteNested(op, c, block)
       /\ seqCollective_' = IF first THEN seqCollective_ + 1 ELSE seqCollective_
       /\ GroupEnd(groups, Pending \cup {c}) /\ coal' = NoCoal
       /\ works' = works \cup {w} /\ workEnqueue(w)
       /\ UNCHANGED <<avoidRecordStreams_, finished, joined, block, seqP2P_>>

\* An operation of the group is refused: nobody ends the group.
UnevenGroupThrows(op) ==
    LET c == calls + 1
    IN /\ MayThrow /\ op \in Ops \cap Composite /\ calls < MaxCalls
       /\ calls' = c /\ NoteNested(op, c, TRUE) /\ coal' = Opened /\ groups' = groups + 1
       /\ UNCHANGED <<avoidRecordStreams_, alloc, uses, pos, device, works, block, seqs>>

-----------------------------------------------------------------------------
Joined(c) == pos[c] # 0 /\ pos[c] <= joined
Finished(c) == pos[c] # 0 /\ pos[c] <= finished

\* The user drops its last reference to a tensor.
Drop(t) ==
    /\ t \in held /\ held' = held \ {t}
    /\ HoldOutputs => t[2] = "in" \/ Joined(t[1]) \/ Finished(t[1])
    /\ HoldInBlock => t[1] \notin Pending
    /\ UNCHANGED <<avoidRecordStreams_, rec, calls, uses, pos, device, works, state, seqs, how>>

DropWork(w) ==
    /\ w \in works /\ w.kept /\ (KeepWork => w.waited)
    /\ works' = (works \ {w}) \cup {[w EXCEPT !.kept = FALSE]}
    /\ UNCHANGED <<avoidRecordStreams_, alloc, calls, uses, pos, device, state, seqs, how>>

\* The user's stream waits for the end event.
synchronizeStream(w) == joined' = IF w.end > joined THEN w.end ELSE joined

wait(w) ==
    /\ w \in works /\ w.kept /\ ~w.waited
    /\ synchronizeStream(w)
    /\ works' = (works \ {w}) \cup {[w EXCEPT !.waited = TRUE, !.stash = {}]}
    /\ UNCHANGED <<avoidRecordStreams_, alloc, calls, uses, pos, launches, finished, state, seqs, how>>

KernelDone ==
    /\ finished < launches /\ finished' = finished + 1
    /\ UNCHANGED <<avoidRecordStreams_, alloc, calls, uses, pos, launches, joined, works, state, seqs, how>>

\* A synchronous operation: nothing happens between the call and the wait.
SyncPending == {w \in works : w.avoid /\ ~avoidRecordStreams_ /\ ~w.waited /\ w.kept}

Step ==
    \/ \E w \in works : wait(w)
    \/ KernelDone
    \/ /\ SyncPending = {}
       /\ \/ \E op \in Ops, sync \in BOOLEAN : Call(op, sync)
          \/ \E op \in Ops : UnevenGroup(op) \/ UnevenGroupThrows(op)
          \/ startCoalescing \/ endCoalescing \/ groupStart \/ groupEnd
          \/ \E t \in held : Drop(t)
          \/ \E w \in works : DropWork(w)

\* What is alive: memory the user or a Work holds
Alive == held \cup UNION {w.stash \cup w.outs : w \in {v \in works : v.kept}}
Unlaunched == UNION {uses[c] : c \in Pending}

\* The streams recorded on memory count when it is given up, so those of memory
\* given up before the launch come too early.
Next == Step /\ early' = early \cup (Unlaunched' \ Alive')

Spec == Init /\ [][Next]_vars

-----------------------------------------------------------------------------
\* Memory of call c that is not given to anybody else before c has finished: it
\* is alive, or the BCCL stream was recorded on it and its kernels were launched
\* when it was given up, or the user's stream waits for them.
Kept(c, t) == t \in Alive \/ Joined(c) \/ (pos[c] # 0 /\ t \in rec \ early)

\* No memory goes back to the user's stream while a collective that uses it has
\* not finished (collective, collectiveCoalesced, pointToPoint, synchronizeStream).
NoEarlyReuse == \A c \in 1..calls : ~Finished(c) => \A t \in uses[c] : Kept(c, t)

\* What holds of it, whatever the user drops and when: it is so of all but the
\* outputs of the operations that record only their inputs, and the memory that
\* was given up inside a group, before its kernels were launched.
OutputsUnrecorded ==
    {"alltoall", "allgather_into_tensor_coalesced", "allgather_uneven", "reduce_scatter_uneven"}
EarlyReuseKnown ==
    \A c \in 1..calls : ~Finished(c) =>
        \A t \in uses[c] : \/ Kept(c, t)
                           \/ t = Out(c) /\ how[c].op \in OutputsUnrecorded
                           \/ t \in early

\* Waiting on a Work that was returned outside a block, or for a block, waits
\* for its kernels: its end event was recorded after they were launched, and
\* there is such a Work for every call. (collective, endCoalescing)
CoversCalls(cs) ==
    LET Covers(w, c) == w.own /\ pos[c] # 0 /\ pos[c] <= w.end
    IN /\ \A w \in works : w.own => \A c \in w.calls \cap cs : Covers(w, c)
       /\ ~block /\ groups = 0 => \A c \in cs : \E w \in works : c \in w.calls /\ Covers(w, c)
EndEventCovers == CoversCalls(1..calls)

\* What holds of it: so it is for the calls that were not made in a group the
\* user opened or an operation left open, nor in a block with one that opens
\* and ends a group of its own.
UngroupedCovered == CoversCalls({c \in 1..calls : ~how[c].grouped})

\* The watchdog and the flight recorder tell works apart by their number: no
\* two works of a kind have the same. (startCoalescing, initWork)
SeqDistinct ==
    \A v, w \in workMetaList_ : v.seq = w.seq /\ v.p2p = w.p2p => v = w
=============================================================================
