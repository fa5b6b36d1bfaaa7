--------------------------- MODULE IpcHandleCache ---------------------------
(* Device memory received from another process.  The sender names a block by  *)
(* a handle of its segment and an offset; the receiver opens a handle once,   *)
(* keeps it in a cache behind a weak pointer, and closes it when the last     *)
(* shared pointer goes.  The last reference is dropped without IpcMutex; the  *)
(* deleter takes it.                                                          *)
EXTENDS Integers, FiniteSets, SequencesExt

CONSTANTS
    Threads, Segments,
    Sizes, MaxBlocks,   \* sizes of blocks; bound on the blocks of a segment
    MaxRefs             \* bound on the references a receiver holds to a handle

VARIABLES
    layout,                     \* the sender's segments
    ipcMemHandle_to_devptr,     \* handles in the cache
    refs,                       \* shared pointers to each handle's entry
    opened,                     \* how often a handle is open in the driver
    views,                      \* received blocks: segment, block and offset
    pc,
    asserted                    \* the assertions that failed

vars == <<layout, ipcMemHandle_to_devptr, refs, opened, views, pc, asserted>>

Idle == "idle"
Init ==
    /\ layout \in [Segments -> UNION {[1..n -> Sizes] : n \in 1..MaxBlocks}] /\ ipcMemHandle_to_devptr = {} /\ refs = [g \in Segments |-> 0]
    /\ opened = [g \in Segments |-> 0] /\ views = {} /\ pc = [t \in Threads |-> Idle] /\ asserted = {}

-----------------------------------------------------------------------------
Sum(s) == FoldLeft(LAMBDA a, b : a + b, 0, s)
\* Where a block is, and the first block of its segment, found along prev.
PtrOf(g, k) == Sum(SubSeq(layout[g], 1, k - 1))
base_block(k) == CHOOSE b \in 1..k : \A j \in 1..k : b <= j

\* getBaseAllocation: the segment's first address and its size.
getBaseAllocation(g, k) == [ptr |-> PtrOf(g, base_block(k)), size |-> Sum(SubSeq(layout[g], base_block(k), Len(layout[g])))]

Offset(g, k) == PtrOf(g, k) - PtrOf(g, base_block(k))
shareIpcHandle(g, k) == [handle |-> g, offset |-> Offset(g, k)]

\* getIpcDevPtr, under IpcMutex: a handle in the cache gives its pointer, which
\* must not have expired; otherwise the handle is opened.
\* Mutant: a handle is opened although it is in the cache.
Cached_Never(g) == FALSE
Cached(g) == g \in ipcMemHandle_to_devptr

\* The last reference is gone, and its deleter has still to take IpcMutex.
Dropping(g) == \E t \in Threads : pc[t] = g

getIpcDevPtr(t, g, k) ==
    /\ pc[t] = Idle /\ refs[g] < MaxRefs
    /\ IF Cached(g) /\ refs[g] = 0
       THEN asserted' = asserted \cup {IF Dropping(g) THEN "raced" ELSE "lookup"} /\ UNCHANGED <<ipcMemHandle_to_devptr, refs, opened, views>>
       ELSE /\ refs' = [refs EXCEPT ![g] = @ + 1]
            /\ opened' = IF Cached(g) THEN opened ELSE [opened EXCEPT ![g] = @ + 1]
            /\ ipcMemHandle_to_devptr' = ipcMemHandle_to_devptr \cup {g}
            /\ views' = views \cup {[seg |-> g, block |-> k, offset |-> shareIpcHandle(g, k).offset]}
            /\ UNCHANGED asserted
    /\ UNCHANGED <<layout, pc>>

\* A shared pointer goes; the last one runs the deleter.
drop(t, g) ==
    /\ pc[t] = Idle /\ refs[g] > 0 /\ refs' = [refs EXCEPT ![g] = @ - 1]
    /\ pc' = [pc EXCEPT ![t] = IF refs[g] = 1 THEN g ELSE @]
    /\ UNCHANGED <<layout, ipcMemHandle_to_devptr, opened, views, asserted>>

\* clear, and the entry goes.
Closed(n) == n - 1

Erased(cache, g) == cache \ {g}

deleter(t) ==
    /\ pc[t] # Idle
    /\ asserted' = asserted \cup (IF pc[t] \in ipcMemHandle_to_devptr THEN {} ELSE {"deleter"})
    /\ opened' = [opened EXCEPT ![pc[t]] = Closed(@)]
    /\ ipcMemHandle_to_devptr' = Erased(ipcMemHandle_to_devptr, pc[t])
    /\ views' = {w \in views : w.seg # pc[t]}
    /\ pc' = [pc EXCEPT ![t] = Idle]
    /\ UNCHANGED <<layout, refs>>

Next ==
    \E t \in Threads :
        \/ \E g \in Segments : \E k \in DOMAIN layout[g] : getIpcDevPtr(t, g, k)
        \/ \E g \in Segments : drop(t, g)
        \/ deleter(t)

Spec == Init /\ [][Next]_vars

-----------------------------------------------------------------------------
\* A handle is open once while anyone has a pointer to it or its deleter is
\* still to run, and closed otherwise (getIpcDevPtr: "it can be opened only
\* once per context per process").
OpenedOnce ==
    \A g \in Segments : opened[g] = IF refs[g] > 0 \/ Dropping(g) THEN 1 ELSE 0

\* Blocks of one segment that were received apart stay apart, and lie in what
\* the sender says its segment is (shareIpcHandle, getBaseAllocation).
ViewsDisjoint ==
    \A w \in views :
        /\ w.offset + layout[w.seg][w.block] <= getBaseAllocation(w.seg, w.block).size
        /\ \A x \in views : x.seg = w.seg /\ x.block > w.block => w.offset + layout[w.seg][w.block] <= x.offset

\* Neither lookup fails: an entry found has a pointer, "we should never get
\* here", and the deleter finds its entry (getIpcDevPtr).  Broken where
\* LookupsFailRaced says.
LookupsSucceed == asserted = {}

\* The deleter finds its entry, and the other lookup fails only between the drop
\* of the last reference and the deleter, in another thread (getIpcDevPtr).
LookupsFailRaced == asserted \subseteq {"raced"}
=============================================================================
