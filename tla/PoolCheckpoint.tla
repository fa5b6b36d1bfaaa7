--------------------------- MODULE PoolCheckpoint ---------------------------
(* Checkpoints of a private pool: getCheckpointState and                     *)
(* setCheckpointPoolState of core/supa/SUPACachingAllocator.cpp, and the     *)
(* binding _supa_setCheckpointPoolState of supa/Module.cpp that moves the    *)
(* deleters of storages along.  One private pool on device Device; the       *)
(* blocks of a segment, from prev to next, are a sequence, and a pointer is  *)
(* a segment and an address in it.                                           *)
EXTENDS Integers, Sequences, FiniteSets, SequencesExt

CONSTANTS Device,        \* device of the pool
          Sizes,         \* sizes asked for
          SegmentSize, MaxSegments,
          MaxCheckpoints,
          Careless       \* may the pool be restored while freed blocks wait for events?
CheckpointAssumption ==
    /\ Device \in {0, 1} /\ SegmentSize \in Nat \ {0} /\ Sizes \subseteq 1..SegmentSize
    /\ MaxSegments \in Nat /\ MaxCheckpoints \in Nat /\ Careless \in BOOLEAN

VARIABLES segs,       \* the segments of the pool
          stats,      \* allocated_bytes of the allocator of each device
          front,      \* allocated_blocks of NativeCachingAllocator, as pointers
          storages,   \* [ptr, ctx]: a storage frees its pointer if ctx is "deleter";
                      \* one with deleteNothing is of no consequence and left out
          points,     \* the checkpoints taken
          capturing,  \* captures_underway is not empty
          thrown      \* did the last step throw?
vars == <<segs, stats, front, storages, points, capturing, thrown>>

\* A block is "used", "free", "deferred" or has "events" to wait for.
Blk(size, k, uses, dev) == [size |-> size, k |-> k, uses |-> uses, dev |-> dev]
Init == segs = <<>> /\ stats = [d \in {0, 1} |-> 0] /\ front = {} /\ storages = {} /\ points = {}
        /\ capturing = FALSE /\ thrown = FALSE

Total(blocks) == FoldSeq(LAMBDA b, a : b.size + a, 0, blocks)
Ptr(ss, c) == <<c[1], Total(SubSeq(ss[c[1]], 1, c[2] - 1))>>
Blocks(ss) == UNION {{k} \X DOMAIN ss[k] : k \in DOMAIN ss}
At(ss, c) == ss[c[1]][c[2]]
UsedPtrs(ss) == {Ptr(ss, c) : c \in {x \in Blocks(ss) : At(ss, x).k = "used"}}
UsedBytes(ss) == FoldSet(LAMBDA c, n : At(ss, c).size + n, 0, {x \in Blocks(ss) : At(ss, x).k = "used"})

-----------------------------------------------------------------------------
(* DeviceCachingAllocator.                                                   *)

\* free_block: the block at i joins its free neighbours.
FreeAt(b, i) == i \in DOMAIN b /\ b[i].k = "free"
free_block(b, i) ==
    LET first == IF FreeAt(b, i - 1) THEN i - 1 ELSE i
        last == IF FreeAt(b, i + 1) THEN i + 1 ELSE i
    IN  SubSeq(b, 1, first - 1)
        \o <<Blk(Total(SubSeq(b, first, last)), "free", FALSE, b[i].dev)>> \o SubSeq(b, last + 1, Len(b))

\* free of DeviceCachingAllocator.
freed(b, i) ==
    IF b[i].uses THEN ReplaceAt(b, i, [b[i] EXCEPT !.k = IF capturing THEN "deferred" ELSE "events"])
    ELSE free_block(b, i)

\* freeBlocksAllocatedToPool, over the blocks of a segment, from its head by
\* next.  A block that joins the free one before it takes its place.
Place(b, i) == IF ~b[i].uses /\ FreeAt(b, i - 1) THEN i - 1 ELSE i
RECURSIVE FreeFrom(_, _)
FreeFrom(b, i) == IF i > Len(b) THEN b
                  ELSE IF b[i].k = "used" THEN FreeFrom(freed(b, i), Place(b, i) + 1)
                  ELSE FreeFrom(b, i + 1)
freeBlocksAllocatedToPool(ss) == FoldLeft(LAMBDA acc, b : Append(acc, FreeFrom(b, 1)), <<>>, ss)

\* BlockState and SegmentState: what a checkpoint keeps.
SegmentState(b) == [i \in DOMAIN b |-> [size |-> b[i].size, allocated |-> b[i].k = "used"]]

\* The device of a BlockState, which its constructor leaves at the default.
StateDevice == 0

\* setSegmentStateToCheckpoint: every block of the checkpoint is split off the
\* first one of the segment, the last keeps what is left; then, from the first
\* on, those that were not allocated are freed: no two of them are neighbours,
\* so that each stays where the checkpoint has it.  A size that is not the one
\* of the checkpoint throws.
Allocate(b, state) ==
    LET n == Len(state)
        left == b[1].size - Total(SubSeq(state, 1, n - 1))
    IN  [i \in 1..n |-> Blk(IF i < n THEN state[i].size ELSE left, "used", FALSE,
                            IF i < n THEN StateDevice ELSE b[1].dev)] \o Tail(b)
RECURSIVE FreeUnallocated(_, _, _)
FreeUnallocated_Not(b, state, i) == b
FreeUnallocated(b, state, i) ==
    IF i > Len(state) THEN b
    ELSE FreeUnallocated(IF state[i].allocated THEN b ELSE free_block(b, i), state, i + 1)
Restorable(b) == b[1].k = "free" /\ b[1].size = SegmentSize
RestoredBlocks(b, state) == LET a == Allocate(b, state) IN FreeUnallocated(a, state, 1)

\* setCheckpointPoolState of DeviceCachingAllocator, segment by segment.
RECURSIVE Restore(_, _, _)
Restore(ss, point, k) ==
    IF k > Len(point) THEN [ok |-> TRUE, segs |-> ss]
    ELSE IF Restorable(ss[k])
         THEN Restore(ReplaceAt(ss, k, RestoredBlocks(ss[k], point[k])), point, k + 1)
         ELSE [ok |-> FALSE,
               segs |-> IF ss[k][1].k = "free" THEN ReplaceAt(ss, k, Allocate(ss[k], point[k])) ELSE ss]

-----------------------------------------------------------------------------
(* Operations.                                                               *)

\* malloc and the storage that holds the pointer: the best fit, or a new segment.
Fits(size) == {c \in Blocks(segs) : At(segs, c).k = "free" /\ At(segs, c).size >= size}
malloc(size) ==
    LET fits == Fits(size)
        ss == IF fits = {} THEN Append(segs, <<Blk(SegmentSize, "free", FALSE, Device)>>) ELSE segs
        best == IF fits = {} THEN <<Len(ss), 1>>
                ELSE CHOOSE c \in fits : \A d \in fits :
                        \/ At(segs, c).size < At(segs, d).size
                        \/ At(segs, c).size = At(segs, d).size
                           /\ (c[1] < d[1] \/ (c[1] = d[1] /\ c[2] <= d[2]))
        b == ss[best[1]]
        rest == b[best[2]].size - size
        used == ReplaceAt(b, best[2], Blk(size, "used", FALSE, IF rest > 0 THEN Device ELSE b[best[2]].dev))
        split == IF rest > 0 THEN InsertAt(used, best[2] + 1, Blk(rest, "free", FALSE, b[best[2]].dev)) ELSE used
    IN
    /\ fits # {} \/ Len(segs) < MaxSegments
    /\ segs' = ReplaceAt(ss, best[1], split)
    /\ stats' = [stats EXCEPT ![Device] = @ + size]
    /\ front' = front \cup {Ptr(ss, best)}
    /\ storages' = storages \cup {[ptr |-> Ptr(ss, best), ctx |-> "deleter"]}
    /\ thrown' = FALSE /\ UNCHANGED <<points, capturing>>

recordStream(c) ==
    /\ At(segs, c).k = "used" /\ ~At(segs, c).uses
    /\ segs' = [segs EXCEPT ![c[1]][c[2]].uses = TRUE]
    /\ thrown' = FALSE /\ UNCHANGED <<stats, front, storages, points, capturing>>

\* NativeCachingAllocator::free: the device of the block tells the allocator.
frontFree(c) ==
    /\ front' = front \ {Ptr(segs, c)}
    /\ segs' = [segs EXCEPT ![c[1]] = freed(@, c[2])]
    /\ stats' = [stats EXCEPT ![At(segs, c).dev] = @ - At(segs, c).size]
    /\ thrown' = FALSE /\ UNCHANGED <<points, capturing>>

\* A storage dies; without a deleter its pointer is left alone.
dropStorage(s) ==
    /\ storages' = storages \ {s}
    /\ \/ /\ s.ctx = "deleter"
          /\ \E c \in Blocks(segs) : Ptr(segs, c) = s.ptr /\ At(segs, c).k = "used" /\ frontFree(c)
       \/ s.ctx # "deleter" /\ thrown' = FALSE /\ UNCHANGED <<segs, stats, front, points, capturing>>

\* _supa_supaCachingAllocator_raw_delete, for an allocation no storage owns.
rawDelete(c) ==
    /\ At(segs, c).k = "used" /\ [ptr |-> Ptr(segs, c), ctx |-> "deleter"] \notin storages
    /\ frontFree(c) /\ UNCHANGED storages

\* A storage made for the output of a replayed graph has no deleter yet.
reconstruct(c) ==
    /\ ~\E s \in storages : s.ptr = Ptr(segs, c)
    /\ storages' = storages \cup {[ptr |-> Ptr(segs, c), ctx |-> "null"]}
    /\ thrown' = FALSE /\ UNCHANGED <<segs, stats, front, points, capturing>>

process_events(c) ==
    /\ ~capturing /\ At(segs, c).k = "events"
    /\ segs' = [segs EXCEPT ![c[1]] = free_block(@, c[2])]
    /\ thrown' = FALSE /\ UNCHANGED <<stats, front, storages, points, capturing>>

\* beginAllocateToPool, endAllocateToPool, and the deferred events after a capture.
insert_events_deferred_until_no_capture(ss) ==
    [k \in DOMAIN ss |-> [i \in DOMAIN ss[k] |->
        IF ss[k][i].k = "deferred" THEN [ss[k][i] EXCEPT !.k = "events"] ELSE ss[k][i]]]
beginAllocateToPool ==
    /\ ~capturing /\ capturing' = TRUE
    /\ thrown' = FALSE /\ UNCHANGED <<segs, stats, front, storages, points>>
endAllocateToPool ==
    /\ capturing /\ capturing' = FALSE
    /\ segs' = insert_events_deferred_until_no_capture(segs)
    /\ thrown' = FALSE /\ UNCHANGED <<stats, front, storages, points>>

\* getCheckpointState: a block with events throws.
Waiting(ss) == {c \in Blocks(ss) : At(ss, c).k \in {"events", "deferred"}}
CheckEvents(ss) == Waiting(ss) = {}
getCheckpointState ==
    /\ Cardinality(points) < MaxCheckpoints
    /\ segs' = insert_events_deferred_until_no_capture(segs)
    /\ LET ok == CheckEvents(segs') IN
       /\ points' = IF ok THEN points \cup {[k \in DOMAIN segs |-> SegmentState(segs[k])]} ELSE points
       /\ thrown' = ~ok
    /\ UNCHANGED <<stats, front, storages, capturing>>

\* _supa_setCheckpointPoolState, given all storages with a deleter as stale and
\* add to get deleters: the allocator, the front end and the storages follow.
Stale_None(freedPtrs) == {}
Stale(freedPtrs) == {s \in storages : s.ctx = "deleter" /\ s.ptr \in freedPtrs}
addStorageDeleterFns(created, add, s) == IF s \in add /\ s.ptr \in created THEN [s EXCEPT !.ctx = "deleter"] ELSE s
Moved(freedPtrs, created, add) == {addStorageDeleterFns(created, add, s) : s \in storages \ Stale(freedPtrs)}
StatsAfter(ss) == [stats EXCEPT ![Device] = @ - UsedBytes(segs) + UsedBytes(ss)]
FrontAfter(freedPtrs, created) == (front \ freedPtrs) \cup created
Ready == Careless \/ /\ Waiting(segs) = {} /\ \A c \in Blocks(segs) : ~At(segs, c).uses
                     /\ \A p \in front : [ptr |-> p, ctx |-> "deleter"] \in storages
setCheckpointPoolState(point, add) ==
    /\ Ready /\ UNCHANGED <<points, capturing>>
    /\ \E r \in {Restore(freeBlocksAllocatedToPool(segs), point, 1)} :
          /\ segs' = r.segs /\ thrown' = ~r.ok
          /\ stats' = StatsAfter(r.segs)
          /\ IF r.ok THEN /\ front' = FrontAfter(UsedPtrs(segs), UsedPtrs(r.segs))
                          /\ storages' = Moved(UsedPtrs(segs), UsedPtrs(r.segs), add)
                     ELSE UNCHANGED <<front, storages>>

Next ==
    \/ \E size \in Sizes : malloc(size)
    \/ \E c \in Blocks(segs) : recordStream(c) \/ rawDelete(c) \/ reconstruct(c) \/ process_events(c)
    \/ \E s \in storages : dropStorage(s)
    \/ beginAllocateToPool \/ endAllocateToPool
    \/ getCheckpointState
    \/ \E point \in points, add \in SUBSET {s \in storages : s.ctx = "null"} : setCheckpointPoolState(point, add)
Spec == Init /\ [][Next]_vars

-----------------------------------------------------------------------------
(* Properties.                                                               *)

\* The front end knows exactly the blocks that the device allocator has
\* allocated, also after a checkpoint was set (setCheckpointPoolState).
FrontMatches == front = UsedPtrs(segs)

\* A storage that will free its pointer owns an allocated block, and no two own
\* the same: no deleter frees what the restore already freed
\* (removeStorageDeleterFns, addStorageDeleterFns).
DeletersValid == \A s, t \in storages : s.ctx = "deleter" =>
    s.ptr \in front /\ (t.ctx = "deleter" /\ t.ptr = s.ptr => s = t)

\* Setting a checkpoint gives the segments it knows the blocks they had
\* ("return it to its current state"), and frees every other block.
ReproducedStep ==
    \A point \in points, add \in SUBSET storages :
        setCheckpointPoolState(point, add) /\ ~thrown' =>
            \A k \in DOMAIN segs' :
                SegmentState(segs'[k]) = IF k <= Len(point) THEN point[k]
                                         ELSE <<[size |-> SegmentSize, allocated |-> FALSE]>>
Reproduced == [][ReproducedStep]_vars

\* The allocator of the pool's device counts its allocated bytes and the other
\* allocator none, whichever blocks a restore made (BlockState, free).
StatsOfDevice == stats[Device] = UsedBytes(segs) /\ stats[1 - Device] = 0

=============================================================================
