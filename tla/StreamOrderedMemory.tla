------------------------- MODULE StreamOrderedMemory -------------------------
(***************************************************************************)
(* What a stream-ordered device allocator promises its callers, without    *)
(* any of the machinery of SUPACachingAllocator (see the class comment of  *)
(* csrc/core/supa/SUPACachingAllocator.cpp): an allocation never overlaps  *)
(* memory that is allocated or that freed work may still touch, and work   *)
(* of other streams is never left on memory that is handed out.            *)
(*                                                                         *)
(* A range is [seg, off, size, stream]; work is the range it touches with  *)
(* the stream it is queued on.                                             *)
(***************************************************************************)
EXTENDS Integers

CONSTANTS Streams, Segments

VARIABLES
    live,   \* allocations the callers hold
    held,   \* freed allocations that may not be handed out yet
    work    \* queued work

vars == <<live, held, work>>

Range == [seg : Segments, off : Nat, size : Nat, stream : Streams]

Meet(x, y) ==
    /\ x.seg = y.seg
    /\ x.off < y.off + y.size
    /\ y.off < x.off + x.size

\* Only work of r's own stream touches r.
Quiescent(r) == \A k \in work : Meet(k, r) => k.stream = r.stream

Init == live = {} /\ held = {} /\ work = {}

Alloc(r) ==
    /\ r \in Range
    /\ \A x \in live \cup held : ~Meet(x, r)
    /\ Quiescent(r)
    /\ live' = live \cup {r}
    /\ UNCHANGED <<held, work>>

\* A range that other streams' work still touches is held back.
Free(r) ==
    /\ r \in live
    /\ live' = live \ {r}
    /\ \/ held' = held \cup {r}
       \/ Quiescent(r) /\ UNCHANGED held
    /\ UNCHANGED work

Reclaim(r) ==
    /\ r \in held
    /\ Quiescent(r)
    /\ held' = held \ {r}
    /\ UNCHANGED <<live, work>>

Launch(r, s) ==
    /\ r \in live /\ s \in Streams
    /\ work' = work \cup {[r EXCEPT !.stream = s]}
    /\ UNCHANGED <<live, held>>

\* Some of the work is done.
Retire ==
    /\ work' \subseteq work
    /\ UNCHANGED <<live, held>>

Next ==
    \/ \E r \in live' \ live : Alloc(r)
    \/ \E r \in live : Free(r) \/ \E s \in Streams : Launch(r, s)
    \/ \E r \in held : Reclaim(r)
    \/ Retire

Spec == Init /\ [][Next]_vars

=============================================================================
