------------------------- MODULE ExpandableSegments -------------------------
(* Expandable segments of the caching allocator                              *)
(* (core/supa/SUPACachingAllocator.cpp, Note [Expandable Segments]): address *)
(* space reserved once per stream, physical pages mapped as blocks need them *)
(* and unmapped when the cache is emptied.  One block pool of one device.    *)
(* Addresses are counted from the start of a segment, and the blocks of a    *)
(* segment, from prev to next, are a sequence.                               *)
EXTENDS Integers, Sequences, FiniteSets, SequencesExt

CONSTANTS Streams,
          Sizes,         \* sizes asked for
          Page,          \* segment_size_: size of a handle
          MaxHandles,    \* max_handles_: handles a segment has room for
          DevicePages,   \* pages of physical memory
          Limits,        \* arguments of setMemoryFraction, in bytes
          Peers,         \* devices that may get access
          MaxShares      \* bound on the handles exported
SegmentsAssumption ==
    /\ Page \in Nat \ {0} /\ MaxHandles \in Nat /\ DevicePages \in Nat /\ MaxHandles > DevicePages
    /\ Sizes \subseteq Nat \ {0} /\ Limits \subseteq Nat /\ MaxShares \in Nat

VARIABLES segs,     \* expandable_segments_: [stream, blocks, access, peers]
          total,    \* total_allocated_memory
          limit,    \* allowed_memory_maximum, 0 if no fraction was set
          peers,    \* devices_with_peer_access_
          oom,      \* size of the request that the last step refused, or 0
          excess,   \* how far the last step took total past the limit
          imported  \* what other processes made of exported blocks: [pages, ok]
vars == <<segs, total, limit, peers, oom, excess, imported>>

\* A block is "used", "pending" (freed, events outstanding), "free" or "unmapped".
Blk(size, k) == [size |-> size, k |-> k]
Init == segs = <<>> /\ total = 0 /\ limit = 0 /\ peers = {} /\ oom = 0 /\ excess = 0 /\ imported = {}

Addr(blocks, i) == FoldSeq(LAMBDA b, a : b.size + a, 0, SubSeq(blocks, 1, i - 1))
numSegments(size) == (size + Page - 1) \div Page
segmentLeft(p) == p \div Page
segmentRight(p) == numSegments(p)

\* access is the set of devices that may use each mapped page; a page has a
\* handle iff it is in its domain.
Pages(s) == DOMAIN s.access
Used(ss) == FoldSeq(LAMBDA s, n : Cardinality(Pages(s)) + n, 0, ss)
Available(ss) == DevicePages - Used(ss)

-----------------------------------------------------------------------------
(* Blocks.                                                                   *)

\* try_merge_blocks of the block at i with its neighbour at j.
Mergeable(blocks, i, j) ==
    /\ j \in DOMAIN blocks
    /\ blocks[j].k \in {"free", "unmapped"}
    /\ (blocks[i].k = "unmapped") = (blocks[j].k = "unmapped")
MergeNext(blocks, i) == IF Mergeable(blocks, i, i + 1)
    THEN ReplaceAt(RemoveAt(blocks, i + 1), i, Blk(blocks[i].size + blocks[i + 1].size, blocks[i].k))
    ELSE blocks
\* The merged blocks and where the block at i is afterwards.
Merge(blocks, i) ==
    LET next == MergeNext(blocks, i)
        prev == Mergeable(next, i, i - 1)
    IN  [at |-> IF prev THEN i - 1 ELSE i,
         blocks |-> IF prev THEN ReplaceAt(RemoveAt(next, i), i - 1,
                                           Blk(next[i - 1].size + next[i].size, next[i].k))
                    ELSE next]

-----------------------------------------------------------------------------
(* ExpandableSegment.                                                        *)

\* forEachAllocatedRange, as the pages it reaches.
AllocatedPages(s) == LET n == MaxHandles
                         starts == {p \in Pages(s) : p - 1 \notin Pages(s)}
                         ends == {p \in Pages(s) : p + 1 = n \/ p + 1 \notin Pages(s)}
                     IN  UNION {b..e : <<b, e>> \in {x \in starts \X ends :
                             x[1] <= x[2] /\ \A f \in ends : f >= x[1] => f >= x[2]}}
addPeer(s, d) == [s EXCEPT !.peers = @ \cup {d},
                           !.access = [p \in DOMAIN @ |-> IF p \in AllocatedPages(s)
                                                          THEN @[p] \cup {d} ELSE @[p]]]

\* setAccess of map, for the device and the peers of the segment.
setAccess(s) == {"device"} \cup s.peers

\* map_block: handles for the first size bytes of the unmapped block at i.
\* The result tells whether physical memory sufficed.
map_block(s, i, size, available) ==
    LET b == Addr(s.blocks, i)
        first == segmentLeft(b)
        end == segmentRight(b + size)
        n == end - first
        rest == s.blocks[i].size - n * Page
        mapped == ReplaceAt(s.blocks, i, Blk(n * Page, "free"))
        split == IF rest > 0 THEN InsertAt(mapped, i + 1, Blk(rest, "unmapped")) ELSE mapped
        m == Merge(split, i)
    IN  IF n > available THEN [ok |-> FALSE, seg |-> s, at |-> i, pages |-> 0]
        ELSE [ok |-> TRUE, at |-> m.at, pages |-> n,
              seg |-> [s EXCEPT !.blocks = m.blocks,
                                !.access = [p \in Pages(s) \cup first..end - 1 |->
                                    IF p \in Pages(s) THEN @[p] ELSE setAccess(s)]]]

\* The pages of ExpandableSegment::unmap.
unmapBegin(p) == segmentRight(p)

\* unmap_block: the pages that lie within the free block at i.
unmap_block(s, i) ==
    LET b == Addr(s.blocks, i)
        size == s.blocks[i].size
        first == unmapBegin(b)
        end == segmentLeft(b + size)
        before == first * Page - b
        after == size - before - (end - first) * Page
        parts == (IF before > 0 THEN <<Blk(before, "free")>> ELSE <<>>)
                 \o <<Blk((end - first) * Page, "unmapped")>>
                 \o (IF after > 0 THEN <<Blk(after, "free")>> ELSE <<>>)
        split == SubSeq(s.blocks, 1, i - 1) \o parts \o SubSeq(s.blocks, i + 1, Len(s.blocks))
    IN  IF first >= end THEN s
        ELSE [s EXCEPT !.blocks = Merge(split, IF before > 0 THEN i + 1 ELSE i).blocks,
                       !.access = [p \in Pages(s) \ (first..end - 1) |-> @[p]]]

-----------------------------------------------------------------------------
(* DeviceCachingAllocator.                                                   *)

allocatable(s, i) == i \in DOMAIN s.blocks /\ s.blocks[i].k \in {"free", "unmapped"}
RECURSIVE has_available_address_space(_, _, _)
has_available_address_space(s, i, size) ==
    \/ size <= 0
    \/ allocatable(s, i) /\ has_available_address_space(s, i + 1, size - s.blocks[i].size)

\* find_expandable_block: the lowest unmapped block that has room, with the free
\* block before it, or a new segment.
NewSegment(stream) == [stream |-> stream, blocks |-> <<Blk(MaxHandles * Page, "unmapped")>>,
                       access |-> [p \in {} |-> {}], peers |-> peers]
Candidates(ss, stream, size) ==
    {c \in UNION {{k} \X DOMAIN ss[k].blocks : k \in DOMAIN ss} :
        LET s == ss[c[1]]
            start == IF allocatable(s, c[2] - 1) THEN c[2] - 1 ELSE c[2]
        IN  s.stream = stream /\ s.blocks[c[2]].k = "unmapped"
            /\ has_available_address_space(s, start, size)}
find_expandable_block(ss, stream, size) ==
    LET cs == Candidates(ss, stream, size)
        c == CHOOSE c \in cs : \A d \in cs : c[1] < d[1] \/ (c[1] = d[1] /\ c[2] <= d[2])
    IN  IF cs = {} THEN [segs |-> Append(ss, NewSegment(stream)), seg |-> Len(ss) + 1, at |-> 1]
        ELSE [segs |-> ss, seg |-> c[1],
              at |-> IF allocatable(ss[c[1]], c[2] - 1) THEN c[2] - 1 ELSE c[2]]

\* try_allocate_expandable_block: the block at i grows until it has the size.
RECURSIVE Grow(_, _, _, _)
Grown(m, s, i, size, available) ==
    IF m.ok THEN Grow(m.seg, m.at, size, available - m.pages) ELSE [ok |-> FALSE, seg |-> s, at |-> i]
Grow(s, i, size, available) ==
    LET unmapped == s.blocks[i].k = "unmapped"
        j == IF unmapped THEN i ELSE i + 1
        lacking == size - (IF unmapped THEN 0 ELSE s.blocks[i].size)
        want == IF lacking < s.blocks[j].size THEN lacking ELSE s.blocks[j].size
    IN  IF ~unmapped /\ lacking <= 0 THEN [ok |-> TRUE, seg |-> s, at |-> i]
        ELSE Grown(map_block(s, j, want, available), s, i, size, available)
Tried(f, g) == [ok |-> g.ok, segs |-> ReplaceAt(f.segs, f.seg, g.seg), seg |-> f.seg, at |-> g.at]
Expand(f, size, available) == Tried(f, Grow(f.segs[f.seg], f.at, size, available))
try_allocate_expandable_block(ss, stream, size) ==
    Expand(find_expandable_block(ss, stream, size), size, Available(ss))

\* get_free_block: best fit, where a block counts with the room it can expand to.
expandable_size(ss, c) ==
    LET b == ss[c[1]].blocks IN
    b[c[2]].size + (IF c[2] < Len(b) /\ b[c[2] + 1].k = "unmapped" THEN b[c[2] + 1].size ELSE 0)
Fits(ss, stream, size) ==
    {c \in UNION {{k} \X DOMAIN ss[k].blocks : k \in DOMAIN ss} :
        LET b == ss[c[1]].blocks[c[2]] IN ss[c[1]].stream = stream /\ b.k = "free" /\ b.size >= size}
BlockComparatorSize(ss, c, d) ==
    LET x == ss[c[1]].blocks[c[2]].size y == ss[d[1]].blocks[d[2]].size IN
    x < y \/ (x = y /\ (c[1] < d[1] \/ (c[1] = d[1] /\ c[2] < d[2])))
get_free_block(ss, stream, size) ==
    LET order == SetToSortSeq(Fits(ss, stream, size), LAMBDA c, d : BlockComparatorSize(ss, c, d))
        stops == {i \in DOMAIN order : i = Len(order) \/
                      expandable_size(ss, order[i + 1]) >= expandable_size(ss, order[i])}
    IN  order[CHOOSE i \in stops : \A j \in stops : i <= j]

\* alloc_found_block, should_split: the rest is split off.
Take(ss, k, i, size) ==
    LET b == ss[k].blocks
        rest == b[i].size - size
        used == ReplaceAt(b, i, Blk(size, "used"))
    IN  [ss EXCEPT ![k].blocks = IF rest > 0 THEN InsertAt(used, i + 1, Blk(rest, "free")) ELSE used]

\* release_blocks: every free block is unmapped as far as its pages go, and a
\* segment that becomes empty is released.
RECURSIVE UnmapFrom(_, _)
UnmapFrom(s, i) == IF i = 0 THEN s
                   ELSE UnmapFrom(IF s.blocks[i].k = "free" THEN unmap_block(s, i) ELSE s, i - 1)
Settle(b, i) == IF b[i].k = "pending" THEN Merge(ReplaceAt(b, i, Blk(b[i].size, "free")), i).blocks ELSE b
RECURSIVE SettleFrom(_, _)
SettleFrom(b, i) == IF i = 0 THEN b ELSE SettleFrom(Settle(b, i), i - 1)
release_cached_blocks_Not(ss) == ss
release_cached_blocks(ss) ==
    LET bare == [k \in DOMAIN ss |-> LET b == SettleFrom(ss[k].blocks, Len(ss[k].blocks))
                                     IN  UnmapFrom([ss[k] EXCEPT !.blocks = b], Len(b))]
        emptied(k) == Pages(bare[k]) = {} /\ Pages(ss[k]) # {}
    IN  FoldLeft(LAMBDA acc, k : IF emptied(k) THEN acc ELSE Append(acc, bare[k]), <<>>, [k \in DOMAIN ss |-> k])

-----------------------------------------------------------------------------
(* Operations.                                                               *)

\* alloc_block refuses what the limit does not allow.
Allowed(ss, size) == limit = 0 \/ Used(ss) * Page + size <= limit

\* A free block that fits, else the segment grows, else the cache is emptied and
\* the segment grows; what remains is out of memory.
Granted(r, size) ==
    /\ segs' = IF r.ok THEN Take(r.segs, r.seg, r.at, size) ELSE r.segs
    /\ total' = Used(r.segs) * Page
    /\ oom' = IF r.ok THEN 0 ELSE size
    /\ excess' = IF limit > 0 /\ total' > total /\ total' > limit THEN total' - limit ELSE 0
    /\ UNCHANGED <<limit, peers, imported>>
Retried(emptied, stream, size) ==
    IF Allowed(emptied, size) THEN try_allocate_expandable_block(emptied, stream, size)
    ELSE [ok |-> FALSE, segs |-> emptied, seg |-> 0, at |-> 0]
malloc(stream, size) ==
    IF Fits(segs, stream, size) # {}
    THEN \E c \in {get_free_block(segs, stream, size)} :
            Granted([ok |-> TRUE, segs |-> segs, seg |-> c[1], at |-> c[2]], size)
    ELSE \E first \in {IF Allowed(segs, size) THEN try_allocate_expandable_block(segs, stream, size)
                       ELSE [ok |-> FALSE, segs |-> segs, seg |-> 0, at |-> 0]} :
            IF first.ok THEN Granted(first, size)
            ELSE \E emptied \in {release_cached_blocks(first.segs)} :
                 \E second \in {Retried(emptied, stream, size)} : Granted(second, size)

\* free: with outstanding uses on other streams the block waits for their events.
free(k, i, uses) ==
    /\ segs[k].blocks[i].k = "used"
    /\ segs' = [segs EXCEPT ![k].blocks =
          IF uses THEN ReplaceAt(@, i, Blk(@[i].size, "pending"))
          ELSE Merge(ReplaceAt(@, i, Blk(@[i].size, "free")), i).blocks]
    /\ oom' = 0 /\ excess' = 0 /\ UNCHANGED <<total, limit, peers, imported>>

\* process_events
process_events(k, i) ==
    /\ segs[k].blocks[i].k = "pending"
    /\ segs' = [segs EXCEPT ![k].blocks = Settle(@, i)]
    /\ oom' = 0 /\ excess' = 0 /\ UNCHANGED <<total, limit, peers, imported>>

emptyCache ==
    /\ segs' = release_cached_blocks(segs)
    /\ total' = Used(segs') * Page
    /\ oom' = 0 /\ excess' = 0 /\ UNCHANGED <<limit, peers, imported>>

addPeerAccess(d) ==
    /\ d \notin peers
    /\ peers' = peers \cup {d}
    /\ segs' = [k \in DOMAIN segs |-> addPeer(segs[k], d)]
    /\ oom' = 0 /\ excess' = 0 /\ UNCHANGED <<total, limit, imported>>

setMemoryFraction(l) ==
    /\ limit' = l /\ l # limit
    /\ oom' = 0 /\ excess' = 0 /\ UNCHANGED <<segs, total, peers, imported>>

\* shareIpcHandle and, in the other process, fromShared: every handle, of Page
\* bytes, is mapped with the segment_size_ of the segment made there; the driver
\* refuses a size that is not the handle's.
shareIpcHandle(k, i) ==
    /\ segs[k].blocks[i].k = "used" /\ Cardinality(imported) < MaxShares
    /\ LET b == Addr(segs[k].blocks, i)
           n == segmentRight(b + segs[k].blocks[i].size) - segmentLeft(b)
       IN  imported' = imported \cup {[pages |-> n, ok |-> n * Page = Page]}
    /\ oom' = 0 /\ excess' = 0 /\ UNCHANGED <<segs, total, limit, peers>>

Next ==
    \/ \E stream \in Streams, size \in Sizes : malloc(stream, size)
    \/ \E k \in DOMAIN segs : \E i \in DOMAIN segs[k].blocks :
          \/ \E uses \in BOOLEAN : free(k, i, uses)
          \/ process_events(k, i)
          \/ shareIpcHandle(k, i)
    \/ emptyCache
    \/ \E d \in Peers : addPeerAccess(d)
    \/ \E l \in Limits : setMemoryFraction(l)
Spec == Init /\ [][Next]_vars

-----------------------------------------------------------------------------
(* Properties.                                                               *)

\* Blocks tile the address space of their segment; unmapped blocks are whole
\* pages without handles and every page of the other blocks has one
\* (map_block's and map's assertions, unmap).
BlocksBacked == \A k \in DOMAIN segs : LET s == segs[k] IN
    /\ Addr(s.blocks, Len(s.blocks) + 1) = MaxHandles * Page
    /\ \A i \in DOMAIN s.blocks :
          LET b == Addr(s.blocks, i)
              e == b + s.blocks[i].size
          IN  IF s.blocks[i].k = "unmapped"
              THEN b % Page = 0 /\ e % Page = 0 /\ segmentLeft(b)..segmentLeft(e) - 1 \cap Pages(s) = {}
              ELSE segmentLeft(b)..segmentRight(e) - 1 \subseteq Pages(s)

\* No two neighbours that could be one block are left apart (try_merge_blocks).
Coalesced == \A k \in DOMAIN segs : \A i \in 1..Len(segs[k].blocks) - 1 :
    LET a == segs[k].blocks[i].k b == segs[k].blocks[i + 1].k IN
    ~(a = b /\ a \in {"free", "unmapped"})

\* Every mapped page can be used by every device with access, whether it was
\* mapped before or after access was given (addPeerAccess, map).
PeersReachAll == \A k \in DOMAIN segs : \A p \in Pages(segs[k]) : segs[k].access[p] = {"device"} \cup peers

\* A request is refused, no limit being set, only if the physical memory outside
\* blocks in use does not suffice: all empty pages had been given back (malloc,
\* release_cached_blocks).
OomWhenExhausted == oom > 0 /\ limit = 0 =>
    LET busy(s) == {p \in Pages(s) : \E i \in DOMAIN s.blocks :
            LET b == Addr(s.blocks, i) IN
            s.blocks[i].k = "used" /\ b < (p + 1) * Page /\ b + s.blocks[i].size > p * Page}
        n == FoldSeq(LAMBDA s, m : Cardinality(busy(s)) + m, 0, segs)
    IN  DevicePages - n < numSegments(oom)

\* An allocation never takes the memory reserved past the limit
\* (setMemoryFraction).  Broken by less than ExcessWithinPage says.
LimitRespected == excess = 0

\* It passes the limit by less than a page, however many pieces it maps and
\* whatever is unmapped first: the limit was checked for the size asked for, and
\* the last page is mapped whole (alloc_block, map_block).
ExcessWithinPage == excess < Page

\* A block another process was given can be mapped there (share, fromShared).
SharedIsRestored == \A x \in imported : x.ok

=============================================================================
