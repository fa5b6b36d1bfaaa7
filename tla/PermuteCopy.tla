----------------------------- MODULE PermuteCopy -----------------------------
(***************************************************************************)
(* Copies of three-dimensional permuted tensors into contiguous ones       *)
(* (copy.cu): the layout of the source is recognised, one of two kernels   *)
(* is chosen, and its threads copy.  Tiles, bursts and blocks of threads   *)
(* are parameters.  Addresses count elements (two bytes in the code); an   *)
(* element's value is its place in the source.                             *)
(***************************************************************************)
EXTENDS Integers, Sequences, FiniteSets, FiniteSetsExt

CONSTANTS Tile,            \* BIG_TILE_SIZE: 64
          Burst,           \* elements_in_16B: 8
          WG,              \* threads of a block: 256
          PlaneSizes,      \* sizes of dimensions 0 and 1 that are tried
          TailSizes,       \* sizes of dimension 2
          Bases,           \* storage offsets of the source
          Pads,            \* 1: the source is a part of a larger tensor
          SameTypes        \* {TRUE}: source and destination have one type

ConstantsAssumption ==
    /\ Tile % Burst = 0 /\ WG % Tile = 0
    /\ Tile % (WG \div (Tile \div Burst)) = 0      \* vmem_per_thread >= 1

VARIABLES src,       \* the source: sizes, the permutation, base, pad, same type
          route,     \* the kernel and its configuration, None before
          block,     \* the block of the grid that runs
          pc,        \* per thread of it: "load", "barrier", "done"
          sa,        \* its shared memory
          dst,       \* the destination
          written,   \* the places written so far
          wrong      \* places written twice, written or read outside
vars == <<src, route, block, pc, sa, dst, written, wrong>>

None == [kind |-> "none"]
D == 1 .. 3
Threads == 0 .. WG - 1

Perms == {p \in [D -> 0 .. 2] : Cardinality({p[d] : d \in D}) = 3}

\* The strides that a tensor of these sizes has when its dimension d is axis
\* p[d] of a dense tensor whose innermost axis is pad longer.
StridesOf(z, p, pad) ==
    LET axis(a) == z[CHOOSE d \in D : p[d] = a]
    IN [d \in D |-> CASE p[d] = 0 -> axis(1) * (axis(2) + pad)
                      [] p[d] = 1 -> axis(2) + pad
                      [] OTHER    -> 1]

Sources == {[sizes |-> <<a, b, c>>, perm |-> p, base |-> o, pad |-> d, same |-> s] :
               a \in PlaneSizes, b \in PlaneSizes, c \in TailSizes, p \in Perms,
               o \in Bases, d \in Pads, s \in SameTypes}

InStride == StridesOf(src.sizes, src.perm, src.pad)
OutStride == StridesOf(src.sizes, [d \in D |-> d - 1], 0)
Numel == src.sizes[1] * src.sizes[2] * src.sizes[3]
Coords == (0 .. src.sizes[1] - 1) \X (0 .. src.sizes[2] - 1) \X (0 .. src.sizes[3] - 1)
InAt(c) == c[1] * InStride[1] + c[2] * InStride[2] + c[3] * InStride[3]
OutAt(c) == c[1] * OutStride[1] + c[2] * OutStride[2] + c[3] * OutStride[3]

-----------------------------------------------------------------------------
(***************************************************************************)
(* detect_3d_permute_strides: the permutations are tried in lexical order, *)
(* so that sizes of one do not hide the identity.                          *)
(***************************************************************************)
Order(p) == p[1] * 9 + p[2] * 3 + p[3]
Candidates == {p \in Perms : StridesOf(src.sizes, p, 0) = InStride}
Detected == CHOOSE p \in Candidates : \A q \in Candidates : Order(p) <= Order(q)
Identity == [d \in D |-> d - 1]

Inner(b) == <<Min(D \ {b}), Max(D \ {b})>>
Inverted(p, b) == p[Inner(b)[1]] > p[Inner(b)[2]]

\* The inner dimension that becomes N: the one the source is contiguous in.
DimN(b) == IF InStride[Inner(b)[1]] = 1 THEN Inner(b)[1]
           ELSE IF InStride[Inner(b)[2]] = 1 THEN Inner(b)[2]
           ELSE Inner(b)[1]
NContiguous(b) == InStride[DimN(b)] = 1

\* The first batch dimension with a contiguous source axis, else the first.
BatchDim(p) ==
    LET may == {b \in D : Inverted(p, b)}
        good == {b \in may : NContiguous(b)}
    IN IF good # {} THEN Min(good) ELSE Min(may)

TileConfig(b) ==
    LET n == DimN(b)
        k == CHOOSE d \in D \ {b} : d # n
    IN [kind |-> "tile", n |-> src.sizes[n], k |-> src.sizes[k], batches |-> src.sizes[b],
        src_n |-> InStride[n], src_k |-> InStride[k], src_batch |-> InStride[b],
        dst_n |-> OutStride[n], dst_k |-> OutStride[k], dst_batch |-> OutStride[b],
        contiguous |-> NContiguous(b)]

TailConfig == [kind |-> "tail"]

analyze_permute_3d_transpose ==
    IF Candidates = {} \/ Detected = Identity THEN None
    ELSE IF Detected = <<1, 0, 2>> /\ InStride[3] = 1 /\ OutStride[3] = 1 THEN TailConfig
    ELSE TileConfig(BatchDim(Detected))

\* permute_3d_transpose_copy refuses two different types; without a
\* configuration gpu_kernel copies.
Routed(cfg) == IF cfg.kind = "none" THEN [kind |-> "generic"]
               ELSE IF ~src.same THEN [kind |-> "refused"]
               ELSE cfg

-----------------------------------------------------------------------------
UpTiles(n) == (n + Tile - 1) \div Tile
NkTiles == UpTiles(route.n) * UpTiles(route.k)

Grid(r) == CASE r.kind = "tail" -> src.sizes[1] * src.sizes[2]
             [] r.kind = "tile" -> r.batches * UpTiles(r.n) * UpTiles(r.k)
             [] OTHER           -> 0

Init ==
    /\ src \in Sources
    /\ route = None
    /\ block = 0
    /\ pc = [t \in Threads |-> "load"]
    /\ sa = [x \in (0 .. Tile - 1) \X (0 .. Tile - 1) |-> -1]
    /\ dst = [i \in 0 .. Numel - 1 |-> -1]
    /\ written = {} /\ wrong = {}

\* direct_copy_kernel_cuda; the generic kernel copies element by element.
Route ==
    /\ route = None
    /\ route' = Routed(analyze_permute_3d_transpose)
    /\ dst' = IF route'.kind = "generic"
              THEN [i \in DOMAIN dst |-> InAt(CHOOSE c \in Coords : OutAt(c) = i)] ELSE dst
    /\ UNCHANGED <<src, block, pc, sa, written, wrong>>

\* The writes ws of a thread, pairs of a place and the place of the source.
Put(ws) ==
    /\ dst' = [i \in DOMAIN dst |-> IF \E w \in ws : w[1] = i
                                    THEN (CHOOSE w \in ws : w[1] = i)[2] ELSE dst[i]]
    /\ written' = written \cup {w[1] : w \in ws}
    /\ wrong' = wrong \cup {w[1] : w \in {x \in ws : x[1] \in written \/ x[1] \notin DOMAIN dst}}

(***************************************************************************)
(* permute_102_contig_tail_kernel: one block per pair of the first two     *)
(* coordinates.  Up to the first aligned element single elements are       *)
(* copied, then pairs of bursts, then single elements again.               *)
(***************************************************************************)
PlaneIn == src.base + (block \div src.sizes[2]) * InStride[1] + (block % src.sizes[2]) * InStride[2]
PlaneOut == (block \div src.sizes[2]) * OutStride[1] + (block % src.sizes[2]) * OutStride[2]

can_burst == PlaneIn % Burst = PlaneOut % Burst
align_elems == IF can_burst /\ PlaneIn % Burst # 0 THEN Burst - (PlaneIn % Burst) ELSE 0
IterElems == 2 * Burst

\* Division of C++ rounds towards zero.
Quotient(a, b) == IF a < 0 THEN - ((- a) \div b) ELSE a \div b
burst_end == IF can_burst
             THEN align_elems + Quotient(src.sizes[3] - align_elems, IterElems) * IterElems ELSE 0

\* The elements that a thread copies one by one between two places.
Singles(t, from, to) == {e \in from .. to - 1 : ((e - from) \div 2) % WG = t}
Bursts(t) == {k \in align_elems .. burst_end - 1 :
                (k - align_elems) % IterElems = 0 /\ ((k - align_elems) \div IterElems) % WG = t}

TailElements(t) == Singles(t, 0, align_elems) \cup Singles(t, burst_end, src.sizes[3])
                   \cup UNION {k .. k + IterElems - 1 : k \in Bursts(t)}

CopyTail(t) ==
    /\ route.kind = "tail" /\ block < Grid(route) /\ pc[t] = "load"
    /\ \A u \in Threads : u < t => pc[u] = "done"
    /\ Put({<<PlaneOut + e, PlaneIn - src.base + e>> : e \in TailElements(t)})
    /\ pc' = [pc EXCEPT ![t] = "done"]
    /\ UNCHANGED <<src, route, block, sa>>

(***************************************************************************)
(* transpose_tile_big_kernel: a block reads a tile into shared memory, row *)
(* k and column n, and writes it out transposed after a barrier.           *)
(***************************************************************************)
Batch == block \div NkTiles
Ti == (block % NkTiles) \div UpTiles(route.k)
Tj == (block % NkTiles) % UpTiles(route.k)
Part(n, i) == IF i = UpTiles(n) - 1 /\ n % Tile # 0 THEN n % Tile ELSE Tile
PartN == Part(route.n, Ti)
PartK == Part(route.k, Tj)

FullTile == route.contiguous /\ route.dst_k = 1 /\ PartN = Tile /\ PartK = Tile

\* The vectors (of one element in a partial tile) of a row and the rows that a
\* thread visits.
Width == IF FullTile THEN Burst ELSE 1
PerRow == Tile \div Width
Col(t) == (t % PerRow) * Width
RowsOf(t) == {t \div PerRow + i * (WG \div PerRow) : i \in 0 .. Tile \div (WG \div PerRow) - 1}

SrcTile == src.base + Batch * route.src_batch + Tj * Tile * route.src_k + Ti * Tile * route.src_n
DstTile == Batch * route.dst_batch + Ti * Tile * route.dst_n + Tj * Tile * route.dst_k

Loaded(t) == {<<r, Col(t) + i>> : r \in RowsOf(t), i \in 0 .. Width - 1}
InPart(rows, cols, cells) == {x \in cells : FullTile \/ (x[1] < rows /\ x[2] < cols)}

LoadTile(t) ==
    /\ route.kind = "tile" /\ block < Grid(route) /\ pc[t] = "load"
    /\ sa' = [x \in DOMAIN sa |-> IF x \in InPart(PartK, PartN, Loaded(t))
                                  THEN SrcTile - src.base + x[1] * route.src_k + x[2] * route.src_n
                                  ELSE sa[x]]
    /\ pc' = [pc EXCEPT ![t] = "barrier"]
    /\ UNCHANGED <<src, route, block, dst, written, wrong>>

Barrier_None == TRUE
Barrier == \A t \in Threads : pc[t] # "load"

StoreTile(t) ==
    /\ pc[t] = "barrier" /\ Barrier
    /\ Put({<<DstTile + x[1] * route.dst_n + x[2] * route.dst_k, sa[<<x[2], x[1]>>]>> :
               x \in InPart(PartN, PartK, Loaded(t))})
    /\ pc' = [pc EXCEPT ![t] = "done"]
    /\ UNCHANGED <<src, route, block, sa>>

\* Blocks share nothing but the destination. Where no place is written twice
\* (WrittenOnce) their order does not matter; elsewhere it is that of the grid here.
NextBlock ==
    /\ \A t \in Threads : pc[t] = "done"
    /\ block' = block + 1
    /\ pc' = [t \in Threads |-> "load"]
    /\ sa' = [x \in DOMAIN sa |-> -1]
    /\ UNCHANGED <<src, route, dst, written, wrong>>

Next == Route \/ NextBlock \/ \E t \in Threads : CopyTail(t) \/ LoadTile(t) \/ StoreTile(t)

Spec == Init /\ [][Next]_vars

-----------------------------------------------------------------------------
Finished == route.kind \in {"generic", "tail", "tile"} /\ block = Grid(route)

\* When the kernel is done the destination holds for every coordinate the
\* element of the source: the decomposition into a batch and a transposed
\* plane, partial tiles and unaligned tails included.
CopiedRight == Finished => \A c \in Coords : dst[OutAt(c)] = InAt(c)

\* No place is written by two threads or lies outside the destination, which
\* is why blocks may run in any order.
WrittenOnce == wrong = {}

\* What holds of it: only the prologue of the tail kernel goes too far, where the last dimension is
\* shorter than the elements up to the first aligned one.
WrittenOnceUnlessShort == wrong # {} => route.kind = "tail" /\ src.sizes[3] < Burst - 1

\* The bursts of the tail kernel start at multiples of sixteen bytes.
BurstsAligned ==
    route.kind = "tail" => \A t \in Threads : \A k \in Bursts(t) :
        (PlaneIn + k) % Burst = 0 /\ (PlaneOut + k) % Burst = 0

\* So do the vectors with which full tiles are read and written.
TilesAligned ==
    route.kind = "tile" /\ block < Grid(route) /\ FullTile => \A t \in Threads : \A r \in RowsOf(t) :
        /\ (SrcTile + r * route.src_k + Col(t)) % Burst = 0
        /\ (DstTile + r * route.dst_n + Col(t)) % Burst = 0

\* A copy between different types does not enter the fast path, and is left to
\* the generic kernel.
OtherTypesFallBack == route.kind # "refused"

==============================================================================
