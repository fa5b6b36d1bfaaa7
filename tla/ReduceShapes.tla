----------------------------- MODULE ReduceShapes -----------------------------
(***************************************************************************)
(* How a reduction is spread over lanes, warps and blocks (Reduce.cuh):    *)
(* setReduceConfig chooses the launch and the multipliers, input_idx and   *)
(* output_idx say from them which elements a thread reads and where it     *)
(* stores, and the memory sizes are computed from the same numbers.  The   *)
(* constants of the code (256 threads, warps of 32, vectors of 4 or 8,     *)
(* 16 to 256 values per thread) are parameters, so that a small instance   *)
(* crosses every threshold.                                                *)
(***************************************************************************)
EXTENDS Integers, FiniteSets, FiniteSetsExt

CONSTANTS MaxThreads,      \* mnt_wrapper::MAX_NUM_THREADS
          WarpSize,        \* at::supa::warp_size()
          Vec,             \* vt0 = input_vec_size
          MaxOutputVec,    \* the 4 of get_output_vec_size
          VectorizeFrom,   \* the 128 of "dim0 >= 128"
          MinValues,       \* min_values_per_thread
          MaxValues,       \* max_values_per_thread
          NumMp, ThreadsPerMp,             \* the device's properties
          InputCounts, OutputCounts,       \* the shapes tried
          OuterCounts, Bases, RowPads

ConstantsAssumption ==
    /\ {MaxThreads, WarpSize, Vec, MaxOutputVec} \subseteq {1, 2, 4, 8, 16, 32, 64, 128, 256}
    /\ VectorizeFrom \div Vec >= Vec      \* 128 / 8 >= 8 in the code
    /\ WarpSize >= Vec                    \* 32 >= 8 in the code
    /\ MaxValues >= MaxThreads            \* 256 >= 256 in the code
    /\ MinValues \in 1 .. MaxValues

VARIABLES iter,     \* the TensorIterator: see Iters
          config    \* the ReduceConfig, or None before it is chosen
vars == <<iter, config>>

None == [set |-> FALSE]

\* inputs reduced into each of outputs * outer results; fast: the reduced
\* dimension has the smaller stride; dense: that stride is one element; rows
\* (columns of the other dimension) are pad elements longer than needed.
Iters == [inputs : InputCounts, outputs : OutputCounts, outer : OuterCounts,
          base : Bases, pad : RowPads, fast : BOOLEAN, dense : BOOLEAN]

NumOutputs(i) == i.outputs * i.outer

-----------------------------------------------------------------------------
div_up(a, b) == (a + b - 1) \div b

\* The greatest power of two that is at most n; one for n = 0.
last_pow2(n) == Max({1} \cup {p \in {2, 4, 8, 16, 32, 64, 128, 256} : p <= n})

Least(a, b) == IF a < b THEN a ELSE b
Most(a, b) == IF a < b THEN b ELSE a

(***************************************************************************)
(* get_output_vec_size: the greatest vector that divides the address, the  *)
(* size of the fastest output dimension and every other stride.            *)
(***************************************************************************)
ReduceStride(i) == IF i.fast THEN (IF i.dense THEN 1 ELSE 2) ELSE i.outputs + i.pad
OutputStride(i) == IF i.fast THEN ReduceStride(i) * i.inputs + i.pad
                   ELSE IF i.dense THEN 1 ELSE 2
OuterStride(i) == IF i.fast THEN OutputStride(i) * i.outputs ELSE ReduceStride(i) * i.inputs

VecNumbers(i) == {i.base, i.outputs, ReduceStride(i)}
                 \cup (IF i.outer > 1 THEN {OuterStride(i)} ELSE {})
get_output_vec_size(i) ==
    Max({v \in {1, 2, 4} : v <= MaxOutputVec /\ \A n \in VecNumbers(i) : n % v = 0})

(***************************************************************************)
(* The dimensions setReduceConfig starts from, and set_block_dimension.    *)
(***************************************************************************)
VectorizeInput(i) == i.dense /\ i.fast /\ i.inputs >= VectorizeFrom
OutputVec(i) == IF i.dense /\ ~i.fast THEN get_output_vec_size(i) ELSE 1
Dim0(i) == IF i.fast THEN (IF VectorizeInput(i) THEN i.inputs \div Vec ELSE i.inputs)
           ELSE NumOutputs(i) \div OutputVec(i)
Dim1(i) == IF i.fast THEN NumOutputs(i) ELSE i.inputs

Pow2Dim(d, threads) == IF d < threads THEN last_pow2(d) ELSE threads
BlockHeight(i, threads) ==
    Least(Pow2Dim(Dim1(i), threads), threads \div Least(Pow2Dim(Dim0(i), threads), WarpSize))
BlockWidth(i, threads) ==
    Least(Pow2Dim(Dim0(i), threads), threads \div BlockHeight(i, threads))

(***************************************************************************)
(* The input is split over lanes when the reduced dimension is the fastest *)
(* one, over warps when each thread still has enough values, and over      *)
(* blocks when there are many values and few outputs.                      *)
(***************************************************************************)
ValuesPerThread(i, step) == div_up(i.inputs, step)

SplitWarps(i, bw, bh) ==
    ValuesPerThread(i, IF i.fast THEN bw ELSE 1) >= Least(bh * MinValues, MaxValues)

GridX(i, vec, stepOutput) == div_up(NumOutputs(i) \div vec, stepOutput)

MayUseBlocks(split, values, grid, target) ==
    split /\ values >= MaxValues /\ grid <= target

CtasPerOutput(values, grid, target) ==
    Most(Least(div_up(target, grid), div_up(values, MinValues)), div_up(values, MaxValues))

Ctas(i, split, stepInput, grid, threads) ==
    IF MayUseBlocks(split, ValuesPerThread(i, stepInput), grid, NumMp * (ThreadsPerMp \div threads))
    THEN CtasPerOutput(ValuesPerThread(i, stepInput), grid, NumMp * (ThreadsPerMp \div threads))
    ELSE 1

\* input_mult and output_mult: what split_input and split_output return is
\* the step so far, which they then multiply.
Config(i, bw, bh, vec, split, stepInput, stepOutput, ctas) ==
    [set |-> TRUE, bw |-> bw, bh |-> bh, vec |-> vec, vectorize |-> VectorizeInput(i),
     inX |-> IF i.fast THEN 1 ELSE 0,
     inY |-> IF ~split THEN 0 ELSE IF i.fast THEN bw ELSE 1,
     inCta |-> IF ctas > 1 THEN stepInput ELSE 0,
     outX |-> IF i.fast THEN 0 ELSE 1,
     outY |-> IF split THEN 0 ELSE IF i.fast THEN 1 ELSE bw,
     stepInput |-> stepInput * ctas, stepOutput |-> stepOutput,
     ctas |-> ctas, gx |-> GridX(i, vec, stepOutput)]

WithSteps(i, bw, bh, split, stepInput, stepOutput) ==
    Config(i, bw, bh, OutputVec(i), split, stepInput, stepOutput,
           Ctas(i, split, stepInput, GridX(i, OutputVec(i), stepOutput), bw * bh))

WithSplit(i, bw, bh, split) ==
    WithSteps(i, bw, bh, split, (IF i.fast THEN bw ELSE 1) * (IF split THEN bh ELSE 1),
              (IF i.fast THEN 1 ELSE bw) * (IF split THEN 1 ELSE bh))

WithBlock(i, bw, bh) == WithSplit(i, bw, bh, SplitWarps(i, bw, bh))

setReduceConfig(i) ==
    WithBlock(i, BlockWidth(i, MaxThreads \div OutputVec(i)),
              BlockHeight(i, MaxThreads \div OutputVec(i)))

\* The address only matters to vector loads.
Init == iter \in {i \in Iters : i.dense \/ i.base = 0} /\ config = None
Configure == /\ ~config.set
             /\ config' = setReduceConfig(iter)
             /\ UNCHANGED iter
Next == Configure
Spec == Init /\ [][Next]_vars

-----------------------------------------------------------------------------
(***************************************************************************)
(* The threads of the launch and what each of them does in run().          *)
(***************************************************************************)
Threads == [bx : 0 .. config.gx - 1, by : 0 .. config.ctas - 1,
            x : 0 .. config.bw - 1, y : 0 .. config.bh - 1]

should_block_x_reduce == config.inX # 0
should_block_y_reduce == config.inY # 0
should_global_reduce == config.inCta # 0

input_idx(t) == t.x * config.inX + t.y * config.inY + t.by * config.inCta
output_idx(t) ==
    (t.x * config.outX + t.y * config.outY + t.bx * config.stepOutput) * config.vec

should_store(t) ==
    /\ output_idx(t) < NumOutputs(iter)
    /\ should_block_x_reduce => t.x = 0
    /\ should_block_y_reduce => t.y = 0

should_reduce_tail(t) ==
    /\ should_block_y_reduce => t.y = 0
    /\ should_global_reduce => t.by = 0

\* The element where the inputs of output o begin.
RowStart(o) == iter.base + (o % iter.outputs) * OutputStride(iter)
                         + (o \div iter.outputs) * OuterStride(iter)

\* input_vectorized_thread_reduce_impl: the unaligned head, whole vectors,
\* and the tail, as sets of input numbers.
Shift(t) == RowStart(output_idx(t)) % Vec
Start(sh) == IF sh > 0 THEN Vec - sh ELSE 0
End(sh) == iter.inputs - Start(sh)
HeadReads(t, sh) ==
    IF sh > 0 /\ t.x >= sh /\ t.x < Vec /\ should_reduce_tail(t) THEN {t.x - sh} ELSE {}
Vectors(t, sh) ==
    {n \in {input_idx(t) + j * config.stepInput : j \in 0 .. (iter.inputs \div config.stepInput)} :
        n * Vec + Vec - 1 < End(sh)}
VectorReads(t, sh) ==
    {Start(sh) + n * Vec + k : n \in Vectors(t, sh), k \in 0 .. Vec - 1}
TailReads(t, sh) ==
    IF should_reduce_tail(t) /\ End(sh) - (End(sh) % Vec) + t.x < End(sh)
    THEN {Start(sh) + End(sh) - (End(sh) % Vec) + t.x} ELSE {}

\* thread_reduce_impl: rounds of Vec strided reads while all of them are in
\* range, and at most Vec reads after that.
Rounds(t) == Cardinality({r \in 0 .. (iter.inputs \div config.stepInput) :
                 input_idx(t) + (r * Vec + Vec - 1) * config.stepInput < iter.inputs})
StridedReads(t, rounds) ==
    {input_idx(t) + j * config.stepInput :
        j \in {k \in 0 .. (iter.inputs \div config.stepInput) :
                  k < rounds * Vec + Vec /\ input_idx(t) + k * config.stepInput < iter.inputs}}

VectorizedParts(t, sh) == <<HeadReads(t, sh), VectorReads(t, sh), TailReads(t, sh)>>
Parts(t) == IF config.vectorize THEN VectorizedParts(t, Shift(t))
            ELSE <<StridedReads(t, Rounds(t))>>
ReadsOf(parts) == UNION {parts[k] : k \in DOMAIN parts}
CountOf(parts) == MapThenSumSet(LAMBDA k : Cardinality(parts[k]), DOMAIN parts)

\* The memory of the reduction across blocks and within one.
staging_memory_offset(t, cta2) ==
    IF should_block_x_reduce THEN cta2 + t.bx * config.ctas
    ELSE t.x + (cta2 + t.bx * config.ctas) * config.bw
global_memory_size ==
    NumOutputs(iter) * config.ctas
        * (IF should_block_x_reduce THEN 1 ELSE config.bw * config.vec)
shared_memory_size ==
    IF ~should_block_y_reduce /\ (~should_block_x_reduce \/ config.bw <= WarpSize) THEN 0
    ELSE config.bw * config.bh * config.vec

-----------------------------------------------------------------------------
Results == {o \in 0 .. NumOutputs(iter) - 1 : o % config.vec = 0}
Team(o) == {t \in Threads : output_idx(t) = o}

\* Every input of every output is read by one thread, once: no lane, warp or
\* block skips an element or reads another's, with unaligned heads and short
\* tails included (thread_reduce and input_idx).
InputsPartitioned ==
    config.set => \A o \in Results :
        \E parts \in {[t \in {u \in Team(o) : input_idx(u) < iter.inputs} |-> Parts(t)]} :
            /\ UNION {ReadsOf(parts[t]) : t \in DOMAIN parts} = 0 .. iter.inputs - 1
            /\ MapThenSumSet(LAMBDA t : CountOf(parts[t]), DOMAIN parts) = iter.inputs

\* No thread whose value is combined into a result was left without a value:
\* run() leaves `value` uninitialised when input_idx is out of range.
ValuesInitialized ==
    config.set => \A t \in Threads :
        output_idx(t) < NumOutputs(iter) => input_idx(t) < iter.inputs

\* One thread per block and result stores it, and in a reduction across blocks
\* it has a place of its own, inside the buffer that global_memory_size asked
\* for.
OneStorer ==
    config.set => \E storers \in {{t \in Threads : should_store(t)}} :
        /\ \A o \in Results, b \in 0 .. config.ctas - 1 :
               Cardinality({t \in storers : t.by = b /\ output_idx(t) = o}) = 1
        /\ should_global_reduce => \E places \in {{staging_memory_offset(t, t.by) : t \in storers}} :
               /\ Cardinality(places) = Cardinality(storers)
               /\ \A n \in places : (n + 1) * config.vec <= global_memory_size

\* Shared memory is there for every reduction that uses it: block_x_reduce of
\* more than a warp, block_y_reduce, and the block_y_reduce that the last block
\* of a reduction across blocks always calls.
SharedMemoryFits ==
    (config.set /\ \/ should_block_y_reduce
                   \/ should_global_reduce
                   \/ should_block_x_reduce /\ config.bw > WarpSize)
        => shared_memory_size >= config.bw * config.bh * config.vec

\* A vector load along the outputs starts at an address that the vector divides
\* and stays in one row of outputs (get_output_vec_size).
VectorsAligned ==
    config.set /\ config.vec > 1 => \A t \in Threads : output_idx(t) < NumOutputs(iter) =>
        /\ RowStart(output_idx(t)) % config.vec = 0
        /\ \A n \in ReadsOf(Parts(t)) : (n * ReduceStride(iter)) % config.vec = 0
        /\ (output_idx(t) % iter.outputs) + config.vec <= iter.outputs
=============================================================================
