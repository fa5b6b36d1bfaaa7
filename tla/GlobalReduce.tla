----------------------------- MODULE GlobalReduce -----------------------------
(***************************************************************************)
(* A reduction across blocks (gpu_reduce_kernel and global_reduce of       *)
(* Reduce.cuh).  The blocks of one output store their partial results in   *)
(* a staging buffer and count themselves in a semaphore; the one that      *)
(* counts last combines all of them.  An iterator too large for 32-bit     *)
(* indexing is reduced by several launches, which accumulate in the        *)
(* output, or in a buffer of their own when the output's type is too       *)
(* narrow.  A store becomes visible to other blocks at the latest at the   *)
(* thread's next fence.                                                    *)
(***************************************************************************)
EXTENDS Integers, Bags, FiniteSetsExt

CONSTANTS GridX,      \* columns of blocks, each with outputs of its own
          CtasPerOutput,
          Width,      \* blockDim.x
          Launches    \* sub-iterators of with_32bit_indexing

VARIABLES alongX,     \* should_block_x_reduce
          accMode,    \* where launches accumulate: "output" or a "buffer"
          launch,     \* number of the launch, Launches + 1 when all are done
          pc,         \* [block -> [thread -> step]]
          pending,    \* [block -> [thread -> its staging store is not visible yet]]
          staging,    \* [offset -> value], from the caching allocator: any bytes
          semaphores, \* [column -> blocks counted]
          isLast,     \* [block -> is_last_block_done_shared]
          value,      \* [block -> [thread -> value]]
          out, acc    \* [output -> value]
vars == <<alongX, accMode, launch, pc, pending, staging, semaphores, isLast, value, out, acc>>

Columns == 0 .. GridX - 1
Ctas == 0 .. CtasPerOutput - 1
Blocks == Columns \X Ctas
Lanes == 0 .. Width - 1

\* With a reduction along x a column has one output, else one for each lane.
OutputIdx(b, x) == IF alongX THEN b[1] * Width ELSE b[1] * Width + x
Outputs == {OutputIdx(b, x) : b \in Blocks, x \in Lanes}

Garbage == SetToBag({<<0, 0, 0>>})
Partial(k, b, x) == SetToBag({<<k, b[2], OutputIdx(b, x)>>})   \* what the block itself reduced

ShouldStore(x) == alongX => x = 0

StagingOffset(b, cta2, x) ==
    IF alongX THEN cta2 + b[1] * CtasPerOutput
    ELSE x + (cta2 + b[1] * CtasPerOutput) * Width
Slots == 0 .. GridX * CtasPerOutput * Width - 1

\* The state of a launch: the values are those of the block's own reduction,
\* and supaMemsetAsync has cleared the semaphores.
Begin(k) ==
    /\ pc' = [b \in Blocks |-> [x \in Lanes |-> "store"]]
    /\ pending' = [b \in Blocks |-> [x \in Lanes |-> FALSE]]
    /\ semaphores' = [c \in Columns |-> 0]
    /\ isLast' = [b \in Blocks |-> FALSE]
    /\ value' = [b \in Blocks |-> [x \in Lanes |-> Partial(k, b, x)]]

Init ==
    /\ alongX \in BOOLEAN
    /\ accMode \in {"output", "buffer"}
    /\ launch = 1
    /\ pc = [b \in Blocks |-> [x \in Lanes |-> "store"]]
    /\ pending = [b \in Blocks |-> [x \in Lanes |-> FALSE]]
    /\ staging = [n \in Slots |-> Garbage]
    /\ semaphores = [c \in Columns |-> 0]
    /\ isLast = [b \in Blocks |-> FALSE]
    /\ value = [b \in Blocks |-> [x \in Lanes |-> Partial(1, b, x)]]
    /\ out = [o \in Outputs |-> Garbage]
    /\ acc = [o \in Outputs |-> Garbage]

Goto(b, x, l) == pc' = [pc EXCEPT ![b][x] = l]

-----------------------------------------------------------------------------
\* reduce_buffer[offset] = value; the store may stay in the thread's buffer.
Store(b, x) ==
    /\ pc[b][x] = "store"
    /\ pending' = [pending EXCEPT ![b][x] = ShouldStore(x)]
    /\ Goto(b, x, "fence")
    /\ UNCHANGED <<alongX, accMode, launch, staging, semaphores, isLast, value, out, acc>>

Visible(b, x) ==
    staging' = [staging EXCEPT ![StagingOffset(b, b[2], x)] = Partial(launch, b, x)]

\* The hardware makes a store visible when it likes, ...
Drain(b, x) ==
    /\ pending[b][x]
    /\ Visible(b, x)
    /\ pending' = [pending EXCEPT ![b][x] = FALSE]
    /\ UNCHANGED <<alongX, accMode, launch, pc, semaphores, isLast, value, out, acc>>

\* ... and __threadfence waits for it.
Fenced(b, x) == ~pending[b][x]
Fence(b, x) ==
    /\ pc[b][x] = "fence" /\ Fenced(b, x)
    /\ Goto(b, x, "sync")
    /\ UNCHANGED <<alongX, accMode, launch, pending, staging, semaphores, isLast, value, out, acc>>

\* The __syncthreads before mark_block_finished counts the block.
Together(b, l) == \A x \in Lanes : pc[b][x] = l
SyncBeforeCount(b) ==
    /\ Together(b, "sync")
    /\ pc' = [pc EXCEPT ![b] = [x \in Lanes |-> IF x = 0 THEN "count" ELSE "counted"]]
    /\ UNCHANGED <<alongX, accMode, launch, pending, staging, semaphores, isLast, value, out, acc>>

IsLast(prev) == prev = CtasPerOutput - 1
Count(b) ==
    /\ pc[b][0] = "count"
    /\ semaphores' = [semaphores EXCEPT ![b[1]] = @ + 1]
    /\ isLast' = [isLast EXCEPT ![b] = IsLast(semaphores[b[1]])]
    /\ Goto(b, 0, "counted")
    /\ UNCHANGED <<alongX, accMode, launch, pending, staging, value, out, acc>>

\* The second __syncthreads: a block that is not the last is done.
SyncAfterCount(b) ==
    /\ Together(b, "counted")
    /\ pc' = [pc EXCEPT ![b] = [x \in Lanes |-> IF isLast[b] THEN "combine" ELSE "done"]]
    /\ UNCHANGED <<alongX, accMode, launch, pending, staging, semaphores, isLast, value, out, acc>>

\* The last block: along x its lanes share the blocks' results and are then
\* reduced together; otherwise each lane takes all the results of its output.
MyCtas(x) == IF alongX THEN {c \in Ctas : c % Width = x} ELSE Ctas
SumOf(f) == [e \in UNION {BagToSet(f[i]) : i \in DOMAIN f} |->
                MapThenSumSet(LAMBDA i : CopiesIn(e, f[i]), DOMAIN f)]
Combine(b, x) ==
    /\ pc[b][x] = "combine"
    /\ value' = [value EXCEPT ![b][x] =
                     SumOf([c \in MyCtas(x) |-> staging[StagingOffset(b, c, x)]])]
    /\ Goto(b, x, "reduce")
    /\ UNCHANGED <<alongX, accMode, launch, pending, staging, semaphores, isLast, out, acc>>

\* block_y_reduce and block_x_reduce of the combined values: see BlockReduce.
Reduce(b) ==
    /\ Together(b, "reduce")
    /\ value' = IF alongX THEN [value EXCEPT ![b][0] = SumOf(value[b])] ELSE value
    /\ pc' = [pc EXCEPT ![b] = [x \in Lanes |-> IF ShouldStore(x) THEN "write" ELSE "done"]]
    /\ UNCHANGED <<alongX, accMode, launch, pending, staging, semaphores, isLast, out, acc>>

(***************************************************************************)
(* The result: should_accumulate holds for every launch but the first,     *)
(* is_final_output for the last.  Without a buffer the running value is    *)
(* kept in the output; so it is by an AccumulationBuffer that reuses an    *)
(* output of sufficient width.                                             *)
(***************************************************************************)
Accumulate_Never(k) == FALSE
Accumulate(k) == k > 1
FinalOutput(k) == k = Launches
AccAt(o) == IF accMode = "buffer" THEN acc[o] ELSE out[o]

WriteOut(b, x) ==
    /\ pc[b][x] = "write"
    /\ \E v \in {IF Accumulate(launch) THEN AccAt(OutputIdx(b, x)) (+) value[b][x]
                 ELSE value[b][x]} :
          IF FinalOutput(launch) \/ accMode # "buffer"
          THEN out' = [out EXCEPT ![OutputIdx(b, x)] = v] /\ UNCHANGED acc
          ELSE acc' = [acc EXCEPT ![OutputIdx(b, x)] = v] /\ UNCHANGED out
    /\ Goto(b, x, "done")
    /\ UNCHANGED <<alongX, accMode, launch, pending, staging, semaphores, isLast, value>>

\* The next launch on the same stream: the staging buffer and the semaphores
\* come from the caching allocator again, with the old bytes in the former.
NextLaunch ==
    /\ launch <= Launches
    /\ \A b \in Blocks : Together(b, "done")
    /\ launch' = launch + 1
    /\ Begin(launch + 1)
    /\ UNCHANGED <<alongX, accMode, staging, out, acc>>

Running == launch <= Launches
Next ==
    \/ Running /\ \E b \in Blocks :
          \/ \E x \in Lanes : \/ Store(b, x) \/ Drain(b, x) \/ Fence(b, x)
                              \/ Combine(b, x) \/ WriteOut(b, x)
          \/ SyncBeforeCount(b) \/ Count(b) \/ SyncAfterCount(b) \/ Reduce(b)
    \/ NextLaunch
Spec == Init /\ [][Next]_vars

-----------------------------------------------------------------------------
Everything(n, o) == SetToBag((1 .. n) \X Ctas \X {o})

\* When all launches are done every output holds what every block of every
\* launch contributed, once, and no byte that was in the buffers before.
ResultComplete == launch > Launches => \A o \in Outputs : out[o] = Everything(Launches, o)

\* In every launch the last block of a column writes the running result once
\* and completely: no output shows a part of the blocks of this launch.
NoPartialResult ==
    \A o \in Outputs : \E k \in 0 .. launch :
        AccAt(o) = IF k = 0 THEN Garbage ELSE Everything(k, o)
=============================================================================
