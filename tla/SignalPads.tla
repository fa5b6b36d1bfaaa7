----------------------------- MODULE SignalPads -----------------------------
(***************************************************************************)
(* The signal pads of symmetric memory and the kernels that synchronise    *)
(* through them: sync_remote_blocks (SUPASymmetricMemory-inl.h), the       *)
(* barrier, put_signal and wait_signal kernels (SUPASymmetricMemory.su)    *)
(* and the all-reduce and reduce-scatter kernels                           *)
(* (SUPASymmetricMemoryOps.su).                                            *)
(*                                                                         *)
(* Every rank runs the same sequence of kernels on one stream.  One block  *)
(* per kernel is modelled: block b of a rank only talks to block b of the  *)
(* others, through words of its own.  The threads of the block interleave; *)
(* thread t owns element t of every rank's slice.  A value is the set of   *)
(* inputs <<rank, round>> summed into it, so a stale or doubly written     *)
(* element shows.  The multimem kernels are left out: on this build their  *)
(* loads and stores are CUDA_KERNEL_ASSERT(false).                         *)
(***************************************************************************)
EXTENDS Naturals, Sequences, FiniteSets

CONSTANTS WorldSize,     \* ranks 0 .. WorldSize - 1
          NumThreads,    \* threads of the block (at least one per peer)
          Rounds,        \* bound: kernels every rank runs
          Kernels,       \* the kernels a program may launch
          TimeoutSet     \* timeout_ms # 0 in barrier, put_signal, wait_signal

ShapeAssumption ==
    /\ WorldSize \in Nat \ {0} /\ Rounds \in Nat /\ NumThreads \in Nat
    /\ NumThreads >= WorldSize
    /\ TimeoutSet \in BOOLEAN

VARIABLES program,   \* the kernels launched, the same on every rank
          round,     \* [rank -> the kernel it runs]
          phase,     \* [rank -> [thread -> index into the kernel's phases]]
          waiting,   \* [rank -> [thread -> it put its signal and waits]]
          pads,      \* [rank -> [sender -> 0 or 1]]: signal_pads[rank][sender]
          buf,       \* [rank -> [element -> inputs]]: the symmetric buffer
          out,       \* [rank -> [element -> inputs]]: the local output
          trapped    \* ranks whose kernel gave up after its timeout
vars == <<program, round, phase, waiting, pads, buf, out, trapped>>

Ranks == 0 .. WorldSize - 1
Threads == 0 .. NumThreads - 1
Elements == Ranks \X Threads     \* <<slice, thread>>

(***************************************************************************)
(* What one thread of a kernel executes.  "block" is __syncthreads, or the *)
(* boundary to the previous kernel of the stream that produced the input.  *)
(***************************************************************************)
OneShotCopy == <<"copy", "sync", "block", "reduce", "block", "sync">>
OneShot_LastSyncDropped ==
    <<"produce", "block", "sync", "block", "reduce", "block">>
OneShot == <<"produce", "block", "sync", "block", "reduce", "block", "sync">>
TwoShot == <<"produce", "block", "sync", "block", "scatter", "block", "sync",
             "block", "gather", "block", "sync">>
TwoShotInplace == <<"produce", "block", "sync", "block", "scatter_all", "block", "sync">>
ReduceScatter == <<"produce", "block", "sync", "block", "scatter_out", "block", "sync">>
Barrier == <<"barrier">>
PutWait == <<"put", "block", "wait">>

Phases(k) == CASE k = "one_shot_copy" -> OneShotCopy
               [] k = "one_shot" -> OneShot
               [] k = "two_shot" -> TwoShot
               [] k = "two_shot_inplace" -> TwoShotInplace
               [] k = "reduce_scatter" -> ReduceScatter
               [] k = "barrier" -> Barrier
               [] k = "put_wait" -> PutWait

KernelOf(r) == program[round[r]]
Running(r) == round[r] <= Rounds /\ r \notin trapped
AtPhase(r, t, p) ==
    /\ Running(r)
    /\ phase[r][t] <= Len(Phases(KernelOf(r)))
    /\ Phases(KernelOf(r))[phase[r][t]] = p
Advance(r, t) == phase' = [phase EXCEPT ![r][t] = @ + 1]

Init ==
    /\ program \in [1 .. Rounds -> Kernels]
    /\ round = [r \in Ranks |-> 1]
    /\ phase = [r \in Ranks |-> [t \in Threads |-> 1]]
    /\ waiting = [r \in Ranks |-> [t \in Threads |-> FALSE]]
    /\ pads = [r \in Ranks |-> [q \in Ranks |-> 0]]
    /\ buf = [r \in Ranks |-> [e \in Elements |-> {}]]
    /\ out = [r \in Ranks |-> [e \in Elements |-> {}]]
    /\ trapped = {}

-----------------------------------------------------------------------------
(***************************************************************************)
(* put_signal spins on cas(addr, 0, 1), wait_signal on cas(addr, 1, 0).    *)
(***************************************************************************)
Put(r, target) == pads[target][r] = 0 /\ pads' = [pads EXCEPT ![target][r] = 1]
Wait(r, source) == pads[r][source] = 1 /\ pads' = [pads EXCEPT ![r][source] = 0]

\* A signalling thread puts to its target and then waits for the target's put.
Exchange(r, t) ==
    \/ /\ ~waiting[r][t]
       /\ Put(r, t)
       /\ waiting' = [waiting EXCEPT ![r][t] = TRUE]
       /\ UNCHANGED phase
    \/ /\ waiting[r][t]
       /\ Wait(r, t)
       /\ waiting' = [waiting EXCEPT ![r][t] = FALSE]
       /\ Advance(r, t)

\* sync_remote_blocks: threads below world_size signal, the own rank included.
SyncRemoteBlocks(r, t) ==
    /\ AtPhase(r, t, "sync")
    /\ \/ t \in Ranks /\ Exchange(r, t)
       \/ t \notin Ranks /\ Advance(r, t) /\ UNCHANGED <<waiting, pads>>
    /\ UNCHANGED <<program, round, buf, out, trapped>>

\* barrier_kernel: the same with the own rank left out.
BarrierKernel(r, t) ==
    /\ AtPhase(r, t, "barrier")
    /\ \/ t \in Ranks \ {r} /\ Exchange(r, t)
       \/ t \notin Ranks \ {r} /\ Advance(r, t) /\ UNCHANGED <<waiting, pads>>
    /\ UNCHANGED <<program, round, buf, out, trapped>>

\* put_signal_kernel to the next rank: only thread 0 signals.
PutSignalKernel(r, t) ==
    /\ AtPhase(r, t, "put")
    /\ \/ t = 0 /\ Put(r, (r + 1) % WorldSize)
       \/ t # 0 /\ UNCHANGED pads
    /\ Advance(r, t)
    /\ UNCHANGED <<program, round, waiting, buf, out, trapped>>

\* wait_signal_kernel from the previous rank.
WaitSignalKernel(r, t) ==
    /\ AtPhase(r, t, "wait")
    /\ \/ t = 0 /\ Wait(r, (r + WorldSize - 1) % WorldSize)
       \/ t # 0 /\ UNCHANGED pads
    /\ Advance(r, t)
    /\ UNCHANGED <<program, round, waiting, buf, out, trapped>>

\* try_put_signal or try_wait_signal passes its deadline while the word has
\* the wrong value: the kernel prints and traps.
TimedOut(r, t) ==
    /\ TimeoutSet
    /\ \/ /\ AtPhase(r, t, "barrier") /\ t \in Ranks \ {r}
          /\ \/ ~waiting[r][t] /\ pads[t][r] # 0
             \/ waiting[r][t] /\ pads[r][t] # 1
       \/ AtPhase(r, t, "put") /\ t = 0 /\ pads[(r + 1) % WorldSize][r] # 0
       \/ AtPhase(r, t, "wait") /\ t = 0 /\ pads[r][(r + WorldSize - 1) % WorldSize] # 1
    /\ trapped' = trapped \cup {r}
    /\ UNCHANGED <<program, round, phase, waiting, pads, buf, out>>

\* __syncthreads: a thread goes on when every thread of the block has come.
SyncThreads(r, t) ==
    /\ AtPhase(r, t, "block")
    /\ \A u \in Threads : phase[r][u] >= phase[r][t]
    /\ Advance(r, t)
    /\ UNCHANGED <<program, round, waiting, pads, buf, out, trapped>>

-----------------------------------------------------------------------------
(***************************************************************************)
(* The data phases, each over the elements the thread strides over.        *)
(***************************************************************************)
Own(t) == Ranks \X {t}

\* The caller's kernel, or the copy loop of one_shot_all_reduce_copy, writes
\* the rank's input into its symmetric buffer.
Fill(r, t) ==
    /\ AtPhase(r, t, "produce") \/ AtPhase(r, t, "copy")
    /\ buf' = [buf EXCEPT ![r] = [e \in Elements |->
                   IF e \in Own(t) THEN {<<r, round[r]>>} ELSE @[e]]]
    /\ Advance(r, t)
    /\ UNCHANGED <<program, round, waiting, pads, out, trapped>>

\* load_and_reduce: the sum over the buffers of all ranks.
LoadAndReduce(e) == UNION {buf[q][e] : q \in Ranks}

Reduce(r, t) ==
    /\ AtPhase(r, t, "reduce")
    /\ out' = [out EXCEPT ![r] = [e \in Elements |->
                   IF e \in Own(t) THEN LoadAndReduce(e) ELSE @[e]]]
    /\ Advance(r, t)
    /\ UNCHANGED <<program, round, waiting, pads, buf, trapped>>

\* two_shot_all_reduce_kernel, first half: the rank's slice is reduced into
\* its own buffer, with reduce_scatter into the output.
Scatter(r, t) ==
    /\ AtPhase(r, t, "scatter")
    /\ buf' = [buf EXCEPT ![r][<<r, t>>] = LoadAndReduce(<<r, t>>)]
    /\ Advance(r, t)
    /\ UNCHANGED <<program, round, waiting, pads, out, trapped>>

ScatterOut(r, t) ==
    /\ AtPhase(r, t, "scatter_out")
    /\ out' = [out EXCEPT ![r][<<r, t>>] = LoadAndReduce(<<r, t>>)]
    /\ Advance(r, t)
    /\ UNCHANGED <<program, round, waiting, pads, buf, trapped>>

\* Second half: every slice is fetched from the rank that reduced it.
Gather(r, t) ==
    /\ AtPhase(r, t, "gather")
    /\ out' = [out EXCEPT ![r] = [e \in Elements |->
                   IF e \in Own(t) THEN buf[e[1]][e] ELSE @[e]]]
    /\ Advance(r, t)
    /\ UNCHANGED <<program, round, waiting, pads, buf, trapped>>

\* two_shot_all_reduce_kernel_inplace: the reduced slice is stored everywhere.
ScatterAll(r, t) ==
    /\ AtPhase(r, t, "scatter_all")
    /\ buf' = [q \in Ranks |-> [buf[q] EXCEPT ![<<r, t>>] = LoadAndReduce(<<r, t>>)]]
    /\ Advance(r, t)
    /\ UNCHANGED <<program, round, waiting, pads, out, trapped>>

\* The kernel ends when all its threads have; the stream starts the next one.
Finished(r) == Running(r) /\ \A t \in Threads : phase[r][t] > Len(Phases(KernelOf(r)))
KernelEnd(r) ==
    /\ Finished(r)
    /\ round' = [round EXCEPT ![r] = @ + 1]
    /\ phase' = [phase EXCEPT ![r] = [t \in Threads |-> 1]]
    /\ UNCHANGED <<program, waiting, pads, buf, out, trapped>>

Step(r, t) ==
    \/ SyncRemoteBlocks(r, t) \/ BarrierKernel(r, t) \/ PutSignalKernel(r, t)
    \/ WaitSignalKernel(r, t) \/ SyncThreads(r, t) \/ Fill(r, t) \/ Reduce(r, t)
    \/ Scatter(r, t) \/ ScatterOut(r, t) \/ Gather(r, t) \/ ScatterAll(r, t)

Next ==
    \/ \E r \in Ranks, t \in Threads : Step(r, t) \/ TimedOut(r, t)
    \/ \E r \in Ranks : KernelEnd(r)

\* The threads of a resident block all make progress.
Fairness ==
    /\ \A r \in Ranks, t \in Threads : WF_vars(Step(r, t))
    /\ \A r \in Ranks : WF_vars(KernelEnd(r))
Spec == Init /\ [][Next]_vars
FairSpec == Spec /\ Fairness

-----------------------------------------------------------------------------
Sum(k) == Ranks \X {k}

\* A finished all-reduce or reduce-scatter holds, in every element it is to
\* deliver, the sum of this round's inputs of all ranks: no peer's input was
\* read before it was written or after a later kernel overwrote it.
Delivers(r) ==
    /\ KernelOf(r) \in {"one_shot", "one_shot_copy", "two_shot"} =>
           \A e \in Elements : out[r][e] = Sum(round[r])
    /\ KernelOf(r) = "reduce_scatter" =>
           \A t \in Threads : out[r][<<r, t>>] = Sum(round[r])
    /\ KernelOf(r) = "two_shot_inplace" =>
           \A e \in Elements : buf[r][e] = Sum(round[r])
ResultRight == \A r \in Ranks : Finished(r) => Delivers(r)

\* What holds of it: a rank that runs one_shot_all_reduce_copy is sure of its own input and of the
\* elements that a peer's signalling thread copied itself, which its signal follows; of the others
\* it may have what the buffer held before (SUPASymmetricMemoryOps.su:375-382). Nothing is of a later
\* kernel. All other kernels deliver the sum.
CopyDelivers(r) ==
    \A e \in Elements :
        /\ \A q \in Ranks : q = r \/ e[2] = r => <<q, round[r]>> \in out[r][e]
        /\ \A x \in out[r][e] : x[2] <= round[r]
ResultRightUnlessCopied ==
    \A r \in Ranks : Finished(r) =>
        IF KernelOf(r) = "one_shot_copy" THEN CopyDelivers(r) ELSE Delivers(r)

\* No rank leaves a kernel that synchronises all ranks before every other
\* rank has entered it: ranks are never more than one kernel apart.
RanksTogether ==
    \A r, q \in Ranks :
        round[r] > 1 /\ program[round[r] - 1] # "put_wait" => round[q] >= round[r] - 1

\* Between two kernels no signal is left over for the next kernel to consume.
PadsClean ==
    (/\ trapped = {}
     /\ \A r, q \in Ranks : round[r] = round[q]
     /\ \A r \in Ranks, t \in Threads : phase[r][t] = 1 /\ ~waiting[r][t])
        => \A r, q \in Ranks : pads[r][q] = 0

\* With no timeout set, every kernel of the program ends on every rank: no
\* order of puts and waits leaves all ranks spinning.
AllEnded == \A r \in Ranks : round[r] = Rounds + 1
=============================================================================
