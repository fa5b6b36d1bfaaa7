-------------------------- MODULE ElementwiseKernels --------------------------
(***************************************************************************)
(* The elementwise kernels at work (CUDALoops.cuh, Loops.cuh and the       *)
(* policies of MemoryAccess.cuh): every thread of every block loads its    *)
(* arguments, applies the functor and stores the results, in any order     *)
(* with the others.  The operation is binary; its output may be the first  *)
(* input (an in-place operation).  num_threads() is a parameter; the       *)
(* elements per thread and the vector sizes are those of the code or       *)
(* smaller.                                                                *)
(***************************************************************************)
EXTENDS Integers

CONSTANTS NT,            \* num_threads()
          Kernels,       \* kernels tried: see Legal
          Rows, Cols,    \* sizes of the inner and of the outer dimension tried
          Works, Vecs    \* elems_per_thread and vec_size tried

ConstantsAssumption == NT \in Nat \ {0} /\ Rows \cup Cols \subseteq Nat \ {0}

VARIABLES launch,    \* the kernel, its parameters and the iterator
          out,       \* the output, which is also input 0 when in place
          pc,        \* per block and thread: "load", "compute", "store", "done"
          args,      \* the arguments it loaded
          results    \* the results it computed
vars == <<launch, out, pc, args, results>>

\* One value per element; b is -1 until the functor has been applied.
Initial(i) == [a |-> i, b |-> -1]
Unset == [a |-> -1, b |-> -2]

Numel == launch.rows * launch.cols

\* Input 1: dense, or the same for a whole row or column, or walked across.
Offset1(l, i) == CASE l.layout = "dense"     -> i
                   [] l.layout = "row"       -> i \div l.rows
                   [] l.layout = "col"       -> i % l.rows
                   [] OTHER                  -> (i % l.rows) * l.cols + (i \div l.rows)

\* The kernels that only take linear indices need every tensor dense.
Launches ==
    {l \in [kernel : Kernels, vec : Vecs, tws : Works, rows : Rows, cols : Cols, matched : {0, 1},
            layout : {"dense", "row", "col", "transposed"}, inplace : BOOLEAN] :
        /\ l.kernel = "vectorized" => l.layout = "dense"
        /\ l.kernel \in {"vectorized", "hybrid"} => l.tws % l.vec = 0
        /\ l.kernel \notin {"vectorized", "hybrid"} => l.vec = 1
        /\ l.kernel # "hybrid" => l.matched = 0
        /\ l.matched = 1 => l.layout # "dense" /\ ~l.inplace
        /\ l.kernel = "hybrid" => l.layout # "dense"}

-----------------------------------------------------------------------------
BlockWork == launch.tws * NT
Grid == (Numel + BlockWork - 1) \div BlockWork
Threads == (0 .. Grid - 1) \X (0 .. NT - 1)
Slots == 0 .. launch.tws - 1

\* How many elements are left from block b on: the last block takes the tail.
remaining(b) == Numel - BlockWork * b
TailBlock(b) == remaining(b) < BlockWork

\* The hybrid and the vectorized kernels fall back to the unrolled policy in
\* the block of the tail.
Vectorized(b) == launch.kernel \in {"vectorized", "hybrid"} /\ ~TailBlock(b)

check_inbounds(b, t, s) == Vectorized(b) \/ t + s * NT < remaining(b)

\* unroll: a thread steps by the number of threads.
UnrollIdx(b, t, s) == t + s * NT + BlockWork * b

\* elementwise_kernel, the legacy one, starts with the block and steps alike.
LegacyIdx(b, t, s) == (BlockWork * b + t) + s * NT

\* multi_outputs_unroll stops at the first element that is not there.
MultiIdx(b, t, s) == t + s * NT + BlockWork * b

SteppedIdx(b, t, s) == CASE launch.kernel = "legacy" -> LegacyIdx(b, t, s)
                         [] launch.kernel = "multi"  -> MultiIdx(b, t, s)
                         [] OTHER                    -> UnrollIdx(b, t, s)

\* vectorized and hybrid_vectorized: slot vec * i + j is element j of vector i.
VectorIdx(b, t, s) == BlockWork * b + (t + (s \div launch.vec) * NT) * launch.vec + (s % launch.vec)

\* hybrid_scalar_load_helper: the input that does not match, element by element
\* in the order of the vectors.
ScalarIdx(b, t, s) == (t + (s \div launch.vec) * NT) * launch.vec + BlockWork * b + (s % launch.vec)

LoadIdx(n, b, t, s) == IF ~Vectorized(b) THEN SteppedIdx(b, t, s)
                       ELSE IF launch.kernel = "hybrid" /\ n # launch.matched THEN ScalarIdx(b, t, s)
                       ELSE VectorIdx(b, t, s)
StoreIdx(b, t, s) == IF Vectorized(b) THEN VectorIdx(b, t, s) ELSE SteppedIdx(b, t, s)

\* The element that input n has for linear index i.  With matched = 1 the
\* inputs change roles: input 1 is dense and input 0 has the layout.
Element(n, i) == IF n = launch.matched THEN i ELSE Offset1(launch, i)

\* Input 0 is read from the output's memory when the operation is in place.
Input(n, i) == IF n = 0 /\ launch.inplace THEN out[Element(0, i)] ELSE Initial(Element(n, i))

Init ==
    /\ launch \in Launches
    /\ out = [i \in 0 .. Numel - 1 |-> IF launch.inplace THEN Initial(i) ELSE Unset]
    /\ pc = [x \in Threads |-> "load"]
    /\ args = [x \in Threads |-> <<>>]
    /\ results = [x \in Threads |-> <<>>]

\* policy.load
Load(x) ==
    /\ pc[x] = "load"
    /\ args' = [args EXCEPT ![x] =
          [s \in {u \in Slots : check_inbounds(x[1], x[2], u)} |->
              <<Input(0, LoadIdx(0, x[1], x[2], s)), Input(1, LoadIdx(1, x[1], x[2], s))>>]]
    /\ pc' = [pc EXCEPT ![x] = "compute"]
    /\ UNCHANGED <<launch, out, results>>

\* The functor: a value that has been through it already is no argument.
Apply(p) == IF p[1].b = -1 THEN [a |-> p[1].a, b |-> p[2].a] ELSE Unset

Compute(x) ==
    /\ pc[x] = "compute"
    /\ results' = [results EXCEPT ![x] = [s \in DOMAIN args[x] |-> Apply(args[x][s])]]
    /\ args' = [args EXCEPT ![x] = <<>>]
    /\ pc' = [pc EXCEPT ![x] = "store"]
    /\ UNCHANGED <<launch, out>>

\* policy.store
Store(x) ==
    /\ pc[x] = "store"
    /\ out' = [i \in DOMAIN out |->
          IF \E s \in DOMAIN results[x] : StoreIdx(x[1], x[2], s) = i
          THEN results[x][CHOOSE s \in DOMAIN results[x] : StoreIdx(x[1], x[2], s) = i]
          ELSE out[i]]
    /\ results' = [results EXCEPT ![x] = <<>>]
    /\ pc' = [pc EXCEPT ![x] = "done"]
    /\ UNCHANGED <<launch, args>>

Next == \E x \in Threads : Load(x) \/ Compute(x) \/ Store(x)

Spec == Init /\ [][Next]_vars

-----------------------------------------------------------------------------
\* Every access is to an element of the tensors, also by the threads of the
\* last block that have nothing left to do.
InBounds ==
    \A x \in Threads : \A s \in Slots :
        check_inbounds(x[1], x[2], s) =>
            /\ StoreIdx(x[1], x[2], s) \in 0 .. Numel - 1
            /\ \A n \in {0, 1} : LoadIdx(n, x[1], x[2], s) \in 0 .. Numel - 1

\* When all threads are done each element of the output holds the functor of
\* the elements of the inputs at its own index, whatever the order of the
\* threads, also when the output is one of the inputs.
ResultsRight ==
    (\A x \in Threads : pc[x] = "done") =>
        \A i \in 0 .. Numel - 1 : out[i] = [a |-> Element(0, i), b |-> Element(1, i)]

==============================================================================
