------------------------- MODULE ElementwiseDispatch -------------------------
(***************************************************************************)
(* Which kernel an elementwise operation is launched with (Loops.cuh,      *)
(* CUDALoops.cuh): from the types of the functor, the types, layouts and   *)
(* addresses of the tensors and the device, to the kernel, its vector      *)
(* size, the elements per thread, and the types that the kernel reads its  *)
(* inputs as and writes its output as.                                     *)
(***************************************************************************)
EXTENDS Integers, Sequences, FiniteSets, SequencesExt, FiniteSetsExt

CONSTANTS Functors,        \* the kinds of functors tried, see Functor
          Types,           \* element types of the tensors tried
          Layouts,         \* layouts of the inputs tried, see LayoutStrides
          Offsets,         \* storage offsets tried, in elements
          Tunings,         \* tuned_elems_per_thread: 0 for none
          Capabilities     \* compute capabilities of the device

VARIABLES iter,    \* the TensorIterator and the functor
          plan     \* what was launched, None before
vars == <<iter, plan>>

None == [kernel |-> "none"]

sizeof(t) == CASE t = "bool" -> 1 [] t = "bf16" -> 2 [] t = "f32" -> 4 [] t = "f64" -> 8
               [] OTHER -> 16

(***************************************************************************)
(* Functors: a binary operation on one type, a comparison, a fill under a  *)
(* mask, and a unary operation.                                            *)
(***************************************************************************)
Functor(k, c) == CASE k = "binary"  -> [args |-> <<c, c>>, res |-> c]
                   [] k = "compare" -> [args |-> <<c, c>>, res |-> "bool"]
                   [] k = "fill"    -> [args |-> <<c, "bool">>, res |-> c]
                   [] k = "unary"   -> [args |-> <<c>>, res |-> c]
                   [] OTHER         -> [args |-> <<>>, res |-> "bool"]

arity(f) == Len(f.args)

Shape == <<3, 2>>
LayoutStrides(l) == CASE l = "dense"  -> <<1, 3>>
                      [] l = "row"    -> <<0, 1>>      \* broadcast along the inner dimension
                      [] l = "col"    -> <<1, 0>>      \* broadcast along the outer one
                      [] l = "scalar" -> <<0, 0>>
                      [] l = "padded" -> <<1, 4>>
                      [] OTHER        -> <<256, 1>>    \* transposed, far apart

\* The type the operands promote to: one without dimensions gives way.
Wider(a, b) == IF sizeof(a) < sizeof(b) THEN b ELSE a
Promoted(a, b) == IF b.layout = "scalar" /\ a.layout # "scalar" THEN a.type
                  ELSE IF a.layout = "scalar" /\ b.layout # "scalar" THEN b.type
                  ELSE Wider(a.type, b.type)

Tensors(layouts) == [type : Types, layout : layouts, offset : Offsets]

\* The tensors that an operation of kind k, computing in type c, is given; the
\* output may have any type the result can be cast to.
Legal(k, c, t) ==
    /\ k \in {"binary", "compare"} => Promoted(t[2], t[3]) = c
    /\ k = "fill" => t[1].type = c /\ t[2].type = c /\ t[3].type = "bool"
    /\ t[1].type = "bool" => Functor(k, c).res = "bool"

Operands(k) == CASE k \in {"binary", "compare", "fill"} -> 2 [] k = "unary" -> 1 [] OTHER -> 0

Iters ==
    UNION {{[f |-> Functor(k, c), t |-> u, tuned |-> w, cc |-> p] :
              u \in {x \in {<<o>> \o i : o \in Tensors({"dense", "padded"}),
                                         i \in [1 .. Operands(k) -> Tensors(Layouts)]} : Legal(k, c, x)},
              w \in Tunings, p \in Capabilities} :
           k \in Functors, c \in Types}

-----------------------------------------------------------------------------
Strides(i, n) == LayoutStrides(i.t[n].layout)

\* A contiguous iterator has been coalesced into one dimension.
is_contiguous(i) == \A n \in DOMAIN i.t : i.t[n].layout = "dense"

needs_dynamic_casting(i) == \/ i.t[1].type # i.f.res
                            \/ \E n \in DOMAIN i.f.args : i.t[n + 1].type # i.f.args[n]

\* The address of the first element; allocations are aligned to more than 64.
Address(i, n) == i.t[n].offset * sizeof(i.t[n].type)

(***************************************************************************)
(* can_vectorize_up_to: for each pointer the widest vector of the type the *)
(* functor uses there that its address is a multiple of.                   *)
(***************************************************************************)
UpTo(address, type) == Max({v \in {1, 2, 4, 8} : v = 1 \/ address % (v * sizeof(type)) = 0})
can_vectorize_up_to(i) ==
    Min({UpTo(Address(i, 1), i.f.res)}
        \cup {UpTo(Address(i, n + 1), i.f.args[n]) : n \in DOMAIN i.f.args})

\* Eight elements are only compiled for capabilities 90 and 100.
DeviceCap(i) == IF i.cc \in {90, 100} THEN 8 ELSE 4

VecSize(i) == Min({16 \div sizeof(i.f.res), can_vectorize_up_to(i), DeviceCap(i)}
                  \cup (IF sizeof(i.f.res) < 2 THEN {4} ELSE {}))

calc_io_size(f) == FoldLeft(LAMBDA a, t : a + sizeof(t), sizeof(f.res), f.args)
elems_per_thread(io) == IF io = 1 THEN 16 ELSE 8

Plan(kernel, vec, tws, matched, loads, stored) ==
    [kernel |-> kernel, vec |-> vec, tws |-> tws, matched |-> matched,
     loads |-> loads, stored |-> stored]

\* The types the tensors really have: what LoadWithCast and fetch_and_cast
\* read, and StoreWithCast and cast_and_store write.
Actual(i) == [n \in DOMAIN i.f.args |-> i.t[n + 1].type]

launch_unrolled_kernel(loads, stored) == Plan("unrolled", 1, 4, 0, loads, stored)
launch_legacy_kernel(vt, loads, stored) == Plan("legacy", 1, vt, 0, loads, stored)

(***************************************************************************)
(* launch_vectorized_kernel: the tuned kernel when there is one for this   *)
(* vector size, otherwise the standard one, otherwise unrolled.            *)
(***************************************************************************)
launch_vectorized_kernel_tuned(i) == VecSize(i) \in (IF i.tuned = 24 THEN {2, 4} ELSE {2, 4, 8})

launch_vectorized_kernel(i) ==
    LET v == VecSize(i)
    IN IF i.tuned > 0 /\ launch_vectorized_kernel_tuned(i)
       THEN Plan("vectorized", v, i.tuned, 0, i.f.args, i.f.res)
       ELSE IF v \in {2, 4, 8}
       THEN Plan("vectorized", v, elems_per_thread(calc_io_size(i.f)), 0, i.f.args, i.f.res)
       ELSE launch_unrolled_kernel(i.f.args, i.f.res)

(***************************************************************************)
(* input_matches_contiguous_output: dense strides, the same in both.       *)
(***************************************************************************)
input_matches_contiguous_output(i, n) ==
    \A k \in DOMAIN Shape :
        /\ Strides(i, 1)[k] = (IF k = 1 THEN 1 ELSE Shape[1])
        /\ Strides(i, n + 1)[k] = Strides(i, 1)[k]

\* The matched input's outermost stride divides 32 to estimate the traffic.
OuterStride(i, n) == Strides(i, n + 1)[Len(Shape)]
BctLoad(i, m, o) ==
    IF Strides(i, o + 1)[1] = 0 THEN Max({1, 32 \div OuterStride(i, m)}) ELSE Min({OuterStride(i, m), 32})
IoSize(i, m, o) == 32 * sizeof(i.t[m + 1].type) + BctLoad(i, m, o) * sizeof(i.t[o + 1].type)

launch_hybrid_vectorized_kernel(i, m, types) ==
    Plan("hybrid", 4, IF IoSize(i, m, 3 - m) <= 96 THEN 16 ELSE 8, m, SubSeq(types, 2, 3), i.f.res)

(***************************************************************************)
(* The static kernels know the types of the tensors at compile time; the   *)
(* list is walked for the first entry <<output, input 1, input 2>> that    *)
(* the tensors have.                                                       *)
(***************************************************************************)
CastTypes == {<<"f32", "bf16", "f32">>, <<"bf16", "bf16", "f32">>, <<"f32", "f32", "bf16">>,
              <<"bf16", "bf16", "f64">>, <<"f32", "f32", "f64">>}
NocastTypes == {<<"bf16", "bf16", "bool">>, <<"f32", "f32", "f32">>}

\* Compiled for two arguments and a result of bf16 or float.
HasStatic(i) == arity(i.f) = 2 /\ i.f.res \in {"bf16", "f32"}
StaticMatch(i, types) == \A n \in 1 .. 3 : i.t[n].type = types[n]

\* The contiguous variant insists on a result of the output's type.
StaticContiguous(i) == {types \in CastTypes : HasStatic(i) /\ i.f.res = types[1] /\ StaticMatch(i, types)}
StaticBinary(i, list) == {types \in list : HasStatic(i) /\ StaticMatch(i, types)}

launch_static_binary(i, types) ==
    IF input_matches_contiguous_output(i, 1) THEN launch_hybrid_vectorized_kernel(i, 1, types)
    ELSE IF input_matches_contiguous_output(i, 2) THEN launch_hybrid_vectorized_kernel(i, 2, types)
    ELSE launch_legacy_kernel(4, SubSeq(types, 2, 3), i.f.res)

(***************************************************************************)
(* gpu_kernel_impl_nocast and gpu_kernel_impl.                             *)
(***************************************************************************)
legacy_path_use_ldcg(i) ==
    /\ \A n \in DOMAIN i.f.args : i.f.args[n] \in {"bf16", "f32"}
    /\ \E n \in DOMAIN i.f.args : Strides(i, n + 1)[1] * sizeof(i.t[n + 1].type) > 256

Unroll(i) == IF sizeof(i.f.res) >= 4 THEN 2 ELSE 4

gpu_kernel_impl_nocast(i) ==
    IF is_contiguous(i) THEN {launch_vectorized_kernel(i)}
    ELSE IF legacy_path_use_ldcg(i) \/ StaticBinary(i, NocastTypes) = {}
    THEN {launch_legacy_kernel(Unroll(i), i.f.args, i.f.res)}
    ELSE {launch_static_binary(i, types) : types \in StaticBinary(i, NocastTypes)}

gpu_kernel_impl(i) ==
    IF ~needs_dynamic_casting(i) THEN gpu_kernel_impl_nocast(i)
    ELSE IF is_contiguous(i)
    THEN IF StaticContiguous(i) # {}
         THEN {launch_unrolled_kernel(SubSeq(types, 2, 3), types[1]) : types \in StaticContiguous(i)}
         ELSE {launch_unrolled_kernel(Actual(i), i.t[1].type)}
    ELSE IF StaticBinary(i, CastTypes) # {}
    THEN {launch_static_binary(i, types) : types \in StaticBinary(i, CastTypes)}
    ELSE {launch_legacy_kernel(4, Actual(i), i.t[1].type)}

Init == iter \in Iters /\ plan = None

\* gpu_kernel, for an iterator that is not empty and fits 32-bit indices.
Launch ==
    /\ plan = None
    /\ plan' \in gpu_kernel_impl(iter)
    /\ UNCHANGED iter

Next == Launch

Spec == Init /\ [][Next]_vars

-----------------------------------------------------------------------------
Launched == plan.kernel # "none"

\* The kernels with fixed types are only taken when the tensors have them:
\* every input is read as what it is, on the cast and on the nocast paths.
InputsReadAsStored == Launched => plan.loads = Actual(iter)

\* A launch with eight elements per vector would run an empty kernel on any
\* other device than the ones it is compiled for.
Vec8OnlyWhereCompiled == Launched /\ plan.vec = 8 => iter.cc \in {90, 100}

\* launch_vectorized_kernel only uses vectors that every pointer is aligned
\* for, and a whole number of them per thread, no wider than 16 bytes of the
\* result.
VectorizedAligned ==
    Launched /\ plan.kernel = "vectorized" =>
        /\ plan.tws % plan.vec = 0
        /\ plan.vec * sizeof(plan.stored) <= 16
        /\ Address(iter, 1) % (plan.vec * sizeof(plan.stored)) = 0
        /\ \A n \in DOMAIN plan.loads : Address(iter, n + 1) % (plan.vec * sizeof(plan.loads[n])) = 0

\* The vector accesses of the hybrid kernel, to the matched input and to the
\* output, are aligned as aligned_vector requires.
HybridAligned ==
    Launched /\ plan.kernel = "hybrid" =>
        /\ Address(iter, 1) % (plan.vec * sizeof(plan.stored)) = 0
        /\ Address(iter, plan.matched + 1) % (plan.vec * sizeof(plan.loads[plan.matched])) = 0

\* The output is written in the type it has, whatever the functor returns.
OutputWrittenAsStored == Launched => plan.stored = iter.t[1].type

\* What holds of it: only a kernel with fixed types for an iterator that is not contiguous, which
\* stores what the functor returns, writes another type.
OutputWrittenUnlessStatic ==
    Launched /\ plan.stored # iter.t[1].type =>
        ~is_contiguous(iter) /\ StaticBinary(iter, CastTypes) # {}

\* What holds of HybridAligned: so they are where every storage offset is a multiple of the vector
\* and the output has the type that is written.
HybridAlignedIfOffsets ==
    Launched /\ plan.stored = iter.t[1].type /\ (\A n \in DOMAIN iter.t : iter.t[n].offset % 4 = 0)
        => HybridAligned

\* The hybrid kernel treats offsets as linear indices for the output and the
\* matched input only: both are dense, and the division is by no zero.
HybridDense ==
    Launched /\ plan.kernel = "hybrid" =>
        /\ iter.t[1].layout = "dense" /\ iter.t[plan.matched + 1].layout = "dense"
        /\ OuterStride(iter, plan.matched) > 0

==============================================================================
