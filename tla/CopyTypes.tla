------------------------------ MODULE CopyTypes ------------------------------
(***************************************************************************)
(* Which functor a copy on the device runs for the types of destination    *)
(* and source (direct_copy_kernel_cuda and float8_copy_kernel_cuda in      *)
(* copy.cu), and whether the launch converts while loading and storing     *)
(* (gpu_kernel) or trusts the functor's own types (gpu_kernel_nocast).     *)
(* Which pairs are known depends on the version of PyTorch the extension   *)
(* is built for.                                                           *)
(***************************************************************************)
EXTENDS Integers, FiniteSets

CONSTANTS Float8,      \* the eight-bit floating point types but e8m0fnu
          QInt,        \* quantised integers
          Bits,        \* opaque bits types
          Others       \* every other type without a path of its own

E8 == "e8m0fnu"
Named == {"f32", "bf16", "half", "short"}
Types == Float8 \cup QInt \cup Bits \cup Others \cup Named \cup {E8}

VARIABLES dtype, other, new, call
vars == <<dtype, other, new, call>>

None == [kind |-> "none"]
Refused == [kind |-> "refused"]

\* A launch of a functor from one type to another.
Nocast(from, to) == [kind |-> "nocast", from |-> from, to |-> to]

\* gpu_kernel: the functor is the identity of one type, the rest is converted.
Cast(t) == [kind |-> "cast", from |-> t, to |-> t]

\* Before 2.8 e8m0fnu is not known as a float8 type here.
isFloat8Type(t) == t \in Float8 \/ (new /\ t = E8)
Halves == {"half", "bf16"}

float8_copy_kernel_cuda ==
    IF other \in {"f32"} \cup Halves THEN Nocast(other, dtype) ELSE Cast(dtype)

\* The conversions between float and its shorter relatives.
Converted == \/ other = "f32" /\ dtype \in Halves
             \/ other \in Halves /\ dtype = "f32"

\* The functor of a converted pair is chosen by the one of the two types that
\* is not float.
ConvertedCall == IF other = "f32" THEN Nocast("f32", dtype) ELSE Nocast(other, "f32")

direct_copy_kernel_cuda ==
    IF dtype \in QInt THEN Cast(dtype)
    ELSE IF isFloat8Type(dtype) THEN float8_copy_kernel_cuda
    ELSE IF Converted THEN ConvertedCall
    ELSE IF other = "f32" /\ dtype = "short" THEN Nocast("f32", "short")
    ELSE IF new /\ other = E8 /\ dtype \in {"f32"} \cup Halves THEN Nocast(E8, dtype)
    ELSE IF dtype \in Bits THEN (IF dtype = other THEN Nocast(dtype, dtype) ELSE Refused)
    ELSE Cast(dtype)

Init == /\ dtype \in Types /\ other \in Types /\ new \in BOOLEAN
        /\ (new \/ E8 \notin {dtype, other})
        /\ call = None

Copy == call = None /\ call' = direct_copy_kernel_cuda /\ UNCHANGED <<dtype, other, new>>

Next == Copy

Spec == Init /\ [][Next]_vars

-----------------------------------------------------------------------------
\* gpu_kernel_impl_nocast asserts that nothing has to be converted: whatever
\* branch is taken, the functor of a nocast launch has exactly the types of
\* the tensors, or the bytes of one would be read as another.
NocastTypesAgree == call.kind = "nocast" => call.from = other /\ call.to = dtype

==============================================================================
