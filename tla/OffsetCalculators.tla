-------------------------- MODULE OffsetCalculators --------------------------
(***************************************************************************)
(* From the linear index of an element to its place in every tensor of an  *)
(* iterator (OffsetCalculator.cuh), by divisions that multiply with a      *)
(* magic number (IntegerDivider.cuh).  Words have W bits instead of 32, so *)
(* that every divisor and every dividend can be tried.                     *)
(***************************************************************************)
EXTENDS Integers, Sequences, FiniteSets, SequencesExt, FiniteSetsExt

CONSTANTS W,         \* bits of a word: 32 in the code
          Sizes,     \* sizes of a dimension that are tried
          Strides,   \* strides that are tried, in elements or in bytes
          BackStrides,   \* the same for tensors walked backwards
          MaxDims    \* MAX_DIMS

ConstantsAssumption ==
    /\ W \in Nat \ {0, 1}
    /\ Sizes \subseteq 1 .. 2 ^ (W - 1) - 1
    /\ MaxDims \in Nat

VARIABLES iter,         \* shape, strides and element sizes of an iterator
          calc,         \* the calculator made from it, None before
          linear_idx,   \* what get still has to divide
          asked,        \* the index get was called with
          dim,          \* the dimension get is at
          coords,       \* the remainders so far
          offsets       \* the offset of every argument so far
vars == <<iter, calc, linear_idx, asked, dim, coords, offsets>>

Word == 2 ^ W
IntMax == 2 ^ (W - 1) - 1
None == [set |-> FALSE]
NArgs == 2
Args == 0 .. NArgs - 1

Product(s) == FoldLeft(LAMBDA a, b : a * b, 1, s)

\* The furthest element from the data pointer, in the units of the strides:
\* can_use_32bit_indexing lets only iterators through whose offsets fit.
Reach(shape, strides, sign) ==
    FoldLeft(LAMBDA a, k : a + (IF sign * strides[k] > 0 THEN (shape[k] - 1) * sign * strides[k] ELSE 0),
             0, [k \in 1 .. Len(shape) |-> k])

Shapes == UNION {[1 .. n -> Sizes] : n \in 0 .. MaxDims}

\* Dense strides from the first dimension on, as the matched argument has.
Dense(shape) == [k \in 1 .. Len(shape) |-> Product(SubSeq(shape, 1, k - 1))]

\* The first argument (the output, or the matched input) is dense; the other
\* one has any strides, backwards ones only with signed_strides.
Strided(n) == [1 .. n -> Strides \cup {- b : b \in BackStrides}]

Fits(shape, strides) ==
    /\ Product(shape) <= IntMax
    /\ Reach(shape, strides, 1) <= IntMax
    /\ Reach(shape, strides, -1) <= IntMax

\* Who is given the linear index itself: nobody, the matched argument of a
\* HybridOffsetCalculator, or all when a TrivialOffsetCalculator will do.
TrivialOffsetCalculator(s, t) == IF t = Dense(s) THEN {Args} ELSE {}
Matched(s, t) == {{}, {0}} \cup TrivialOffsetCalculator(s, t)

ItersOf(s, t) == {[shape |-> s, strides |-> (0 :> Dense(s)) @@ (1 :> t), matched |-> m,
                   signed |-> g \/ \E k \in DOMAIN s : t[k] < 0] : m \in Matched(s, t), g \in BOOLEAN}

Iters == UNION {UNION {ItersOf(s, t) : t \in {u \in Strided(Len(s)) \cup {Dense(s)} : Fits(s, u)}} :
                s \in {u \in Shapes : Product(u) <= IntMax}}

-----------------------------------------------------------------------------
(***************************************************************************)
(* IntDivider: the smallest shift with 2^shift >= d, and the magic number  *)
(* in double words, of which m1 keeps one.                                 *)
(***************************************************************************)
Shift(d) == Min({s \in 0 .. W : s = W \/ 2 ^ s >= d})
Magic(d) == (Word * (2 ^ Shift(d) - d)) \div d + 1
IntDivider(d) == [divisor |-> d, shift |-> Shift(d), m1 |-> Magic(d) % Word]

\* The addition wraps on the device, where __umulhi gives one word.
div(v, n) == ((((n * v.m1) \div Word) + n) % Word) \div 2 ^ v.shift
mod(v, n) == (n - (div(v, n) * v.divisor)) % Word

(***************************************************************************)
(* The constructors.  Strides in bytes are kept as they are, or divided by *)
(* the element size, which they are a multiple of.                         *)
(***************************************************************************)
OffsetCalculator(i) ==
    [set |-> TRUE, dims |-> Len(i.shape), matched |-> i.matched, signed |-> i.signed,
     sizes |-> [k \in DOMAIN i.shape |-> IntDivider(i.shape[k])],
     strides |-> [a \in Args |-> [k \in DOMAIN i.shape |->
                     i.strides[a][k] % Word]]]

Init ==
    /\ iter \in Iters
    /\ calc = None
    /\ asked = -1 /\ linear_idx = -1 /\ dim = 0 /\ coords = <<>>
    /\ offsets = [a \in Args |-> 0]

Make ==
    /\ ~calc.set
    /\ calc' = OffsetCalculator(iter)
    /\ UNCHANGED <<iter, linear_idx, asked, dim, coords, offsets>>

\* get: the matched argument of a HybridOffsetCalculator takes the index.
Get(idx) ==
    /\ calc.set /\ asked = -1
    /\ asked' = idx /\ linear_idx' = idx
    /\ dim' = 1
    /\ offsets' = [a \in Args |-> IF a \in calc.matched THEN idx ELSE 0]
    /\ UNCHANGED <<iter, calc, coords>>

\* What a dimension adds; the matched argument has its offset already.
Step(a, r) == IF a \in calc.matched THEN 0 ELSE r * calc.strides[a][dim]

\* One dimension: the remainder is the coordinate, the quotient goes on.
GetDim ==
    /\ asked # -1 /\ dim <= calc.dims
    /\ LET r == mod(calc.sizes[dim], linear_idx)
       IN /\ coords' = Append(coords, r)
          /\ offsets' = [a \in Args |-> (offsets[a] + Step(a, r)) % Word]
    /\ linear_idx' = div(calc.sizes[dim], linear_idx)
    /\ dim' = dim + 1
    /\ UNCHANGED <<iter, calc, asked>>

Next == Make \/ GetDim \/ \E idx \in 0 .. Product(iter.shape) - 1 : Get(idx)

Spec == Init /\ [][Next]_vars

-----------------------------------------------------------------------------
\* An offset as stride_t reads it.
Value(x) == IF calc.signed /\ x > IntMax THEN x - Word ELSE x

Returned == asked # -1 /\ dim > calc.dims

\* The assertions of the constructor: the shift is found and the magic number
\* fits a word.
DividerAsserts ==
    calc.set => \A k \in DOMAIN iter.shape :
        /\ 2 ^ calc.sizes[k].shift >= iter.shape[k]
        /\ Magic(iter.shape[k]) \in 1 .. Word - 1

\* Every division by multiplication is exact: the coordinates taken so far
\* and the quotient that is left make up the index that was asked for.
CoordinatesExact ==
    asked # -1 =>
        /\ \A k \in DOMAIN coords : coords[k] \in 0 .. iter.shape[k] - 1
        /\ asked = FoldLeft(LAMBDA a, k : a + coords[k] * Product(SubSeq(iter.shape, 1, k - 1)),
                            linear_idx * Product(SubSeq(iter.shape, 1, dim - 1)),
                            [k \in 1 .. Len(coords) |-> k])

\* get returns for every argument the offset of the element that the strides
\* give it, backwards strides included, and the shortcut of the matched
\* argument is no exception.
OffsetsRight ==
    Returned => \A a \in Args :
        Value(offsets[a]) = FoldLeft(LAMBDA x, k : x + coords[k] * iter.strides[a][k],
                                     0, [k \in 1 .. Len(coords) |-> k])

==============================================================================
