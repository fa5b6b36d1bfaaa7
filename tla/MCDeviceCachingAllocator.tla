---------------------- MODULE MCDeviceCachingAllocator ----------------------
(* Small instances of DeviceCachingAllocator for TLC.                       *)
EXTENDS DeviceCachingAllocator, TLC

\* Segments are interchangeable, and so are the streams of a run whose
\* captures accept every subset of them.
Symmetry == Permutations(Segments) \cup Permutations(Streams)

NoGc == [f \in Fractions |-> 0]

HalfGc == [f \in Fractions |-> f \div 2]

\* Every piece of work this instance can queue, for the fairness of retire.
Largest == Max({get_allocation_size(round_size(n)) : n \in Requests})

Work == [stream : Streams, seg : Segments, off : 0 .. Largest, size : 1 .. Largest]

FairSpec == Spec /\ Fairness(Work)

=============================================================================
