--------------------------- MODULE IntraNodeComm ---------------------------
(***************************************************************************)
(* IntraNodeComm: the handshake that decides whether the ranks of a group  *)
(* sit on fully connected devices of one host, the detection of the links  *)
(* (SUPADMAConnectivity.cpp), and the all-reduce that ProcessGroupBCCL     *)
(* hands to it.  The rendezvous of the symmetric memory at its end is      *)
(* abstracted to what SymmetricRendezvous shows of it: it completes when   *)
(* all ranks have joined.  TEST_INTRA_NODE_COMM, with which tests take     *)
(* every topology for a connected one, is not set.                         *)
(***************************************************************************)
EXTENDS Naturals, Sequences, FiniteSets

CONSTANTS WorldSize,     \* ranks 0 .. WorldSize - 1
          Hosts,         \* host names
          NumDevices,    \* devices of a host
          Links,         \* what a link can lead to: "d<i>" (a device), "switch", "other"
          MaxLinks,      \* bound: links of a device
          BrmlMayFail,   \* the management library may fail on some ranks
          SizesInBytes,  \* sizes of the tensors reduced
          OneShotBytes, TwoShotBytes,   \* kOneShotThreshBytes, kTwoShotThreshBytes
          BufferBytes    \* bufferSize_

SizesAssumption == OneShotBytes <= TwoShotBytes /\ WorldSize \in Nat \ {0}

kMaxDevices == 8
Ranks == 0 .. WorldSize - 1
Devices == 0 .. NumDevices - 1
End(d) == <<"d0", "d1", "d2">>[d + 1]   \* the other end of a link to device d

VARIABLES host, device,   \* [rank -> host name, device index]
          links,          \* [device -> sequence of the ends of its links]
          brmlFails,      \* ranks on which a call of the library fails
          shared,         \* ranks whose "handshake-0" key is in the store
          pc,             \* [rank -> where it is]
          joined,         \* ranks in the rendezvous of the symmetric memory
          tensor          \* [rank -> the inputs summed into its tensor]
vars == <<host, device, links, brmlFails, shared, pc, joined, tensor>>

LinkLists == UNION {[1 .. n -> Links] : n \in 0 .. MaxLinks}
Init ==
    /\ host \in [Ranks -> Hosts]
    /\ device \in [Ranks -> Devices]
    /\ links \in [Devices -> LinkLists]
    \* A link between two devices is seen from both of its ends.
    /\ \A d, e \in Devices : Cardinality({i \in DOMAIN links[d] : links[d][i] = End(e)})
                           = Cardinality({i \in DOMAIN links[e] : links[e][i] = End(d)})
    /\ brmlFails \in IF BrmlMayFail THEN SUBSET Ranks ELSE {{}}
    /\ shared = {}
    /\ pc = [r \in Ranks |-> "start"]
    /\ joined = {}
    /\ tensor = [r \in Ranks |-> {r}]

Goto(r, l) == pc' = [pc EXCEPT ![r] = l]

-----------------------------------------------------------------------------
(***************************************************************************)
(* BLinkDetector::detect.  A failing library leaves the matrix of zeros.   *)
(***************************************************************************)
Count(d, end) == Cardinality({i \in DOMAIN links[d] : links[d][i] = end})
Least(a, b) == IF a < b THEN a ELSE b
SwitchLinks(d, e) == Least(Count(d, "switch"), Count(e, "switch"))
Matrix(r, d, e) ==
    IF r \in brmlFails \/ d = e THEN 0 ELSE Count(d, End(e)) + SwitchLinks(d, e)

\* detectTopology over getBlMesh: every two ranks are linked both ways.
FullyConnected(r) ==
    \A p, q \in Ranks : p < q =>
        /\ Matrix(r, device[p], device[q]) # 0
        /\ Matrix(r, device[q], device[p]) # 0

(***************************************************************************)
(* rendezvous: at most kMaxDevices ranks; the device infos are gathered    *)
(* through the store.                                                      *)
(***************************************************************************)
Handshake(r) ==
    /\ pc[r] = "start"
    /\ IF WorldSize < 2 \/ WorldSize > kMaxDevices
       THEN Goto(r, "failed") /\ UNCHANGED shared
       ELSE shared' = shared \cup {r} /\ Goto(r, "gather")
    /\ UNCHANGED <<host, device, links, brmlFails, joined, tensor>>

SameHost == \A r \in Ranks : host[r] = host[0]
DistinctDevices == Cardinality({device[r] : r \in Ranks}) = WorldSize
Usable(r) == SameHost /\ DistinctDevices /\ FullyConnected(r)

Decide(r) ==
    /\ pc[r] = "gather" /\ shared = Ranks
    /\ \/ /\ Usable(r)
          /\ joined' = joined \cup {r} /\ Goto(r, "join")
       \/ /\ ~Usable(r)
          /\ Goto(r, "failed") /\ UNCHANGED joined
    /\ UNCHANGED <<host, device, links, brmlFails, shared, tensor>>

\* allocator->rendezvous returns once every rank takes part in it.
AllJoined == joined = Ranks
Initialized(r) ==
    /\ pc[r] = "join" /\ AllJoined
    /\ Goto(r, "initialized")
    /\ UNCHANGED <<host, device, links, brmlFails, shared, joined, tensor>>

-----------------------------------------------------------------------------
(***************************************************************************)
(* allreduce of one tensor on every rank.  selectAllReduceAlgo decides by  *)
(* type, alignment and size; oneShotAllReduce and twoShotAllReduce only    *)
(* warn that they are not ready and return the input.                      *)
(***************************************************************************)
Algo(t) ==
    IF ~t.float \/ t.align < 4 THEN "NONE"
    ELSE IF t.size <= OneShotBytes /\ t.size <= BufferBytes THEN "ONE_SHOT"
    ELSE IF t.size <= TwoShotBytes /\ t.size <= BufferBytes THEN "TWO_SHOT"
    ELSE "NONE"

Tensors == [float : BOOLEAN, align : {2, 4}, size : SizesInBytes]

\* All ranks call allreduce; with algorithm NONE the group's communicator
\* sums (external).
AllReduce(t) ==
    /\ \A r \in Ranks : pc[r] = "initialized" /\ tensor[r] = {r}
    /\ tensor' = [r \in Ranks |-> IF Algo(t) = "NONE" THEN Ranks ELSE tensor[r]]
    /\ pc' = [r \in Ranks |-> "reduced"]
    /\ UNCHANGED <<host, device, links, brmlFails, shared, joined>>

Step(r) == Handshake(r) \/ Decide(r) \/ Initialized(r)
Next == (\E r \in Ranks : Step(r)) \/ \E t \in Tensors : AllReduce(t)

\* Every rank goes on as long as it is not waiting for another.
Spec == Init /\ [][Next]_vars /\ \A r \in Ranks : WF_vars(Step(r))

-----------------------------------------------------------------------------
Ready(r) == pc[r] \in {"initialized", "reduced"}

\* A rank uses the intra-node path only when all ranks found the devices
\* fully connected, whatever the library told each of them: no all-reduce is
\* split between this path and the communicator.
ReadyTogether ==
    \A r \in Ranks : Ready(r) => \A q \in Ranks : Usable(q) /\ pc[q] # "failed"

\* Ranks of an initialised communicator have a link to one another, direct
\* or through switches of both.
ReadyConnected ==
    \A r, q \in Ranks : Ready(r) /\ r # q =>
        /\ device[r] # device[q]
        /\ \/ \E i \in DOMAIN links[device[r]] : links[device[r]][i] = End(device[q])
           \/ /\ \E i \in DOMAIN links[device[r]] : links[device[r]][i] = "switch"
              /\ \E i \in DOMAIN links[device[q]] : links[device[q]][i] = "switch"

\* Every rank's rendezvous returns, successful or not.
Returned(r) == pc[r] \in {"failed", "initialized", "reduced"}
RendezvousReturns == \A r \in Ranks : <>Returned(r)

\* What holds of it: it returns on a rank that sees no usable links, and on all
\* ranks when they see the same; on others it waits for a rank that has gone.
ReturnsIfSame(r) == ~Usable(r) \/ \A q \in Ranks : Usable(q)

\* After an all-reduce every rank's tensor is the sum of all inputs.
AllReduceSums == \A r \in Ranks : pc[r] = "reduced" => tensor[r] = Ranks
=============================================================================
