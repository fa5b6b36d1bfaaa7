------------------------ MODULE SymmetricRendezvous ------------------------
(***************************************************************************)
(* Rendezvous of symmetric memory: SUPASymmetricMemoryAllocator and        *)
(* make_peer_alloc_info (SUPASymmetricMemory.su), the store exchange and   *)
(* the descriptor channel they use (SUPASymmetricMemoryUtils).             *)
(*                                                                         *)
(* A program of rendezvous calls, each over a group of processes; every    *)
(* process takes part, in order, in the calls of its groups.  A group has  *)
(* its own store; the exchange's sequence number is one per process.       *)
(* Addresses are offsets from the base of a block.                         *)
(***************************************************************************)
EXTENDS Naturals, Sequences, FiniteSets

CONSTANTS GroupSets,     \* the groups a call may be over, sets of process numbers
          NumCalls,      \* bound: rendezvous calls of the program
          FreshOffsets,  \* offsets of the pointer in the first call on a block
          Fabric,        \* handle_type_ is FABRIC_HANDLE, else POSIX_FD
          Sizes,         \* buffer sizes a process may allocate
          None

GroupAssumption ==
    /\ NumCalls \in Nat /\ Fabric \in BOOLEAN
    /\ \A g \in GroupSets : g \subseteq Nat /\ g # {} /\ IsFiniteSet(g)

Procs == UNION GroupSets

VARIABLES calls,      \* [call -> [group, reuse, offset]]
          multicast,  \* [process -> its device has multicast support]
          size,       \* [process -> the buffer size of its blocks]
          call, pc,   \* [process -> the call it is in, and where]
          seq,        \* [process -> seq_id_ of its static StoreExchange]
          store,      \* [group -> entries [seq, rank, kind, val]]
          bound,      \* processes whose descriptor socket is bound
          mail,       \* [process -> descriptors sent to its socket]
          carry,      \* [process -> the descriptor it forwards next]
          step,       \* [process -> step of the ring]
          fds,        \* [process -> [peer -> imported handle]]
          mcfd,       \* [process -> the multicast descriptor received]
          pai         \* [process -> [call -> the peer allocation info]]
vars == <<calls, multicast, size, call, pc, seq, store, bound, mail, carry,
          step, fds, mcfd, pai>>

Group(p) == calls[call[p]].group
Root(g) == CHOOSE p \in g : \A q \in g : p <= q
RankOf(p) == Cardinality({q \in Group(p) : q < p})
AtRank(g, n) == CHOOSE p \in g : Cardinality({q \in g : q < p}) = n
Size(g) == Cardinality(g)
\* A call that reuses its predecessor's block finds the info the first made.
Origin(c) == IF c > 1 /\ calls[c].reuse THEN c - 1 ELSE c

Init ==
    /\ calls \in [1 .. NumCalls -> [group : GroupSets, reuse : BOOLEAN, offset : {0, 1}]]
    /\ \A c \in 1 .. NumCalls :
          /\ calls[c].reuse => /\ c > 1 /\ ~calls[c - 1].reuse
                               /\ calls[c].group = calls[c - 1].group
          /\ ~calls[c].reuse => calls[c].offset \in FreshOffsets
    /\ multicast \in [Procs -> BOOLEAN]
    /\ size \in [Procs -> Sizes]
    /\ call = [p \in Procs |-> 1]
    /\ pc = [p \in Procs |-> "call"]
    /\ seq = [p \in Procs |-> 0]
    /\ store = [g \in GroupSets |-> {}]
    /\ bound = {}
    /\ mail = [p \in Procs |-> <<>>]
    /\ carry = [p \in Procs |-> None]
    /\ step = [p \in Procs |-> 0]
    /\ fds = [p \in Procs |-> [q \in Procs |-> None]]
    /\ mcfd = [p \in Procs |-> None]
    /\ pai = [p \in Procs |-> [c \in 1 .. NumCalls |-> None]]

Goto(p, l) == pc' = [pc EXCEPT ![p] = l]
InCall(p, l) == call[p] <= NumCalls /\ pc[p] = l

-----------------------------------------------------------------------------
(***************************************************************************)
(* rendezvous: the info of a block and group is made once and then shared  *)
(* by every handle; a process that is not in the group goes on.            *)
(***************************************************************************)
Skip(p) ==
    /\ InCall(p, "call") /\ p \notin Group(p)
    /\ call' = [call EXCEPT ![p] = @ + 1]
    /\ UNCHANGED <<calls, multicast, size, pc, seq, store, bound, mail, carry, step, fds, mcfd, pai>>

Cached_Never(p) == FALSE
Cached(p) == pai[p][Origin(call[p])] # None
Rendezvous(p) ==
    /\ InCall(p, "call") /\ p \in Group(p)
    /\ \/ /\ Cached(p)
          /\ pai' = [pai EXCEPT ![p][call[p]] = pai[p][Origin(call[p])]]
          /\ call' = [call EXCEPT ![p] = @ + 1]
          /\ UNCHANGED <<pc, bound>>
       \/ /\ ~Cached(p)
          /\ bound' = IF Fabric THEN bound ELSE bound \cup {p}    \* IpcChannel()
          /\ Goto(p, "req")
          /\ UNCHANGED <<pai, call>>
    /\ UNCHANGED <<calls, multicast, size, seq, store, mail, carry, step, fds, mcfd>>

(***************************************************************************)
(* StoreExchange::all_gather: set the own key of this sequence number, then *)
(* wait for everybody's.  A payload of another size throws.                *)
(***************************************************************************)
GatherSet(p, kind, val) ==
    /\ store' = [store EXCEPT ![Group(p)] = @ \cup
                     {[seq |-> seq[p], rank |-> p, kind |-> kind, val |-> val]}]
    /\ seq' = [seq EXCEPT ![p] = @ + 1]
    /\ Goto(p, kind \o "_wait")

Entries(p) == {e \in store[Group(p)] : e.seq = seq[p] - 1}
Gathered(p) == {e.rank : e \in Entries(p)} = Group(p)
SameKind(p, kind) == \A e \in Entries(p) : e.kind = kind
ValueOf(p, q) == (CHOOSE e \in Entries(p) : e.rank = q).val

Throw(p) == Goto(p, "threw") /\ bound' = bound \ {p}

\* The exchanges a process begins, in the order make_peer_alloc_info has them.
Exchange(p) ==
    /\ \/ InCall(p, "req") /\ GatherSet(p, "req", size[p])
       \/ InCall(p, "handles") /\ Fabric /\ GatherSet(p, "handles", call[p])
       \/ InCall(p, "barrier") /\ GatherSet(p, "barrier", 0)
    /\ UNCHANGED <<calls, multicast, size, call, bound, mail, carry, step, fds, mcfd, pai>>

\* validate_rendezvous_requests: all ranks must have asked for the same size.
Validated(p) == \A q \in Group(p) : ValueOf(p, q) = ValueOf(p, Root(Group(p)))
Validate(p) ==
    /\ InCall(p, "req_wait") /\ Gathered(p)
    /\ \/ SameKind(p, "req") /\ Validated(p) /\ Goto(p, "handles") /\ UNCHANGED bound
       \/ ~(SameKind(p, "req") /\ Validated(p)) /\ Throw(p)
    /\ carry' = [carry EXCEPT ![p] = <<p, call[p]>>]
    /\ step' = [step EXCEPT ![p] = 1]
    /\ fds' = [fds EXCEPT ![p] = [q \in Procs |-> IF q = p THEN <<p, call[p]>> ELSE None]]
    /\ UNCHANGED <<calls, multicast, size, call, seq, store, mail, mcfd, pai>>

HandlesGathered(p) ==
    /\ InCall(p, "handles_wait") /\ Gathered(p)
    /\ fds' = [fds EXCEPT ![p] = [q \in Procs |->
                   IF q \in Group(p) THEN <<q, ValueOf(p, q)>> ELSE None]]
    /\ Goto(p, "barrier")
    /\ UNCHANGED <<calls, multicast, size, call, seq, store, bound, mail, carry, step, mcfd, pai>>

(***************************************************************************)
(* IpcChannel::all_gather_fds: at every step the descriptor received last  *)
(* is passed on to the next rank.                                          *)
(***************************************************************************)
NextRank(p) == AtRank(Group(p), (RankOf(p) + 1) % Size(Group(p)))
SrcRank(p) == AtRank(Group(p), (RankOf(p) + Size(Group(p)) - step[p]) % Size(Group(p)))

SendFd(p) ==
    /\ InCall(p, "handles") /\ ~Fabric
    /\ \/ /\ step[p] < Size(Group(p)) /\ NextRank(p) \in bound
          /\ mail' = [mail EXCEPT ![NextRank(p)] = Append(@, carry[p])]
          /\ Goto(p, "recv") /\ UNCHANGED bound
       \/ /\ step[p] < Size(Group(p)) /\ NextRank(p) \notin bound
          /\ Throw(p) /\ UNCHANGED mail
       \/ /\ step[p] = Size(Group(p))
          /\ Goto(p, "barrier") /\ UNCHANGED <<mail, bound>>
    /\ UNCHANGED <<calls, multicast, size, call, seq, store, carry, step, fds, mcfd, pai>>

RecvFd(p) ==
    /\ InCall(p, "recv") /\ mail[p] # <<>>
    /\ carry' = [carry EXCEPT ![p] = Head(mail[p])]
    /\ fds' = [fds EXCEPT ![p][SrcRank(p)] = Head(mail[p])]
    /\ mail' = [mail EXCEPT ![p] = Tail(@)]
    /\ step' = [step EXCEPT ![p] = @ + 1]
    /\ Goto(p, "handles")
    /\ UNCHANGED <<calls, multicast, size, call, seq, store, bound, mcfd, pai>>

\* The handles are imported and mapped; the barrier lets nobody go on, and
\* close its own descriptor, before all have imported it.
BarrierPassed(p) ==
    /\ InCall(p, "barrier_wait") /\ Gathered(p)
    /\ \/ SameKind(p, "barrier") /\ Goto(p, "multicast") /\ UNCHANGED bound
       \/ ~SameKind(p, "barrier") /\ Throw(p)
    /\ UNCHANGED <<calls, multicast, size, call, seq, store, mail, carry, step, fds, mcfd, pai>>

-----------------------------------------------------------------------------
(***************************************************************************)
(* init_multicast_for_block: the root creates and exports a multicast      *)
(* object, or announces that it could not; everybody imports and binds it; *)
(* it is mapped only if all of them could.                                 *)
(***************************************************************************)
GroupHasMulticast(p) == \A q \in Group(p) : multicast[q]
Invalid == <<"invalid">>

NoMulticast(p) ==
    /\ InCall(p, "multicast") /\ ~GroupHasMulticast(p)
    /\ mcfd' = [mcfd EXCEPT ![p] = None]
    /\ Goto(p, "done")
    /\ UNCHANGED <<calls, multicast, size, call, seq, store, bound, mail, carry, step, fds, pai>>

\* The root broadcasts its descriptor (broadcast_fds, or the first element of
\* an all_gather with fabric handles); fd is Invalid when the export failed.
RootExports(p) ==
    /\ InCall(p, "multicast") /\ GroupHasMulticast(p) /\ p = Root(Group(p))
    /\ \E fd \in {<<"mc", call[p]>>, Invalid} :
          /\ mcfd' = [mcfd EXCEPT ![p] = fd]
          /\ IF Fabric
             THEN /\ GatherSet(p, "mch", IF fd = Invalid THEN 0 ELSE call[p])
                  /\ UNCHANGED mail
             ELSE /\ mail' = [q \in Procs |-> IF q \in Group(p) \ {p}
                                              THEN Append(mail[q], fd) ELSE mail[q]]
                  /\ Goto(p, "import") /\ UNCHANGED <<seq, store>>
    /\ UNCHANGED <<calls, multicast, size, call, bound, carry, step, fds, pai>>

PeerReceives(p) ==
    /\ InCall(p, "multicast") /\ GroupHasMulticast(p) /\ p # Root(Group(p))
    /\ IF Fabric
       THEN GatherSet(p, "mch", 0) /\ UNCHANGED <<mail, mcfd>>
       ELSE /\ mail[p] # <<>>
            /\ mcfd' = [mcfd EXCEPT ![p] = Head(mail[p])]
            /\ mail' = [mail EXCEPT ![p] = Tail(@)]
            /\ Goto(p, "import") /\ UNCHANGED <<seq, store>>
    /\ UNCHANGED <<calls, multicast, size, call, bound, carry, step, fds, pai>>

MulticastGathered(p) ==
    /\ InCall(p, "mch_wait") /\ Gathered(p)
    /\ mcfd' = [mcfd EXCEPT ![p] = IF ValueOf(p, Root(Group(p))) = 0 THEN Invalid
                                   ELSE <<"mc", ValueOf(p, Root(Group(p)))>>]
    /\ Goto(p, "import")
    /\ UNCHANGED <<calls, multicast, size, call, seq, store, bound, mail, carry, step, fds, pai>>

\* A rank whose import, suMulticastAddDevice or suMulticastBindMem failed
\* still takes part in the exchange of the successes (label check_all).
TellsOthers_OnlySuccess(ok) == ok = 1
TellsOthers(ok) == TRUE
Import(p) ==
    /\ InCall(p, "import")
    /\ \/ /\ mcfd[p] = Invalid
          /\ mcfd' = [mcfd EXCEPT ![p] = None]
          /\ Goto(p, "done") /\ UNCHANGED <<seq, store>>
       \/ /\ mcfd[p] # Invalid
          /\ \E ok \in {0, 1} :
                IF TellsOthers(ok)
                THEN GatherSet(p, "ok", ok) /\ UNCHANGED mcfd
                ELSE /\ mcfd' = [mcfd EXCEPT ![p] = None]
                     /\ Goto(p, "done") /\ UNCHANGED <<seq, store>>
    /\ UNCHANGED <<calls, multicast, size, call, bound, mail, carry, step, fds, pai>>

AllSucceed_Own(p) == ValueOf(p, p) = 1
AllSucceed(p) == \A q \in Group(p) : ValueOf(p, q) = 1
SuccessesGathered(p) ==
    /\ InCall(p, "ok_wait") /\ Gathered(p)
    /\ mcfd' = [mcfd EXCEPT ![p] = IF AllSucceed(p) THEN @ ELSE None]
    /\ Goto(p, "done")
    /\ UNCHANGED <<calls, multicast, size, call, seq, store, bound, mail, carry, step, fds, pai>>

\* The info is made and entered into symm_mems; the channel is destroyed.  The
\* own entries are computed from the pointer of this call, the peers' from the
\* base of the mapped block.
PadOf(p, q) == IF q = p THEN calls[call[p]].offset ELSE 0
Done(p) ==
    /\ InCall(p, "done")
    /\ pai' = [pai EXCEPT ![p][call[p]] =
                   [handles |-> [q \in Group(p) |-> fds[p][q]],
                    pads |-> [q \in Group(p) |-> PadOf(p, q)],
                    mc |-> mcfd[p]]]
    /\ bound' = bound \ {p}
    /\ call' = [call EXCEPT ![p] = @ + 1]
    /\ Goto(p, "call")
    /\ UNCHANGED <<calls, multicast, size, seq, store, mail, carry, step, fds, mcfd>>

\* An exception leaves the call; the caller goes on with its next one.
Caught(p) ==
    /\ InCall(p, "threw")
    /\ call' = [call EXCEPT ![p] = @ + 1]
    /\ Goto(p, "call")
    /\ UNCHANGED <<calls, multicast, size, seq, store, bound, mail, carry, step, fds, mcfd, pai>>

Step(p) ==
    \/ Skip(p) \/ Rendezvous(p) \/ Exchange(p) \/ Validate(p) \/ HandlesGathered(p)
    \/ SendFd(p) \/ RecvFd(p) \/ BarrierPassed(p) \/ NoMulticast(p) \/ RootExports(p)
    \/ PeerReceives(p) \/ MulticastGathered(p) \/ Import(p) \/ SuccessesGathered(p)
    \/ Done(p) \/ Caught(p)
Next == \E p \in Procs : Step(p)

\* Every process goes on as long as it is not waiting for another.
Spec == Init /\ [][Next]_vars /\ \A p \in Procs : WF_vars(Step(p))

-----------------------------------------------------------------------------
Complete(p, c) == pai[p][c] # None

\* Every peer entry of a finished rendezvous is the handle that peer exported
\* for the block of this call: descriptors that travelled round the ring are
\* filed under the rank they came from, and none of an earlier call is left.
HandlesMatch ==
    \A p \in Procs, c \in 1 .. NumCalls : Complete(p, c) =>
        \A q \in calls[c].group : pai[p][c].handles[q] = <<q, Origin(c)>>

\* A group has multicast memory on all ranks or on none, whichever rank's
\* import or bind failed: a multicast kernel never runs on part of a group.
MulticastAllOrNone ==
    \A c \in 1 .. NumCalls : \A p, q \in calls[c].group :
        Complete(p, c) /\ Complete(q, c) => pai[p][c].mc = pai[q][c].mc

\* All ranks address a rank's signal pad at the same place of its block.
PadsAgree ==
    \A c \in 1 .. NumCalls : \A p, q \in calls[c].group :
        Complete(p, c) /\ Complete(q, c) => pai[p][c].pads[q] = pai[q][c].pads[q]

\* A call that all ranks made with one size succeeds on all of them, and one
\* that they did not fails on all of them.
AgreeOnOutcome ==
    \A p \in Procs, c \in 1 .. NumCalls : call[p] > c /\ p \in calls[c].group =>
        (Complete(p, c) <=> \A q \in calls[c].group : size[q] = size[p])

\* Every process gets through all its rendezvous calls.
Returned(p) == call[p] > NumCalls
CallsReturn == \A p \in Procs : <>Returned(p)
=============================================================================
