----------------------------- MODULE TensorCopy -----------------------------
(* Copies between tensors of two devices and of the host.  A copy is a plan   *)
(* of work put on the streams of the devices, which run it later, of waits    *)
(* between streams, of copies the host does at once and of waits of the host. *)
(* The value a tensor ends up with must be the one it would have, had every   *)
(* call been finished before the next.  The program uses one stream per       *)
(* device.  That a copy which does not block keeps pinned memory from being   *)
(* reused (copy_ ends with record_event) is the subject of                    *)
(* CachingHostAllocator, whose callers record streams.                        *)
EXTENDS Integers, Sequences, SequencesExt

CONSTANTS
    Dsts, Srcs,         \* the tensors that are copied to and from
    CurrentDevices,     \* devices the program makes current
    Types,              \* dtypes
    Float, Double,      \* two dtypes; the devices do not have the second
    Demotes,            \* IsEnableDtypeDemotion
    P2P,                \* values of p2p_enabled
    MaxCalls            \* bound on the calls of the program

Devices == {0, 1}
CPU == -1
Tensors == {"g0", "g1", "h"}
DeviceOf(t) == CASE t = "g0" -> 0 [] t = "g1" -> 1 [] t = "h" -> CPU
\* A tensor or a temporary as copy_ sees it; the pinned tensor is "h".
View(id, dev, ty, contig) == [id |-> id, dev |-> dev, ty |-> ty, contig |-> contig]
Temporaries == {<<r, d>> : r \in {"dst_contig", "src_contig"}, d \in Devices \cup {CPU}}
Slots == {<<t, DeviceOf(t)>> : t \in Tensors} \cup Temporaries
Slot(w) == <<w.id, w.dev>>

CopyAssumption == MaxCalls \in Nat /\ Demotes \in BOOLEAN /\ Float # Double /\ CurrentDevices \subseteq Devices

VARIABLES
    p2p_enabled, current,
    queue,              \* the current stream of each device
    events, done,       \* events recorded and reached
    actual, expected,   \* what memory holds, and what it holds in program order
    todo,               \* what the host has still to do of the call it is in
    calls, last,        \* calls made; the copies the last one is made of
    stray               \* a copy of the host ran beside work of its tensor's device

vars == <<p2p_enabled, current, queue, events, done, actual, expected, todo, calls, last, stray>>

Init ==
    /\ p2p_enabled \in P2P /\ current \in CurrentDevices
    /\ queue = [d \in Devices |-> <<>>] /\ events = 0 /\ done = {}
    /\ actual = [s \in Slots |-> 0] /\ expected = [t \in Tensors |-> 0]
    /\ todo = <<>> /\ calls = 0 /\ last = [convert |-> CPU, nb |-> FALSE, dst |-> "h", inner |-> <<>>]
    /\ stray = FALSE

-----------------------------------------------------------------------------
copy_requires_temporaries(dst, src) ==
    /\ dst.dev # src.dev
    /\ ~(dst.ty = src.ty /\ dst.contig /\ src.contig)
    /\ (dst.dev \in Devices /\ src.dev \in Devices) => ~p2p_enabled

Enqueue(d, dst, src) == [i |-> "enqueue", dev |-> d, dst |-> Slot(dst), src |-> Slot(src)]
\* An event recorded on the stream of one device that another waits for.
Order(from, to) == [i |-> "order", from |-> from, to |-> to]
Synchronize(d) == [i |-> "sync", dev |-> d]
OnHost(dst, src) == [i |-> "host", dst |-> Slot(dst), src |-> Slot(src)]

\* The copy runs on the stream of the source.
\* Mutant: the destination does not wait for the copy.
copy_device_to_device_OneWay(dst, src) ==
    IF src.dev = dst.dev THEN <<Enqueue(src.dev, dst, src)>>
    ELSE <<Order(dst.dev, src.dev), Enqueue(src.dev, dst, src)>>
copy_device_to_device(dst, src) ==
    IF src.dev = dst.dev THEN <<Enqueue(src.dev, dst, src)>>
    ELSE <<Order(dst.dev, src.dev), Enqueue(src.dev, dst, src), Order(src.dev, dst.dev)>>

\* Copies to and from the host use the stream of the current device.  The
\* runtime waits for a copy of host memory that is not pinned.
Waits(host, nb) == ~nb \/ host.id # "h"

copy_host(dst, src, nb) ==
    <<Enqueue(current, dst, src)>>
    \o IF Waits(IF dst.dev = CPU THEN dst ELSE src, nb) THEN <<Synchronize(current)>> ELSE <<>>

Direct(dst, src, nb) ==
    CASE dst.dev = CPU /\ src.dev = CPU -> <<OnHost(dst, src)>>
      [] dst.dev # CPU /\ src.dev # CPU -> copy_device_to_device(dst, src)
      [] OTHER -> copy_host(dst, src, nb)

\* A destination the device has no dtype for is refused, which changes nothing,
\* or replaced: the caller's reference is given a tensor of floats, converted
\* on its device.
Demoted(dst) == dst.dev # CPU /\ dst.ty = Double
Refused(dst, src) == Demoted(dst) /\ src.dev = CPU /\ ~Demotes
Given(dst) == IF Demoted(dst) THEN [dst EXCEPT !.ty = Float] ELSE dst
ToFloat(dst) == IF Demoted(dst) THEN <<Enqueue(dst.dev, dst, dst)>> ELSE <<>>

\* src.device() == conversion_device: a device is never equal to kPrivateUse1,
\* which has no index.
ConvertsAtSource(src, nb) == ~nb /\ src.dev = CPU

ContigType(dst, src, nb) == IF ConvertsAtSource(src, nb) THEN dst.ty ELSE src.ty

dst_contig(dst, src, nb) ==
    IF dst.contig /\ ContigType(dst, src, nb) = dst.ty THEN dst
    ELSE View("dst_contig", dst.dev, ContigType(dst, src, nb), TRUE)

src_contig(dst, src, nb) ==
    LET ty == IF ConvertsAtSource(src, nb) THEN dst.ty ELSE src.ty
    IN  IF src.contig /\ src.ty = ty THEN src ELSE View("src_contig", src.dev, ty, TRUE)

Staged(dst, src, nb, d, s) ==
    (IF s = src THEN <<>> ELSE Direct(s, src, nb))
    \o Direct(d, s, nb)
    \o (IF d = dst THEN <<>> ELSE Direct(dst, d, nb))

Plan(dst, src, nb) ==
    IF copy_requires_temporaries(dst, src)
    THEN Staged(dst, src, nb, dst_contig(dst, src, nb), src_contig(dst, src, nb))
    ELSE Direct(dst, src, nb)

\* The calls of copy_ inside copy_.
Inner(dst, src, nb) ==
    IF ~copy_requires_temporaries(dst, src) THEN <<>>
    ELSE <<<<dst_contig(dst, src, nb), src_contig(dst, src, nb)>>>>
         \o IF dst_contig(dst, src, nb) = dst THEN <<>> ELSE <<<<dst, dst_contig(dst, src, nb)>>>>

-----------------------------------------------------------------------------
\* The program.
InFlight(slot) == \E d \in Devices : \E k \in DOMAIN queue[d] : queue[d][k].k = "copy" /\ slot \in {queue[d][k].dst, queue[d][k].src}
Host == <<"h", CPU>>
Calling == todo = <<>> /\ calls < MaxCalls

set_device(d) ==
    /\ todo = <<>> /\ current # d /\ current' = d
    /\ UNCHANGED <<p2p_enabled, queue, events, done, actual, expected, todo, calls, last, stray>>

kernel(t) ==
    /\ Calling /\ DeviceOf(t) # CPU /\ calls' = calls + 1
    /\ queue' = [queue EXCEPT ![DeviceOf(t)] = Append(@, [k |-> "write", dst |-> <<t, DeviceOf(t)>>, v |-> calls + 1])]
    /\ expected' = [expected EXCEPT ![t] = calls + 1]
    /\ UNCHANGED <<p2p_enabled, current, events, done, actual, todo, last, stray>>

\* The host touches its tensor only when no copy of it is under way.
write_host ==
    /\ Calling /\ ~InFlight(Host) /\ calls' = calls + 1
    /\ actual' = [actual EXCEPT ![Host] = calls + 1] /\ expected' = [expected EXCEPT !["h"] = calls + 1]
    /\ UNCHANGED <<p2p_enabled, current, queue, events, done, todo, last, stray>>

\* Calls that make the host read or write its tensor: the program knows that
\* a blocking copy converts on the host, and that strides are packed there.
StagedByHost(dst, src, nb) ==
    \/ ~nb /\ src.ty # dst.ty
    \/ \E w \in {dst, src} : w.dev = CPU /\ ~w.contig

copy_(dst, src, nb) ==
    LET d == Given(dst) IN
    /\ Calling /\ calls' = calls + 1
    /\ ~Refused(dst, src)
    /\ StagedByHost(d, src, nb) => ~InFlight(Host)
    /\ todo' = ToFloat(dst) \o Plan(d, src, nb)
    /\ last' = [convert |-> IF src.ty = d.ty \/ ~copy_requires_temporaries(d, src) THEN d.dev
                            ELSE IF ConvertsAtSource(src, nb) THEN src.dev ELSE d.dev,
                nb |-> nb, dst |-> d.id, inner |-> Inner(d, src, nb)]
    /\ expected' = [expected EXCEPT ![d.id] = expected[src.id]]
    /\ UNCHANGED <<p2p_enabled, current, queue, events, done, actual, stray>>

\* A copy to or from the host, on the stream of a device that is not the
\* tensor's, beside work of the tensor's device: what was there, or what comes
\* while nobody waits for the copy.
Blocks(rest) == rest # <<>> /\ Head(rest).i = "sync"
Strays(s, rest) ==
    /\ CPU \in {s.dst[2], s.src[2]}
    /\ LET d == IF s.dst[2] = CPU THEN s.src[2] ELSE s.dst[2] IN
       d # s.dev /\ (queue[d] # <<>> \/ ~Blocks(rest))

HostStep ==
    /\ todo # <<>> /\ todo' = Tail(todo)
    /\ LET s == Head(todo) IN
       \/ /\ s.i = "enqueue"
          /\ queue' = [queue EXCEPT ![s.dev] = Append(@, [k |-> "copy", dst |-> s.dst, src |-> s.src])]
          /\ stray' = (stray \/ Strays(s, Tail(todo)))
          /\ UNCHANGED <<events, actual>>
       \/ /\ s.i = "order" /\ events' = events + 1
          /\ queue' = [queue EXCEPT ![s.from] = Append(@, [k |-> "record", e |-> events']),
                                    ![s.to] = Append(@, [k |-> "wait", e |-> events'])]
          /\ UNCHANGED <<actual, stray>>
       \/ s.i = "sync" /\ queue[s.dev] = <<>> /\ UNCHANGED <<queue, events, actual, stray>>
       \/ s.i = "host" /\ actual' = [actual EXCEPT ![s.dst] = actual[s.src]] /\ UNCHANGED <<queue, events, stray>>
    /\ UNCHANGED <<p2p_enabled, current, done, expected, calls, last>>

\* A stream runs its next piece of work.
Run(d) ==
    /\ queue[d] # <<>> /\ queue' = [queue EXCEPT ![d] = Tail(@)]
    /\ LET w == Head(queue[d]) IN
       /\ w.k = "wait" => w.e \in done
       /\ done' = CASE w.k = "record" -> done \cup {w.e} [] w.k = "wait" -> done \ {w.e} [] OTHER -> done
       /\ actual' = CASE w.k = "write" -> [actual EXCEPT ![w.dst] = w.v]
                      [] w.k = "copy" -> [actual EXCEPT ![w.dst] = actual[w.src]]
                      [] OTHER -> actual
    /\ UNCHANGED <<p2p_enabled, current, events, expected, todo, calls, last, stray>>

Next ==
    \/ \E d \in CurrentDevices : set_device(d)
    \/ \E t \in Tensors : kernel(t)
    \/ write_host \/ HostStep
    \/ \E d \in Dsts, s \in Srcs, nb, dc, sc \in BOOLEAN, dt, st \in Types :
          d # s /\ copy_(View(d, DeviceOf(d), dt, dc), View(s, DeviceOf(s), st, sc), nb)
    \/ \E d \in Devices : Run(d)

Spec == Init /\ [][Next]_vars

-----------------------------------------------------------------------------
\* When the streams have run what the copies and kernels put on them every
\* tensor has the value of the program's order (copy_device_to_device, copy_).
Settled == todo = <<>> /\ \A d \in Devices : queue[d] = <<>>
InOrder == Settled => \A t \in Tensors : actual[<<t, DeviceOf(t)>>] = expected[t]

\* The host's tensor has its value as soon as no copy of it is under way, and
\* when a blocking copy to it has returned (memcpy_and_sync).
HostCanRead == todo = <<>> /\ (~InFlight(Host) \/ (~last.nb /\ last.dst = "h"))
HostReads == HostCanRead => actual[Host] = expected["h"]

\* The same, unless a copy between host and device took the stream of another
\* device than its tensor's: copy_ uses the stream of the current device, which
\* is ordered with the work of the tensor's device only if the host waited for
\* that work before, and waits for the copy.
InOrderUnlessStray == stray \/ (InOrder /\ HostReads)

\* A copy of or into a temporary needs no temporaries (copy_: "you will cause
\* an infinite recursion").
NoRecursion == \A k \in DOMAIN last.inner : ~copy_requires_temporaries(last.inner[k][1], last.inner[k][2])

\* A copy that does not block converts types on a device.
ConvertsOnDevice == last.nb => last.convert # CPU
=============================================================================
