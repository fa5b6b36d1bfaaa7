--------------------------- MODULE DeviceContexts ---------------------------
(* The current device and the current streams of a thread                    *)
(* (core/supa/SUPAFunctions.cpp, SUPAStream.cpp, impl/SUPAGuardImpl.cpp,      *)
(* SUPAEvent.cpp, supa/Module.cpp). A thread has the device of the runtime   *)
(* and k_device, a device it is to use once something needs it: setting a    *)
(* device makes the runtime create a primary context there, which is kept    *)
(* off devices that were only current for a while. Contexts are shared by    *)
(* the threads; everything else here is thread local.                        *)
EXTENDS Integers, Sequences, FiniteSets, SequencesExt

CONSTANTS Threads, NumDevices,
          MaxDepth        \* nested guards of a thread
ContextAssumption == NumDevices \in Nat \ {0} /\ MaxDepth \in [Threads -> Nat]

Devices == 0..NumDevices - 1
Streams == {0, 1}                  \* of a device: the default stream and one of the pool

VARIABLES dev,        \* thread -> [k, rt]: k_device (-1: none) and the device of the runtime
          ctx,        \* devices with a primary context
          streams,    \* thread -> device -> current stream: current_streams
          guards,     \* thread -> stack of the guards it is in
          want,       \* thread -> the device its program selected
          wantStream, \* thread -> device -> the stream its program selected
          launch      \* thread -> [on, for]: where the last kernel went and where it belongs
vars == <<dev, ctx, streams, guards, want, wantStream, launch>>

Init ==
    /\ dev = [t \in Threads |-> [k |-> -1, rt |-> 0]]
    /\ ctx = {}
    /\ streams = [t \in Threads |-> [d \in Devices |-> 0]]
    /\ wantStream = streams
    /\ guards = [t \in Threads |-> <<>>]
    /\ want = [t \in Threads |-> 0]
    /\ launch = [t \in Threads |-> [on |-> 0, for |-> 0]]

-----------------------------------------------------------------------------
(* SUPAFunctions.cpp, as functions of the state of one thread and the        *)
(* contexts.                                                                 *)

State(t) == [k |-> dev[t].k, rt |-> dev[t].rt, ctx |-> ctx]
supaSetDevice(s, d) == [k |-> s.k, rt |-> d, ctx |-> s.ctx \cup {d}]
Use(s) == [s EXCEPT !.ctx = @ \cup {s.rt}]     \* a call of the runtime that needs a context
GetDevice(s) == IF s.k >= 0 THEN s.k ELSE s.rt
SetDevice_KeepsTarget(s, d) == IF s.rt = d THEN s ELSE supaSetDevice(s, d)
SetDevice(s, d) ==
    LET cleared == [s EXCEPT !.k = -1] IN
    IF s.rt = d THEN cleared ELSE supaSetDevice(cleared, d)
MaybeSetDevice(s, d) == IF d \in s.ctx THEN SetDevice(s, d) ELSE [s EXCEPT !.k = d]
ExchangeDevice(s, d) ==
    LET cleared == [s EXCEPT !.k = -1] IN
    IF s.k < 0 /\ s.rt = d THEN cleared ELSE supaSetDevice(cleared, d)
MaybeExchangeDevice(s, d) ==
    IF s.rt = d THEN s
    ELSE IF d \in s.ctx THEN supaSetDevice(s, d) ELSE [s EXCEPT !.k = d]
SetTargetDevice(s) == IF s.k >= 0 THEN SetDevice(s, s.k) ELSE s

\* A scope that works on another device: SUPAGuard and the guard of c10 (exchangeDevice, then
\* uncheckedSetDevice), SUPAGuardImpl's own pairs (GetDevice, SetDevice, SetDevice), and
\* insert_events of the allocator, which ends with MaybeSetDevice.
Guarded(s, d) == SetDevice(Use(ExchangeDevice(s, d)), GetDevice(s))
OnDevice(s, d) == SetDevice(Use(SetDevice(s, d)), GetDevice(s))
insert_events(s, d) == MaybeSetDevice(Use(SetDevice(s, d)), GetDevice(s))

Becomes(t, s) == dev' = [dev EXCEPT ![t] = [k |-> s.k, rt |-> s.rt]] /\ ctx' = s.ctx
Selects(t, d) == want' = [want EXCEPT ![t] = d]
Push(t, g) == Len(guards[t]) < MaxDepth[t] /\ guards' = [guards EXCEPT ![t] = Append(@, g)]
Top(t, kind) == guards[t] # <<>> /\ Last(guards[t]).kind = kind
PopGuard(t) == guards' = [guards EXCEPT ![t] = Front(@)]

-----------------------------------------------------------------------------
(* What a thread does.                                                       *)

\* torch.supa.set_device, outside a with block.
set_device(t, d) ==
    /\ guards[t] = <<>>
    /\ Becomes(t, SetDevice(State(t), d)) /\ Selects(t, d)
    /\ UNCHANGED <<streams, guards, wantStream, launch>>

\* with torch.supa.device(d).
enterDevice(t, d) ==
    LET prev == GetDevice(State(t)) IN
    /\ Push(t, [kind |-> "device", idx |-> d, prev |-> prev, src |-> 0, dst |-> 0])
    /\ Becomes(t, IF prev # d THEN SetDevice(State(t), d) ELSE State(t))
    /\ Selects(t, d)
    /\ UNCHANGED <<streams, wantStream, launch>>
exitDevice(t) ==
    LET g == Last(guards[t]) IN
    /\ Top(t, "device") /\ PopGuard(t)
    /\ Becomes(t, IF g.prev # g.idx THEN SetDevice(State(t), g.prev) ELSE State(t))
    /\ want' = [want EXCEPT ![t] = g.prev]
    /\ UNCHANGED <<streams, wantStream, launch>>

\* _DeviceGuard: _exchange_device, and _maybe_exchange_device at its end.
enterExchange(t, d) ==
    /\ Push(t, [kind |-> "exchange", idx |-> d, prev |-> GetDevice(State(t)), src |-> 0, dst |-> 0])
    /\ Becomes(t, ExchangeDevice(State(t), d)) /\ Selects(t, d)
    /\ UNCHANGED <<streams, wantStream, launch>>
exitExchange(t) ==
    LET g == Last(guards[t]) IN
    /\ Top(t, "exchange") /\ PopGuard(t)
    /\ Becomes(t, MaybeExchangeDevice(State(t), g.prev))
    /\ want' = [want EXCEPT ![t] = g.prev]
    /\ UNCHANGED <<streams, wantStream, launch>>

\* SUPAStreamGuard: the device of the stream, and exchangeStream.
exchangeStream(t, d) == streams[t][d]
enterStream(t, d, x) ==
    /\ Push(t, [kind |-> "stream", idx |-> d, prev |-> GetDevice(State(t)), src |-> 0, dst |-> exchangeStream(t, d)])
    /\ Becomes(t, ExchangeDevice(State(t), d)) /\ Selects(t, d)
    /\ streams' = [streams EXCEPT ![t][d] = x]
    /\ UNCHANGED <<wantStream, launch>>
exitStream(t) ==
    LET g == Last(guards[t]) IN
    /\ Top(t, "stream") /\ PopGuard(t)
    /\ Becomes(t, SetDevice(State(t), g.prev))
    /\ streams' = [streams EXCEPT ![t][g.idx] = g.dst]
    /\ want' = [want EXCEPT ![t] = g.prev]
    /\ UNCHANGED <<wantStream, launch>>

\* with torch.supa.stream(x): StreamContext over _supa_setStream.
setStream(s, d) == IF GetDevice(s) # d THEN SetDevice(s, d) ELSE s
enterContext(t, d, x) ==
    LET src == GetDevice(State(t)) IN
    /\ Push(t, [kind |-> "context", idx |-> d, prev |-> src, src |-> streams[t][src], dst |-> streams[t][d]])
    /\ Becomes(t, setStream(State(t), d)) /\ Selects(t, d)
    /\ streams' = [streams EXCEPT ![t][d] = x]
    /\ UNCHANGED <<wantStream, launch>>
exitContext(t) ==
    LET g == Last(guards[t]) IN
    /\ Top(t, "context") /\ PopGuard(t)
    /\ Becomes(t, setStream(setStream(State(t), g.idx), g.prev))
    /\ streams' = [streams EXCEPT ![t] = [@ EXCEPT ![g.idx] = g.dst, ![g.prev] = g.src]]
    /\ want' = [want EXCEPT ![t] = g.prev]
    /\ UNCHANGED <<wantStream, launch>>

\* setCurrentSUPAStream, outside a guard of the device's streams.
setCurrentStream(t, d, x) ==
    /\ \A i \in 1..Len(guards[t]) : guards[t][i].kind \notin {"stream", "context"}
    /\ streams' = [streams EXCEPT ![t][d] = x]
    /\ wantStream' = [wantStream EXCEPT ![t][d] = x]
    /\ UNCHANGED <<dev, ctx, guards, want, launch>>

\* An operator on the current device: getCurrentSUPAStream() and a launch.
launchCurrent(t) ==
    LET s == SetTargetDevice(State(t)) IN
    /\ Becomes(t, Use(s))
    /\ launch' = [launch EXCEPT ![t] = [on |-> s.rt, for |-> want[t]]]
    /\ UNCHANGED <<streams, guards, want, wantStream>>

\* An operator, an event or a stream of a device, under a SUPAGuard: SUPAEvent's createEvent,
\* record, block, ipc_handle and destructor, SUPAStream::priority and synchronize.
workOn(t, d) ==
    /\ Becomes(t, Guarded(State(t), d))
    /\ UNCHANGED <<streams, guards, want, wantStream, launch>>

\* SUPAGuardImpl's destroyEvent, record, block, elapsedTime and synchronizeDevice.
impl(t, d) ==
    /\ Becomes(t, OnDevice(State(t), d))
    /\ UNCHANGED <<streams, guards, want, wantStream, launch>>

\* free of a block that streams of device d used.
freeUsed(t, d) ==
    /\ Becomes(t, insert_events(State(t), d))
    /\ UNCHANGED <<streams, guards, want, wantStream, launch>>

\* SUPAGuardImpl::getDefaultStream, which changes nothing.
getDefaultStream(t, d) == streams[t][d]

Thread(t) ==
    \/ \E d \in Devices :
        \/ set_device(t, d) \/ enterDevice(t, d) \/ enterExchange(t, d) \/ workOn(t, d) \/ impl(t, d)
        \/ freeUsed(t, d)
        \/ \E x \in Streams : enterStream(t, d, x) \/ enterContext(t, d, x) \/ setCurrentStream(t, d, x)
    \/ exitDevice(t) \/ exitExchange(t) \/ exitStream(t) \/ exitContext(t) \/ launchCurrent(t)
Next == \E t \in Threads : Thread(t)
Spec == Init /\ [][Next]_vars

-----------------------------------------------------------------------------
\* The device that a thread sees as current is the one its program selected, at any nesting of
\* guards and whatever runs on other devices in between: each scope restores what it found.
CurrentRestored == \A t \in Threads : GetDevice(State(t)) = want[t]

\* A kernel for the current device is launched on it, also while the device is only a target in
\* k_device (SetTargetDevice before each launch).
LaunchedThere == \A t \in Threads : launch[t].on = launch[t].for

\* Outside the guards every device of a thread has the stream that its program set.
StreamsRestored == \A t \in Threads : guards[t] = <<>> => streams[t] = wantStream[t]

\* A thread that is about to use device d with ExchangeDevice finds its context made ("This
\* function always initializes the SUPA context on to_device", SUPAFunctions.cpp:248).
ExchangeInitializes == [][\A t \in Threads, d \in Devices : enterExchange(t, d) => d \in ctx']_vars

\* Work on another device does not create a context on the one it returns to: "if the current
\* device is not initialized, it will create a new supa context, which will consume a lot of
\* memory" (SUPAGuardImpl.cpp:223-225).
ReturnCreatesNone ==
    [][\A t \in Threads, d \in Devices : impl(t, d) => ctx' \subseteq ctx \cup {d}]_vars

\* The default stream of a device is asked for and is not the current one ("The default stream is
\* where most computation occurs when you aren't explicitly using streams", SUPAStream.h:144).
DefaultIsDefault == \A t \in Threads, d \in Devices : getDefaultStream(t, d) = 0

-----------------------------------------------------------------------------
(* The inductive invariant.                                                  *)

Contexts == [k : -1..NumDevices - 1, rt : Devices, ctx : SUBSET Devices]
Guard == [kind : {"device", "exchange", "stream", "context"}, idx : Devices, prev : Devices,
          src : Streams, dst : Streams]
ContextTypes ==
    /\ dev \in [Threads -> [k : -1..NumDevices - 1, rt : Devices]] /\ ctx \in SUBSET Devices
    /\ streams \in [Threads -> [Devices -> Streams]]
    /\ wantStream \in [Threads -> [Devices -> Streams]]
    /\ guards \in [Threads -> Seq(Guard)]
    /\ want \in [Threads -> Devices]
    /\ launch \in [Threads -> [on : Devices, for : Devices]]

\* Each of the guards q was entered on the device of the one before it, the last one on w.
Chained(q, w) ==
    /\ q # <<>> => w = q[Len(q)].idx
    /\ \A i \in 2..Len(q) : q[i].prev = q[i - 1].idx

\* A device that a _DeviceGuard changed to has a context, and is never the target.
Entered(q, s) ==
    \A i \in 1..Len(q) : q[i].kind = "exchange" /\ q[i].prev # q[i].idx =>
        q[i].idx \in s.ctx /\ s.k # q[i].idx

\* A guard changes the stream of d, and what it will put back
Touches(g, d) ==
    \/ g.kind = "stream" /\ g.idx = d
    \/ g.kind = "context" /\ d \in {g.idx, g.prev}
Saved(g, d) == IF g.kind = "context" /\ g.prev = d THEN g.src ELSE g.dst

\* The stream the program set is current, or with the first guard that changed it.
SavedStreams(q, cur, wanted) ==
    \A d \in Devices :
        /\ (\A i \in 1..Len(q) : ~Touches(q[i], d)) => cur[d] = wanted[d]
        /\ \A i \in 1..Len(q) : Touches(q[i], d) /\ (\A j \in 1..i - 1 : ~Touches(q[j], d))
              => Saved(q[i], d) = wanted[d]

\* ContextInv is inductive and implies the three properties above.
ContextInv ==
    /\ ContextTypes /\ CurrentRestored /\ LaunchedThere
    /\ \A t \in Threads : Chained(guards[t], want[t]) /\ Entered(guards[t], State(t))
    /\ \A t \in Threads : SavedStreams(guards[t], streams[t], wantStream[t])

\* A step may take a thread and the contexts from s to n: contexts stay, and a device becomes
\* the target only while it has none.
Follows(s, n) == n \in Contexts /\ s.ctx \subseteq n.ctx /\ (n.k \in {-1, s.k} \/ n.k \notin n.ctx)
=============================================================================
