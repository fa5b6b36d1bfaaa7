------------------------------ MODULE HandlePool ------------------------------
(***************************************************************************)
(* Library handles shared by the threads of a process                      *)
(* (DeviceThreadHandles.h), and what getCurrentSuBlasHandle and            *)
(* getSudnnHandle set on a handle before they return it: the stream, the   *)
(* workspace kept per handle and stream (SublasHandlePool.cpp), the math   *)
(* mode.  A handle is used by its thread until the thread ends.            *)
(*                                                                         *)
(* Reserving and releasing hold the pool's mutex.  The map of workspaces   *)
(* has no mutex: an access while another thread inserts or clears is a     *)
(* data race.  A find may then miss what is there, an insertion may get    *)
(* lost, and the process may crash.                                        *)
(***************************************************************************)
EXTENDS Integers, Sequences, FiniteSets, SequencesExt, FiniteSetTheorems, TLAPS

CONSTANTS Threads, Devices,
          StreamIds,       \* streams of every device
          Modes,           \* math modes an operation asks for
          Sublas,          \* TRUE: sublas handles; FALSE: sudnn handles
          MayFail,         \* library calls may fail and the process may end
          MaxHandles,      \* bound on the handles of a device
          None

VARIABLES
    created_handles,    \* per device: the handles of the pool
    available_handles,  \* per device: a stack of handles nobody uses
    my_handles,         \* per thread (PoolWindow): device -> handle
    alive,              \* threads that run
    poolAlive,          \* weak_parent.lock() succeeds
    lib,                \* per handle: what the library has been told
    call,               \* per thread: the call it is in
    map,                \* sublas_handle_stream_to_workspace: [key -> workspace]
    inMap,              \* per thread: "write" while it changes the map
    crashed,            \* a data race took the process down
    highWater           \* history: most threads that held a handle at once
vars == <<created_handles, available_handles, my_handles, alive, poolAlive, lib,
          call, map, inMap, crashed, highWater>>

Handles == [device : Devices, n : 1..MaxHandles]
HandlesAssumption == IsFiniteSet(Threads) /\ MaxHandles \in Nat /\ None \notin Handles
Streams(d) == [device : {d}, n : StreamIds]
Idle == [pc |-> "idle"]
Holders(mh, d) == {t \in Threads : mh[t][d] # None}

Init == /\ created_handles = [d \in Devices |-> {}]
        /\ available_handles = [d \in Devices |-> <<>>]
        /\ my_handles = [t \in Threads |-> [d \in Devices |-> None]]
        /\ alive = {} /\ poolAlive = TRUE /\ crashed = FALSE
        /\ lib = [h \in Handles |-> [stream |-> None, ws |-> None, mode |-> None]]
        /\ call = [t \in Threads |-> Idle]
        /\ map = {}
        /\ inMap = [t \in Threads |-> FALSE]
        /\ highWater = [d \in Devices |-> 0]

-----------------------------------------------------------------------------
\* A thread starts; its window is made on its first call.
newPoolWindow(t) ==
    /\ t \notin alive
    /\ alive' = alive \cup {t}
    /\ UNCHANGED <<created_handles, available_handles, my_handles, poolAlive, lib,
                   call, map, inMap, crashed, highWater>>

\* The window's destructor, when the thread ends.
release(t) == [d \in Devices |->
    IF my_handles[t][d] = None THEN available_handles[d]
    ELSE Append(available_handles[d], my_handles[t][d])]

PoolWindow_destroy(t) ==
    /\ t \in alive /\ call[t] = Idle
    /\ alive' = alive \ {t}
    /\ available_handles' = IF poolAlive THEN release(t) ELSE available_handles
    /\ my_handles' = [my_handles EXCEPT ![t] = [d \in Devices |-> None]]
    /\ UNCHANGED <<created_handles, poolAlive, lib, call, map, inMap, crashed, highWater>>

\* The static pool is destroyed when the process ends; threads may still run.
Terminate ==
    /\ MayFail /\ poolAlive
    /\ poolAlive' = FALSE
    /\ UNCHANGED <<created_handles, available_handles, my_handles, alive, lib,
                   call, map, inMap, crashed, highWater>>

-----------------------------------------------------------------------------
\* An operation asks for the handle of its device, to run on a stream.
Ask(t) == \E d \in Devices, m \in Modes : \E s \in Streams(d) :
    /\ t \in alive /\ call[t] = Idle
    /\ call' = [call EXCEPT ![t] = [pc |-> "asked", device |-> d, stream |-> s, mode |-> m]]
    /\ UNCHANGED <<created_handles, available_handles, my_handles, alive, poolAlive,
                   lib, map, inMap, crashed, highWater>>

\* The call has the handle h and tells it the stream.
Hold(t, h) ==
    /\ lib' = [lib EXCEPT ![h].stream = call[t].stream]
    /\ my_handles' = [my_handles EXCEPT ![t][call[t].device] = h]
    /\ highWater' = [highWater EXCEPT ![call[t].device] =
           LET n == Cardinality(Holders(my_handles', call[t].device))
           IN IF n > @ THEN n ELSE @]
    /\ call' = [call EXCEPT ![t] = [pc |-> IF Sublas THEN "find" ELSE "ready",
           handle |-> h, stream |-> @.stream, mode |-> @.mode, ws |-> None]]

Cached(t) ==
    /\ my_handles[t][call[t].device] # None
    /\ Hold(t, my_handles[t][call[t].device])
    /\ UNCHANGED <<created_handles, available_handles>>

FromPool_Shared(t) ==
    LET d == call[t].device IN
    /\ my_handles[t][d] = None /\ poolAlive /\ available_handles[d] # <<>>
    /\ Hold(t, Last(available_handles[d]))
    /\ UNCHANGED <<created_handles, available_handles>>
FromPool(t) ==
    LET d == call[t].device IN
    /\ my_handles[t][d] = None /\ poolAlive /\ available_handles[d] # <<>>
    /\ Hold(t, Last(available_handles[d]))
    /\ available_handles' = [available_handles EXCEPT ![d] = Front(@)]
    /\ UNCHANGED created_handles

Create(t) ==
    LET d == call[t].device
        h == [device |-> d, n |-> Cardinality(created_handles[d]) + 1] IN
    /\ my_handles[t][d] = None /\ poolAlive /\ available_handles[d] = <<>>
    /\ h.n <= MaxHandles
    /\ created_handles' = [created_handles EXCEPT ![d] = @ \cup {h}]
    /\ Hold(t, h)
    /\ UNCHANGED available_handles

\* With a limit a thread would wait until another one has ended.
reserve(t) == Cached(t) \/ FromPool(t) \/ Create(t)

getHandle(t) ==
    /\ call[t].pc = "asked"
    /\ reserve(t)
    /\ UNCHANGED <<alive, poolAlive, map, inMap, crashed>>

\* "Cannot create handle during program termination", or the library fails.
reserve_fails(t) ==
    /\ MayFail /\ call[t].pc = "asked" /\ my_handles[t][call[t].device] = None
    /\ (~poolAlive \/ available_handles[call[t].device] = <<>>)
    /\ call' = [call EXCEPT ![t] = Idle]
    /\ UNCHANGED <<created_handles, available_handles, my_handles, alive, poolAlive,
                   lib, map, inMap, crashed, highWater>>

-----------------------------------------------------------------------------
(* The workspaces.  The allocator gives a block that belongs to the        *)
(* current stream; blocks are told apart by what they were allocated for.  *)

KeyOf(t) == [handle |-> call[t].handle, stream |-> call[t].stream]
Found(t) == {e \in map : e.key = KeyOf(t)}
Writers(t) == {u \in Threads \ {t} : inMap[u]}

Crash == /\ crashed' = TRUE
         /\ UNCHANGED <<created_handles, available_handles, my_handles, alive,
                        poolAlive, lib, call, map, inMap, highWater>>

\* The calls between find and sublasSetWorkspace.
Searching == {t \in Threads : call[t].pc \in {"find", "insert", "set"}}

getNewWorkspace(t) == [stream |-> call[t].stream, for |-> call[t].handle]

Find(t) ==
    /\ call[t].pc = "find"
    /\ \/ /\ Found(t) # {}
          /\ \E e \in Found(t) :
                 call' = [call EXCEPT ![t].pc = "set", ![t].ws = e.ws]
          /\ UNCHANGED inMap
       \/ /\ Found(t) = {} \/ Writers(t) # {}
          /\ call' = [call EXCEPT ![t].pc = "insert", ![t].ws = getNewWorkspace(t)]
          /\ inMap' = [inMap EXCEPT ![t] = TRUE]
    /\ UNCHANGED <<created_handles, available_handles, my_handles, alive, poolAlive,
                   lib, map, crashed, highWater>>

Insert(t) ==
    /\ call[t].pc = "insert"
    /\ \/ /\ Found(t) = {}
          /\ map' = map \cup {[key |-> KeyOf(t), ws |-> call[t].ws]}
          /\ call' = [call EXCEPT ![t].pc = "set"]
       \/ /\ Found(t) # {}
          /\ \E e \in Found(t) :
                 call' = [call EXCEPT ![t].pc = "set", ![t].ws = e.ws]
          /\ UNCHANGED map
       \/ /\ Writers(t) # {}
          /\ call' = [call EXCEPT ![t].pc = "set"]
          /\ UNCHANGED map
    /\ inMap' = [inMap EXCEPT ![t] = FALSE]
    /\ UNCHANGED <<created_handles, available_handles, my_handles, alive, poolAlive,
                   lib, crashed, highWater>>

\* sublasSetWorkspace and sublasSetMathMode.
SetWorkspace(t) ==
    [lib EXCEPT ![call[t].handle].ws = call[t].ws,
                ![call[t].handle].mode = call[t].mode]
Configure(t) ==
    /\ call[t].pc = "set"
    /\ lib' = SetWorkspace(t)
    /\ call' = [call EXCEPT ![t].pc = "ready"]
    /\ UNCHANGED <<created_handles, available_handles, my_handles, alive, poolAlive,
                   map, inMap, crashed, highWater>>

\* The caller starts its operation with the handle.
Launch(t) ==
    /\ call[t].pc = "ready"
    /\ call' = [call EXCEPT ![t] = Idle]
    /\ UNCHANGED <<created_handles, available_handles, my_handles, alive, poolAlive,
                   lib, map, inMap, crashed, highWater>>

\* clearSublasWorkspaces, from Python.
ClearBegin(t) ==
    /\ Sublas /\ t \in alive /\ call[t] = Idle /\ map # {}
    /\ call' = [call EXCEPT ![t] = [pc |-> "clear"]]
    /\ inMap' = [inMap EXCEPT ![t] = TRUE]
    /\ UNCHANGED <<created_handles, available_handles, my_handles, alive, poolAlive,
                   lib, map, crashed, highWater>>
clearSublasWorkspaces(t) ==
    /\ call[t].pc = "clear"
    /\ map' = {} /\ call' = [call EXCEPT ![t] = Idle]
    /\ inMap' = [inMap EXCEPT ![t] = FALSE]
    /\ UNCHANGED <<created_handles, available_handles, my_handles, alive, poolAlive,
                   lib, crashed, highWater>>

\* Two threads in the map, one of them writing.
Racing == \E t \in Threads : inMap[t] /\ (Searching \cup {u \in Threads : inMap[u]}) \ {t} # {}

Steps == \/ Terminate \/ (Racing /\ Crash)
         \/ \E t \in Threads :
              \/ newPoolWindow(t) \/ PoolWindow_destroy(t) \/ Ask(t) \/ getHandle(t)
              \/ reserve_fails(t) \/ Find(t) \/ Insert(t) \/ Configure(t) \/ Launch(t)
              \/ ClearBegin(t) \/ clearSublasWorkspaces(t)
Next == ~crashed /\ Steps

\* A call to a library returns; when threads start, ask and end is up to them.
HandleReturns(t) == ~crashed /\ getHandle(t)
Fairness == \A t \in Threads : WF_vars(HandleReturns(t))
Spec == Init /\ [][Next]_vars /\ Fairness

-----------------------------------------------------------------------------
\* "[T]hese libraries requires/recommends not to share handles across host
\* threads": every handle is with one thread or in the pool, never both, and
\* none is lost while the pool lives.
HandlesExclusive ==
    poolAlive => \A d \in Devices :
        LET free == {available_handles[d][i] : i \in DOMAIN available_handles[d]}
            held == {my_handles[t][d] : t \in Holders(my_handles, d)}
        IN /\ Cardinality(free) + Cardinality(Holders(my_handles, d))
                  = Cardinality(created_handles[d])
           /\ free \cup held = created_handles[d]

\* "[T]he maximum number of handles ... is equal to the high-water mark of the
\* number of concurrently active threads", also when threads come and go and
\* the library fails.
CreatedIsHighWater ==
    \A d \in Devices : Cardinality(created_handles[d]) = highWater[d]

\* When an operation starts, its handle still has the stream, the workspace and
\* the math mode that the call asked for, whatever the other threads did since.
LaunchAsAsked ==
    \A t \in Threads : call[t].pc = "ready" =>
        LET l == lib[call[t].handle] IN
        /\ l.stream = call[t].stream
        /\ Sublas => l.ws = call[t].ws /\ l.mode = call[t].mode

\* A workspace is used on one stream only, the one its memory belongs to, so
\* operations that share it are ordered.
WorkspacesPerStream ==
    \A t \in Threads : call[t].pc \in {"set", "ready"} /\ Sublas
        => call[t].ws.stream = call[t].stream

\* "To prevent potential deadlocks, we explicitly choose not to cap the number
\* of handles": a thread gets its handle even if no other thread ever ends.
Waits(t) == call[t].pc = "asked" /\ ~crashed

\* The threads that take handles "with no mutex guarding the call" do not
\* change the map of workspaces while another one is in it.
MapNotRaced == ~Racing
-----------------------------------------------------------------------------
(* The promises of the pool for every number of threads, devices, handles,   *)
(* streams and modes, with every failure and race above.                     *)

Entries(q) == {q[i] : i \in DOMAIN q}

NoRepeats(q) == \A i, j \in DOMAIN q : q[i] = q[j] => i = j

\* A handle is taken off the stack.
LEMMA EntriesFront ==
    ASSUME NEW S, NEW q \in Seq(S), q # <<>>, NoRepeats(q)
    PROVE  /\ Front(q) \in Seq(S) /\ NoRepeats(Front(q))
           /\ Entries(Front(q)) = Entries(q) \ {Last(q)}
           /\ Last(q) \in Entries(q) /\ Last(q) \in S
<1> DEFINE n == Len(q)
<1>1. n \in Nat \ {0} /\ DOMAIN q = 1 .. n
    OBVIOUS
<1>2. /\ Front(q) \in Seq(S) /\ DOMAIN Front(q) = 1 .. (n - 1)
      /\ \A i \in 1 .. (n - 1) : Front(q)[i] = q[i]
    BY <1>1 DEF Front
<1>3. Last(q) = q[n] /\ n \in 1 .. n
    BY <1>1 DEF Last
<1> HIDE DEF n
<1>4. NoRepeats(Front(q))
    BY <1>1, <1>2 DEF NoRepeats
<1>5. \A i \in 1 .. n : i \in 1 .. (n - 1) \/ i = n
    BY <1>1
<1>6. \A i \in 1 .. (n - 1) : i \in 1 .. n /\ i # n
    BY <1>1
<1>7. Entries(Front(q)) = Entries(q) \ {Last(q)}
    <2>1. ASSUME NEW x \in Entries(Front(q)) PROVE x \in Entries(q) \ {Last(q)}
        BY <1>1, <1>2, <1>3, <1>6 DEF Entries, NoRepeats
    <2>2. ASSUME NEW x \in Entries(q) \ {Last(q)} PROVE x \in Entries(Front(q))
        BY <1>1, <1>2, <1>3, <1>5 DEF Entries
    <2> QED BY <2>1, <2>2
<1>8. Last(q) \in Entries(q)
    BY <1>1, <1>3 DEF Entries
<1>9. Last(q) \in S
    BY <1>1, <1>3
<1> QED
    BY <1>2, <1>4, <1>7, <1>8, <1>9

\* A handle goes back onto the stack.
LEMMA EntriesAppend ==
    ASSUME NEW S, NEW q \in Seq(S), NEW e \in S
    PROVE  /\ Append(q, e) \in Seq(S) /\ Entries(Append(q, e)) = Entries(q) \cup {e}
           /\ NoRepeats(q) /\ e \notin Entries(q) => NoRepeats(Append(q, e))
<1> DEFINE n == Len(q)
           a == Append(q, e)
<1>1. /\ n \in Nat /\ DOMAIN q = 1 .. n /\ a \in Seq(S) /\ DOMAIN a = 1 .. (n + 1)
      /\ a[n + 1] = e /\ \A i \in 1 .. n : a[i] = q[i]
    OBVIOUS
<1> HIDE DEF n, a
<1>2. \A i \in 1 .. (n + 1) : i \in 1 .. n \/ i = n + 1
    BY <1>1
<1>3. /\ \A i \in 1 .. n : i \in 1 .. (n + 1) /\ i # n + 1
      /\ n + 1 \in 1 .. (n + 1)
    BY <1>1
<1>4. Entries(a) = Entries(q) \cup {e}
    <2>1. ASSUME NEW x \in Entries(a) PROVE x \in Entries(q) \cup {e}
        BY <1>1, <1>2 DEF Entries
    <2>2. ASSUME NEW x \in Entries(q) \cup {e} PROVE x \in Entries(a)
        BY <1>1, <1>3 DEF Entries
    <2> QED BY <2>1, <2>2
<1>5. NoRepeats(q) /\ e \notin Entries(q) => NoRepeats(a)
    BY <1>1, <1>2 DEF NoRepeats, Entries
<1> QED
    BY <1>1, <1>4, <1>5 DEF a

-----------------------------------------------------------------------------
AllStreams == [device : Devices, n : StreamIds]
Works == [stream : AllStreams, for : Handles]
AskedCalls == [pc : {"asked"}, device : Devices, stream : AllStreams, mode : Modes]
HeldPcs == {"find", "insert", "set", "ready"}
HeldCalls == [pc : HeldPcs, handle : Handles, stream : AllStreams, mode : Modes,
              ws : Works \cup {None}]
Calls == {Idle, [pc |-> "clear"]} \cup AskedCalls \cup HeldCalls

HandleTypes ==
    /\ created_handles \in [Devices -> SUBSET Handles]
    /\ available_handles \in [Devices -> Seq(Handles)]
    /\ my_handles \in [Threads -> [Devices -> Handles \cup {None}]]
    /\ lib \in [Handles -> [stream : AllStreams \cup {None}, ws : Works \cup {None},
                            mode : Modes \cup {None}]]
    /\ call \in [Threads -> Calls]
    /\ map \in SUBSET [key : [handle : Handles, stream : AllStreams], ws : Works]
    /\ highWater \in [Devices -> Nat]

\* The handles of a device are numbered in the order in which they were created.
Numbered ==
    \A d \in Devices :
        /\ IsFiniteSet(created_handles[d])
        /\ \A h \in created_handles[d] : h.device = d /\ h.n <= Cardinality(created_handles[d])

\* A handle is in the stack once or with one thread; while the pool lives, none is missing.
Exclusive ==
    \A d \in Devices :
        /\ NoRepeats(available_handles[d])
        /\ Entries(available_handles[d]) \subseteq created_handles[d]
        /\ \A t \in Threads : my_handles[t][d] # None =>
               my_handles[t][d] \in created_handles[d] \ Entries(available_handles[d])
        /\ \A t, u \in Threads :
               my_handles[t][d] = my_handles[u][d] /\ my_handles[t][d] # None => t = u
        /\ poolAlive => \A h \in created_handles[d] : h \notin Entries(available_handles[d]) =>
               \E t \in Threads : my_handles[t][d] = h

\* What a call has told its handle is not changed by another call.
HeldCall(t) ==
    LET h == call[t].handle IN
    call[t].pc \in HeldPcs =>
        /\ my_handles[t][h.device] = h
        /\ lib[h].stream = call[t].stream
        /\ call[t].pc = "ready" /\ Sublas => lib[h].ws = call[t].ws /\ lib[h].mode = call[t].mode
CallsKept == \A t \in Threads : HeldCall(t)

\* A workspace belongs to the stream of its key.
StreamOfWork ==
    /\ \A e \in map : e.ws.stream = e.key.stream
    /\ \A t \in Threads : call[t].pc \in {"insert", "set", "ready"} /\ (call[t].pc = "insert" \/ Sublas)
          => call[t].ws \in Works /\ call[t].ws.stream = call[t].stream

HandleInv == HandleTypes /\ Numbered /\ Exclusive /\ CallsKept /\ StreamOfWork /\ CreatedIsHighWater

\* Threads that hold handles of a device, and the handles they hold.
LEMMA HoldersCounted ==
    ASSUME HandlesAssumption, NEW d \in Devices, NEW C, IsFiniteSet(C),
           NEW mh \in [Threads -> [Devices -> Handles \cup {None}]],
           \A t \in Threads : mh[t][d] # None => mh[t][d] \in C,
           \A t, u \in Threads : mh[t][d] = mh[u][d] /\ mh[t][d] # None => t = u
    PROVE  /\ Cardinality(Holders(mh, d)) \in Nat
           /\ Cardinality(Holders(mh, d)) <= Cardinality(C)
           /\ (\A h \in C : \E t \in Threads : mh[t][d] = h) /\ C \subseteq Handles
                 => Cardinality(Holders(mh, d)) = Cardinality(C)
<1> DEFINE H == Holders(mh, d)
           f == [t \in H |-> mh[t][d]]
<1>1. H \subseteq Threads /\ \A t \in H : mh[t][d] # None
    BY DEF Holders
<1>2. f \in Injection(H, C)
    BY <1>1 DEF Injection, IsInjective
<1>3. IsFiniteSet(H) /\ Cardinality(H) \in Nat
    BY <1>1, FS_Subset, FS_CardinalityType DEF HandlesAssumption
<1>4. (\A h \in C : \E t \in Threads : mh[t][d] = h) /\ C \subseteq Handles
         => f \in Surjection(H, C)
    <2> SUFFICES ASSUME \A h \in C : \E t \in Threads : mh[t][d] = h, C \subseteq Handles
                 PROVE  f \in Surjection(H, C)
        OBVIOUS
    <2>1. \A h \in C : \E t \in H : f[t] = h
        BY DEF HandlesAssumption, Holders
    <2> QED BY <1>2, <2>1 DEF Surjection, Injection
<1> HIDE DEF f
<1>5. /\ Cardinality(H) <= Cardinality(C)
      /\ Cardinality(H) = Cardinality(C) <=> f \in Surjection(H, C)
    BY <1>2, FS_Injection
<1> QED BY <1>3, <1>4, <1>5

\* The invariant holds before the first handle is asked for.
LEMMA HandleInvInit == HandlesAssumption /\ Init => HandleInv
<1> SUFFICES ASSUME HandlesAssumption, Init PROVE HandleInv
    OBVIOUS
<1>1. HandleTypes
    BY DEF Init, HandleTypes, Calls
<1>2. Numbered /\ CreatedIsHighWater
    BY FS_EmptySet DEF Init, Numbered, CreatedIsHighWater
<1>3. Exclusive
    BY DEF Init, Exclusive, NoRepeats, Entries
<1>4. CallsKept /\ StreamOfWork
    BY DEF Init, CallsKept, HeldCall, StreamOfWork, Idle, HeldPcs
<1> QED BY <1>1, <1>2, <1>3, <1>4 DEF HandleInv

\* The step a call is at tells what it holds.
LEMMA CallShapes ==
    ASSUME NEW c \in Calls
    PROVE  (c.pc = "asked" => c \in AskedCalls) /\ (c.pc \in HeldPcs => c \in HeldCalls)
<1>1. ASSUME c \in AskedCalls PROVE c.pc = "asked"
    BY <1>1 DEF AskedCalls
<1>2. ASSUME c \in HeldCalls PROVE c.pc \in HeldPcs
    BY <1>2 DEF HeldCalls
<1>3. ASSUME c = Idle PROVE c.pc = "idle"
    BY <1>3 DEF Idle
<1>4. ASSUME c = [pc |-> "clear"] PROVE c.pc = "clear"
    BY <1>4
<1>5. c = Idle \/ c = [pc |-> "clear"] \/ c \in AskedCalls \/ c \in HeldCalls
    BY DEF Calls
<1> QED BY <1>1, <1>2, <1>3, <1>4, <1>5 DEF HeldPcs

\* A call that has found its handle tells it the stream; the other calls do not notice.
LEMMA HoldKeeps ==
    ASSUME HandlesAssumption, HandleInv, NEW t \in Threads, NEW h \in Handles,
           call[t].pc = "asked", h.device = call[t].device, Hold(t, h), UNCHANGED map,
           \A u \in Threads \ {t} : my_handles[u][h.device] # h
    PROVE  /\ my_handles' \in [Threads -> [Devices -> Handles \cup {None}]]
           /\ lib' \in [Handles -> [stream : AllStreams \cup {None}, ws : Works \cup {None},
                                    mode : Modes \cup {None}]]
           /\ call' \in [Threads -> Calls] /\ map' \in SUBSET [key : [handle : Handles,
                                    stream : AllStreams], ws : Works]
           /\ CallsKept' /\ StreamOfWork'
<1> DEFINE d == call[t].device
           s == call[t].stream
           c == [pc |-> IF Sublas THEN "find" ELSE "ready", handle |-> h, stream |-> s,
                 mode |-> call[t].mode, ws |-> None]
<1>1. HandleTypes /\ CallsKept /\ StreamOfWork
    BY DEF HandleInv
<1>2. call[t] \in AskedCalls
  <2>1. call[t] \in Calls
    BY <1>1 DEF HandleTypes
  <2> QED BY <2>1, CallShapes
<1>3. d \in Devices /\ s \in AllStreams /\ call[t].mode \in Modes /\ h.device = d
    BY <1>2 DEF AskedCalls
<1>4. c \in HeldCalls
    BY <1>3 DEF HeldCalls, HeldPcs
<1>5. call' = [call EXCEPT ![t] = c] /\ lib' = [lib EXCEPT ![h].stream = s]
      /\ my_handles' = [my_handles EXCEPT ![t][d] = h]
    BY DEF Hold
<1>6. c.pc \in {"find", "ready"} /\ (Sublas => c.pc = "find") /\ c.handle = h /\ c.stream = s
    OBVIOUS
<1> HIDE DEF c
<1>7. call' \in [Threads -> Calls] /\ call'[t] = c /\ \A u \in Threads \ {t} : call'[u] = call[u]
    BY <1>1, <1>4, <1>5 DEF HandleTypes, Calls
<1>8. /\ my_handles' \in [Threads -> [Devices -> Handles \cup {None}]]
      /\ my_handles'[t][d] = h
      /\ \A u \in Threads \ {t} : my_handles'[u] = my_handles[u]
    BY <1>1, <1>3, <1>5 DEF HandleTypes
<1>9. /\ lib' \in [Handles -> [stream : AllStreams \cup {None}, ws : Works \cup {None},
                               mode : Modes \cup {None}]]
      /\ lib'[h].stream = s /\ \A g \in Handles \ {h} : lib'[g] = lib[g]
    BY <1>1, <1>3, <1>5 DEF HandleTypes
<1>10. ASSUME NEW u \in Threads PROVE HeldCall(u)'
  <2>1. CASE u = t
    BY <2>1, <1>3, <1>6, <1>7, <1>8, <1>9 DEF HeldCall, HeldPcs
  <2>2. CASE u # t
    <3> SUFFICES ASSUME call[u].pc \in HeldPcs PROVE HeldCall(u)'
      BY <2>2, <1>7 DEF HeldCall
    <3>1. call[u] \in HeldCalls /\ HeldCall(u)
      <4>1. call[u] \in Calls
        BY <1>1 DEF HandleTypes
      <4> QED BY <4>1, <1>1, CallShapes DEF CallsKept
    <3>2. call[u].handle \in Handles /\ my_handles[u][call[u].handle.device] = call[u].handle
      BY <3>1 DEF HeldCall, HeldCalls
    <3>3. call[u].handle # h
      BY <3>2, <2>2
    <3> QED BY <2>2, <3>1, <3>2, <3>3, <1>7, <1>8, <1>9 DEF HeldCall
  <2> QED BY <2>1, <2>2
<1>11. StreamOfWork'
    BY <1>1, <1>6, <1>7 DEF StreamOfWork
<1> QED BY <1>1, <1>7, <1>8, <1>9, <1>10, <1>11 DEF CallsKept, HandleTypes

\* A step of a call that leaves the pool alone.
LEMMA PoolUntouched ==
    ASSUME HandleInv, UNCHANGED <<created_handles, available_handles, my_handles, highWater>>,
           poolAlive' => poolAlive
    PROVE  Numbered' /\ Exclusive' /\ CreatedIsHighWater'
<1>1. Numbered /\ Exclusive /\ CreatedIsHighWater
    BY DEF HandleInv
<1>2. Numbered' /\ CreatedIsHighWater'
    BY <1>1 DEF Numbered, CreatedIsHighWater
<1>3. Exclusive'
    BY <1>1 DEF Exclusive
<1> QED BY <1>2, <1>3

\* A call becomes c; the pool, the library and the map stay as they are.
LEMMA CallMoves ==
    ASSUME HandleInv, NEW t \in Threads, NEW c \in Calls, call' = [call EXCEPT ![t] = c],
           UNCHANGED <<created_handles, available_handles, my_handles, poolAlive, lib, map, highWater>>,
           c.pc \in HeldPcs => /\ my_handles[t][c.handle.device] = c.handle
                               /\ lib[c.handle].stream = c.stream
                               /\ c.pc # "ready",
           c.pc \in {"insert", "set"} => c.ws \in Works /\ c.ws.stream = c.stream
    PROVE  HandleInv'
<1>1. HandleTypes /\ CallsKept /\ StreamOfWork
    BY DEF HandleInv
<1>2. call' \in [Threads -> Calls] /\ call'[t] = c /\ \A u \in Threads \ {t} : call'[u] = call[u]
    BY <1>1 DEF HandleTypes
<1>3. HandleTypes'
    BY <1>1, <1>2 DEF HandleTypes
<1>4. ASSUME NEW u \in Threads PROVE HeldCall(u)'
    BY <1>1, <1>2 DEF CallsKept, HeldCall
<1>5. StreamOfWork'
    BY <1>1, <1>2 DEF StreamOfWork, HeldPcs
<1>6. Numbered' /\ Exclusive' /\ CreatedIsHighWater'
    BY PoolUntouched
<1> QED BY <1>3, <1>4, <1>5, <1>6 DEF HandleInv, CallsKept

\* A thread outside a call, and one that clears the workspaces, holds no handle.
LEMMA IdleCall ==
    /\ Idle \in Calls /\ Idle.pc \notin HeldPcs
    /\ [pc |-> "clear"] \in Calls /\ [pc |-> "clear"].pc \notin HeldPcs
  BY DEF Idle, Calls, HeldPcs

\* A thread ends: its handles go back onto the stacks, or are lost with the pool.
LEMMA WindowDestroyed ==
    ASSUME HandlesAssumption, HandleInv, NEW t \in Threads, PoolWindow_destroy(t)
    PROVE  HandleInv'
<1>1. HandleTypes /\ Numbered /\ Exclusive /\ CallsKept /\ StreamOfWork /\ CreatedIsHighWater
    BY DEF HandleInv
<1>2. /\ UNCHANGED <<created_handles, poolAlive, lib, call, map, highWater>> /\ call[t] = Idle
      /\ my_handles' = [my_handles EXCEPT ![t] = [d \in Devices |-> None]]
      /\ available_handles' = IF poolAlive THEN release(t) ELSE available_handles
    BY DEF PoolWindow_destroy
<1>3. /\ my_handles' \in [Threads -> [Devices -> Handles \cup {None}]]
      /\ \A d \in Devices : my_handles'[t][d] = None
      /\ \A u \in Threads \ {t} : my_handles'[u] = my_handles[u]
    BY <1>1, <1>2 DEF HandleTypes
<1>4. ASSUME NEW d \in Devices
      PROVE  /\ available_handles'[d] \in Seq(Handles) /\ NoRepeats(available_handles'[d])
             /\ \/ Entries(available_handles'[d]) = Entries(available_handles[d])
                   /\ (poolAlive => my_handles[t][d] = None)
                \/ /\ my_handles[t][d] # None
                   /\ Entries(available_handles'[d])
                        = Entries(available_handles[d]) \cup {my_handles[t][d]}
  <2>1. available_handles[d] \in Seq(Handles) /\ NoRepeats(available_handles[d])
    BY <1>1 DEF HandleTypes, Exclusive
  <2>2. CASE poolAlive /\ my_handles[t][d] # None
    <3>1. my_handles[t][d] \in Handles /\ my_handles[t][d] \notin Entries(available_handles[d])
      BY <2>2, <1>1 DEF HandleTypes, Exclusive
    <3>2. available_handles'[d] = Append(available_handles[d], my_handles[t][d])
      BY <2>2, <1>2 DEF release
    <3> QED BY <2>1, <2>2, <3>1, <3>2, EntriesAppend
  <2>3. CASE ~(poolAlive /\ my_handles[t][d] # None)
    <3>1. available_handles'[d] = available_handles[d]
      BY <2>3, <1>2 DEF release
    <3> QED BY <2>1, <2>3, <3>1
  <2> QED BY <2>2, <2>3
<1>5. HandleTypes'
  <2>1. available_handles' = [d \in Devices |-> available_handles'[d]]
    BY <1>1, <1>2 DEF release, HandleTypes
  <2>2. available_handles' \in [Devices -> Seq(Handles)]
    BY <2>1, <1>4
  <2> QED BY <1>1, <1>2, <1>3, <2>2 DEF HandleTypes
<1>6. Numbered' /\ CreatedIsHighWater' /\ StreamOfWork'
    BY <1>1, <1>2 DEF Numbered, CreatedIsHighWater, StreamOfWork
<1>7. Exclusive'
  <2> SUFFICES ASSUME NEW d \in Devices
        PROVE  /\ NoRepeats(available_handles'[d])
               /\ Entries(available_handles'[d]) \subseteq created_handles[d]
               /\ \A u \in Threads : my_handles'[u][d] # None =>
                     my_handles'[u][d] \in created_handles[d] \ Entries(available_handles'[d])
               /\ \A u, w \in Threads :
                     my_handles'[u][d] = my_handles'[w][d] /\ my_handles'[u][d] # None => u = w
               /\ poolAlive => \A h \in created_handles[d] : h \notin Entries(available_handles'[d])
                     => \E u \in Threads : my_handles'[u][d] = h
    BY <1>2 DEF Exclusive
  <2>0. /\ Entries(available_handles[d]) \subseteq created_handles[d]
        /\ created_handles[d] \subseteq Handles
        /\ \A u \in Threads : my_handles[u][d] # None =>
               my_handles[u][d] \in created_handles[d] \ Entries(available_handles[d])
        /\ \A u, w \in Threads :
               my_handles[u][d] = my_handles[w][d] /\ my_handles[u][d] # None => u = w
        /\ poolAlive => \A h \in created_handles[d] : h \notin Entries(available_handles[d]) =>
               \E u \in Threads : my_handles[u][d] = h
    BY <1>1 DEF Exclusive, HandleTypes
  <2>1. Entries(available_handles'[d]) \subseteq created_handles[d]
    BY <1>4, <2>0
  <2>2. ASSUME NEW u \in Threads, my_handles'[u][d] # None
        PROVE  my_handles'[u][d] \in created_handles[d] \ Entries(available_handles'[d])
    <3>1. u # t /\ my_handles'[u][d] = my_handles[u][d]
      BY <1>3, <2>2
    <3>2. my_handles[u][d] \in created_handles[d] \ Entries(available_handles[d])
      BY <3>1, <2>2, <2>0
    <3>3. my_handles[u][d] # my_handles[t][d]
      BY <3>1, <2>2, <2>0
    <3>4. Entries(available_handles'[d]) \subseteq Entries(available_handles[d]) \cup {my_handles[t][d]}
      BY <1>4
    <3> QED BY <3>1, <3>2, <3>3, <3>4
  <2>3. \A u, w \in Threads :
           my_handles'[u][d] = my_handles'[w][d] /\ my_handles'[u][d] # None => u = w
    BY <1>3, <2>0
  <2>4. ASSUME poolAlive, NEW h \in created_handles[d], h \notin Entries(available_handles'[d])
        PROVE  \E u \in Threads : my_handles'[u][d] = h
    <3>1. h \notin Entries(available_handles[d]) /\ my_handles[t][d] # h
      BY <1>4, <2>4, <2>0 DEF HandlesAssumption
    <3>2. PICK u \in Threads : my_handles[u][d] = h
      BY <3>1, <2>0, <2>4
    <3> QED BY <3>1, <3>2, <1>3
  <2> QED BY <1>4, <2>1, <2>2, <2>3, <2>4
<1>8. ASSUME NEW u \in Threads PROVE HeldCall(u)'
  <2>1. CASE u = t
    BY <2>1, <1>2, IdleCall DEF HeldCall
  <2>2. CASE u # t
    BY <2>2, <1>1, <1>2, <1>3 DEF HeldCall, CallsKept
  <2> QED BY <2>1, <2>2
<1> QED BY <1>5, <1>6, <1>7, <1>8 DEF HandleInv, CallsKept

\* A thread gets a handle that it has already, that nobody has, or a new one.
LEMMA Reserved ==
    ASSUME HandlesAssumption, HandleInv, NEW t \in Threads, getHandle(t)
    PROVE  HandleInv'
<1> DEFINE d == call[t].device
<1>1. HandleTypes /\ Numbered /\ Exclusive /\ CallsKept /\ StreamOfWork /\ CreatedIsHighWater
    BY DEF HandleInv
<1>2. call[t] \in AskedCalls /\ d \in Devices /\ call[t].pc = "asked"
  <2>1. call[t] \in Calls /\ call[t].pc = "asked"
    BY <1>1 DEF HandleTypes, getHandle
  <2> QED BY <2>1, CallShapes DEF AskedCalls
<1>3. UNCHANGED <<poolAlive, map>> /\ reserve(t)
    BY DEF getHandle
<1>0. /\ NoRepeats(available_handles[d]) /\ available_handles[d] \in Seq(Handles)
      /\ Entries(available_handles[d]) \subseteq created_handles[d]
      /\ created_handles[d] \subseteq Handles
      /\ \A u \in Threads : my_handles[u][d] # None =>
             my_handles[u][d] \in created_handles[d] \ Entries(available_handles[d])
      /\ \A u, w \in Threads :
             my_handles[u][d] = my_handles[w][d] /\ my_handles[u][d] # None => u = w
      /\ poolAlive => \A h \in created_handles[d] : h \notin Entries(available_handles[d]) =>
             \E u \in Threads : my_handles[u][d] = h
      /\ IsFiniteSet(created_handles[d]) /\ Cardinality(created_handles[d]) \in Nat
      /\ \A h \in created_handles[d] : h.device = d /\ h.n <= Cardinality(created_handles[d])
      /\ highWater[d] = Cardinality(created_handles[d])
    BY <1>1, <1>2, FS_CardinalityType DEF Exclusive, HandleTypes, Numbered, CreatedIsHighWater
\* What is left to show of a way to get a handle h.
<1>4. ASSUME NEW h \in Handles, h.device = d, Hold(t, h), NEW C, NEW q \in Seq(Handles),
             created_handles' = [created_handles EXCEPT ![d] = C],
             available_handles' = [available_handles EXCEPT ![d] = q],
             C \subseteq Handles, IsFiniteSet(C), h \in C \ Entries(q), NoRepeats(q),
             created_handles[d] \subseteq C, C \subseteq created_handles[d] \cup {h},
             Entries(q) = Entries(available_handles[d]) \ {h},
             \A g \in C : g.device = d /\ g.n <= Cardinality(C),
             \A u \in Threads \ {t} : my_handles[u][d] # h,
             my_handles[t][d] \in {None, h},
             \/ C = created_handles[d]
             \/ /\ Entries(q) = {} /\ poolAlive
                /\ Cardinality(C) = Cardinality(created_handles[d]) + 1
      PROVE  HandleInv'
  <2>1. /\ my_handles' \in [Threads -> [Devices -> Handles \cup {None}]]
        /\ lib' \in [Handles -> [stream : AllStreams \cup {None}, ws : Works \cup {None},
                                 mode : Modes \cup {None}]]
        /\ call' \in [Threads -> Calls]
        /\ map' \in SUBSET [key : [handle : Handles, stream : AllStreams], ws : Works]
        /\ CallsKept' /\ StreamOfWork'
    BY <1>2, <1>3, <1>4, HoldKeeps
  <2>2. /\ created_handles' \in [Devices -> SUBSET Handles] /\ created_handles'[d] = C
        /\ available_handles' \in [Devices -> Seq(Handles)] /\ available_handles'[d] = q
        /\ \A e \in Devices \ {d} : /\ created_handles'[e] = created_handles[e]
                                    /\ available_handles'[e] = available_handles[e]
    BY <1>1, <1>2, <1>4 DEF HandleTypes
  <2>4. /\ my_handles'[t][d] = h
        /\ \A u \in Threads, e \in Devices : u # t \/ e # d => my_handles'[u][e] = my_handles[u][e]
    BY <1>1, <1>2, <1>4 DEF Hold, HandleTypes
  <2>5. Numbered'
    BY <1>1, <1>4, <2>2 DEF Numbered
  <2>6. \A u \in Threads : my_handles'[u][d] # None => my_handles'[u][d] \in C \ Entries(q)
    <3>1. ASSUME NEW u \in Threads \ {t}, my_handles[u][d] # None
          PROVE  my_handles[u][d] \in C \ Entries(q)
      <4>1. my_handles[u][d] \in created_handles[d] \ Entries(available_handles[d])
        BY <3>1, <1>0
      <4> QED BY <4>1, <1>4
    <3> QED BY <3>1, <1>2, <1>4, <2>4
  <2>7. \A u, w \in Threads :
           my_handles'[u][d] = my_handles'[w][d] /\ my_handles'[u][d] # None => u = w
    BY <1>0, <1>2, <1>4, <2>4
  <2>8. ASSUME poolAlive, NEW g \in C, g \notin Entries(q) PROVE \E u \in Threads : my_handles'[u][d] = g
    <3>1. CASE g = h
      BY <3>1, <2>4
    <3>2. CASE g # h
      <4>1. g \in created_handles[d] /\ g \notin Entries(available_handles[d])
        BY <3>2, <2>8, <1>4
      <4>2. PICK u \in Threads : my_handles[u][d] = g
        BY <4>1, <2>8, <1>0
      <4>3. u # t
        BY <4>2, <3>2, <1>4, <2>8 DEF HandlesAssumption
      <4> QED BY <4>2, <4>3, <2>4, <1>2
    <3> QED BY <3>1, <3>2
  <2>9. Exclusive'
    <3> SUFFICES ASSUME NEW e \in Devices
          PROVE  /\ NoRepeats(available_handles'[e])
                 /\ Entries(available_handles'[e]) \subseteq created_handles'[e]
                 /\ \A u \in Threads : my_handles'[u][e] # None =>
                       my_handles'[u][e] \in created_handles'[e] \ Entries(available_handles'[e])
                 /\ \A u, w \in Threads :
                       my_handles'[u][e] = my_handles'[w][e] /\ my_handles'[u][e] # None => u = w
                 /\ poolAlive' => \A g \in created_handles'[e] : g \notin Entries(available_handles'[e])
                       => \E u \in Threads : my_handles'[u][e] = g
      BY DEF Exclusive
    <3>1. CASE e = d
      <4>1. Entries(q) \subseteq C
        BY <1>0, <1>4
      <4> QED BY <3>1, <4>1, <1>3, <1>4, <2>2, <2>6, <2>7, <2>8
    <3>2. CASE e # d
      <4>1. /\ NoRepeats(available_handles[e])
            /\ Entries(available_handles[e]) \subseteq created_handles[e]
            /\ \A u \in Threads : my_handles[u][e] # None =>
                   my_handles[u][e] \in created_handles[e] \ Entries(available_handles[e])
            /\ \A u, w \in Threads :
                   my_handles[u][e] = my_handles[w][e] /\ my_handles[u][e] # None => u = w
            /\ poolAlive => \A g \in created_handles[e] : g \notin Entries(available_handles[e]) =>
                   \E u \in Threads : my_handles[u][e] = g
        BY <1>1 DEF Exclusive
      <4>2. \A u \in Threads : my_handles'[u][e] = my_handles[u][e]
        BY <3>2, <2>4
      <4>3. /\ created_handles'[e] = created_handles[e] /\ poolAlive' = poolAlive
            /\ available_handles'[e] = available_handles[e]
        BY <3>2, <2>2, <1>3
      <4> QED BY <4>1, <4>2, <4>3
    <3> QED BY <3>1, <3>2
  <2>10. CreatedIsHighWater' /\ highWater' \in [Devices -> Nat]
    <3> DEFINE n == Cardinality(Holders(my_handles', d))
    <3>1. highWater' = [highWater EXCEPT ![d] = IF n > highWater[d] THEN n ELSE highWater[d]]
      BY <1>4 DEF Hold
    <3>2. /\ n \in Nat /\ n <= Cardinality(C)
          /\ (\A g \in C : \E u \in Threads : my_handles'[u][d] = g) => n = Cardinality(C)
      <4>1. \A u \in Threads : my_handles'[u][d] # None => my_handles'[u][d] \in C
        BY <2>6
      <4> QED BY <1>2, <1>4, <2>1, <2>7, <4>1, HoldersCounted
    <3> HIDE DEF n
    <3>3. (IF n > highWater[d] THEN n ELSE highWater[d]) = Cardinality(C)
      <4>1. CASE C = created_handles[d]
        BY <4>1, <3>2, <1>0
      <4>2. CASE Entries(q) = {} /\ poolAlive /\ Cardinality(C) = Cardinality(created_handles[d]) + 1
        BY <4>2, <3>2, <2>8, <1>0
      <4> QED BY <1>4, <4>1, <4>2
    <3>4. highWater \in [Devices -> Nat] /\ Cardinality(C) \in Nat
      BY <1>1, <1>4, FS_CardinalityType DEF HandleTypes
    <3>5. highWater' \in [Devices -> Nat] /\ highWater'[d] = Cardinality(C)
          /\ \A e \in Devices \ {d} : highWater'[e] = highWater[e]
      BY <3>1, <3>3, <3>4, <1>2
    <3>6. ASSUME NEW e \in Devices PROVE Cardinality(created_handles'[e]) = highWater'[e]
      <4>1. CASE e = d
        BY <4>1, <3>5, <2>2
      <4>2. CASE e # d
        BY <4>2, <3>5, <2>2, <1>1 DEF CreatedIsHighWater
      <4> QED BY <4>1, <4>2
    <3> QED BY <3>5, <3>6 DEF CreatedIsHighWater
  <2>11. HandleTypes'
    BY <2>1, <2>2, <2>10 DEF HandleTypes
  <2> QED BY <2>1, <2>5, <2>9, <2>10, <2>11 DEF HandleInv
<1>5. ASSUME Cached(t) PROVE HandleInv'
  <2> DEFINE h == my_handles[t][d]
  <2>1. h # None /\ Hold(t, h) /\ UNCHANGED <<created_handles, available_handles>>
    BY <1>5 DEF Cached
  <2>2. h \in Handles /\ h \in created_handles[d] \ Entries(available_handles[d]) /\ h.device = d
    BY <2>1, <1>0
  <2>3. /\ created_handles' = [created_handles EXCEPT ![d] = created_handles[d]]
        /\ available_handles' = [available_handles EXCEPT ![d] = available_handles[d]]
    BY <2>1, <1>1, <1>2 DEF HandleTypes
  <2>4. \A u \in Threads \ {t} : my_handles[u][d] # h
    BY <2>1, <1>0
  <2>5. Entries(available_handles[d]) = Entries(available_handles[d]) \ {h}
    BY <2>2
  <2> HIDE DEF h
  <2> QED BY <2>1, <2>2, <2>3, <2>4, <2>5, <1>0, <1>4 DEF h
<1>6. ASSUME FromPool(t) PROVE HandleInv'
  <2> DEFINE s == available_handles[d]
             h == Last(s)
  <2>1. /\ my_handles[t][d] = None /\ s # <<>> /\ Hold(t, h) /\ UNCHANGED created_handles
        /\ available_handles' = [available_handles EXCEPT ![d] = Front(s)]
    BY <1>6 DEF FromPool
  <2>2. /\ Front(s) \in Seq(Handles) /\ NoRepeats(Front(s)) /\ Entries(Front(s)) = Entries(s) \ {h}
        /\ h \in Entries(s) /\ h \in Handles
    BY <2>1, <1>0, EntriesFront
  <2>3. h \in created_handles[d] /\ h.device = d /\ h \notin Entries(Front(s))
    BY <2>2, <1>0
  <2>4. created_handles' = [created_handles EXCEPT ![d] = created_handles[d]]
    BY <2>1, <1>1, <1>2 DEF HandleTypes
  <2>5. \A u \in Threads \ {t} : my_handles[u][d] # h
    BY <2>2, <1>0 DEF HandlesAssumption
  <2> HIDE DEF h
  <2> QED BY <2>1, <2>2, <2>3, <2>4, <2>5, <1>0, <1>4 DEF h
<1>7. ASSUME Create(t) PROVE HandleInv'
  <2> DEFINE k == Cardinality(created_handles[d])
             h == [device |-> d, n |-> k + 1]
             C == created_handles[d] \cup {h}
  <2>1. /\ my_handles[t][d] = None /\ poolAlive /\ available_handles[d] = <<>> /\ k + 1 <= MaxHandles
        /\ Hold(t, h) /\ UNCHANGED available_handles
        /\ created_handles' = [created_handles EXCEPT ![d] = C]
    BY <1>7 DEF Create
  <2>2. h \in Handles /\ h.device = d /\ h.n = k + 1
    BY <2>1, <1>0, <1>2 DEF Handles, HandlesAssumption
  <2>3. h \notin created_handles[d]
    BY <2>2, <1>0
  <2>4. IsFiniteSet(C) /\ Cardinality(C) = k + 1
    <3> HIDE DEF h
    <3> QED BY <2>3, <1>0, FS_AddElement
  <2>5. \A g \in C : g.device = d /\ g.n <= Cardinality(C)
    <3>1. \A g \in created_handles[d] : g.device = d /\ g.n \in Int /\ g.n <= k
      BY <1>0 DEF Handles
    <3> QED BY <3>1, <2>2, <2>4, <1>0
  <2>6. available_handles' = [available_handles EXCEPT ![d] = <<>>] /\ Entries(<<>>) = {}
        /\ NoRepeats(<<>>) /\ <<>> \in Seq(Handles)
    BY <2>1, <1>1, <1>2 DEF HandleTypes, Entries, NoRepeats
  <2>7. \A u \in Threads \ {t} : my_handles[u][d] # h
    BY <2>2, <2>3, <1>0 DEF HandlesAssumption
  <2>8. /\ C \subseteq Handles /\ created_handles[d] \subseteq C /\ h \in C \ Entries(<<>>)
        /\ C \subseteq created_handles[d] \cup {h}
    BY <2>2, <2>6, <1>0
  <2>9. Entries(<<>>) = Entries(available_handles[d]) \ {h} /\ my_handles[t][d] \in {None, h}
    BY <2>1, <2>6
  <2>10. \/ C = created_handles[d]
         \/ /\ Entries(<<>>) = {} /\ poolAlive
            /\ Cardinality(C) = Cardinality(created_handles[d]) + 1
    BY <2>1, <2>4, <2>6
  <2> HIDE DEF h, C, k
  <2> QED BY <2>1, <2>2, <2>4, <2>5, <2>6, <2>7, <2>8, <2>9, <2>10, <1>4
<1> QED BY <1>3, <1>5, <1>6, <1>7 DEF reserve

\* Every step of every thread keeps the invariant.
LEMMA HandleInvNext ==
    ASSUME HandlesAssumption, HandleInv, [Next]_vars
    PROVE  HandleInv'
<1>0. /\ HandleTypes /\ Numbered /\ Exclusive /\ CallsKept /\ StreamOfWork /\ CreatedIsHighWater
      /\ \A t \in Threads : call[t] \in Calls
    BY DEF HandleInv, HandleTypes
\* Steps that change nothing the invariant is about
<1>1. ASSUME UNCHANGED <<created_handles, available_handles, my_handles, lib, call, map, highWater>>,
             poolAlive' => poolAlive
      PROVE  HandleInv'
  <2>1. Numbered' /\ Exclusive' /\ CreatedIsHighWater'
    BY <1>1, PoolUntouched
  <2>2. HandleTypes' /\ CallsKept' /\ StreamOfWork'
    BY <1>0, <1>1 DEF HandleTypes, CallsKept, HeldCall, StreamOfWork
  <2> QED BY <2>1, <2>2 DEF HandleInv
<1>2. CASE UNCHANGED vars \/ Terminate \/ Crash \/ \E t \in Threads : newPoolWindow(t)
    BY <1>1, <1>2 DEF vars, Terminate, Crash, newPoolWindow
<1>3. ASSUME NEW t \in Threads, Ask(t) PROVE HandleInv'
  <2>1. PICK d \in Devices, m \in Modes : \E s \in Streams(d) :
           call' = [call EXCEPT ![t] = [pc |-> "asked", device |-> d, stream |-> s, mode |-> m]]
    BY <1>3 DEF Ask
  <2>2. PICK s \in Streams(d) :
           call' = [call EXCEPT ![t] = [pc |-> "asked", device |-> d, stream |-> s, mode |-> m]]
    BY <2>1
  <2> DEFINE c == [pc |-> "asked", device |-> d, stream |-> s, mode |-> m]
  <2>3. c \in AskedCalls /\ c.pc = "asked"
    BY <2>2 DEF AskedCalls, AllStreams, Streams
  <2>4. call' = [call EXCEPT ![t] = c]
    BY <2>2
  <2> HIDE DEF c
  <2>5. c \in Calls /\ c.pc \notin HeldPcs
    BY <2>3 DEF Calls, HeldPcs
  <2> QED BY <1>3, <2>4, <2>5, CallMoves DEF Ask, HeldPcs
<1>4. ASSUME NEW t \in Threads, reserve_fails(t) \/ Launch(t) PROVE HandleInv'
    BY <1>4, IdleCall, CallMoves DEF reserve_fails, Launch, HeldPcs
<1>5. ASSUME NEW t \in Threads, ClearBegin(t) PROVE HandleInv'
    BY <1>5, IdleCall, CallMoves DEF ClearBegin, HeldPcs
<1>6. ASSUME NEW t \in Threads, clearSublasWorkspaces(t) PROVE HandleInv'
  <2>1. /\ map' = {} /\ call' = [call EXCEPT ![t] = Idle]
        /\ UNCHANGED <<created_handles, available_handles, my_handles, poolAlive, lib, highWater>>
    BY <1>6 DEF clearSublasWorkspaces
  <2>2. call' \in [Threads -> Calls] /\ call'[t] = Idle /\ \A u \in Threads \ {t} : call'[u] = call[u]
    BY <2>1, <1>0, IdleCall DEF HandleTypes
  <2>3. HandleTypes'
    BY <2>1, <2>2, <1>0 DEF HandleTypes
  <2>4. CallsKept' /\ StreamOfWork'
    BY <2>1, <2>2, <1>0, IdleCall DEF CallsKept, HeldCall, StreamOfWork, HeldPcs
  <2> QED BY <2>1, <2>3, <2>4, PoolUntouched DEF HandleInv
<1>7. ASSUME NEW t \in Threads, Find(t) PROVE HandleInv'
  <2>1. call[t] \in HeldCalls /\ HeldCall(t) /\ call[t].pc = "find"
    BY <1>7, <1>0, CallShapes DEF Find, CallsKept, HeldPcs
  <2>2. /\ my_handles[t][call[t].handle.device] = call[t].handle
        /\ lib[call[t].handle].stream = call[t].stream
        /\ call[t].handle \in Handles /\ call[t].stream \in AllStreams
    BY <2>1 DEF HeldCall, HeldPcs, HeldCalls
  <2>3. ASSUME NEW pc \in {"set", "insert"}, NEW w \in Works, w.stream = call[t].stream,
               call' = [call EXCEPT ![t].pc = pc, ![t].ws = w]
        PROVE  HandleInv'
    <3> DEFINE c == [call[t] EXCEPT !.pc = pc, !.ws = w]
    <3>1. /\ c \in HeldCalls /\ c.pc = pc /\ c.ws = w /\ c.stream = call[t].stream
          /\ c.handle = call[t].handle
      BY <2>1 DEF HeldCalls, HeldPcs
    <3>2. call' = [call EXCEPT ![t] = c]
      BY <2>3
    <3> HIDE DEF c
    <3>3. c \in Calls
      BY <3>1 DEF Calls
    <3>4. UNCHANGED <<created_handles, available_handles, my_handles, poolAlive, lib, map, highWater>>
      BY <1>7 DEF Find
    <3>5. /\ my_handles[t][c.handle.device] = c.handle /\ lib[c.handle].stream = c.stream
          /\ c.pc # "ready" /\ c.ws \in Works /\ c.ws.stream = c.stream
      BY <2>2, <2>3, <3>1
    <3> QED BY <3>2, <3>3, <3>4, <3>5, CallMoves
  <2>4. ASSUME NEW e \in Found(t) PROVE e.ws \in Works /\ e.ws.stream = call[t].stream
    <3>1. e \in map /\ e.key = KeyOf(t) /\ e.ws \in Works /\ e.ws.stream = e.key.stream
      BY <1>0, <2>4 DEF Found, HandleTypes, StreamOfWork
    <3> QED BY <3>1 DEF KeyOf
  <2>5. getNewWorkspace(t) \in Works /\ getNewWorkspace(t).stream = call[t].stream
    BY <2>2 DEF getNewWorkspace, Works
  <2> QED BY <1>7, <2>3, <2>4, <2>5 DEF Find
<1>8. ASSUME NEW t \in Threads, Insert(t) PROVE HandleInv'
  <2>1. call[t] \in HeldCalls /\ HeldCall(t) /\ call[t].pc = "insert"
    BY <1>8, <1>0, CallShapes DEF Insert, CallsKept, HeldPcs
  <2>2. /\ my_handles[t][call[t].handle.device] = call[t].handle
        /\ lib[call[t].handle].stream = call[t].stream
        /\ call[t].handle \in Handles /\ call[t].stream \in AllStreams
        /\ call[t].ws \in Works /\ call[t].ws.stream = call[t].stream
    BY <2>1, <1>0 DEF HeldCall, HeldPcs, HeldCalls, StreamOfWork
  <2>3. ASSUME NEW w \in Works, w.stream = call[t].stream, call' = [call EXCEPT ![t] = [call[t] EXCEPT !.pc = "set", !.ws = w]],
               \/ UNCHANGED map
               \/ map' = map \cup {[key |-> KeyOf(t), ws |-> call[t].ws]}
        PROVE  HandleInv'
    <3> DEFINE c == [call[t] EXCEPT !.pc = "set", !.ws = w]
    <3>1. /\ c \in HeldCalls /\ c.pc = "set" /\ c.ws = w /\ c.stream = call[t].stream
          /\ c.handle = call[t].handle
      BY <2>1 DEF HeldCalls, HeldPcs
    <3>2. call' = [call EXCEPT ![t] = c]
      BY <2>3
    <3> HIDE DEF c
    <3>3. call' \in [Threads -> Calls] /\ call'[t] = c /\ \A u \in Threads \ {t} : call'[u] = call[u]
      BY <3>1, <3>2, <1>0 DEF HandleTypes, Calls
    <3>4. UNCHANGED <<created_handles, available_handles, my_handles, poolAlive, lib, highWater>>
      BY <1>8 DEF Insert
    <3> DEFINE e == [key |-> KeyOf(t), ws |-> call[t].ws]
    <3>5. e \in [key : [handle : Handles, stream : AllStreams], ws : Works] /\ e.ws.stream = e.key.stream
      BY <2>2 DEF KeyOf
    <3>6. map' \subseteq map \cup {e}
      BY <2>3
    <3> HIDE DEF e
    <3>7. HandleTypes'
      BY <3>3, <3>4, <3>5, <3>6, <1>0 DEF HandleTypes
    <3>8. CallsKept'
      <4> SUFFICES ASSUME NEW u \in Threads PROVE HeldCall(u)'
        BY DEF CallsKept
      <4>1. CASE u = t
        BY <4>1, <2>2, <3>1, <3>3, <3>4 DEF HeldCall
      <4>2. CASE u # t
        BY <4>2, <1>0, <3>3, <3>4 DEF CallsKept, HeldCall
      <4> QED BY <4>1, <4>2
    <3>9. StreamOfWork'
      BY <2>3, <3>1, <3>3, <3>5, <3>6, <1>0 DEF StreamOfWork
    <3> QED BY <3>4, <3>7, <3>8, <3>9, PoolUntouched DEF HandleInv
  <2>4. ASSUME NEW e \in Found(t) PROVE e.ws \in Works /\ e.ws.stream = call[t].stream
    <3>1. e \in map /\ e.key = KeyOf(t) /\ e.ws \in Works /\ e.ws.stream = e.key.stream
      BY <1>0, <2>4 DEF Found, HandleTypes, StreamOfWork
    <3> QED BY <3>1 DEF KeyOf
  <2>5. ASSUME call' = [call EXCEPT ![t].pc = "set"],
               \/ UNCHANGED map
               \/ map' = map \cup {[key |-> KeyOf(t), ws |-> call[t].ws]}
        PROVE  HandleInv'
    <3>1. [call[t] EXCEPT !.pc = "set"] = [call[t] EXCEPT !.pc = "set", !.ws = call[t].ws]
      BY <2>1 DEF HeldCalls
    <3> QED BY <2>2, <2>3, <2>5, <3>1
  <2>6. ASSUME NEW e \in Found(t), call' = [call EXCEPT ![t].pc = "set", ![t].ws = e.ws], UNCHANGED map
        PROVE  HandleInv'
    <3>1. call' = [call EXCEPT ![t] = [call[t] EXCEPT !.pc = "set", !.ws = e.ws]]
      BY <2>6
    <3> QED BY <2>3, <2>4, <2>6, <3>1
  <2> QED BY <1>8, <2>5, <2>6 DEF Insert
<1>9. ASSUME NEW t \in Threads, Configure(t) PROVE HandleInv'
  <2> DEFINE h == call[t].handle
             c == [call[t] EXCEPT !.pc = "ready"]
  <2>1. call[t] \in HeldCalls /\ HeldCall(t) /\ call[t].pc = "set"
    BY <1>9, <1>0, CallShapes DEF Configure, CallsKept, HeldPcs
  <2>2. /\ my_handles[t][h.device] = h /\ lib[h].stream = call[t].stream /\ h \in Handles
        /\ call[t].ws \in Works \cup {None} /\ call[t].mode \in Modes
    BY <2>1 DEF HeldCall, HeldPcs, HeldCalls
  <2>3. /\ c \in HeldCalls /\ c.pc = "ready" /\ c.ws = call[t].ws /\ c.stream = call[t].stream
        /\ c.handle = h /\ c.mode = call[t].mode
    BY <2>1 DEF HeldCalls, HeldPcs
  <2>4. /\ call' = [call EXCEPT ![t] = c]
        /\ lib' = [lib EXCEPT ![h].ws = call[t].ws, ![h].mode = call[t].mode]
        /\ UNCHANGED <<created_handles, available_handles, my_handles, poolAlive, map, highWater>>
    BY <1>9 DEF Configure, SetWorkspace
  <2> HIDE DEF c
  <2>5. call' \in [Threads -> Calls] /\ call'[t] = c /\ \A u \in Threads \ {t} : call'[u] = call[u]
    BY <2>3, <2>4, <1>0 DEF HandleTypes, Calls
  <2>6. /\ lib' \in [Handles -> [stream : AllStreams \cup {None}, ws : Works \cup {None},
                                 mode : Modes \cup {None}]]
        /\ lib'[h].stream = lib[h].stream /\ lib'[h].ws = call[t].ws /\ lib'[h].mode = call[t].mode
        /\ \A g \in Handles \ {h} : lib'[g] = lib[g]
    BY <2>2, <2>4, <1>0 DEF HandleTypes
  <2>7. HandleTypes'
    BY <2>4, <2>5, <2>6, <1>0 DEF HandleTypes
  <2>8. ASSUME NEW u \in Threads PROVE HeldCall(u)'
    <3>1. CASE u = t
      BY <3>1, <2>2, <2>3, <2>4, <2>5, <2>6 DEF HeldCall
    <3>2. CASE u # t
      <4> SUFFICES ASSUME call[u].pc \in HeldPcs PROVE HeldCall(u)'
        BY <3>2, <2>5 DEF HeldCall
      <4>1. call[u] \in HeldCalls /\ HeldCall(u)
        BY <1>0, CallShapes DEF CallsKept
      <4>2. call[u].handle \in Handles /\ my_handles[u][call[u].handle.device] = call[u].handle
        BY <4>1 DEF HeldCall, HeldCalls
      <4>3. call[u].handle # h
        <5>1. h.device \in Devices /\ h # None
          BY <2>2 DEF Handles, HandlesAssumption
        <5> QED BY <5>1, <3>2, <4>2, <2>2, <1>0 DEF Exclusive
      <4> QED BY <3>2, <4>1, <4>2, <4>3, <2>4, <2>5, <2>6 DEF HeldCall
    <3> QED BY <3>1, <3>2
  <2>9. StreamOfWork'
    BY <1>0, <2>1, <2>3, <2>4, <2>5 DEF StreamOfWork
  <2> QED BY <2>4, <2>7, <2>8, <2>9, PoolUntouched DEF HandleInv, CallsKept
<1> QED
  BY <1>2, <1>3, <1>4, <1>5, <1>6, <1>7, <1>8, <1>9, WindowDestroyed, Reserved DEF Next, Steps

\* What the counts of HandlesExclusive say of the stack and of the threads.
LEMMA CountsFollow == HandlesAssumption /\ HandleInv => HandlesExclusive
<1> SUFFICES ASSUME HandlesAssumption, HandleInv, poolAlive, NEW d \in Devices
      PROVE  LET free == {available_handles[d][i] : i \in DOMAIN available_handles[d]}
                 held == {my_handles[t][d] : t \in Holders(my_handles, d)}
             IN /\ Cardinality(free) + Cardinality(Holders(my_handles, d))
                       = Cardinality(created_handles[d])
                /\ free \cup held = created_handles[d]
    BY DEF HandlesExclusive
<1> DEFINE free == {available_handles[d][i] : i \in DOMAIN available_handles[d]}
           held == {my_handles[t][d] : t \in Holders(my_handles, d)}
           C == created_handles[d]
<1>1. /\ free = Entries(available_handles[d]) /\ free \subseteq C /\ IsFiniteSet(C) /\ C \subseteq Handles
      /\ my_handles \in [Threads -> [Devices -> Handles \cup {None}]]
      /\ \A t \in Threads : my_handles[t][d] # None => my_handles[t][d] \in C \ free
      /\ \A t, u \in Threads :
             my_handles[t][d] = my_handles[u][d] /\ my_handles[t][d] # None => t = u
      /\ \A h \in C : h \notin free => \E t \in Threads : my_handles[t][d] = h
    BY DEF HandleInv, HandleTypes, Numbered, Exclusive, Entries
<1> HIDE DEF free
<1>2. held = C \ free
    BY <1>1 DEF Holders, HandlesAssumption
<1>3. IsFiniteSet(free) /\ IsFiniteSet(C \ free) /\ Cardinality(free) \in Nat
    BY <1>1, FS_Subset, FS_CardinalityType
<1>4. Cardinality(Holders(my_handles, d)) = Cardinality(C \ free)
    BY <1>1, <1>3, HoldersCounted
<1>5. Cardinality(C) = Cardinality(free) + Cardinality(C \ free)
    <2>1. C = free \cup (C \ free) /\ free \cap (C \ free) = {}
        BY <1>1
    <2>2. Cardinality(free \cup (C \ free))
            = Cardinality(free) + Cardinality(C \ free) - Cardinality(free \cap (C \ free))
        BY <1>3, FS_Union
    <2>3. Cardinality(C \ free) \in Nat /\ Cardinality({}) = 0
        BY <1>3, FS_EmptySet, FS_CardinalityType
    <2>4. Cardinality(C) = Cardinality(free) + Cardinality(C \ free) - 0
        BY <2>1, <2>2, <2>3
    <2> QED BY <1>3, <2>3, <2>4
<1>6. free \cup held = C
    BY <1>1, <1>2
<1> QED BY <1>4, <1>5, <1>6 DEF free

\* A handle is with one thread or in the pool and none is lost, no more handles are created
\* than threads held one at a time, an operation starts with the stream, workspace and mode it
\* asked for, and a workspace is used on its own stream only (DeviceThreadHandles.h,
\* getCurrentSuBlasHandle): for every number of threads and devices, and although the map of
\* workspaces is raced.
THEOREM HandlesCorrect ==
    HandlesAssumption => (Spec => [](/\ HandlesExclusive /\ CreatedIsHighWater
                                     /\ LaunchAsAsked /\ WorkspacesPerStream))
<1> SUFFICES ASSUME HandlesAssumption
             PROVE  Spec => [](/\ HandlesExclusive /\ CreatedIsHighWater
                               /\ LaunchAsAsked /\ WorkspacesPerStream)
    OBVIOUS
<1>1. Init => HandleInv
    BY HandleInvInit
<1>2. HandleInv /\ [Next]_vars => HandleInv'
    BY HandleInvNext
<1>3. HandleInv => /\ HandlesExclusive /\ CreatedIsHighWater /\ LaunchAsAsked /\ WorkspacesPerStream
    BY CountsFollow DEF HandleInv, CallsKept, HeldCall, HeldPcs, LaunchAsAsked, StreamOfWork,
                        WorkspacesPerStream
<1> QED BY <1>1, <1>2, <1>3, PTL DEF Spec
===============================================================================
