------------------------- MODULE CommunicatorCache -------------------------
(* The communicators of one process group in one process: how threads get   *)
(* and create them, how the segments of the caching allocator and of memory *)
(* pools are registered on them through bcclCommMemPoolMap and the hooks of *)
(* the allocator, and how they are aborted and destroyed meanwhile.         *)
(* Each lookup or update of a map is one step, also where the code takes no  *)
(* lock for it.                                                              *)
EXTENDS Integers, Sequences, FiniteSets, TLAPS

CONSTANTS
    Threads, Keys,      \* user threads; keys of devBCCLCommMap_
    Addrs, Pools,       \* addresses of segments; pools, 0 the default one
    RegisterAll,        \* TORCH_NCCL_USE_TENSOR_REGISTER_ALLOCATOR_HOOK
    NonBlocking,        \* mode of the communicators
    Ops,                \* what happens besides collectives
    MaxComm             \* bound: communicators created

CacheAssumption ==
    /\ Keys # {} /\ 0 \in Pools /\ RegisterAll \in BOOLEAN /\ NonBlocking \in BOOLEAN /\ MaxComm \in Nat
    /\ Ops \subseteq {"register", "deregister", "abort", "shutdown"}

VARIABLES
    comm,               \* BCCLComm objects
    dev, inInit,        \* devBCCLCommMap_, inInitializationCommMap_ (0: no entry)
    memPoolMap,         \* bcclCommMemPoolMap: communicator -> pools with their mode
    seg,                \* segments of the allocator: address -> pool
    thr,                \* per thread: what it does, for which key, pool and mode
    aborter,            \* the thread that aborts
    incidents           \* errors that happened

vars == <<comm, dev, inInit, memPoolMap, seg, thr, aborter, incidents>>
maps == <<dev, inInit, memPoolMap>>

DeviceKey == CHOOSE k \in Keys : TRUE
Idle == [pc |-> "idle", op |-> "none", key |-> DeviceKey, mine |-> 0,
         pool |-> 0, symm |-> FALSE, todo |-> {}]

Init ==
    /\ comm = <<>> /\ dev = [k \in Keys |-> 0] /\ inInit = [k \in Keys |-> 0]
    /\ memPoolMap = <<>> /\ seg = <<>> /\ thr = [t \in Threads |-> Idle]
    /\ aborter = [pc |-> "idle", c |-> 0] /\ incidents = {}

Incident(what, happened) == incidents' = IF happened THEN incidents \union {what} ELSE incidents
Goto(t, pc) == thr' = [thr EXCEPT ![t].pc = pc]
\* A call ends, normally or with an exception.
Leave(t) == thr' = [thr EXCEPT ![t] = Idle]
Without(f, x) == [y \in DOMAIN f \ {x} |-> f[y]]
With(f, x, v) == [y \in DOMAIN f \union {x} |-> IF y = x THEN v ELSE f[y]]

-----------------------------------------------------------------------------
\* BCCLComm
create == [aborted |-> FALSE, initialized |-> ~NonBlocking, null |-> FALSE,
           handles |-> <<>>]

\* What a communicator becomes; an aborted one throws and stays as it is.
registerSegment(c, a, window) ==
    IF a \in DOMAIN c.handles \/ c.aborted THEN c
    ELSE [c EXCEPT !.handles = With(@, a, window), !.initialized = TRUE]
registerThrows(c, a) == a \notin DOMAIN c.handles /\ c.aborted

deregisterSegment(c, a) ==
    IF a \notin DOMAIN c.handles \/ c.aborted THEN c
    ELSE [c EXCEPT !.handles = Without(@, a), !.initialized = TRUE]
deregisterThrows(c, a) == a \notin DOMAIN c.handles \/ c.aborted
WrongCall(c, a, window) == ~deregisterThrows(c, a) /\ c.handles[a] # window

\* Every handle is released with the call for plain ones.
abort(c) ==
    IF c.aborted /\ ~c.initialized THEN c
    ELSE [c EXCEPT !.aborted = TRUE, !.null = TRUE, !.handles = <<>>]
abortIncidents(cs) ==
    (IF \E c \in cs : comm[c].aborted /\ comm[c].initialized THEN {"abortedTwice"} ELSE {})
    \union (IF \E c \in cs : \E a \in DOMAIN comm[c].handles : comm[c].handles[a]
            THEN {"wrongCall"} ELSE {})

destroy(c) == [c EXCEPT !.aborted = TRUE]

-----------------------------------------------------------------------------
\* Where a thread goes when it has a communicator
AfterGet(op) == [collective |-> "got", register |-> "insert", deregister |-> "erase"][op]

getBCCLComm(t, k, op, p, s) ==
    /\ thr[t].pc = "idle" /\ op \in {"collective"} \union (Ops \intersect {"register", "deregister"})
    /\ thr' = [thr EXCEPT ![t] = [pc |-> IF dev[k] # 0 THEN AfterGet(op) ELSE "create", op |-> op,
                                  key |-> k, mine |-> dev[k], pool |-> p, symm |-> s, todo |-> {}]]
    /\ UNCHANGED <<comm, maps, seg, aborter, incidents>>

\* initBCCLComm: the id is exchanged and the communicator created
createComm(t) ==
    /\ thr[t].pc = "create" /\ Len(comm) < MaxComm
    /\ comm' = Append(comm, create)
    /\ thr' = [thr EXCEPT ![t].pc = "publish", ![t].mine = Len(comm) + 1]
    /\ UNCHANGED <<maps, seg, aborter, incidents>>

publishComm(t) ==
    /\ thr[t].pc = "publish" /\ Goto(t, "cache")
    /\ inInit' = [inInit EXCEPT ![thr[t].key] = IF @ = 0 THEN thr[t].mine ELSE @]
    /\ UNCHANGED <<comm, dev, memPoolMap, seg, aborter, incidents>>

\* Mutant: the entry of another thread is replaced.
cacheComm_Replace(t) ==
    LET k == thr[t].key
    IN /\ thr[t].pc = "cache"
       /\ IF inInit[k] # 0
          THEN /\ dev' = [dev EXCEPT ![k] = inInit[k]] /\ inInit' = [inInit EXCEPT ![k] = 0]
               /\ Goto(t, "snapshot")
          ELSE Goto(t, "return") /\ UNCHANGED <<dev, inInit>>
       /\ UNCHANGED <<comm, memPoolMap, seg, aborter, incidents>>

\* "A previous thread could've already" moved the entry.
cacheComm(t) ==
    LET k == thr[t].key
    IN /\ thr[t].pc = "cache"
       /\ IF inInit[k] # 0
          THEN /\ dev' = [dev EXCEPT ![k] = IF @ = 0 THEN inInit[k] ELSE @]
               /\ inInit' = [inInit EXCEPT ![k] = 0] /\ Goto(t, "snapshot")
          ELSE Goto(t, "return") /\ UNCHANGED <<dev, inInit>>
       /\ UNCHANGED <<comm, memPoolMap, seg, aborter, incidents>>

snapshotAll(t) ==
    /\ thr[t].pc = "snapshot"
    /\ thr' = [thr EXCEPT ![t].pc = "segments", ![t].todo = IF RegisterAll THEN DOMAIN seg ELSE {}]
    /\ UNCHANGED <<comm, maps, seg, aborter, incidents>>

\* registerSegment for each segment of the snapshot; here one that is registered
\* already is an error.
registerNext(t) ==
    /\ thr[t].pc = "segments" /\ thr[t].todo # {}
    /\ \E a \in thr[t].todo :
          LET c == thr[t].mine
          IN IF a \in DOMAIN comm[c].handles \/ comm[c].aborted
             THEN Leave(t) /\ UNCHANGED comm
             ELSE /\ comm' = [comm EXCEPT ![c] = registerSegment(@, a, FALSE)]
                  /\ thr' = [thr EXCEPT ![t].todo = @ \ {a}]
    /\ UNCHANGED <<maps, seg, aborter, incidents>>

mapComm(t) ==
    /\ thr[t].pc = "segments" /\ thr[t].todo = {} /\ Goto(t, "return")
    /\ memPoolMap' = IF thr[t].mine \in DOMAIN memPoolMap THEN memPoolMap
                      ELSE With(memPoolMap, thr[t].mine, {})
    /\ UNCHANGED <<comm, dev, inInit, seg, aborter, incidents>>

initReturn(t) ==
    /\ thr[t].pc = "return"
    /\ thr' = [thr EXCEPT ![t].mine = dev[thr[t].key], ![t].pc = AfterGet(thr[t].op)]
    /\ UNCHANGED <<comm, maps, seg, aborter, incidents>>

\* collective: the raw communicator is taken, then used without the lock
getBcclComm(t) ==
    /\ thr[t].pc = "got"
    /\ IF comm[thr[t].mine].aborted THEN Leave(t) /\ UNCHANGED comm
       ELSE Goto(t, "launch") /\ comm' = [comm EXCEPT ![thr[t].mine].initialized = TRUE]
    /\ UNCHANGED <<maps, seg, aborter, incidents>>

launch(t) ==
    /\ thr[t].pc = "launch" /\ Leave(t)
    /\ Incident("usedAborted", comm[thr[t].mine].aborted)
    /\ UNCHANGED <<comm, maps, seg, aborter>>

-----------------------------------------------------------------------------
\* registerMemPool: the pool is noted, then its segments are registered
insertPool(t) ==
    LET c == thr[t].mine
    IN /\ thr[t].pc = "insert" /\ Goto(t, "pool")
       /\ memPoolMap' = IF c \in DOMAIN memPoolMap
                        THEN [memPoolMap EXCEPT ![c] = @ \union {<<thr[t].pool, thr[t].symm>>}]
                        ELSE memPoolMap
       /\ Incident("noEntry", c \notin DOMAIN memPoolMap)
       /\ UNCHANGED <<comm, dev, inInit, seg, aborter>>

\* deregisterMemPool: an entry of the pool is removed; its mode is used below
erasePool(t) ==
    LET c == thr[t].mine
    IN /\ thr[t].pc = "erase"
       /\ IF c \in DOMAIN memPoolMap /\ \E e \in memPoolMap[c] : e[1] = thr[t].pool
          THEN \E e \in memPoolMap[c] :
                 /\ e[1] = thr[t].pool /\ memPoolMap' = [memPoolMap EXCEPT ![c] = @ \ {e}]
                 /\ thr' = [thr EXCEPT ![t].pc = "pool", ![t].symm = e[2]]
          ELSE Leave(t) /\ UNCHANGED memPoolMap
       /\ Incident("noEntry", c \notin DOMAIN memPoolMap)
       /\ UNCHANGED <<comm, dev, inInit, seg, aborter>>

snapshotPool(t) ==
    /\ thr[t].pc = "pool"
    /\ thr' = [thr EXCEPT ![t].pc = "poolSegments",
                          ![t].todo = {a \in DOMAIN seg : seg[a] = thr[t].pool}]
    /\ UNCHANGED <<comm, maps, seg, aborter, incidents>>

poolSegment(t) ==
    /\ thr[t].pc = "poolSegments" /\ thr[t].todo # {}
    /\ \E a \in thr[t].todo :
          LET c == thr[t].mine
              new == thr[t].op = "register"
              throws == IF new THEN registerThrows(comm[c], a) ELSE deregisterThrows(comm[c], a)
          IN /\ comm' = [comm EXCEPT ![c] = IF new THEN registerSegment(@, a, thr[t].symm)
                                            ELSE deregisterSegment(@, a)]
             /\ IF throws THEN Leave(t) ELSE thr' = [thr EXCEPT ![t].todo = @ \ {a}]
             /\ Incident("wrongCall", ~new /\ WrongCall(comm[c], a, thr[t].symm))
    /\ UNCHANGED <<maps, seg, aborter>>

poolDone(t) ==
    /\ thr[t].pc = "poolSegments" /\ thr[t].todo = {} /\ Leave(t)
    /\ UNCHANGED <<comm, maps, seg, aborter, incidents>>

-----------------------------------------------------------------------------
\* The hooks of the allocator run inside malloc and the release of a segment.
Mode(c, p) == <<p, TRUE>> \in memPoolMap[c]
Hooked == IF RegisterAll THEN DOMAIN memPoolMap ELSE {}

\* history: a segment comes or goes while a thread works through a snapshot.
Raced(a) ==
    IF \E t \in Threads : \/ thr[t].pc = "segments"
                          \/ thr[t].pc = "poolSegments" /\ a \in thr[t].todo
    THEN {"raced"} ELSE {}

cacheAllocatorRegisterHook(a, p) ==
    /\ comm' = [c \in DOMAIN comm |->
                  IF c \in Hooked THEN registerSegment(comm[c], a, Mode(c, p)) ELSE comm[c]]
    /\ incidents' = incidents \union Raced(a)
         \union (IF \E c \in Hooked : registerThrows(comm[c], a) THEN {"hookThrows"} ELSE {})

cacheAllocatorDeregisterHook(a) ==
    /\ comm' = [c \in DOMAIN comm |->
                  IF c \in Hooked THEN deregisterSegment(comm[c], a) ELSE comm[c]]
    /\ incidents' = incidents \union Raced(a)
         \union (IF \E c \in Hooked : deregisterThrows(comm[c], a) THEN {"hookThrows"} ELSE {})
         \union (IF \E c \in Hooked : WrongCall(comm[c], a, Mode(c, seg[a])) THEN {"wrongCall"} ELSE {})

segmentAlloc(t, a, p) ==
    /\ thr[t].pc = "idle" /\ a \notin DOMAIN seg /\ seg' = With(seg, a, p)
    /\ cacheAllocatorRegisterHook(a, p) /\ UNCHANGED <<maps, thr, aborter>>

segmentFree(t, a) ==
    /\ thr[t].pc = "idle" /\ a \in DOMAIN seg /\ seg' = Without(seg, a)
    /\ cacheAllocatorDeregisterHook(a) /\ UNCHANGED <<maps, thr, aborter>>

-----------------------------------------------------------------------------
\* The watchdog aborts the communicator of a work, then all of them.
workAbort(c) ==
    /\ "abort" \in Ops /\ aborter.pc = "idle" /\ c \in {dev[k] : k \in Keys} \ {0}
    /\ comm' = [comm EXCEPT ![c] = abort(@)] /\ incidents' = incidents \union abortIncidents({c})
    /\ aborter' = [pc |-> "eraseWork", c |-> c] /\ UNCHANGED <<maps, seg, thr>>

workErase ==
    /\ aborter.pc = "eraseWork" /\ memPoolMap' = Without(memPoolMap, aborter.c)
    /\ aborter' = [aborter EXCEPT !.pc = "comms"]
    /\ UNCHANGED <<comm, dev, inInit, seg, thr, incidents>>

\* abortComms, of the watchdog or of a user
eraseComms ==
    /\ aborter.pc = "comms" \/ ("abort" \in Ops /\ aborter.pc = "idle")
    /\ memPoolMap' = [c \in DOMAIN memPoolMap \ {dev[k] : k \in Keys} |-> memPoolMap[c]]
    /\ aborter' = [aborter EXCEPT !.pc = "abortAll"]
    /\ UNCHANGED <<comm, dev, inInit, seg, thr, incidents>>

abortComms ==
    LET all == ({dev[k] : k \in Keys} \union {inInit[k] : k \in Keys}) \ {0}
    IN /\ aborter.pc = "abortAll" /\ aborter' = [aborter EXCEPT !.pc = "done"]
       /\ comm' = [c \in DOMAIN comm |-> IF c \in all THEN abort(comm[c]) ELSE comm[c]]
       /\ incidents' = incidents \union abortIncidents(all)
       /\ UNCHANGED <<maps, seg, thr>>

shutdown(t) ==
    /\ "shutdown" \in Ops /\ thr[t].pc = "idle" /\ aborter.pc = "idle"
    /\ aborter' = [aborter EXCEPT !.pc = "done"]
    /\ comm' = [c \in DOMAIN comm |->
                  IF c \in {dev[k] : k \in Keys} THEN destroy(comm[c]) ELSE comm[c]]
    /\ UNCHANGED <<maps, seg, thr, incidents>>

Thread(t) ==
    \/ \E s \in BOOLEAN, p \in Pools : getBCCLComm(t, DeviceKey, "register", p, s)
    \/ \E p \in Pools : getBCCLComm(t, DeviceKey, "deregister", p, FALSE)
    \/ \E k \in Keys : getBCCLComm(t, k, "collective", 0, FALSE)
    \/ createComm(t) \/ publishComm(t) \/ cacheComm(t) \/ snapshotAll(t) \/ registerNext(t)
    \/ mapComm(t) \/ initReturn(t) \/ getBcclComm(t) \/ launch(t)
    \/ insertPool(t) \/ erasePool(t) \/ snapshotPool(t) \/ poolSegment(t) \/ poolDone(t)
    \/ \E a \in Addrs : segmentFree(t, a) \/ \E p \in Pools : segmentAlloc(t, a, p)
    \/ shutdown(t)

Next ==
    \/ \E t \in Threads : Thread(t)
    \/ \E c \in DOMAIN comm : workAbort(c)
    \/ workErase \/ eraseComms \/ abortComms

Spec == Init /\ [][Next]_vars

-----------------------------------------------------------------------------
\* Threads that look up the same key work with the same communicator, whichever
\* of them created it (initBCCLComm keeps the entry that is there).
SameCommunicator ==
    \A t \in Threads :
       thr[t].pc \in {"got", "launch", "insert", "erase", "pool", "poolSegments"}
          => thr[t].mine = dev[thr[t].key]

\* A communicator that was aborted holds no registration, in whatever order the
\* abort meets the registrations of other threads and of the hooks.
AbortedClean == \A c \in DOMAIN comm : comm[c].null => comm[c].handles = <<>>

\* "*ALL* segments will be registered with *ALL* NCCL communicators": between
\* calls each communicator of the map has exactly the segments there are.
AllRegistered ==
    (\A t \in Threads : thr[t].pc = "idle")
       => \A c \in DOMAIN memPoolMap : DOMAIN comm[c].handles = DOMAIN seg

\* What holds of it: so it is, whatever keys and pools threads create and register
\* at once, as long as no segment comes or goes between the snapshot of a thread
\* and the end of what it does with it, which no lock covers, and no pool is
\* registered on a communicator another thread has not entered in the map yet.
AllRegisteredUnlessRaced == incidents \intersect {"raced", "noEntry"} = {} => AllRegistered

\* The hooks never throw inside the allocator.
HookAccepted == "hookThrows" \notin incidents

\* "so that a new cache segment would not register to already aborted
\* communicators"
RegisteredUsable == \A c \in DOMAIN memPoolMap : ~comm[c].aborted

\* "so that we avoid using the communicator" once it is aborted
NoUseAfterAbort == "usedAborted" \notin incidents

\* "Should not abort twice."
AbortedOnce == "abortedTwice" \notin incidents

\* "then all its segments (current and future) will be registered": those of a
\* registered pool are, between calls.
PoolRegistered ==
    (\A t \in Threads : thr[t].pc = "idle")
       => \A c \in DOMAIN memPoolMap : \A e \in memPoolMap[c] : \A a \in DOMAIN seg :
             seg[a] = e[1] => a \in DOMAIN comm[c].handles

\* "whether they were registered with window APIs or not": a handle is released
\* with the call that matches its registration.
RightCall == "wrongCall" \notin incidents

-----------------------------------------------------------------------------
(* For every number of threads, keys, addresses and pools, and whatever else *)
(* the process does meanwhile: threads with the same key have the same       *)
(* communicator, and an aborted communicator holds no registration.          *)

Steps == {"idle", "create", "publish", "cache", "snapshot", "segments", "return",
          "got", "launch", "insert", "erase", "pool", "poolSegments"}
Holding == {"got", "launch", "insert", "erase", "pool", "poolSegments"}

\* An entry moves from inInit to dev and is never taken out of dev: a thread that
\* published one, or met one, finds an entry of its key when it returns.
Kept(c, new, cached) ==
    /\ c.pc = "publish" => c.mine # 0
    /\ c.pc = "cache" => new # 0 \/ cached # 0
    /\ c.pc \in {"snapshot", "segments", "return"} => cached # 0
    /\ c.pc \in Holding => c.mine = cached /\ cached # 0
EntryKept == \A t \in Threads : Kept(thr[t], inInit[thr[t].key], dev[thr[t].key])

Call == [pc : Steps, op : {"none", "collective", "register", "deregister"}, key : Keys,
         mine : Nat, pool : Pools, symm : BOOLEAN, todo : SUBSET Addrs]
Registrations == UNION {[S -> BOOLEAN] : S \in SUBSET Addrs}
Comm == [aborted : BOOLEAN, initialized : BOOLEAN, null : BOOLEAN,
         handles : Registrations]

CallTypes ==
    /\ thr \in [Threads -> Call]
    /\ \A t \in Threads : thr[t].pc # "idle" => thr[t].op # "none"
CacheTypes ==
    /\ comm \in Seq(Comm)
    /\ dev \in [Keys -> Nat] /\ inInit \in [Keys -> Nat]
    /\ CallTypes
    /\ DOMAIN seg \subseteq Addrs
    /\ \A c \in DOMAIN memPoolMap : memPoolMap[c] \subseteq Pools \X BOOLEAN

\* Only an aborted communicator is null, and it refuses every registration.
Clean(c) == c.null => c.aborted /\ c.handles = <<>>
CommsClean == \A c \in DOMAIN comm : Clean(comm[c])

CacheInv == CacheTypes /\ EntryKept /\ CommsClean

\* A thread that has looked up its communicator holds it.
LEMMA AfterGetHolds ==
    ASSUME NEW op \in {"collective", "register", "deregister"}
    PROVE  AfterGet(op) \in Holding /\ AfterGet(op) \in Steps /\ AfterGet(op) # "idle"
  BY DEF AfterGet, Holding, Steps

\* The handles of a communicator that was just created or aborted.
LEMMA NoHandles == <<>> \in Registrations
<1>1. <<>> \in [{} -> BOOLEAN]
    OBVIOUS
<1> QED BY <1>1 DEF Registrations

\* What happens to one communicator keeps its type and keeps it clean.
LEMMA CreateClean ==
    ASSUME CacheAssumption
    PROVE  create \in Comm /\ Clean(create)
  BY NoHandles DEF create, Comm, Clean, CacheAssumption

\* A registration keeps a communicator typed and clean: an aborted one refuses it.
LEMMA RegisterClean ==
    ASSUME NEW c \in Comm, Clean(c), NEW a \in Addrs, NEW w \in BOOLEAN
    PROVE  registerSegment(c, a, w) \in Comm /\ Clean(registerSegment(c, a, w))
<1> DEFINE h == With(c.handles, a, w)
<1>1. PICK S \in SUBSET Addrs : c.handles \in [S -> BOOLEAN]
  <2>1. c.handles \in Registrations
    BY DEF Comm
  <2> QED BY <2>1 DEF Registrations
<1>2. h \in [S \cup {a} -> BOOLEAN]
    BY <1>1 DEF With
<1>3. h \in Registrations
    BY <1>2 DEF Registrations
<1> HIDE DEF h
<1>4. [c EXCEPT !.handles = h, !.initialized = TRUE] \in Comm
    BY <1>3 DEF Comm
<1>5. ~c.aborted => Clean([c EXCEPT !.handles = h, !.initialized = TRUE])
    BY <1>3 DEF Comm, Clean
<1> QED BY <1>4, <1>5 DEF registerSegment, h

\* So does a deregistration.
LEMMA DeregisterClean ==
    ASSUME NEW c \in Comm, Clean(c), NEW a
    PROVE  deregisterSegment(c, a) \in Comm /\ Clean(deregisterSegment(c, a))
<1> DEFINE h == Without(c.handles, a)
<1>1. PICK S \in SUBSET Addrs : c.handles \in [S -> BOOLEAN]
  <2>1. c.handles \in Registrations
    BY DEF Comm
  <2> QED BY <2>1 DEF Registrations
<1>2. h \in [S \ {a} -> BOOLEAN]
    BY <1>1 DEF Without
<1>3. h \in Registrations
    BY <1>2 DEF Registrations
<1> HIDE DEF h
<1>4. [c EXCEPT !.handles = h, !.initialized = TRUE] \in Comm
    BY <1>3 DEF Comm
<1>5. ~c.aborted => Clean([c EXCEPT !.handles = h, !.initialized = TRUE])
    BY <1>3 DEF Comm, Clean
<1> QED BY <1>4, <1>5 DEF deregisterSegment, h

\* So does an abort, which drops every handle of the communicator.
LEMMA AbortClean ==
    ASSUME NEW c \in Comm, Clean(c)
    PROVE  /\ abort(c) \in Comm /\ Clean(abort(c))
           /\ destroy(c) \in Comm /\ Clean(destroy(c))
  BY NoHandles DEF abort, destroy, Comm, Clean

\* So does every other use of a communicator, which only initializes it.
LEMMA UseClean ==
    ASSUME NEW c \in Comm, Clean(c)
    PROVE  [c EXCEPT !.initialized = TRUE] \in Comm /\ Clean([c EXCEPT !.initialized = TRUE])
  BY DEF Comm, Clean

\* All communicators may change, or one of them.
LEMMA AllChange ==
    ASSUME comm \in Seq(Comm), comm' = [c \in DOMAIN comm |-> comm'[c]],
           \A c \in DOMAIN comm : comm'[c] \in Comm /\ Clean(comm'[c])
    PROVE  comm' \in Seq(Comm) /\ CommsClean'
<1>1. DOMAIN comm = 1 .. Len(comm) /\ Len(comm) \in Nat
    OBVIOUS
<1>2. comm' \in [1 .. Len(comm) -> Comm]
    BY <1>1
<1>3. comm' \in Seq(Comm)
    BY <1>1, <1>2
<1> QED BY <1>3, <1>2, <1>1 DEF CommsClean

\* If one communicator changes and stays typed and clean, all of them are.
LEMMA OneChanges ==
    ASSUME comm \in Seq(Comm), CommsClean, NEW c, NEW v,
           c \in DOMAIN comm => v \in Comm /\ Clean(v),
           comm' = [comm EXCEPT ![c] = v]
    PROVE  comm' \in Seq(Comm) /\ CommsClean'
<1>1. comm' = [d \in DOMAIN comm |-> comm'[d]]
    OBVIOUS
<1>2. \A d \in DOMAIN comm : comm[d] \in Comm
    OBVIOUS
<1>3. \A d \in DOMAIN comm : comm'[d] = IF d = c THEN v ELSE comm[d]
    OBVIOUS
<1>4. \A d \in DOMAIN comm : comm'[d] \in Comm /\ Clean(comm'[d])
    BY <1>2, <1>3 DEF CommsClean
<1> QED BY <1>1, <1>4, AllChange

\* The invariant holds when the process group is created.
LEMMA CacheInvInit == CacheAssumption /\ Init => CacheInv
<1> SUFFICES ASSUME CacheAssumption, Init PROVE CacheInv
    OBVIOUS
<1>1. DeviceKey \in Keys
    BY DEF DeviceKey, CacheAssumption
<1>2. CacheTypes
    BY <1>1 DEF Init, CacheAssumption, CacheTypes, CallTypes, Idle, Call, Steps
<1>3. EntryKept
    BY <1>1 DEF Init, EntryKept, Kept, Idle, Holding
<1>4. CommsClean
    BY DEF Init, CommsClean
<1> QED BY <1>2, <1>3, <1>4 DEF CacheInv

\* An entry of dev stays, and one of inInit goes only to dev.
Grows ==
    \A k \in Keys : /\ dev[k] # 0 => dev'[k] = dev[k]
                    /\ inInit[k] # 0 => inInit'[k] # 0 \/ dev'[k] # 0

\* The step of one thread, from what it becomes.
LEMMA ThreadMoves ==
    ASSUME CallTypes, EntryKept, Grows, NEW t \in Threads, NEW c \in Call,
           c.pc # "idle" => c.op # "none", Kept(c, inInit'[c.key], dev'[c.key]),
           thr' = [thr EXCEPT ![t] = c]
    PROVE  CallTypes' /\ EntryKept'
<1>1. thr' \in [Threads -> Call] /\ thr'[t] = c /\ \A u \in Threads \ {t} : thr'[u] = thr[u]
    BY DEF CallTypes
<1>2. CallTypes'
    BY <1>1 DEF CallTypes
<1>3. ASSUME NEW u \in Threads PROVE Kept(thr[u], inInit[thr[u].key], dev[thr[u].key])'
  <2>1. CASE u = t
    BY <2>1, <1>1
  <2>2. CASE u # t
    <3>1. thr[u].key \in Keys /\ thr'[u] = thr[u] /\ Kept(thr[u], inInit[thr[u].key], dev[thr[u].key])
      BY <2>2, <1>1 DEF CallTypes, Call, EntryKept
    <3> QED BY <3>1 DEF Kept, Grows
  <2> QED BY <2>1, <2>2
<1> QED BY <1>2, <1>3 DEF EntryKept

\* A thread that returns from its call keeps nothing.
LEMMA ThreadLeaves ==
    ASSUME CacheAssumption, CacheInv, NEW t \in Threads, Leave(t), UNCHANGED <<dev, inInit>>
    PROVE  CallTypes' /\ EntryKept'
<1>1. DeviceKey \in Keys
    BY DEF DeviceKey, CacheAssumption
<1>2. Idle \in Call /\ Idle.pc = "idle"
    BY <1>1 DEF Idle, Call, Steps, CacheAssumption
<1>3. Kept(Idle, inInit'[Idle.key], dev'[Idle.key])
    BY <1>2 DEF Kept, Holding
<1>4. Grows
    BY DEF Grows
<1> QED BY <1>2, <1>3, <1>4, ThreadMoves DEF Leave, CacheInv, CacheTypes

\* A thread goes on with its call.
LEMMA ThreadGoes ==
    ASSUME CacheInv, NEW t \in Threads, NEW pc \in Steps, thr[t].pc # "idle",
           Goto(t, pc), Grows, Kept([thr[t] EXCEPT !.pc = pc], inInit'[thr[t].key], dev'[thr[t].key])
    PROVE  CallTypes' /\ EntryKept'
<1>1. thr[t] \in Call /\ thr[t].op # "none"
    BY DEF CacheInv, CacheTypes, CallTypes
<1> DEFINE c == [thr[t] EXCEPT !.pc = pc]
<1>2. c \in Call /\ c.op = thr[t].op /\ c.key = thr[t].key
    BY <1>1 DEF Call
<1>3. thr' = [thr EXCEPT ![t] = c]
    BY DEF Goto
<1>4. Kept(c, inInit'[thr[t].key], dev'[thr[t].key])
    OBVIOUS
<1> HIDE DEF c
<1> QED BY <1>1, <1>2, <1>3, <1>4, ThreadMoves DEF CacheInv, CacheTypes

\* The call of a thread that moved to another step, with communicator m.
At(c, pc, m) == [c EXCEPT !.pc = pc, !.mine = m]

\* It is a call, of the same operation and key.
LEMMA CallAt ==
    ASSUME NEW c \in Call, NEW pc \in Steps, NEW m \in Nat
    PROVE  /\ At(c, pc, m) \in Call /\ At(c, pc, m).pc = pc /\ At(c, pc, m).mine = m
           /\ At(c, pc, m).op = c.op /\ At(c, pc, m).key = c.key
  BY DEF Call, At

\* Every step of every thread keeps the invariant.
LEMMA CacheInvNext ==
    ASSUME CacheAssumption, CacheInv, [Next]_vars
    PROVE  CacheInv'
<1> USE CacheAssumption
<1>0. /\ comm \in Seq(Comm) /\ CommsClean /\ CallTypes /\ EntryKept
      /\ dev \in [Keys -> Nat] /\ inInit \in [Keys -> Nat]
      /\ DOMAIN seg \subseteq Addrs
      /\ \A c \in DOMAIN memPoolMap : memPoolMap[c] \subseteq Pools \X BOOLEAN
      /\ \A c \in DOMAIN comm : comm[c] \in Comm /\ Clean(comm[c])
    BY DEF CacheInv, CacheTypes, CommsClean
<1>1. ASSUME UNCHANGED vars PROVE CacheInv'
    BY <1>1 DEF vars, CacheInv, CacheTypes, CallTypes, EntryKept, Kept, CommsClean
<1>2. ASSUME NEW t \in Threads, NEW k \in Keys, NEW op, NEW p \in Pools, NEW s \in BOOLEAN,
             getBCCLComm(t, k, op, p, s)
      PROVE  CacheInv'
  <2> DEFINE c == [pc |-> IF dev[k] # 0 THEN AfterGet(op) ELSE "create", op |-> op, key |-> k,
                   mine |-> dev[k], pool |-> p, symm |-> s, todo |-> {}]
  <2>1. op \in {"collective", "register", "deregister"} /\ thr' = [thr EXCEPT ![t] = c]
    BY <1>2 DEF getBCCLComm
  <2>3. c \in Call /\ c.pc # "idle" /\ c.op # "none"
    BY <2>1, <1>0, AfterGetHolds DEF Call, Steps
  <2>4. Kept(c, inInit'[c.key], dev'[c.key]) /\ Grows
    BY <2>1, <1>0, <1>2, AfterGetHolds DEF Kept, Grows, getBCCLComm, maps, Holding
  <2> HIDE DEF c
  <2>5. CallTypes' /\ EntryKept'
    BY <2>1, <2>3, <2>4, <1>0, ThreadMoves
  <2> QED BY <2>5, <1>0, <1>2 DEF getBCCLComm, maps, CacheInv, CacheTypes, CommsClean
<1>3. ASSUME NEW t \in Threads, createComm(t) PROVE CacheInv'
  <2> DEFINE c == At(thr[t], "publish", Len(comm) + 1)
  <2>1. thr[t] \in Call /\ thr[t].op # "none" /\ Len(comm) \in Nat
    BY <1>0, <1>3 DEF CallTypes, createComm
  <2>2. c \in Call /\ c.pc = "publish" /\ c.op = thr[t].op /\ c.mine # 0
    <3>1. Len(comm) + 1 \in Nat /\ Len(comm) + 1 # 0 /\ "publish" \in Steps
      BY <2>1 DEF Steps
    <3> QED BY <3>1, <2>1, CallAt
  <2>3. Kept(c, inInit'[c.key], dev'[c.key]) /\ Grows
    BY <1>3, <2>2 DEF Kept, Grows, createComm, maps, Holding
  <2>4. thr' = [thr EXCEPT ![t] = c]
    BY <1>3 DEF createComm, At
  <2> HIDE DEF c
  <2>5. CallTypes' /\ EntryKept'
    BY <2>1, <2>2, <2>3, <2>4, <1>0, ThreadMoves
  <2>6. comm' = Append(comm, create) /\ create \in Comm /\ Clean(create)
    BY <1>3, CreateClean DEF createComm
  <2>7. comm' \in Seq(Comm) /\ CommsClean'
    BY <2>6, <1>0 DEF CommsClean
  <2> QED BY <2>5, <2>7, <1>0, <1>3 DEF createComm, maps, CacheInv, CacheTypes
<1>4. ASSUME NEW t \in Threads, publishComm(t) PROVE CacheInv'
  <2>1. thr[t] \in Call /\ thr[t].mine # 0 /\ thr[t].mine \in Nat /\ thr[t].key \in Keys
    BY <1>0, <1>4 DEF CallTypes, Call, EntryKept, Kept, publishComm
  <2>2. /\ inInit' \in [Keys -> Nat] /\ inInit'[thr[t].key] # 0 /\ Grows
    BY <2>1, <1>0, <1>4 DEF Grows, publishComm
  <2>3. Kept([thr[t] EXCEPT !.pc = "cache"], inInit'[thr[t].key], dev'[thr[t].key])
    BY <2>1, <2>2 DEF Kept, Call, Holding
  <2>4. CallTypes' /\ EntryKept'
    BY <1>4, <2>2, <2>3, ThreadGoes DEF publishComm, Steps
  <2> QED BY <2>2, <2>4, <1>0, <1>4 DEF publishComm, CacheInv, CacheTypes, CommsClean
<1>5. ASSUME NEW t \in Threads, cacheComm(t) PROVE CacheInv'
  <2>1. /\ thr[t] \in Call /\ thr[t].key \in Keys
        /\ inInit[thr[t].key] # 0 \/ dev[thr[t].key] # 0
    BY <1>0, <1>5 DEF CallTypes, Call, EntryKept, Kept, cacheComm
  <2>2. /\ dev' \in [Keys -> Nat] /\ inInit' \in [Keys -> Nat] /\ Grows
        /\ dev'[thr[t].key] # 0
    <3> DEFINE k == thr[t].key
    <3>1. CASE inInit[k] # 0
      <4>1. /\ dev' = [dev EXCEPT ![k] = IF dev[k] = 0 THEN inInit[k] ELSE dev[k]]
            /\ inInit' = [inInit EXCEPT ![k] = 0]
        BY <1>5, <3>1 DEF cacheComm
      <4> QED BY <4>1, <3>1, <2>1, <1>0 DEF Grows
    <3>2. CASE inInit[k] = 0
      <4>1. UNCHANGED <<dev, inInit>>
        BY <1>5, <3>2 DEF cacheComm
      <4> QED BY <4>1, <3>2, <2>1, <1>0 DEF Grows
    <3> QED BY <3>1, <3>2
  <2>3. ASSUME NEW pc \in {"snapshot", "return"}
        PROVE  Kept([thr[t] EXCEPT !.pc = pc], inInit'[thr[t].key], dev'[thr[t].key])
    BY <2>1, <2>2 DEF Kept, Call, Holding
  <2>4. CallTypes' /\ EntryKept'
    BY <1>5, <2>2, <2>3, ThreadGoes DEF cacheComm, Steps
  <2> QED BY <2>2, <2>4, <1>0, <1>5 DEF cacheComm, CacheInv, CacheTypes, CommsClean
<1>6. ASSUME NEW t \in Threads, snapshotAll(t) PROVE CacheInv'
  <2> DEFINE c == [thr[t] EXCEPT !.pc = "segments", !.todo = IF RegisterAll THEN DOMAIN seg ELSE {}]
  <2>1. thr[t] \in Call /\ thr[t].op # "none" /\ dev[thr[t].key] # 0
    BY <1>0, <1>6 DEF CallTypes, snapshotAll, EntryKept, Kept
  <2>2. c \in Call /\ c.pc = "segments" /\ c.op = thr[t].op /\ c.key = thr[t].key
    BY <2>1, <1>0 DEF Call, Steps
  <2>3. Kept(c, inInit'[c.key], dev'[c.key]) /\ Grows
    BY <1>6, <2>1, <2>2 DEF Kept, Grows, snapshotAll, maps, Holding
  <2>4. thr' = [thr EXCEPT ![t] = c]
    BY <1>6 DEF snapshotAll
  <2> HIDE DEF c
  <2>5. CallTypes' /\ EntryKept'
    BY <2>1, <2>2, <2>3, <2>4, <1>0, ThreadMoves
  <2> QED BY <2>5, <1>0, <1>6 DEF snapshotAll, maps, CacheInv, CacheTypes, CommsClean
<1>7. ASSUME NEW t \in Threads, registerNext(t) PROVE CacheInv'
  <2>1. thr[t] \in Call /\ thr[t].op # "none" /\ dev[thr[t].key] # 0 /\ Grows
    BY <1>0, <1>7 DEF CallTypes, registerNext, maps, EntryKept, Kept, Grows
  <2>2. PICK a \in thr[t].todo :
          LET c == thr[t].mine
          IN IF a \in DOMAIN comm[c].handles \/ comm[c].aborted
             THEN Leave(t) /\ UNCHANGED comm
             ELSE /\ comm' = [comm EXCEPT ![c] = registerSegment(@, a, FALSE)]
                  /\ thr' = [thr EXCEPT ![t].todo = @ \ {a}]
    BY <1>7 DEF registerNext
  <2>3. a \in Addrs
    BY <2>1, <2>2 DEF Call
  <2>4. CASE Leave(t) /\ UNCHANGED comm
    <3>1. CallTypes' /\ EntryKept'
      BY <2>4, <1>7, ThreadLeaves DEF registerNext, maps
    <3> QED BY <3>1, <2>4, <1>0, <1>7 DEF registerNext, maps, CacheInv, CacheTypes, CommsClean
  <2>5. CASE /\ comm' = [comm EXCEPT ![thr[t].mine] = registerSegment(@, a, FALSE)]
             /\ thr' = [thr EXCEPT ![t].todo = @ \ {a}]
    <3> DEFINE v == registerSegment(comm[thr[t].mine], a, FALSE)
               c == [thr[t] EXCEPT !.todo = @ \ {a}]
    <3>1. thr[t].mine \in DOMAIN comm => v \in Comm /\ Clean(v)
      BY <2>3, <1>0, RegisterClean
    <3>2. comm' = [comm EXCEPT ![thr[t].mine] = v] /\ thr' = [thr EXCEPT ![t] = c]
      BY <2>5
    <3>3. c \in Call /\ c.pc = thr[t].pc /\ c.op = thr[t].op /\ c.key = thr[t].key
      BY <2>1 DEF Call
    <3>4. Kept(c, inInit'[c.key], dev'[c.key])
      BY <1>7, <2>1, <3>3 DEF Kept, registerNext, maps, Holding
    <3> HIDE DEF v, c
    <3>5. comm' \in Seq(Comm) /\ CommsClean'
      BY <3>1, <3>2, <1>0, OneChanges
    <3>6. CallTypes' /\ EntryKept'
      BY <2>1, <3>2, <3>3, <3>4, <1>0, ThreadMoves
    <3> QED BY <3>5, <3>6, <1>0, <1>7 DEF registerNext, maps, CacheInv, CacheTypes
  <2> QED BY <2>2, <2>4, <2>5
<1>8. ASSUME NEW t \in Threads, mapComm(t) PROVE CacheInv'
  <2>1. thr[t] \in Call /\ dev[thr[t].key] # 0 /\ Grows
    BY <1>0, <1>8 DEF CallTypes, mapComm, EntryKept, Kept, Grows
  <2>2. Kept([thr[t] EXCEPT !.pc = "return"], inInit'[thr[t].key], dev'[thr[t].key])
    BY <1>8, <2>1 DEF Kept, Call, Holding, mapComm
  <2>3. CallTypes' /\ EntryKept'
    BY <1>8, <2>1, <2>2, ThreadGoes DEF mapComm, Steps
  <2>4. \A c \in DOMAIN memPoolMap' : memPoolMap'[c] \subseteq Pools \X BOOLEAN
    BY <1>0, <1>8 DEF mapComm, With
  <2> QED BY <2>3, <2>4, <1>0, <1>8 DEF mapComm, CacheInv, CacheTypes, CommsClean
<1>9. ASSUME NEW t \in Threads, initReturn(t) PROVE CacheInv'
  <2> DEFINE k == thr[t].key
             pc == AfterGet(thr[t].op)
             c == At(thr[t], pc, dev[k])
  <2>1. /\ thr[t] \in Call /\ k \in Keys /\ dev[k] # 0 /\ dev[k] \in Nat
        /\ thr[t].op \in {"collective", "register", "deregister"}
    BY <1>0, <1>9 DEF CallTypes, Call, initReturn, EntryKept, Kept
  <2>2. pc \in Holding /\ pc \in Steps
    BY <2>1, AfterGetHolds
  <2>3. c \in Call /\ c.pc = pc /\ c.mine = dev[k] /\ c.op = thr[t].op /\ c.key = k
    BY <2>1, <2>2, CallAt
  <2>4. Kept(c, inInit'[c.key], dev'[c.key]) /\ Grows
    BY <1>9, <2>1, <2>2, <2>3 DEF Kept, Grows, initReturn, maps, Holding
  <2>5. thr' = [thr EXCEPT ![t] = c]
    BY <1>9 DEF initReturn, At
  <2>6. CallTypes' /\ EntryKept'
    <3> HIDE DEF c
    <3> QED BY <2>1, <2>3, <2>4, <2>5, <1>0, ThreadMoves
  <2> QED BY <2>6, <1>0, <1>9 DEF initReturn, maps, CacheInv, CacheTypes, CommsClean
<1>10. ASSUME NEW t \in Threads, getBcclComm(t) PROVE CacheInv'
  <2> DEFINE m == thr[t].mine
             v == [comm[m] EXCEPT !.initialized = TRUE]
  <2>1. thr[t] \in Call /\ m = dev[thr[t].key] /\ dev[thr[t].key] # 0 /\ Grows
    BY <1>0, <1>10 DEF CallTypes, getBcclComm, maps, EntryKept, Kept, Holding, Grows
  <2>2. CASE Leave(t) /\ UNCHANGED comm
    <3>1. CallTypes' /\ EntryKept'
      BY <2>2, <1>10, ThreadLeaves DEF getBcclComm, maps
    <3> QED BY <3>1, <2>2, <1>0, <1>10 DEF getBcclComm, maps, CacheInv, CacheTypes, CommsClean
  <2>3. CASE Goto(t, "launch") /\ comm' = [comm EXCEPT ![m] = v]
    <3>1. Kept([thr[t] EXCEPT !.pc = "launch"], inInit'[thr[t].key], dev'[thr[t].key])
      BY <1>10, <2>1 DEF Kept, Call, Holding, getBcclComm, maps
    <3>2. CallTypes' /\ EntryKept'
      BY <1>10, <2>1, <2>3, <3>1, ThreadGoes DEF getBcclComm, Steps
    <3>3. m \in DOMAIN comm => v \in Comm /\ Clean(v)
      BY <1>0, UseClean
    <3> HIDE DEF v
    <3>4. comm' \in Seq(Comm) /\ CommsClean'
      BY <2>3, <3>3, <1>0, OneChanges
    <3> QED BY <3>2, <3>4, <1>0, <1>10 DEF getBcclComm, maps, CacheInv, CacheTypes
  <2> QED BY <1>10, <2>2, <2>3 DEF getBcclComm
<1>11. ASSUME NEW t \in Threads, launch(t) PROVE CacheInv'
  <2>1. CallTypes' /\ EntryKept'
    BY <1>11, ThreadLeaves DEF launch, maps
  <2> QED BY <2>1, <1>0, <1>11 DEF launch, maps, CacheInv, CacheTypes, CommsClean
<1>12. ASSUME NEW t \in Threads, insertPool(t) PROVE CacheInv'
  <2>1. /\ thr[t] \in Call /\ thr[t].mine = dev[thr[t].key] /\ dev[thr[t].key] # 0 /\ Grows
        /\ <<thr[t].pool, thr[t].symm>> \in Pools \X BOOLEAN
    BY <1>0, <1>12 DEF CallTypes, Call, insertPool, EntryKept, Kept, Holding, Grows
  <2>2. Kept([thr[t] EXCEPT !.pc = "pool"], inInit'[thr[t].key], dev'[thr[t].key])
    BY <1>12, <2>1 DEF Kept, Call, Holding, insertPool
  <2>3. CallTypes' /\ EntryKept'
    BY <1>12, <2>1, <2>2, ThreadGoes DEF insertPool, Steps
  <2>4. \A c \in DOMAIN memPoolMap' : memPoolMap'[c] \subseteq Pools \X BOOLEAN
    <3> DEFINE e == <<thr[t].pool, thr[t].symm>>
               m == thr[t].mine
    <3>1. memPoolMap' = IF m \in DOMAIN memPoolMap
                        THEN [memPoolMap EXCEPT ![m] = @ \union {e}] ELSE memPoolMap
      BY <1>12 DEF insertPool
    <3>2. e \in Pools \X BOOLEAN
      BY <2>1
    <3> HIDE DEF e, m
    <3> QED BY <3>1, <3>2, <1>0
  <2> QED BY <2>3, <2>4, <1>0, <1>12 DEF insertPool, CacheInv, CacheTypes, CommsClean
<1>13. ASSUME NEW t \in Threads, erasePool(t) PROVE CacheInv'
  <2> DEFINE m == thr[t].mine
  <2>1. /\ thr[t] \in Call /\ thr[t].op # "none" /\ thr[t].key \in Keys
        /\ m = dev[thr[t].key] /\ dev[thr[t].key] # 0 /\ Grows
    BY <1>0, <1>13 DEF CallTypes, Call, erasePool, EntryKept, Kept, Holding, Grows
  <2>2. CASE Leave(t) /\ UNCHANGED memPoolMap
    <3>1. CallTypes' /\ EntryKept'
      BY <2>2, <1>13, ThreadLeaves DEF erasePool
    <3> QED BY <3>1, <2>2, <1>0, <1>13 DEF erasePool, CacheInv, CacheTypes, CommsClean
  <2>3. ASSUME m \in DOMAIN memPoolMap, NEW e \in memPoolMap[m],
               memPoolMap' = [memPoolMap EXCEPT ![m] = @ \ {e}],
               thr' = [thr EXCEPT ![t].pc = "pool", ![t].symm = e[2]]
        PROVE  CacheInv'
    <3> DEFINE c == [thr[t] EXCEPT !.pc = "pool", !.symm = e[2]]
    <3>1. e[2] \in BOOLEAN
      BY <2>3, <1>0
    <3>2. c \in Call /\ c.pc = "pool" /\ c.op = thr[t].op /\ c.key = thr[t].key /\ c.mine = m
      BY <2>1, <3>1 DEF Call, Steps
    <3>3. Kept(c, inInit'[c.key], dev'[c.key])
      BY <1>13, <2>1, <3>2 DEF Kept, erasePool, Holding
    <3>4. thr' = [thr EXCEPT ![t] = c]
      BY <2>3
    <3> HIDE DEF c
    <3>5. CallTypes' /\ EntryKept'
      BY <2>1, <3>2, <3>3, <3>4, <1>0, ThreadMoves
    <3>6. \A d \in DOMAIN memPoolMap' : memPoolMap'[d] \subseteq Pools \X BOOLEAN
      BY <2>3, <1>0
    <3> QED BY <3>5, <3>6, <1>0, <1>13 DEF erasePool, CacheInv, CacheTypes, CommsClean
  <2> QED BY <1>13, <2>2, <2>3 DEF erasePool
<1>14. ASSUME NEW t \in Threads, snapshotPool(t) PROVE CacheInv'
  <2> DEFINE S == {a \in DOMAIN seg : seg[a] = thr[t].pool}
             c == [thr[t] EXCEPT !.pc = "poolSegments", !.todo = S]
  <2>1. /\ thr[t] \in Call /\ thr[t].op # "none" /\ S \in SUBSET Addrs
        /\ thr[t].mine = dev[thr[t].key] /\ dev[thr[t].key] # 0
    BY <1>0, <1>14 DEF CallTypes, snapshotPool, EntryKept, Kept, Holding
  <2>4. thr' = [thr EXCEPT ![t] = c]
    BY <1>14 DEF snapshotPool
  <2> HIDE DEF S
  <2>2. c \in Call /\ c.pc = "poolSegments" /\ c.op = thr[t].op /\ c.key = thr[t].key
        /\ c.mine = thr[t].mine
    BY <2>1 DEF Call, Steps
  <2>3. Kept(c, inInit'[c.key], dev'[c.key]) /\ Grows
    BY <1>14, <2>1, <2>2 DEF Kept, Grows, snapshotPool, maps, Holding
  <2> HIDE DEF c
  <2>5. CallTypes' /\ EntryKept'
    BY <2>1, <2>2, <2>3, <2>4, <1>0, ThreadMoves
  <2> QED BY <2>5, <1>0, <1>14 DEF snapshotPool, maps, CacheInv, CacheTypes, CommsClean
<1>15. ASSUME NEW t \in Threads, poolSegment(t) PROVE CacheInv'
  <2> DEFINE m == thr[t].mine
  <2>1. /\ thr[t] \in Call /\ thr[t].op # "none" /\ thr[t].symm \in BOOLEAN
        /\ m = dev[thr[t].key] /\ dev[thr[t].key] # 0 /\ Grows /\ UNCHANGED <<dev, inInit>>
    BY <1>0, <1>15 DEF CallTypes, Call, poolSegment, EntryKept, Kept, Holding, maps, Grows
  <2>2. PICK a \in thr[t].todo :
          /\ comm' = [comm EXCEPT ![m] = IF thr[t].op = "register"
                                         THEN registerSegment(@, a, thr[t].symm)
                                         ELSE deregisterSegment(@, a)]
          /\ Leave(t) \/ thr' = [thr EXCEPT ![t].todo = @ \ {a}]
    BY <1>15 DEF poolSegment
  <2> DEFINE v == IF thr[t].op = "register" THEN registerSegment(comm[m], a, thr[t].symm)
                  ELSE deregisterSegment(comm[m], a)
             c == [thr[t] EXCEPT !.todo = @ \ {a}]
  <2>3. m \in DOMAIN comm => v \in Comm /\ Clean(v)
    <3>1. a \in Addrs
      BY <2>1, <2>2 DEF Call
    <3> QED BY <2>1, <3>1, <1>0, RegisterClean, DeregisterClean
  <2>4. comm' = [comm EXCEPT ![m] = v]
    BY <2>2
  <2>5. comm' \in Seq(Comm) /\ CommsClean'
    <3> HIDE DEF v
    <3> QED BY <2>3, <2>4, <1>0, OneChanges
  <2>6. CallTypes' /\ EntryKept'
    <3>1. CASE Leave(t)
      BY <3>1, <2>1, ThreadLeaves
    <3>2. CASE thr' = [thr EXCEPT ![t].todo = @ \ {a}]
      <4>1. c \in Call /\ c.pc = thr[t].pc /\ c.op = thr[t].op /\ c.key = thr[t].key /\ c.mine = m
        BY <2>1 DEF Call
      <4>2. Kept(c, inInit'[c.key], dev'[c.key])
        BY <1>15, <2>1, <4>1 DEF Kept, Holding, poolSegment
      <4>3. thr' = [thr EXCEPT ![t] = c]
        BY <3>2
      <4> HIDE DEF c
      <4> QED BY <2>1, <4>1, <4>2, <4>3, <1>0, ThreadMoves
    <3> QED BY <2>2, <3>1, <3>2
  <2> QED BY <2>5, <2>6, <1>0, <1>15 DEF poolSegment, maps, CacheInv, CacheTypes
<1>16. ASSUME NEW t \in Threads, poolDone(t) PROVE CacheInv'
  <2>1. CallTypes' /\ EntryKept'
    BY <1>16, ThreadLeaves DEF poolDone, maps
  <2> QED BY <2>1, <1>0, <1>16 DEF poolDone, maps, CacheInv, CacheTypes, CommsClean
<1>17. ASSUME NEW t \in Threads, NEW a \in Addrs, NEW p \in Pools, segmentAlloc(t, a, p)
       PROVE  CacheInv'
  <2>1. comm' \in Seq(Comm) /\ CommsClean'
    <3>1. \A c \in DOMAIN comm : comm'[c] =
            IF c \in Hooked THEN registerSegment(comm[c], a, Mode(c, p)) ELSE comm[c]
      BY <1>17 DEF segmentAlloc, cacheAllocatorRegisterHook
    <3>2. comm' = [c \in DOMAIN comm |-> comm'[c]]
      BY <1>17 DEF segmentAlloc, cacheAllocatorRegisterHook
    <3>3. \A c \in DOMAIN comm : Mode(c, p) \in BOOLEAN
      BY DEF Mode
    <3>4. \A c \in DOMAIN comm : comm'[c] \in Comm /\ Clean(comm'[c])
      BY <3>1, <3>3, <1>0, RegisterClean
    <3> QED BY <3>2, <3>4, <1>0, AllChange
  <2>2. DOMAIN seg' \subseteq Addrs
    BY <1>0, <1>17 DEF segmentAlloc, With
  <2>3. CallTypes' /\ EntryKept'
    BY <1>0, <1>17 DEF segmentAlloc, maps, CallTypes, EntryKept, Kept
  <2> QED BY <2>1, <2>2, <2>3, <1>0, <1>17 DEF segmentAlloc, maps, CacheInv, CacheTypes
<1>18. ASSUME NEW t \in Threads, NEW a \in Addrs, segmentFree(t, a) PROVE CacheInv'
  <2>1. comm' \in Seq(Comm) /\ CommsClean'
    <3>1. \A c \in DOMAIN comm : comm'[c] =
            IF c \in Hooked THEN deregisterSegment(comm[c], a) ELSE comm[c]
      BY <1>18 DEF segmentFree, cacheAllocatorDeregisterHook
    <3>2. comm' = [c \in DOMAIN comm |-> comm'[c]]
      BY <1>18 DEF segmentFree, cacheAllocatorDeregisterHook
    <3>3. \A c \in DOMAIN comm : comm'[c] \in Comm /\ Clean(comm'[c])
      BY <3>1, <1>0, DeregisterClean
    <3> QED BY <3>2, <3>3, <1>0, AllChange
  <2>2. DOMAIN seg' \subseteq Addrs
    BY <1>0, <1>18 DEF segmentFree, Without
  <2>3. CallTypes' /\ EntryKept'
    BY <1>0, <1>18 DEF segmentFree, maps, CallTypes, EntryKept, Kept
  <2> QED BY <2>1, <2>2, <2>3, <1>0, <1>18 DEF segmentFree, maps, CacheInv, CacheTypes
<1>19. ASSUME NEW c \in DOMAIN comm, workAbort(c) PROVE CacheInv'
  <2>1. comm' \in Seq(Comm) /\ CommsClean'
    <3>1. comm' = [comm EXCEPT ![c] = abort(comm[c])] /\ abort(comm[c]) \in Comm
          /\ Clean(abort(comm[c]))
      BY <1>0, <1>19, AbortClean DEF workAbort
    <3> QED BY <3>1, <1>0, OneChanges
  <2>2. CallTypes' /\ EntryKept'
    BY <1>0, <1>19 DEF workAbort, maps, CallTypes, EntryKept, Kept
  <2> QED BY <2>1, <2>2, <1>0, <1>19 DEF workAbort, maps, CacheInv, CacheTypes
<1>20. ASSUME workErase \/ eraseComms PROVE CacheInv'
  <2>1. UNCHANGED <<comm, dev, inInit, seg, thr>>
    BY <1>20 DEF workErase, eraseComms
  <2>2. \A c \in DOMAIN memPoolMap' : memPoolMap'[c] \subseteq Pools \X BOOLEAN
    BY <1>0, <1>20 DEF workErase, eraseComms, Without
  <2>3. CallTypes' /\ EntryKept'
    BY <2>1, <1>0 DEF CallTypes, EntryKept, Kept
  <2> QED BY <2>1, <2>2, <2>3, <1>0 DEF CacheInv, CacheTypes, CommsClean
<1>21. ASSUME abortComms \/ \E t \in Threads : shutdown(t) PROVE CacheInv'
  <2>1. comm' = [c \in DOMAIN comm |-> comm'[c]]
    BY <1>21 DEF abortComms, shutdown
  <2>2. \A c \in DOMAIN comm : comm'[c] \in {comm[c], abort(comm[c]), destroy(comm[c])}
    BY <1>21 DEF abortComms, shutdown
  <2>3. \A c \in DOMAIN comm : comm'[c] \in Comm /\ Clean(comm'[c])
    BY <2>2, <1>0, AbortClean
  <2>4. comm' \in Seq(Comm) /\ CommsClean'
    BY <2>1, <2>3, <1>0, AllChange
  <2>5. UNCHANGED <<dev, inInit, memPoolMap, seg, thr>>
    BY <1>21 DEF abortComms, shutdown, maps
  <2>6. CallTypes' /\ EntryKept'
    BY <2>5, <1>0 DEF CallTypes, EntryKept, Kept
  <2> QED BY <2>4, <2>5, <2>6, <1>0 DEF CacheInv, CacheTypes
<1>22. DeviceKey \in Keys /\ 0 \in Pools
    BY DEF DeviceKey, CacheAssumption
<1> QED
  BY <1>1, <1>2, <1>3, <1>4, <1>5, <1>6, <1>7, <1>8, <1>9, <1>10, <1>11, <1>12, <1>13, <1>14,
     <1>15, <1>16, <1>17, <1>18, <1>19, <1>20, <1>21, <1>22 DEF Next, Thread

\* Two threads that look up one key work with one communicator, for every number of
\* threads, keys, segments and pools, with every failure and abort (getBCCLComm,
\* initBCCLComm, abortComms).
THEOREM SameCommunicatorCorrect == CacheAssumption => (Spec => []SameCommunicator)
<1> SUFFICES ASSUME CacheAssumption PROVE Spec => []SameCommunicator
    OBVIOUS
<1>1. Init => CacheInv
    BY CacheInvInit
<1>2. CacheInv /\ [Next]_vars => CacheInv'
    BY CacheInvNext
<1>3. CacheInv => SameCommunicator
    BY DEF CacheInv, EntryKept, Kept, SameCommunicator, Holding
<1> QED BY <1>1, <1>2, <1>3, PTL DEF Spec

\* An aborted communicator has no registration left, and gets none, in whatever order the
\* abort meets the registrations of threads and of the allocator's hooks (BCCLComm::abort,
\* registerSegment, deregisterSegment).
THEOREM AbortedCleanCorrect == CacheAssumption => (Spec => []AbortedClean)
<1> SUFFICES ASSUME CacheAssumption PROVE Spec => []AbortedClean
    OBVIOUS
<1>1. Init => CacheInv
    BY CacheInvInit
<1>2. CacheInv /\ [Next]_vars => CacheInv'
    BY CacheInvNext
<1>3. CacheInv => AbortedClean
    BY DEF CacheInv, CommsClean, Clean, AbortedClean
<1> QED BY <1>1, <1>2, <1>3, PTL DEF Spec

=============================================================================
